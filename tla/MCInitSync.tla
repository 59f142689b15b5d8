---------------------------- MODULE MCInitSync -----------------------------
(***************************************************************************)
(* The configurations, and what must eventually happen, for TLC.           *)
(***************************************************************************)
EXTENDS InitSync

\* Configurations: every way to have a user, a mount and a cgroup namespace;
\* the mounts, id maps and seccomp listeners that each of them makes matter.
MCConfs ==
  {c \in [mode : {"init", "setns"},
          ns : {[t \in Types |-> CASE t = "user" -> u [] t = "mnt" -> m [] t = "cgroup" -> g
                                   [] OTHER -> "host"] :
                  u, m \in {"host", "new", "path"}, g \in {"host", "new"}},
          mounts : {<<>>, <<"other", "bind", "other", "bind">>},
          rootless : BOOLEAN, single : BOOLEAN, tool : BOOLEAN,
          seccomp : {"none", "early", "late"}] :
     /\ Valid(c)
     /\ c.single \/ c.tool => c.rootless
     /\ c.rootless => c.mounts = <<>> /\ c.ns["mnt"] = "new"
     /\ c.mounts # <<>> => c.ns["user"] # "host" /\ c.ns["mnt"] = "new"
     /\ c.ns["cgroup"] = "new" => c.ns["mnt"] = "path"
     /\ c.seccomp # "none" => c.ns["user"] = "host"}

Ended(p) == ~Alive(p)

\* runc's call of container.start is over, or runc was killed.
RuncEnded == pc["runc"] \in {"done", "failed", "dead"}

\* start always returns, whatever process fails or is killed in between: no
\* two of the four processes wait for each other.
CreateReturns == <>RuncEnded

\* After a failed start no process is left; after a kill of runc only an init
\* that state.json names, or a process of runc exec.
NoOrphan ==
  /\ pc["runc"] = "failed" ~> \A p \in Stages : Ended(p)
  /\ pc["runc"] = "dead" ~>
       /\ Ended("stage0") /\ Ended("stage1")
       /\ Ended("stage2") \/ (saved /\ pc["stage2"] \in {"fifo", "running"})
=============================================================================
