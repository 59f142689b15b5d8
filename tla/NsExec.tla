------------------------------ MODULE NsExec -------------------------------
(***************************************************************************)
(* The namespace bootstrap of runc init (libcontainer/nsenter/nsexec.c):   *)
(* stage-0, started by runc, clones stage-1, which enters and creates the  *)
(* namespaces and clones stage-2, which returns to the Go runtime and      *)
(* becomes the container's init (or the process of runc exec).             *)
(*                                                                         *)
(* Three socket pairs connect them.  The end of a pair is closed when the  *)
(* last process that holds it has closed it or has died: only then does    *)
(* the other side read end-of-file, and a write is a fatal SIGPIPE.  Who   *)
(* holds what follows from the program counters (the ...Held operators).   *)
(*                                                                         *)
(* Sockets and processes are the kernel's.  A queue is the bytes on their  *)
(* way in one direction.                                                   *)
(***************************************************************************)
EXTENDS Bootstrap

CONSTANTS
  MaxFaults,     \* bound: system calls that fail and processes that are killed
  Confs          \* the configurations considered

ASSUME NsExecAssumption == MaxFaults \in Nat /\ \A c \in Confs : Valid(c)

VARIABLES
  conf,          \* the container's configuration
  pc,            \* where each process is
  up, down,      \* init pipe: towards runc, and towards the stages
  parentEnd,     \* runc's end of the init pipe
  child,         \* sync_child_pipe: bytes towards stage-0 and stage-1
  grand,         \* sync_grandchild_pipe: towards stage-0 and stage-2
  members,       \* processes that were put into the container's cgroup
  mapped,        \* the uid and gid maps of stage-1 are written
  entered,       \* the namespaces the stages have entered, in order
  rights,        \* descriptors on their way to stage-1 (SCM_RIGHTS)
  slots,         \* pairs of a mount and the source whose descriptor it got
  faults

pipes == <<up, down, parentEnd, child, grand>>
spaces == <<mapped, entered, rights, slots>>

Stages == {"stage0", "stage1", "stage2"}

\* The message nl_parse has read; the clones inherit it.
config == bootstrapData(conf)

Alive(p) == pc[p] \notin {"none", "exited", "dead"}
Goto(p, label) == pc' = [pc EXCEPT ![p] = label]

-----------------------------------------------------------------------------
(* Who keeps an end of a socket pair open.                                 *)

ChildEnd0Held == Alive("stage1") \/ pc["stage2"] = "born"
ChildEnd1Held == Alive("stage0")
GrandEnd0Held == Alive("stage1") \/ pc["stage2"] \in {"born", "sync", "setup", "finish"}
GrandEnd1Held == Alive("stage0") \/ Alive("stage1")

\* bail() and a fatal signal: the process ends with a failure.
Bail(p) == Goto(p, "dead")

-----------------------------------------------------------------------------
(* Stage 0.                                                                *)

\* Past ensure_cloned_binary: one byte tells runc so (initWaiter).
nsexecInform ==
  /\ pc["stage0"] = "inform"
  /\ IF parentEnd = "closed"
       THEN Bail("stage0") /\ UNCHANGED up
       ELSE Goto("stage0", "nl_parse") /\ up' = Append(up, "inited")
  /\ UNCHANGED <<conf, down, parentEnd, child, grand, members, spaces, faults>>

\* nl_parse, oom_score_adj, PR_SET_DUMPABLE and the two socketpair calls.
nl_parse ==
  /\ pc["stage0"] = "nl_parse"
  /\ IF down # <<>>
       THEN Goto("stage0", "spawn") /\ down' = Tail(down)
       ELSE parentEnd # "open" /\ Bail("stage0") /\ UNCHANGED down
  /\ UNCHANGED <<conf, up, parentEnd, child, grand, members, spaces, faults>>

\* clone_parent(STAGE_CHILD): the child starts in the cgroup of its creator.
spawnStage1 ==
  /\ pc["stage0"] = "spawn"
  /\ pc' = [pc EXCEPT !["stage0"] = "loop1", !["stage1"] = "join"]
  /\ members' = IF "stage0" \in members THEN members \cup {"stage1"} ELSE members
  /\ UNCHANGED <<conf, pipes, spaces, faults>>

\* Write s to stage-1 and go on at label.
Answer(s, label) ==
  IF ChildEnd0Held
    THEN Goto("stage0", label) /\ child' = [to0 |-> Tail(child.to0), to1 |-> child.to1 \o s]
    ELSE Bail("stage0") /\ UNCHANGED child

\* The kernel lets an unprivileged process write only a map of its own id, and
\* a gid map only once setgroups(2) is denied.  Otherwise (EPERM) the setuid
\* tools are tried.
update_setgroups == config.rootless /\ ~config.setgroup
try_mapping_tool == config.tool
update_uidmap == ~config.rootless \/ conf.single \/ try_mapping_tool
update_gidmap == ~config.rootless \/ (conf.single /\ update_setgroups) \/ try_mapping_tool

usermapPls ==
  /\ pc["stage0"] = "loop1" /\ child.to0 # <<>>
  /\ Head(child.to0) = "USERMAP_PLS"
  /\ IF update_uidmap /\ update_gidmap
       THEN mapped' = TRUE /\ Answer(<<"USERMAP_ACK">>, "loop1")
       ELSE UNCHANGED <<mapped, child>> /\ Bail("stage0")
  /\ UNCHANGED <<conf, up, down, parentEnd, grand, members, entered, rights, slots, faults>>

\* The sources are opened in stage-1's mount namespace and sent one by one,
\* then the acknowledgement.
send_mountsources == SelectSeq(config.mountsources, LAMBDA i : i # 0)

mountsourcesPls ==
  /\ pc["stage0"] = "loop1" /\ child.to0 # <<>>
  /\ Head(child.to0) = "MOUNTSOURCES_PLS"
  /\ Answer([i \in DOMAIN send_mountsources |-> "fd"] \o <<"MOUNTSOURCES_ACK">>, "loop1")
  /\ rights' = IF ChildEnd0Held THEN send_mountsources ELSE rights
  /\ UNCHANGED <<conf, up, down, parentEnd, grand, members, mapped, entered, slots, faults>>

recvpidPls ==
  /\ pc["stage0"] = "loop1" /\ child.to0 # <<>>
  /\ Head(child.to0) = "RECVPID_PLS"
  /\ Goto("stage0", "recvpid")
  /\ child' = [child EXCEPT !.to0 = Tail(@)]
  /\ UNCHANGED <<conf, up, down, parentEnd, grand, members, spaces, faults>>

\* The pid of stage-2 has come: acknowledge it.
recvpidAck ==
  /\ pc["stage0"] = "recvpid" /\ child.to0 # <<>>
  /\ Answer(<<"RECVPID_ACK">>, "forward")
  /\ UNCHANGED <<conf, up, down, parentEnd, grand, members, spaces, faults>>

\* Forward both pids to runc.  When that fails, dprintf has raised SIGPIPE.
forwardPids ==
  /\ pc["stage0"] = "forward"
  /\ IF parentEnd = "closed"
       THEN Bail("stage0") /\ UNCHANGED up
       ELSE Goto("stage0", "loop1") /\ up' = Append(up, "pids")
  /\ UNCHANGED <<conf, down, parentEnd, child, grand, members, spaces, faults>>

childFinish ==
  /\ pc["stage0"] = "loop1" /\ child.to0 # <<>>
  /\ Head(child.to0) = "CHILD_FINISH"
  /\ Goto("stage0", "loop2")
  /\ child' = [child EXCEPT !.to0 = Tail(@)]
  /\ UNCHANGED <<conf, up, down, parentEnd, grand, members, spaces, faults>>

\* End-of-file from stage-1 in the loop, or between RECVPID_PLS and the pid.
stage1Gone ==
  /\ pc["stage0"] \in {"loop1", "recvpid"} /\ child.to0 = <<>> /\ ~ChildEnd0Held
  /\ Bail("stage0")
  /\ UNCHANGED <<conf, pipes, members, spaces, faults>>

signalStage2 ==
  /\ pc["stage0"] = "loop2"
  /\ IF GrandEnd0Held
       THEN Goto("stage0", "wait2") /\ grand' = [grand EXCEPT !.to2 = Append(@, "GRANDCHILD")]
       ELSE Bail("stage0") /\ UNCHANGED grand
  /\ UNCHANGED <<conf, up, down, parentEnd, child, members, spaces, faults>>

\* Stage-2 is complete: exit(0).  Or it has gone.
awaitStage2 ==
  /\ pc["stage0"] = "wait2"
  /\ IF grand.to0 # <<>> THEN Goto("stage0", "exited") ELSE ~GrandEnd0Held /\ Bail("stage0")
  /\ UNCHANGED <<conf, pipes, members, spaces, faults>>

-----------------------------------------------------------------------------
(* Stage 1.                                                                *)

\* Write s to stage-0 and go on at label (entered is for the caller to say).
Ask(s, label) ==
  /\ IF ChildEnd1Held
       THEN Goto("stage1", label) /\ child' = [child EXCEPT !.to0 = Append(@, s)]
       ELSE Bail("stage1") /\ UNCHANGED child
  /\ UNCHANGED <<conf, up, down, parentEnd, grand, members, mapped, rights, slots, faults>>

\* Wait for s from stage-0 and go on at label.
Await(s, label) ==
  /\ IF child.to1 # <<>>
       THEN /\ IF Head(child.to1) = s THEN Goto("stage1", label) ELSE Bail("stage1")
            /\ child' = [child EXCEPT !.to1 = Tail(@)]
       ELSE ~ChildEnd1Held /\ Bail("stage1") /\ UNCHANGED child
  /\ UNCHANGED <<conf, up, down, parentEnd, grand, members, mapped, entered, faults>>

\* mutant of join_namespaces: the acknowledgement of the maps is not awaited
join_namespacesNoWait ==
  /\ pc["stage1"] = "join"
  /\ entered' = entered \o config.namespaces \o (IF "user" \in config.cloneflags THEN <<"user">> ELSE <<>>)
  /\ IF "user" \in config.cloneflags
       THEN Ask("USERMAP_PLS", "unshare")
       ELSE /\ Goto("stage1", "unshare")
            /\ UNCHANGED <<conf, pipes, members, mapped, rights, slots, faults>>

\* setns into the given namespaces, in the order of the message; then a new
\* user namespace, for which stage-0 is asked to write the maps.
join_namespaces ==
  /\ pc["stage1"] = "join"
  /\ IF "user" \in config.cloneflags
       THEN /\ entered' = entered \o Append(config.namespaces, "user")
            /\ Ask("USERMAP_PLS", "usermap")
       ELSE /\ entered' = entered \o config.namespaces
            /\ Goto("stage1", "unshare")
            /\ UNCHANGED <<conf, pipes, members, mapped, rights, slots, faults>>

awaitUsermap ==
  /\ pc["stage1"] = "usermap" /\ Await("USERMAP_ACK", "unshare")
  /\ UNCHANGED <<rights, slots>>

\* unshare of the other new namespaces but the cgroup namespace, then the
\* request for the mount sources.
unshareRest ==
  /\ pc["stage1"] = "unshare"
  /\ entered' = entered \o orderNamespacePaths(config.cloneflags \ {"user", "cgroup"})
  /\ IF config.mountsources # <<>>
       THEN Ask("MOUNTSOURCES_PLS", "mountfds")
       ELSE /\ Goto("stage1", "spawn")
            /\ UNCHANGED <<conf, pipes, members, mapped, rights, slots, faults>>

\* One descriptor for each number of the list, then the acknowledgement.
receive_fd(slot) ==
  /\ Await("fd", "mountfds")
  /\ IF rights = <<>>
       THEN UNCHANGED <<rights, slots>>
       ELSE rights' = Tail(rights) /\ slots' = Append(slots, <<slot, Head(rights)>>)

receive_mountsources ==
  /\ pc["stage1"] = "mountfds"
  /\ IF Len(slots) < Len(mountFds(conf))
       THEN receive_fd(mountFds(conf)[Len(slots) + 1])
       ELSE Await("MOUNTSOURCES_ACK", "spawn") /\ UNCHANGED <<rights, slots>>

spawnStage2 ==
  /\ pc["stage1"] = "spawn"
  /\ pc' = [pc EXCEPT !["stage1"] = "recvpid", !["stage2"] = "born"]
  /\ members' = IF "stage1" \in members THEN members \cup {"stage2"} ELSE members
  /\ UNCHANGED <<conf, pipes, spaces, faults>>

\* SYNC_RECVPID_PLS and the pid are two writes.
askRecvpid == pc["stage1"] = "recvpid" /\ Ask("RECVPID_PLS", "pid") /\ UNCHANGED entered
sendPid    == pc["stage1"] = "pid" /\ Ask("pid", "pidack") /\ UNCHANGED entered

\* Without the acknowledgement stage-1 kills stage-2 before it bails.
awaitRecvpidAck ==
  /\ pc["stage1"] = "pidack"
  /\ \/ /\ child.to1 # <<>> \/ Alive("stage0")
        /\ Await("RECVPID_ACK", "done") /\ UNCHANGED <<rights, slots>>
     \/ /\ child.to1 = <<>> /\ ~Alive("stage0")
        /\ pc' = [pc EXCEPT !["stage1"] = "dead",
                            !["stage2"] = IF Alive("stage2") THEN "dead" ELSE @]
        /\ UNCHANGED <<conf, pipes, members, spaces, faults>>

finishStage1 == pc["stage1"] = "done" /\ Ask("CHILD_FINISH", "leave") /\ UNCHANGED entered

exitStage1 ==
  /\ pc["stage1"] = "leave"
  /\ Goto("stage1", "exited")
  /\ UNCHANGED <<conf, pipes, members, spaces, faults>>

-----------------------------------------------------------------------------
(* Stage 2, up to its return to the Go runtime.                            *)

\* Close the inherited ends: from here on only end 0 of its own pair is held.
closeInherited ==
  /\ pc["stage2"] = "born"
  /\ Goto("stage2", "sync")
  /\ UNCHANGED <<conf, pipes, members, spaces, faults>>

\* mutant of awaitGrandchild: sync_grandchild_pipe[1] stays open in stage-2
awaitGrandchildOpenEnd ==
  /\ pc["stage2"] = "sync" /\ grand.to2 # <<>>
  /\ Goto("stage2", "setup") /\ grand' = [grand EXCEPT !.to2 = Tail(@)]
  /\ UNCHANGED <<conf, up, down, parentEnd, child, members, spaces, faults>>

awaitGrandchild ==
  /\ pc["stage2"] = "sync"
  /\ IF grand.to2 # <<>>
       THEN Goto("stage2", "setup") /\ grand' = [grand EXCEPT !.to2 = Tail(@)]
       ELSE ~GrandEnd1Held /\ Bail("stage2") /\ UNCHANGED grand
  /\ UNCHANGED <<conf, up, down, parentEnd, child, members, spaces, faults>>

\* setsid, setuid, setgid, setgroups, unshare(CLONE_NEWCGROUP).
setupStage2 ==
  /\ pc["stage2"] = "setup"
  /\ Goto("stage2", "finish")
  /\ entered' = entered \o orderNamespacePaths(config.cloneflags \cap {"cgroup"})
  /\ UNCHANGED <<conf, pipes, members, mapped, rights, slots, faults>>

finishStage2 ==
  /\ pc["stage2"] = "finish"
  /\ IF GrandEnd1Held
       THEN Goto("stage2", "boot") /\ grand' = [grand EXCEPT !.to0 = Append(@, "CHILD_FINISH")]
       ELSE Bail("stage2") /\ UNCHANGED grand
  /\ UNCHANGED <<conf, up, down, parentEnd, child, members, spaces, faults>>

Stage0Step == nsexecInform \/ nl_parse \/ spawnStage1 \/ usermapPls \/ mountsourcesPls
              \/ recvpidPls \/ recvpidAck \/ forwardPids \/ childFinish \/ stage1Gone
              \/ signalStage2 \/ awaitStage2
Stage1Step == join_namespaces \/ awaitUsermap \/ unshareRest \/ receive_mountsources
              \/ spawnStage2 \/ askRecvpid \/ sendPid \/ awaitRecvpidAck
              \/ finishStage1 \/ exitStage1
Stage2Boot == closeInherited \/ awaitGrandchild \/ setupStage2 \/ finishStage2

\* A failing system call (bail), the OOM killer or a kill from outside.
StageFault ==
  /\ faults < MaxFaults /\ faults' = faults + 1
  /\ \E p \in Stages : Alive(p) /\ Bail(p)
  /\ UNCHANGED <<conf, pipes, members, spaces>>
=============================================================================
