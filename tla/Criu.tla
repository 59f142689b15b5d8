-------------------------------- MODULE Criu --------------------------------
(***************************************************************************)
(* Checkpoint and restore: linuxContainer.Checkpoint and Restore, the RPC   *)
(* conversation criuSwrk has with a `criu swrk' child over a socket pair,   *)
(* and criuNotifications (libcontainer/container_linux.go), as checkpoint.go*)
(* and restore.go call them.                                                *)
(*                                                                          *)
(* criu is external: between a request and its response it may send any of  *)
(* the notifications of that request, once each and in any order; it may    *)
(* answer with a failure, and it may die at any time.                       *)
(***************************************************************************)
EXTENDS Integers, Sequences, FiniteSets

CONSTANTS crConfs,        \* the configurations to consider: see crInit
          crFaults     \* bound: failing steps of runc, failures and deaths of criu

VARIABLE cr             \* the state of one runc checkpoint or restore

\* the namespace types criu may have to treat as external, and since when
minVersion == [net |-> 31100, pid |-> 31500]

\* the oldest criu that runc works with
minCriu == 30000

criuSupportsExtNS(conf, t) == t \in DOMAIN minVersion /\ conf.version >= minVersion[t]

\* handleCheckpointingExternalNamespaces: what the dump names as external
checkpointExternal(conf) ==
  {t \in {"net", "pid"} : criuSupportsExtNS(conf, t) /\ t \in conf.paths}

\* handleRestoringExternalNamespaces: each namespace file becomes the next
\* extra file of criu, after stdio and the socket
NsFiles(conf) == SelectSeq(conf.order, LAMBDA t : criuSupportsExtNS(conf, t) /\ t \in conf.paths)
\* mutant of restoreInherit: the socket's descriptor is forgotten
restoreInheritOffset(conf) ==
  [i \in DOMAIN NsFiles(conf) |-> [key |-> NsFiles(conf)[i], fd |-> 3 + (i - 1)]]

restoreInherit(conf) ==
  [i \in DOMAIN NsFiles(conf) |-> [key |-> NsFiles(conf)[i], fd |-> 4 + (i - 1)]]

\* descriptors.json: the stdio descriptors that were pipes are handed over as
\* criu's own stdio
restorePipes(conf) == [i \in 1..conf.pipes |-> [key |-> <<"stdin", "stdout", "stderr">>[i],
                                               fd |-> i - 1]]

\* the descriptors of the criu process: exec.Cmd's ExtraFiles start at 3
CriuFds(conf) == <<"stdin", "stdout", "stderr", "socket">> \o NsFiles(conf)

\* isPathInPrefixList: a mount below a tmpfs comes back with the tmpfs
InTmpfs(m, mounts) ==
  \E k \in DOMAIN mounts : /\ mounts[k].device = "tmpfs"
                           /\ Len(mounts[k].dest) < Len(m.dest)
                           /\ SubSeq(m.dest, 1, Len(mounts[k].dest)) = mounts[k].dest

\* the mounts that are binds: a cgroup v1 mount outside a cgroup namespace is
\* one bind per hierarchy
BindDests(conf) ==
  {conf.mounts[k].dest : k \in {j \in DOMAIN conf.mounts : conf.mounts[j].device = "bind"}}
  \cup UNION {{Append(conf.mounts[k].dest, h) : h \in conf.hierarchies} :
                k \in {j \in DOMAIN conf.mounts : conf.mounts[j].device = "cgroup"}}

\* the names a dump gives to the external mounts: a masked file goes by the
\* name of what masks it, a masked directory (a tmpfs) and a missing one have none
dumpExtMnt(conf) ==
  BindDests(conf) \cup conf.devices
  \cup {<<"dev", "null">> : m \in {x \in conf.masks : x = "file"}}

\* the names a restore has a source for
restoreExtMnt(conf) ==
  BindDests(conf) \cup conf.devices \cup (IF conf.masks # {} THEN {<<"dev", "null">>} ELSE {})

\* a restore, and a dump that killed the container or left it running
Scripts(req, conf) ==
  CASE req = "DUMP"     -> {"network-lock", "post-dump"}
                           \cup (IF conf.leave THEN {"network-unlock"} ELSE {})
                           \cup (IF conf.lazy THEN {"status-ready"} ELSE {})
    [] req = "RESTORE"  -> {"orphan-pts-master", "setup-namespaces", "post-restore",
                            "network-unlock"}
    [] OTHER -> {}

crOff == [pc |-> "off"]
crInit ==
  \E conf \in crConfs :
    cr = [pc |-> IF conf.cmd = "restore" THEN "restore" ELSE "checkpoint",
          conf |-> conf, req |-> "none", next |-> "done", result |-> "none",
          criu |-> "none", held |-> FALSE, client |-> "closed",
          up |-> "none", down |-> "none", left |-> {}, opts |-> <<>>,
          mounts |-> {}, i |-> 1, network |-> "attached", marker |-> FALSE,
          saved |-> FALSE, hooks |-> 0, alive |-> conf.cmd # "restore",
          dir |-> TRUE, faults |-> 0]

crAt(l) == cr.pc = l
\* a step of runc fails: Return undoes what the deferred calls undo
crFail == cr.faults < crFaults
        /\ cr' = [cr EXCEPT !.pc = "unwind", !.result = "error", !.faults = @ + 1]

----------------------------------------------------------------------------
(* Checkpoint.                                                              *)

\* the request: pre-dump and lazy pages first check criu's features
Checkpoint ==
  /\ crAt("checkpoint")
  /\ \/ /\ cr.conf.version < minCriu
        /\ cr' = [cr EXCEPT !.pc = "unwind", !.result = "error"]
     \/ crFail
     \/ /\ cr.conf.version >= minCriu
        /\ cr' = [cr EXCEPT !.pc = "spawn",
                            !.opts = [external |-> checkpointExternal(cr.conf),
                                      extMnt |-> IF cr.conf.cmd = "predump" THEN {}
                                                 ELSE dumpExtMnt(cr.conf)],
                            !.req = IF cr.conf.cmd = "predump" \/ cr.conf.lazy
                                    THEN "FEATURE_CHECK" ELSE "DUMP",
                            !.next = IF cr.conf.cmd = "predump" \/ cr.conf.lazy
                                     THEN "dump" ELSE "done"]

\* checkCriuFeatures has its answer; a missing feature is an error
checkCriuFeatures ==
  /\ crAt("dump")
  /\ \/ crFail
     \/ cr' = [cr EXCEPT !.pc = "spawn", !.next = "done",
                         !.req = IF cr.conf.cmd = "predump" THEN "PRE_DUMP" ELSE "DUMP"]

----------------------------------------------------------------------------
(* Restore.                                                                 *)

\* the rootfs is bind-mounted below the state directory; the mount is
\* deferred to be undone
Restore ==
  /\ crAt("restore")
  /\ \/ /\ cr.conf.version < minCriu
        /\ cr' = [cr EXCEPT !.pc = "unwind", !.result = "error"]
     \/ crFail
     \/ /\ cr.conf.version >= minCriu
        /\ cr' = [cr EXCEPT !.pc = "namespaces", !.mounts = {0}]

\* the options of the RESTORE request
restoreRequest(conf) == [inherit |-> restoreInherit(conf) \o restorePipes(conf),
                         join |-> conf.paths \ {"net", "pid"},
                         extMnt |-> restoreExtMnt(conf)]

\* handleRestoringNamespaces: the other namespaces are joined by path; criu
\* cannot join a cgroup namespace
handleRestoringNamespaces ==
  /\ crAt("namespaces")
  /\ IF "cgroup" \in cr.conf.paths
     THEN cr' = [cr EXCEPT !.pc = "unwind", !.result = "error"]
     ELSE cr' = [cr EXCEPT !.pc = "mounts",
                           !.opts = restoreRequest(cr.conf)]

\* mutant of umounts: an error path leaves the binds in place
umountsOnSuccess == IF cr.i > Len(cr.conf.mounts) THEN {0} ELSE cr.mounts

\* the deferred unmounts of prepareCriuRestoreMounts
umounts == {0}

\* prepareCriuRestoreMounts: mount points in order, the binds really mounted
makeCriuRestoreMountpoints ==
  LET m == cr.conf.mounts[cr.i] IN
  /\ crAt("mounts")
  /\ \/ /\ cr.i <= Len(cr.conf.mounts)
        /\ cr' = [cr EXCEPT !.i = @ + 1,
                            !.mounts = IF m.device = "bind" /\ ~InTmpfs(m, cr.conf.mounts)
                                       THEN @ \cup {cr.i} ELSE @]
     \/ /\ cr.i <= Len(cr.conf.mounts) /\ cr.faults < crFaults
        /\ cr' = [cr EXCEPT !.pc = "unwind", !.result = "error", !.faults = @ + 1,
                            !.mounts = umounts]
     \/ /\ cr.i > Len(cr.conf.mounts)
        /\ cr' = [cr EXCEPT !.pc = "spawn", !.req = "RESTORE", !.mounts = umounts]

----------------------------------------------------------------------------
(* criuSwrk.                                                                *)

\* the socket pair and the criu process, which holds the server end as well
swrkStart ==
  /\ crAt("spawn")
  /\ \/ crFail
     \/ cr' = [cr EXCEPT !.pc = "close", !.criu = "running", !.held = TRUE,
                         !.client = "open", !.up = "none", !.down = "none",
                         !.left = Scripts(cr.req, cr.conf)]

\* mutant of closeServer: runc keeps its copy of the server end
closeServerNever == crAt("close") /\ cr' = [cr EXCEPT !.pc = "apply"]

\* "so that even if CRIU crashes or unexpectedly exits, runc will not hang"
closeServer == crAt("close") /\ cr' = [cr EXCEPT !.pc = "apply", !.held = FALSE]

\* only a restore puts criu into the container's cgroup
criuApplyCgroups ==
  /\ crAt("apply")
  /\ \/ cr.req = "RESTORE" /\ crFail
     \/ cr' = [cr EXCEPT !.pc = "request"]

\* a write to a socket whose other end is gone fails
crWrite(msg, step) ==
  IF cr.criu = "running" \/ cr.held THEN cr' = [cr EXCEPT !.pc = step, !.down = msg]
  ELSE cr' = [cr EXCEPT !.pc = "unwind", !.result = "error"]

swrkRequest == crAt("request") /\ crWrite(cr.req, "read")

\* ReadMsgUnix: a message, or end-of-file when nobody holds the other end
swrkRead ==
  /\ crAt("read")
  /\ \/ /\ cr.up = "none" /\ cr.criu # "running" /\ ~cr.held
        /\ cr' = [cr EXCEPT !.pc = "unwind", !.result = "error"]
     \/ /\ cr.up = "failure"
        /\ cr' = [cr EXCEPT !.pc = "unwind", !.result = "error", !.up = "none"]
     \/ /\ cr.up = "response"
        /\ cr' = [cr EXCEPT !.pc = "wait", !.client = "half", !.up = "none"]
     \/ cr.up \notin {"none", "failure", "response"} /\ cr' = [cr EXCEPT !.pc = "notify"]

\* lockNetwork and unlockNetwork: every interface is detached, and attached again
NetworkAfter(script, network) == CASE script = "network-lock" -> "detached"
                                   [] script = "network-unlock" -> "attached"
                                   [] OTHER -> network

\* criuNotifications, then its acknowledgement
criuNotifications ==
  /\ crAt("notify")
  /\ \/ crFail
     \/ cr' = [cr EXCEPT !.pc = "ack", !.up = "none",
                 !.network = NetworkAfter(cr.up, @),
                 !.marker = CASE cr.up = "post-dump" -> TRUE
                              [] cr.up = "post-restore" -> FALSE
                              [] OTHER -> @,
                 !.hooks = IF cr.up = "setup-namespaces" THEN @ + 1 ELSE @,
                 !.saved = @ \/ cr.up = "post-restore"]
swrkAck == crAt("ack") /\ crWrite("NOTIFY", "read")

\* criuProcess.Wait after the response; a pre-dump's criu is stopped by force
swrkWait ==
  /\ crAt("wait")
  /\ cr.criu = "dead"
  /\ cr' = [cr EXCEPT !.criu = "reaped",
                      !.pc = IF cr.next = "done" THEN "unwind" ELSE cr.next,
                      !.result = IF cr.next = "done" THEN "ok" ELSE @]

\* the deferred calls: close the connection, wait for criu, undo the mounts
unwind ==
  /\ crAt("unwind")
  /\ \/ /\ cr.criu \in {"none", "reaped"}
        /\ cr' = [cr EXCEPT !.pc = "return", !.mounts = @ \ {0}, !.client = "closed"]
     \/ /\ cr.criu = "running" /\ cr.client # "closed"
        /\ cr' = [cr EXCEPT !.client = "closed"]
     \/ cr.criu = "dead" /\ cr' = [cr EXCEPT !.criu = "reaped"]

\* checkpoint's deferred destroy, unless criu was told to keep the container:
\* runningState.destroy refuses while the init process is alive
checkpointCommand ==
  /\ crAt("return")
  /\ cr' = [cr EXCEPT !.pc = "done",
                      !.dir = cr.conf.cmd # "dump" \/ cr.conf.leave \/ cr.alive]

----------------------------------------------------------------------------
(* criu.                                                                    *)

crLive == ~crAt("off") /\ ~crAt("done") /\ cr.criu = "running"

criuNotifies ==
  /\ crLive /\ cr.up = "none" /\ cr.down # "none"
  /\ \E s \in cr.left : cr' = [cr EXCEPT !.left = @ \ {s}, !.up = s, !.down = "none"]

criuResponds ==
  /\ crLive /\ cr.up = "none" /\ cr.down # "none"
  /\ \/ /\ cr.left = {}
        /\ cr' = [cr EXCEPT !.up = "response", !.down = "none",
                            !.alive = CASE cr.req = "DUMP" -> cr.conf.leave
                                        [] cr.req = "RESTORE" -> TRUE
                                        [] OTHER -> @]
     \/ /\ cr.faults < crFaults
        /\ cr' = [cr EXCEPT !.up = "failure", !.down = "none", !.faults = @ + 1]

\* criu ends when its client has closed; it may also die
criuExits ==
  /\ crLive
  /\ \/ cr.client # "open" /\ cr' = [cr EXCEPT !.criu = "dead"]
     \/ /\ cr.faults < crFaults
        /\ cr' = [cr EXCEPT !.criu = "dead", !.faults = @ + 1]

crStep ==
  \/ Checkpoint \/ checkCriuFeatures \/ Restore \/ handleRestoringNamespaces
  \/ makeCriuRestoreMountpoints
  \/ swrkStart \/ closeServer \/ criuApplyCgroups \/ swrkRequest \/ swrkRead
  \/ criuNotifications \/ swrkAck \/ swrkWait \/ unwind \/ checkpointCommand
CriuStep == criuNotifies \/ criuResponds \/ criuExits

crNext == crStep \/ CriuStep
crFairness == WF_cr(crStep) /\ WF_cr(CriuStep)
crSpec == crInit /\ [][crNext]_cr /\ crFairness

----------------------------------------------------------------------------
\* When a checkpoint or restore returns, successfully or not, criu has been
\* waited for and no mount that was made for criu is left: neither criu-root
\* nor the binds of prepareCriuRestoreMounts.  A checkpoint that fails does not
\* cost the container: what checkpoint.go's deferred destroy removes no longer
\* runs, whatever criu had done by then.
CriuCleansUp ==
  cr.pc = "done" => /\ cr.criu \in {"none", "reaped"} /\ cr.mounts = {}
                    /\ cr.alive => cr.dir
=============================================================================
