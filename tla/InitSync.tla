----------------------------- MODULE InitSync ------------------------------
(***************************************************************************)
(* Starting a container process: runc (initProcess.start, setnsProcess.    *)
(* start) and, at the other end of the init pipe, the bootstrap stages of  *)
(* NsExec and the Go part of runc init (linuxStandardInit.Init,            *)
(* linuxSetnsInit.Init) that stage-2 turns into.                           *)
(*                                                                         *)
(* Every read blocks until there is a message or the last holder of the    *)
(* other end has gone.  Any process can fail or be killed between any two  *)
(* steps.                                                                  *)
(***************************************************************************)
EXTENDS NsExec

VARIABLES
  runc,          \* runc's local variables, see RuncLocals
  cgroup,        \* the container's cgroup exists
  saved,         \* state.json names this init process
  fifo,          \* exec.fifo exists
  trace          \* what was done to the container, in order: manager.Set, the
                 \* hooks, the change of root

store == <<cgroup, saved, fifo, trace>>
vars  == <<conf, pc, pipes, members, spaces, faults, runc, store>>

\* inited: initWaiter has delivered.  proc: the process cmd.Process stands for.
RuncLocals == [inited : BOOLEAN, proc : {"stage0", "stage2"}, ierr : BOOLEAN,
               sentRun : BOOLEAN, sentResume : BOOLEAN]

InitPipeHeld ==
  \E p \in Stages : Alive(p) /\ pc[p] \notin {"fifo", "running"}
LogPipeHeld == InitPipeHeld

Init ==
  /\ conf \in Confs
  /\ pc = [p \in Stages \cup {"runc"} |-> IF p = "runc" THEN "start" ELSE "none"]
  /\ up = <<>> /\ down = <<>> /\ parentEnd = "open"
  /\ child = [to0 |-> <<>>, to1 |-> <<>>] /\ grand = [to0 |-> <<>>, to2 |-> <<>>]
  /\ members = {} /\ mapped = FALSE /\ faults = 0
  /\ entered = <<>> /\ rights = <<>> /\ slots = <<>>
  /\ runc = [inited |-> FALSE, proc |-> "stage0", ierr |-> FALSE,
             sentRun |-> FALSE, sentResume |-> FALSE]
  /\ cgroup = (conf.mode = "setns")
  /\ saved = (conf.mode = "setns") /\ fifo = FALSE /\ trace = <<>>

-----------------------------------------------------------------------------
(* runc.  The error path of both start methods begins at "fail".           *)

At(label) == pc["runc"] = label

\* Write m to the init pipe and go on at label; EPIPE is an error return.
Write(m, label) ==
  IF InitPipeHeld
    THEN down' = Append(down, m) /\ Goto("runc", label)
    ELSE UNCHANGED down /\ Goto("runc", "fail")

\* mutant of startCmd: the bootstrap data is sent without a manager.Apply
startCmdNoApply ==
  /\ At("start")
  /\ fifo' = (conf.mode = "init")
  /\ pc' = [pc EXCEPT !["runc"] = "bootstrap", !["stage0"] = "inform"]
  /\ UNCHANGED <<conf, pipes, members, spaces, faults, runc, cgroup, saved, trace>>

\* createExecFifo, then cmd.Start.
startCmd ==
  /\ At("start")
  /\ fifo' = (conf.mode = "init")
  /\ pc' = [pc EXCEPT !["runc"] = IF conf.mode = "init" THEN "apply" ELSE "bootstrap",
                      !["stage0"] = "inform"]
  /\ UNCHANGED <<conf, pipes, members, spaces, faults, runc, cgroup, saved, trace>>

\* manager.Apply: the cgroup is made and stage-0 moved there.
apply ==
  /\ At("apply")
  /\ IF Alive("stage0")
       THEN members' = {"stage0"} /\ Goto("runc", "bootstrap")
       ELSE UNCHANGED members /\ Goto("runc", "fail")
  /\ cgroup' = TRUE
  /\ UNCHANGED <<conf, pipes, spaces, faults, runc, saved, fifo, trace>>

bootstrap ==
  /\ At("bootstrap")
  /\ Write("bootstrap", "waitInit")
  /\ UNCHANGED <<conf, up, parentEnd, child, grand, members, spaces, faults, runc, store>>

\* Receive from initWaiter's channel: the byte, or end-of-file.  A receive
\* after the first returns at once, the channel being closed.
RecvInited(good, bad) ==
  \/ /\ runc.inited
     /\ Goto("runc", good) /\ UNCHANGED <<up, runc>>
  \/ /\ ~runc.inited /\ up # <<>>
     /\ Goto("runc", good) /\ up' = Tail(up) /\ runc' = [runc EXCEPT !.inited = TRUE]
  \/ /\ ~runc.inited /\ up = <<>> /\ ~InitPipeHeld
     /\ Goto("runc", bad) /\ UNCHANGED up /\ runc' = [runc EXCEPT !.inited = TRUE]

waitInit ==
  /\ At("waitInit")
  /\ RecvInited(IF conf.mode = "init" THEN "childPid" ELSE "childExit", "fail")
  /\ UNCHANGED <<conf, down, parentEnd, child, grand, members, spaces, faults, store>>

\* The pids arrive, or end-of-file.
getChildPid ==
  /\ At("childPid")
  /\ IF up # <<>>
       THEN up' = Tail(up) /\ Goto("runc", "reap")
       ELSE ~InitPipeHeld /\ UNCHANGED up /\ Goto("runc", "fail")
  /\ UNCHANGED <<conf, down, parentEnd, child, grand, members, spaces, faults, runc, store>>

\* The zombie of stage-1 is reaped; then getPipeFds reads /proc of stage-2.
reapStage1 ==
  /\ At("reap") /\ ~Alive("stage1")
  /\ \/ conf.mode = "init" /\ Alive("stage2") /\ Goto("runc", "childExit")
     \/ conf.mode = "init" /\ ~Alive("stage2") /\ Goto("runc", "fail")
     \/ conf.mode = "setns" /\ Goto("runc", "joinCgroup")
  /\ runc' = [runc EXCEPT !.proc = IF conf.mode = "setns" THEN "stage2" ELSE @]
  /\ UNCHANGED <<conf, pipes, members, spaces, faults, store>>

\* waitForChildExit and the first half of execSetns: stage-0 must have exited
\* with success.  From here on initProcess's cmd.Process is stage-2.
waitForChildExit ==
  /\ At("childExit") /\ ~Alive("stage0")
  /\ IF pc["stage0"] = "exited"
       THEN IF conf.mode = "init"
              THEN runc' = [runc EXCEPT !.proc = "stage2"] /\ Goto("runc", "config")
              ELSE UNCHANGED runc /\ Goto("runc", "childPid")
       ELSE UNCHANGED runc /\ Goto("runc", "fail")
  /\ UNCHANGED <<conf, pipes, members, spaces, faults, store>>

\* setns: WriteCgroupProc for stage-2.  Its process may be gone (ESRCH).
joinCgroup ==
  /\ At("joinCgroup")
  /\ IF Alive("stage2")
       THEN members' = members \cup {"stage2"} /\ Goto("runc", "config")
       ELSE UNCHANGED members /\ Goto("runc", "fail")
  /\ UNCHANGED <<conf, pipes, spaces, faults, runc, store>>

\* createNetworkInterfaces, updateSpecState, sendConfig.
sendConfig ==
  /\ At("config")
  /\ Write("config", "parseSync")
  /\ UNCHANGED <<conf, up, parentEnd, child, grand, members, spaces, faults, runc, store>>

Received(m) == At("parseSync") /\ up # <<>> /\ Head(up) = m /\ up' = Tail(up)

\* procHooks: the limits are set, then the prestart and createRuntime hooks run.
procHooks ==
  /\ Received("procHooks")
  /\ trace' = Append(trace, "limits")
  /\ Goto("runc", "hooks")
  /\ UNCHANGED <<conf, down, parentEnd, child, grand, members, spaces, faults, runc, cgroup, saved, fifo>>

runHooks ==
  /\ At("hooks")
  /\ trace' = Append(trace, "createRuntime")
  /\ Goto("runc", "resume")
  /\ UNCHANGED <<conf, pipes, members, spaces, faults, runc, cgroup, saved, fifo>>

writeResume ==
  /\ At("resume")
  /\ IF InitPipeHeld
       THEN /\ down' = Append(down, "procResume") /\ Goto("runc", "parseSync")
            /\ runc' = [runc EXCEPT !.sentResume = TRUE]
       ELSE UNCHANGED down /\ Goto("runc", "synced") /\ runc' = [runc EXCEPT !.ierr = TRUE]
  /\ UNCHANGED <<conf, up, parentEnd, child, grand, members, spaces, faults, store>>

\* mutant of procReady: procRun is sent before the state is stored
procReadyRunFirst ==
  /\ Received("procReady")
  /\ Goto("runc", "run")
  /\ trace' = IF ContainsNs(conf, "mnt") THEN trace ELSE trace \o <<"limits", "createRuntime">>
  /\ UNCHANGED <<conf, down, parentEnd, child, grand, members, spaces, faults, runc, cgroup, saved, fifo>>

\* procReady: rlimits; a container without a mount namespace has its limits set
\* and its hooks run here (too).
procReady ==
  /\ Received("procReady")
  /\ Goto("runc", "save")
  /\ trace' = IF ContainsNs(conf, "mnt") THEN trace ELSE trace \o <<"limits", "createRuntime">>
  /\ UNCHANGED <<conf, down, parentEnd, child, grand, members, spaces, faults, runc, cgroup, saved, fifo>>

\* updateState reads init's start time from /proc: a dead init is an error.
updateState ==
  /\ At("save")
  /\ IF Alive("stage2")
       THEN saved' = TRUE /\ Goto("runc", "run") /\ UNCHANGED runc
       ELSE UNCHANGED saved /\ Goto("runc", "synced") /\ runc' = [runc EXCEPT !.ierr = TRUE]
  /\ UNCHANGED <<conf, pipes, members, spaces, faults, cgroup, fifo, trace>>

writeRun ==
  /\ At("run")
  /\ IF InitPipeHeld
       THEN /\ down' = Append(down, "procRun") /\ Goto("runc", "parseSync")
            /\ runc' = [runc EXCEPT !.sentRun = TRUE]
       ELSE UNCHANGED down /\ Goto("runc", "synced") /\ runc' = [runc EXCEPT !.ierr = TRUE]
  /\ UNCHANGED <<conf, up, parentEnd, child, grand, members, spaces, faults, store>>

\* The listener's descriptor is taken from stage-2 and sent to the agent.
procSeccomp ==
  /\ Received("procSeccomp")
  /\ IF InitPipeHeld
       THEN Goto("runc", "parseSync") /\ down' = Append(down, "procSeccompDone") /\ UNCHANGED runc
       ELSE Goto("runc", "synced") /\ runc' = [runc EXCEPT !.ierr = TRUE] /\ UNCHANGED down
  /\ UNCHANGED <<conf, parentEnd, child, grand, members, spaces, faults, store>>

procError ==
  /\ Received("procError")
  /\ Goto("runc", "synced") /\ runc' = [runc EXCEPT !.ierr = TRUE]
  /\ UNCHANGED <<conf, down, parentEnd, child, grand, members, spaces, faults, store>>

\* mutant of parseSyncEOF: the loop ends once procRun was sent
parseSyncUntilRun ==
  /\ At("parseSync") /\ up = <<>> /\ (~InitPipeHeld \/ runc.sentRun)
  /\ Goto("runc", "synced")
  /\ UNCHANGED <<conf, pipes, members, spaces, faults, runc, store>>

parseSyncEOF ==
  /\ At("parseSync") /\ up = <<>> /\ ~InitPipeHeld
  /\ Goto("runc", "synced")
  /\ UNCHANGED <<conf, pipes, members, spaces, faults, runc, store>>

\* mutant of afterSync: no shutdown of the write side
afterSyncNoShutdown ==
  /\ At("synced")
  /\ IF conf.mode = "init" /\ (~runc.sentRun \/ (ContainsNs(conf, "mnt") /\ ~runc.sentResume))
       THEN Goto("runc", "fail")
       ELSE Goto("runc", IF runc.ierr THEN "waitChild" ELSE "poststart")
  /\ UNCHANGED <<conf, pipes, members, spaces, faults, runc, store>>

\* After parseSync: did the handshake get through?  Then shut the write side.
afterSync ==
  /\ At("synced")
  /\ IF conf.mode = "init" /\ (~runc.sentRun \/ (ContainsNs(conf, "mnt") /\ ~runc.sentResume))
       THEN Goto("runc", "fail") /\ UNCHANGED parentEnd
       ELSE /\ parentEnd' = "shut"
            /\ Goto("runc", IF runc.ierr THEN "waitChild" ELSE "poststart")
  /\ UNCHANGED <<conf, up, down, child, grand, members, spaces, faults, runc, store>>

\* The child sees the shutdown and exits; it is waited for.
waitChild ==
  /\ At("waitChild") /\ ~Alive("stage2")
  /\ Goto("runc", "fail")
  /\ UNCHANGED <<conf, pipes, members, spaces, faults, runc, store>>

\* The deferred functions of a start that fails.
failWaitInit ==
  /\ At("fail")
  /\ RecvInited("terminate", "terminate")
  /\ UNCHANGED <<conf, down, parentEnd, child, grand, members, spaces, faults, store>>

\* mutant of terminate: the process is waited for in the background
terminateAsync ==
  /\ At("terminate")
  /\ Goto("runc", "destroy")
  /\ UNCHANGED <<conf, pipes, members, spaces, faults, runc, store>>

\* Kill and wait for cmd.Process.
terminate ==
  /\ At("terminate")
  /\ pc' = [pc EXCEPT !["runc"] = "destroy", ![runc.proc] = IF Alive(runc.proc) THEN "dead" ELSE @]
  /\ UNCHANGED <<conf, pipes, members, spaces, faults, runc, store>>

\* manager.Destroy cannot remove a cgroup with a live member.  Then the init
\* pipe is closed, and Start removes the fifo.
failDestroy ==
  /\ At("destroy")
  /\ parentEnd' = "closed" /\ Goto("runc", "failLogs")
  /\ cgroup' = (conf.mode = "setns" \/ \E p \in members : Alive(p))
  /\ fifo' = FALSE
  /\ UNCHANGED <<conf, up, down, child, grand, members, spaces, faults, runc, saved, trace>>

\* parent.start has returned: close the pipe and run the poststart hooks.
poststart ==
  /\ At("poststart")
  /\ parentEnd' = "closed" /\ Goto("runc", "logs")
  /\ trace' = IF conf.mode = "init" THEN Append(trace, "poststart") ELSE trace
  /\ UNCHANGED <<conf, up, down, child, grand, members, spaces, faults, runc, cgroup, saved, fifo>>

\* A poststart hook fails: init is killed; Start removes the fifo.
poststartFails ==
  /\ At("poststart") /\ conf.mode = "init"
  /\ faults < MaxFaults /\ faults' = faults + 1
  /\ parentEnd' = "closed"
  /\ pc' = [pc EXCEPT !["runc"] = "failLogs", !["stage2"] = IF Alive("stage2") THEN "dead" ELSE @]
  /\ fifo' = FALSE
  /\ UNCHANGED <<conf, up, down, child, grand, members, spaces, runc, cgroup, saved, trace>>

\* container.start returns once the log pipe has no writer left.
logsDone ==
  /\ pc["runc"] \in {"logs", "failLogs"} /\ ~LogPipeHeld
  /\ Goto("runc", IF At("logs") THEN "done" ELSE "failed")
  /\ UNCHANGED <<conf, pipes, members, spaces, faults, runc, store>>

\* A step of runc's own that fails: Apply, a hook, a write of state.json, the
\* resource limits, the seccomp agent.
runcError ==
  /\ faults < MaxFaults /\ faults' = faults + 1
  /\ \/ /\ pc["runc"] \in {"apply", "bootstrap", "joinCgroup", "config"}
        /\ Goto("runc", "fail") /\ UNCHANGED runc
     \/ /\ pc["runc"] \in {"hooks", "save"} \/ (At("parseSync") /\ up # <<>>)
        /\ Goto("runc", "synced") /\ runc' = [runc EXCEPT !.ierr = TRUE]
  /\ UNCHANGED <<conf, pipes, members, spaces, store>>

\* runc is killed: its end of the init pipe closes.
runcKilled ==
  /\ faults < MaxFaults /\ faults' = faults + 1
  /\ pc["runc"] \notin {"start", "done", "failed", "dead"}
  /\ Goto("runc", "dead") /\ parentEnd' = "closed"
  /\ UNCHANGED <<conf, up, down, child, grand, members, spaces, runc, store>>

-----------------------------------------------------------------------------
(* The Go part of stage-2.                                                 *)

In(label) == pc["stage2"] = label

\* An error return: StartInitialization sends procError and the process exits.
InitError ==
  /\ Bail("stage2")
  /\ up' = IF parentEnd = "closed" THEN up ELSE Append(up, "procError")

\* Tell runc m and wait for the answer at label.
Sync(m, label) ==
  /\ IF parentEnd = "closed"
       THEN InitError
       ELSE up' = Append(up, m) /\ Goto("stage2", label)
  /\ UNCHANGED <<conf, down, parentEnd, child, grand, members, spaces, faults, runc, store>>

\* readSync: m lets the process go on at label; end-of-file is an error.
ReadSync(m, label) ==
  /\ IF down # <<>>
       THEN /\ down' = Tail(down)
            /\ IF Head(down) = m THEN Goto("stage2", label) /\ UNCHANGED up ELSE InitError
       ELSE parentEnd # "open" /\ UNCHANGED down /\ InitError
  /\ UNCHANGED <<conf, parentEnd, child, grand, members, spaces, faults, runc, store>>

AfterBoot  == IF conf.mode = "init" THEN "rootfs" ELSE "ready"
Silently(label) ==
  Goto("stage2", label) /\ UNCHANGED <<conf, pipes, members, spaces, faults, runc, store>>

newContainerInit == In("boot") /\ ReadSync("config", AfterBoot)

\* mutant of syncParentHooks: init does not wait for procResume
syncParentHooksNoWait == In("rootfs") /\ Sync("procHooks", "createContainer")

\* prepareRootfs up to syncParentHooks: mounts, devices.
syncParentHooks == In("rootfs") /\ Sync("procHooks", "awaitResume")
awaitResume     == In("awaitResume") /\ ReadSync("procResume", "createContainer")

\* The createContainer hooks, then pivotRoot, msMoveRoot or chroot.
changeRoot ==
  /\ In("createContainer")
  /\ trace' = trace \o <<"createContainer", "changeRoot">>
  /\ Goto("stage2", "rootReady")
  /\ UNCHANGED <<conf, pipes, members, spaces, faults, runc, cgroup, saved, fifo>>

syncParentReady == In("rootReady") /\ Sync("procReady", "awaitRun")
awaitRun        == In("awaitRun") /\ ReadSync("procRun", "ready")

\* The seccomp listener, before (early) or after (late) finalizeNamespace.
earlySeccomp == In("ready") /\ IF conf.seccomp = "early" THEN Sync("procSeccomp", "earlyAck")
                                                         ELSE Silently("finalize")
awaitEarly   == In("earlyAck") /\ ReadSync("procSeccompDone", "finalize")

\* finalizeNamespace; a container's init whose parent has changed kills itself.
finalizeNamespace ==
  /\ In("finalize")
  /\ Silently(IF conf.mode = "init" /\ pc["runc"] \in {"done", "failed", "dead"} THEN "dead" ELSE "late")

lateSeccomp  == In("late") /\ IF conf.seccomp = "late" THEN Sync("procSeccomp", "lateAck")
                                                       ELSE Silently("close")
awaitLate    == In("lateAck") /\ ReadSync("procSeccompDone", "close")

\* Init closes the init pipe and the log pipe and blocks on the exec fifo; a
\* process of runc exec closes them by its exec.
closePipes == In("close") /\ Silently(IF conf.mode = "init" THEN "fifo" ELSE "running")

\* An operation of the Go part fails.
initFails ==
  /\ pc["stage2"] \in {"boot", "rootfs", "createContainer", "rootReady", "ready",
                       "finalize", "late"}
  /\ faults < MaxFaults /\ faults' = faults + 1
  /\ InitError
  /\ UNCHANGED <<conf, down, parentEnd, child, grand, members, spaces, runc, store>>

-----------------------------------------------------------------------------
Runc ==
  startCmd \/ apply \/ bootstrap \/ waitInit \/ getChildPid \/ reapStage1 \/ waitForChildExit
  \/ joinCgroup \/ sendConfig \/ procHooks \/ runHooks \/ writeResume \/ procReady
  \/ updateState \/ writeRun \/ procSeccomp \/ procError \/ parseSyncEOF \/ afterSync
  \/ waitChild \/ failWaitInit \/ terminate \/ failDestroy \/ poststart \/ logsDone

Stage2Go ==
  newContainerInit \/ syncParentHooks \/ awaitResume \/ changeRoot \/ syncParentReady
  \/ awaitRun \/ earlySeccomp \/ awaitEarly \/ finalizeNamespace \/ lateSeccomp \/ awaitLate
  \/ closePipes

Boot == UNCHANGED <<runc, store>>

Faults == (StageFault /\ Boot) \/ runcError \/ poststartFails \/ runcKilled \/ initFails

Next ==
  \/ Runc \/ Stage2Go \/ Faults
  \/ (Stage0Step \/ Stage1Step \/ Stage2Boot) /\ Boot

\* Every process runs until it blocks or ends; faults never have to happen.
Spec ==
  /\ Init /\ [][Next]_vars
  /\ WF_vars(Runc) /\ WF_vars(Stage2Go)
  /\ WF_vars(Stage0Step /\ Boot) /\ WF_vars(Stage1Step /\ Boot) /\ WF_vars(Stage2Boot /\ Boot)

-----------------------------------------------------------------------------
(* What the start of a process promises.                                   *)

\* No process escapes the container's cgroup: what the bootstrap of a new
\* container clones is born in it (initProcess.start applies it before the
\* bootstrap data), and a process of runc exec is in it before it acts on its
\* configuration (setnsProcess.start).
NoEscape ==
  /\ conf.mode = "init" => \A p \in {"stage1", "stage2"} : Alive(p) => p \in members
  /\ pc["stage2"] \in {"rootfs", "ready", "finalize", "late", "close", "fifo", "running"}
       => "stage2" \in members

\* An init process that was told to run is named by state.json, so that
\* runc delete can find it whenever runc create is killed.
SavedBeforeRun ==
  /\ conf.mode = "init"
  /\ pc["stage2"] \in {"ready", "earlyAck", "finalize", "late", "lateAck", "close", "fifo"}
  => saved

\* A new user namespace has its id maps before an init is spawned in it
\* (SYNC_USERMAP_PLS and its ack).
MapsBeforeInit == "user" \in config.cloneflags /\ pc["stage2"] # "none" => mapped

\* The user namespace is the first one entered, of those joined and of those
\* created; a new one has its id maps in time, and stage-2 runs the Go
\* runtime in all namespaces.
UserNamespaceFirst ==
  /\ MapsBeforeInit
  /\ \A i \in DOMAIN entered :
       entered[i] = "user" => i = 1 \/ (i = Len(config.namespaces) + 1 /\ "user" \in config.cloneflags)
  /\ pc["stage2"] \in {"boot", "rootfs", "ready", "fifo", "running"} =>
       {entered[i] : i \in DOMAIN entered} = {t \in Types : ContainsNs(conf, t)}

\* Every bind mount of a container with a user namespace is given the
\* descriptor of its own source before init is spawned.
MountSourcesMatch ==
  /\ \A i \in DOMAIN slots : slots[i][1] = slots[i][2]
  /\ pc["stage2"] # "none" => Len(slots) = Len(mountFds(conf))

\* The order of the runtime specification.  Without a mount namespace the
\* limits are set and the createRuntime hooks run once more.
hookOrder ==
  <<"limits", "createRuntime", "createContainer", "changeRoot">>
  \o (IF ContainsNs(conf, "mnt") THEN <<>> ELSE <<"limits", "createRuntime">>)
  \o <<"poststart">>

\* Limits, hooks of both processes and the change of root come in that order,
\* none of them skipped.
HookOrder ==
  /\ Len(trace) <= Len(hookOrder)
  /\ \A i \in DOMAIN trace : trace[i] = hookOrder[i]

\* When start reports success, init has finished its setup: it waits on the
\* fifo or runs the program, unless something killed it since.
ReturnsAfterInit ==
  pc["runc"] = "done" =>
    \/ pc["stage2"] \in {"fifo", "running"}
    \/ pc["stage2"] = "dead" /\ faults > 0

\* A handshake that fails after runc has learnt which process is init ends
\* with no cgroup: init is killed and waited for before manager.Destroy.
FailureRemovesCgroup ==
  /\ pc["runc"] = "failed" /\ conf.mode = "init" /\ runc.proc = "stage2"
  /\ runc.ierr \/ ~runc.sentRun \/ (ContainsNs(conf, "mnt") /\ ~runc.sentResume)
  => ~cgroup
=============================================================================
