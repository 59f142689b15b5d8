------------------------- MODULE ContainerLifecycle -------------------------
(***************************************************************************)
(* The commands of sysbox-runc-lite on one container ID, run as separate    *)
(* processes that share only the state directory (state.json, exec.fifo),   *)
(* the container's cgroup and the kernel's process table:                   *)
(*   create.go, start.go, run.go, kill.go, pause.go, delete.go,             *)
(*   utils_linux.go, signals.go, libcontainer/container_linux.go,           *)
(*   libcontainer/factory_linux.go, libcontainer/state_linux.go,            *)
(*   libcontainer/init_linux.go (signalAllProcesses).                       *)
(* The bootstrap between runc and runc init is InitSync; here it is the     *)
(* three steps spawn, save and proceed.                                     *)
(*                                                                          *)
(* A process may be killed between any two steps.  The caller (a containerd *)
(* shim) does not use an ID before the create command that makes it has     *)
(* returned, and does not make it again while a command still uses it.      *)
(***************************************************************************)
EXTENDS Integers, FiniteSets

CONSTANTS Slots,        \* 1..Slots: command processes; the last is for Cleanup
          Hosts,        \* configurations [pidns, v1]: own pid namespace, cgroup v1
          MaxGen,       \* bound: how often the ID is created
          MaxKids,      \* bound: processes the container forks
          MaxEvents     \* bound: commands the caller issues, and crashes

ASSUME LifecycleAssumption == /\ Slots \in Nat \ {0} /\ MaxGen \in Nat \ {0}
                              /\ Hosts \subseteq [pidns : BOOLEAN, v1 : BOOLEAN]
                              /\ {MaxKids, MaxEvents} \subseteq Nat

VARIABLES proc,      \* the command processes: see Command
          dir,       \* the state directory
          inits,     \* the container process of each creation
          kids,      \* other processes of the container
          cg,        \* the container's cgroup; frozen: who froze it, 0 if thawed
          fifo,      \* the open exec.fifo: connected readers, unread bytes
          starts,    \* history, by creation: starts that succeeded, init let go
          host,      \* what the host and the configuration fix
          events     \* commands issued, commands killed, creations failed so far

bounds == <<host, events>>
vars == <<proc, dir, inits, kids, cg, fifo, starts, bounds>>

Procs == 1..Slots
Gens == 1..MaxGen
Kids == 1..MaxKids

Commands == {"create", "run", "start", "kill", "killall", "pause", "resume",
             "delete", "forcedelete"}
MemStates == {"loaded", "stopped", "created", "running", "paused"}
InitStates == {"none", "booting", "blocked", "opened", "hooks", "running",
               "dying", "zombie", "gone"}
Steps == {"idle", "load", "status", "factory", "mkdir", "mkfifo", "spawn",
          "save", "proceed", "abort", "open", "wait", "read", "rmfifo",
          "forward", "sigstatus", "signal", "unfreeze", "poll", "freezeCmd",
          "thawCmd", "rmpath", "destroy", "freeze", "list", "sigall", "thaw",
          "rmcgroup", "rmdir"}
\* a command: its next step, the process (pid and start time) it loaded, the
\* containerState in memory, whether it read the byte, the pids it listed
Command == [pc : Steps, cmd : Commands, gen : 0..MaxGen, state : MemStates,
            data : BOOLEAN, list : SUBSET (0..MaxKids)]

Fresh(cmd, step) == [pc |-> step, cmd |-> cmd, gen |-> 0, state |-> "loaded",
                     data |-> FALSE, list |-> {}]
Idle == Fresh("create", "idle")
NoDir == [exists |-> FALSE, fifo |-> FALSE, state |-> 0]
NoCgroup == [exists |-> FALSE, frozen |-> 0]

Init ==
  /\ proc = [p \in Procs |-> Idle]
  /\ dir = NoDir
  /\ inits = [g \in Gens |-> "none"]
  /\ kids = [k \in Kids |-> "none"]
  /\ cg = NoCgroup
  /\ fifo = [conn |-> {}, byte |-> 0]
  /\ starts = [g \in Gens |-> [won |-> 0, released |-> FALSE]]
  /\ host \in Hosts
  /\ events = 0

At(p, step) == proc[p].pc = step
\* command p goes to `step' with local state r; a command that ends forgets it
Become(p, r, step) ==
  proc' = [proc EXCEPT ![p] = IF step = "idle" THEN Idle ELSE [r EXCEPT !.pc = step]]
Goto(p, step) == Become(p, proc[p], step)

----------------------------------------------------------------------------
(* The process table.                                                       *)

\* system.Stat succeeds and the process is neither a zombie nor dead
Alive(g) == g # 0 /\ inits[g] \in {"booting", "blocked", "opened", "hooks",
                               "running", "dying"}
Populated == (\E g \in Gens : Alive(g)) \/ (\E k \in Kids : kids[k] # "none")

\* SIGKILL: the process is doomed, and dies when the scheduler runs it
KillInit(g) ==
  IF Alive(g) THEN [inits EXCEPT ![g] = "dying"] ELSE inits
\* a cgroup v1 freezer keeps even a killed process from running
CanDie == ~(host.v1 /\ cg.frozen # 0)

----------------------------------------------------------------------------
(* What a command reads: the status of the container it has loaded.         *)

\* runType: state.json's process and its start time, then the exec fifo
runType(g) == IF ~Alive(g) THEN "stopped"
              ELSE IF dir.fifo THEN "created"
              ELSE "running"

\* the state refreshState computes; the freezer is asked first
Observed(g) == IF cg.frozen # 0 THEN "paused" ELSE runType(g)

\* the transitions the containerState implementations accept
transition(from, to) ==
  CASE from = "loaded"  -> TRUE
    [] from = "stopped" -> to \in {"running", "stopped"}
    [] from = "running" -> to \in {"stopped", "paused", "running"}
    [] from = "created" -> to \in {"running", "paused", "stopped", "created"}
    [] from = "paused"  -> to \in {"running", "stopped", "paused"}

\* refreshState fails when the state it computes is not a legal successor
RefreshOk(p) == transition(proc[p].state, Observed(proc[p].gen))
Refreshed(p) == IF RefreshOk(p) THEN Observed(proc[p].gen) ELSE proc[p].state

\* go to `step' with the refreshed state in memory
Refresh(p, step) == Become(p, [proc[p] EXCEPT !.state = Refreshed(p)], step)

----------------------------------------------------------------------------
(* Issuing commands: the first idle slot takes the next one.                *)

Event == events < MaxEvents /\ events' = events + 1
FreeSlot(p) == At(p, "idle") /\ \A q \in 1..(p - 1) : ~At(q, "idle")
Creating(p) == proc[p].pc \in {"factory", "mkdir", "mkfifo", "spawn", "save",
                               "proceed", "abort"}
\* the caller's discipline on an ID
CallerOrder(cmd) ==
  IF cmd \in {"create", "run"}
  THEN (\A q \in Procs : At(q, "idle")) /\ (\E g \in Gens : inits[g] = "none")
  ELSE dir.exists /\ \A q \in Procs : ~Creating(q)

Issue(p, cmd) ==
  /\ FreeSlot(p) /\ At(Slots, "idle")
  /\ CallerOrder(cmd)
  /\ Event
  /\ LET first == IF cmd \in {"create", "run"} THEN "factory" ELSE "load"
     IN Become(p, Fresh(cmd, first), first)
  /\ UNCHANGED <<dir, inits, kids, cg, fifo, starts, host>>

\* when every other command has returned or waits for the container, the
\* caller removes with force what there still is, in the last slot
Cleanup ==
  /\ At(Slots, "idle")
  /\ dir.exists
  /\ \A q \in Procs : proc[q].pc \in {"idle", "wait", "read", "forward"}
  /\ Become(Slots, Fresh("forcedelete", "load"), "load")
  /\ UNCHANGED <<dir, inits, kids, cg, fifo, starts, bounds>>

----------------------------------------------------------------------------
(* create and run: LinuxFactory.Create, then linuxContainer.Start.          *)

\* the generation a create command makes
NextGen == CHOOSE g \in Gens : inits[g] = "none" /\ \A h \in Gens : h < g => inits[h] # "none"

factoryCreate(p) ==
  /\ At(p, "factory")
  /\ Goto(p, IF dir.exists \/ cg.frozen # 0 THEN "idle" ELSE "mkdir")
  /\ UNCHANGED <<dir, inits, kids, cg, fifo, starts, bounds>>

mkdirRoot(p) ==
  /\ At(p, "mkdir")
  /\ dir' = [dir EXCEPT !.exists = TRUE]
  /\ Become(p, [proc[p] EXCEPT !.state = "stopped", !.gen = NextGen], "mkfifo")
  /\ UNCHANGED <<inits, kids, cg, fifo, starts, bounds>>

createExecFifo(p) ==
  /\ At(p, "mkfifo")
  /\ ~dir.fifo
  /\ dir' = [dir EXCEPT !.fifo = TRUE]
  /\ Goto(p, "spawn")
  /\ UNCHANGED <<inits, kids, cg, fifo, starts, bounds>>

startInit(p) ==
  /\ At(p, "spawn")
  /\ inits' = [inits EXCEPT ![proc[p].gen] = "booting"]
  /\ cg' = [cg EXCEPT !.exists = TRUE]
  /\ Goto(p, "save")
  /\ UNCHANGED <<dir, kids, fifo, starts, bounds>>

\* procReady: the state is saved before runc init may go on
saveState(p) ==
  /\ At(p, "save")
  /\ dir' = [dir EXCEPT !.state = proc[p].gen]
  /\ Become(p, [proc[p] EXCEPT !.state = "created"], "proceed")
  /\ UNCHANGED <<inits, kids, cg, fifo, starts, bounds>>

\* runc init reaches the exec fifo; the command ends, or goes on to exec
proceed(p) ==
  /\ At(p, "proceed")
  /\ inits[proc[p].gen] = "booting"
  /\ inits' = [inits EXCEPT ![proc[p].gen] = "blocked"]
  /\ Goto(p, IF proc[p].cmd = "run" THEN "open" ELSE "idle")
  /\ UNCHANGED <<dir, kids, cg, fifo, starts, bounds>>

\* a creation that fails kills runc init ...
createFails(p) ==
  /\ proc[p].pc \in {"spawn", "save", "proceed"}
  /\ Event
  /\ inits' = KillInit(proc[p].gen)
  /\ Goto(p, "abort")
  /\ UNCHANGED <<dir, kids, cg, fifo, starts, host>>

\* ... waits for it, deletes the fifo and destroys what there is of the container
terminate(p) ==
  /\ At(p, "abort")
  /\ ~Alive(proc[p].gen)
  /\ inits' = [inits EXCEPT ![proc[p].gen] = "gone"]
  /\ dir' = [dir EXCEPT !.fifo = FALSE]
  /\ Goto(p, "destroy")
  /\ UNCHANGED <<kids, cg, fifo, starts, bounds>>

----------------------------------------------------------------------------
(* Every other command loads the container and asks for its status.         *)

\* getContainer: no state.json is ErrNotExist, which only delete handles
load(p) ==
  /\ At(p, "load")
  /\ \/ /\ dir.state = 0
        /\ Goto(p, IF proc[p].cmd \in {"delete", "forcedelete"} THEN "rmpath" ELSE "idle")
     \/ /\ dir.state # 0
        /\ Become(p, [proc[p] EXCEPT !.gen = dir.state, !.state = Observed(dir.state)],
                  "status")
  /\ UNCHANGED <<dir, inits, kids, cg, fifo, starts, bounds>>

\* what each command does with each status; "idle" is its error
startCommand(st) == IF st = "created" THEN "open" ELSE "idle"
killCommand(st, all) ==
  IF all THEN IF st # "stopped" \/ cg.exists THEN "freeze" ELSE "idle"
         ELSE IF st # "stopped" THEN "signal" ELSE "idle"
pauseCommand(st) == IF st \in {"running", "created"} THEN "freezeCmd" ELSE "idle"
resumeCommand(st) == IF st = "paused" THEN "thawCmd" ELSE "idle"
deleteCommand(st, force) ==
  IF st = "stopped" THEN "destroy"
  ELSE IF st = "created" \/ force THEN "sigstatus"
  ELSE "idle"

AfterStatus(cmd, st) ==
  CASE cmd = "start" -> startCommand(st)
    [] cmd \in {"kill", "killall"} -> killCommand(st, cmd = "killall")
    [] cmd = "pause" -> pauseCommand(st)
    [] cmd = "resume" -> resumeCommand(st)
    [] OTHER -> deleteCommand(st, cmd = "forcedelete")

\* mutant of currentStatus: delete takes any container it is forced to delete as stopped
currentStatusForced(p) ==
  /\ At(p, "status")
  /\ Refresh(p, IF proc[p].cmd = "forcedelete" THEN "rmcgroup"
                ELSE IF RefreshOk(p) THEN AfterStatus(proc[p].cmd, Refreshed(p)) ELSE "idle")
  /\ UNCHANGED <<dir, inits, kids, cg, fifo, starts, bounds>>

currentStatus(p) ==
  /\ At(p, "status")
  /\ Refresh(p, IF RefreshOk(p) THEN AfterStatus(proc[p].cmd, Refreshed(p)) ELSE "idle")
  /\ UNCHANGED <<dir, inits, kids, cg, fifo, starts, bounds>>

\* delete of an aborted creation
removePath(p) ==
  /\ At(p, "rmpath")
  /\ dir' = NoDir
  /\ Goto(p, "idle")
  /\ UNCHANGED <<inits, kids, cg, fifo, starts, bounds>>

----------------------------------------------------------------------------
(* start: exec reads one byte from the fifo that runc init blocks on.       *)

Writer == \E g \in Gens : inits[g] \in {"opened", "hooks"}
\* a pipe nobody holds open forgets what was written
Fifo(conn, byte, open) == [conn |-> conn, byte |-> IF conn = {} /\ ~open THEN 0 ELSE byte]
Close(p) == Fifo(fifo.conn \ {p}, fifo.byte, Writer)

\* an error of exec ends start, and makes run destroy the container
ExecFails(p) == Goto(p, IF proc[p].cmd = "run" THEN "destroy" ELSE "idle")

\* the blocking open finds the fifo, or fails without it ...
fifoOpen(p) ==
  /\ At(p, "open")
  /\ IF dir.fifo THEN Goto(p, "wait") ELSE ExecFails(p)
  /\ UNCHANGED <<dir, inits, kids, cg, fifo, starts, bounds>>

\* ... and returns when there is a writer, even if the fifo was removed since
awaitFifoOpen(p) ==
  /\ At(p, "wait")
  /\ Writer
  /\ fifo' = [fifo EXCEPT !.conn = @ \cup {p}]
  /\ Goto(p, "read")
  /\ UNCHANGED <<dir, inits, kids, cg, starts, bounds>>

\* mutant of execPoll: the init process is not polled while the open blocks
execPollNever(p) == FALSE /\ UNCHANGED vars

\* every 100 ms: if the init process is dead, open without blocking
execPoll(p) ==
  /\ At(p, "wait")
  /\ ~Alive(proc[p].gen)
  /\ IF dir.fifo THEN Goto(p, "read") /\ fifo' = [fifo EXCEPT !.conn = @ \cup {p}]
                 ELSE ExecFails(p) /\ fifo' = fifo
  /\ UNCHANGED <<dir, inits, kids, cg, starts, bounds>>

\* io.ReadAll takes what is there ...
readByte(p) ==
  /\ At(p, "read")
  /\ fifo.byte = 1
  /\ fifo' = [fifo EXCEPT !.byte = 0]
  /\ Become(p, [proc[p] EXCEPT !.data = TRUE], "read")
  /\ UNCHANGED <<dir, inits, kids, cg, starts, bounds>>

\* mutant of readFromExecFifo: an empty read is taken for a started container
readFromExecFifoEmpty(p) ==
  /\ At(p, "read")
  /\ fifo.byte = 0 /\ ~Writer
  /\ fifo' = Close(p)
  /\ Goto(p, "rmfifo")
  /\ UNCHANGED <<dir, inits, kids, cg, starts, bounds>>

\* ... until every writer has closed: no data is an error
readFromExecFifo(p) ==
  /\ At(p, "read")
  /\ fifo.byte = 0 /\ ~Writer
  /\ fifo' = Close(p)
  /\ IF proc[p].data THEN Goto(p, "rmfifo") ELSE ExecFails(p)
  /\ UNCHANGED <<dir, inits, kids, cg, starts, bounds>>

\* handleFifoResult removes the fifo; a fifo that is gone is an error
removeFifo(p) ==
  /\ At(p, "rmfifo")
  /\ \/ /\ dir.fifo
        /\ dir' = [dir EXCEPT !.fifo = FALSE]
        /\ starts' = [starts EXCEPT ![proc[p].gen].won = @ + 1]
        /\ Goto(p, IF proc[p].cmd = "run" THEN "forward" ELSE "idle")
     \/ /\ ~dir.fifo
        /\ UNCHANGED <<dir, starts>>
        /\ ExecFails(p)
  /\ UNCHANGED <<inits, kids, cg, fifo, bounds>>

\* run: the signal handler reaps until its own init exits, then destroys
forward(p) ==
  /\ At(p, "forward")
  /\ inits[proc[p].gen] \in {"zombie", "gone"}
  /\ inits' = [inits EXCEPT ![proc[p].gen] = "gone"]
  /\ Goto(p, "destroy")
  /\ UNCHANGED <<dir, kids, cg, fifo, starts, bounds>>

----------------------------------------------------------------------------
(* kill, pause, resume, and the kill in delete.                             *)

\* the status Signal reads for itself; killContainer ignores its error
signalStatus(p) ==
  /\ At(p, "sigstatus")
  /\ Refresh(p, IF RefreshOk(p) /\ Refreshed(p) # "stopped" THEN "signal" ELSE "poll")
  /\ UNCHANGED <<dir, inits, kids, cg, fifo, starts, bounds>>

\* Signal(SIGKILL): the status was just read; a paused container is thawed
Signal(p) ==
  /\ At(p, "signal")
  /\ inits' = KillInit(proc[p].gen)
  /\ Goto(p, IF proc[p].state = "paused" /\ inits[proc[p].gen] # "gone" THEN "unfreeze"
             ELSE IF proc[p].cmd = "kill" THEN "idle" ELSE "poll")
  /\ UNCHANGED <<dir, kids, cg, fifo, starts, bounds>>

\* mutant of unfreeze: a killed container stays frozen
unfreezeNever(p) ==
  /\ At(p, "unfreeze")
  /\ Goto(p, IF proc[p].cmd = "kill" THEN "idle" ELSE "poll")
  /\ UNCHANGED <<dir, inits, kids, cg, fifo, starts, bounds>>

unfreeze(p) ==
  /\ At(p, "unfreeze")
  /\ cg' = [cg EXCEPT !.frozen = 0]
  /\ Goto(p, IF proc[p].cmd = "kill" THEN "idle" ELSE "poll")
  /\ UNCHANGED <<dir, inits, kids, fifo, starts, bounds>>

\* killContainer: Signal(0) until it fails, at most 100 times
killContainer(p) ==
  LET failed == \/ ~RefreshOk(p)
                \/ Refreshed(p) = "stopped"
                \/ inits[proc[p].gen] = "gone"
  IN /\ At(p, "poll")
     /\ \/ failed /\ Refresh(p, "destroy")
        \/ ~failed /\ \E step \in {"poll", "idle"} : Refresh(p, step)
     /\ UNCHANGED <<dir, inits, kids, cg, fifo, starts, bounds>>

\* Pause: the freezer's file is gone with the cgroup
Pause(p) ==
  /\ At(p, "freezeCmd")
  /\ cg' = [cg EXCEPT !.frozen = IF cg.exists THEN p ELSE 0]
  /\ Goto(p, "idle")
  /\ UNCHANGED <<dir, inits, kids, fifo, starts, bounds>>

Resume(p) ==
  /\ At(p, "thawCmd")
  /\ cg' = [cg EXCEPT !.frozen = 0]
  /\ Goto(p, "idle")
  /\ UNCHANGED <<dir, inits, kids, fifo, starts, bounds>>

----------------------------------------------------------------------------
(* Destroy, as the state in memory has it, and signalAllProcesses.          *)

\* after destroy's own guard: without its own pid namespace, the container's
\* other processes outlive init and are killed first
DestroyBegin(p) == Goto(p, IF host.pidns THEN "rmcgroup" ELSE "freeze")

\* linuxContainer.Destroy: the destroy method of the state in memory
Destroy(p) ==
  LET g == proc[p].gen  st == proc[p].state IN
  /\ At(p, "destroy")
  /\ \/ /\ st = "running" /\ runType(g) = "running"
        /\ Goto(p, "idle") /\ UNCHANGED <<inits, cg>>
     \/ /\ st = "paused" /\ runType(g) \in {"running", "created"}
        /\ Goto(p, "idle") /\ UNCHANGED <<inits, cg>>
     \/ /\ st = "paused" /\ runType(g) = "stopped"
        /\ cg' = [cg EXCEPT !.frozen = 0] /\ inits' = inits /\ DestroyBegin(p)
     \/ st = "created" /\ inits' = KillInit(g) /\ cg' = cg /\ DestroyBegin(p)
     \/ /\ \/ st = "stopped"
           \/ st = "running" /\ runType(g) # "running"
        /\ DestroyBegin(p) /\ UNCHANGED <<inits, cg>>
  /\ UNCHANGED <<dir, kids, fifo, starts, bounds>>

\* what GetAllPids reads from cgroup.procs; 0 is init
Listed(p) == {k \in Kids : kids[k] # "none"} \cup {n \in {0} : Alive(proc[p].gen)}

\* mutant of freezeAll: the processes are listed before the cgroup is frozen
freezeAllLate(p) ==
  /\ At(p, "freeze")
  /\ \/ /\ proc[p].list = {} /\ cg' = cg
        /\ Become(p, [proc[p] EXCEPT !.list = Listed(p)], "freeze")
     \/ /\ proc[p].list # {} /\ cg' = [cg EXCEPT !.frozen = IF cg.exists THEN p ELSE 0]
        /\ Goto(p, "sigall")
  /\ UNCHANGED <<dir, inits, kids, fifo, starts, bounds>>

\* signalAllProcesses: freeze, so that nothing forks ...
freezeAll(p) ==
  /\ At(p, "freeze")
  /\ cg' = [cg EXCEPT !.frozen = IF cg.exists THEN p ELSE 0]
  /\ Goto(p, "list")
  /\ UNCHANGED <<dir, inits, kids, fifo, starts, bounds>>

\* ... list the processes ...
listPids(p) ==
  /\ At(p, "list")
  /\ Become(p, [proc[p] EXCEPT !.list = Listed(p)], "sigall")
  /\ UNCHANGED <<dir, inits, kids, cg, fifo, starts, bounds>>

\* ... send each the signal ...
signalPids(p) ==
  /\ At(p, "sigall")
  /\ kids' = [k \in Kids |-> IF k \in proc[p].list /\ kids[k] = "alive"
                                 THEN "dying" ELSE kids[k]]
  /\ inits' = IF 0 \in proc[p].list THEN KillInit(proc[p].gen) ELSE inits
  /\ Goto(p, "thaw")
  /\ UNCHANGED <<dir, cg, fifo, starts, bounds>>

\* ... and thaw, whether or not the container was paused before
thawAll(p) ==
  /\ At(p, "thaw")
  /\ cg' = [cg EXCEPT !.frozen = 0]
  /\ Become(p, [proc[p] EXCEPT !.list = {}],
            IF proc[p].cmd = "killall" THEN "idle" ELSE "rmcgroup")
  /\ UNCHANGED <<dir, inits, kids, fifo, starts, bounds>>

\* the cgroup manager's Destroy: a populated cgroup stays, and is an error
destroyCgroup(p) ==
  /\ At(p, "rmcgroup")
  /\ cg' = IF Populated THEN cg ELSE NoCgroup
  /\ Goto(p, "rmdir")
  /\ UNCHANGED <<dir, inits, kids, fifo, starts, bounds>>

\* os.RemoveAll(c.root), whatever became of the cgroup
removeRoot(p) ==
  /\ At(p, "rmdir")
  /\ dir' = NoDir
  /\ Goto(p, "idle")
  /\ UNCHANGED <<inits, kids, cg, fifo, starts, bounds>>

----------------------------------------------------------------------------
(* The container and the host.                                              *)

Rest == <<proc, dir, starts, bounds>>

\* runc init opens the fifo, which ends the open of every start that waits ...
initOpens(g) ==
  LET waiting == {p \in Procs : At(p, "wait") /\ proc[p].gen = g} IN
  /\ inits[g] = "blocked" /\ cg.frozen = 0
  /\ waiting # {}
  /\ inits' = [inits EXCEPT ![g] = "opened"]
  /\ fifo' = [fifo EXCEPT !.conn = @ \cup waiting]
  /\ proc' = [p \in Procs |-> IF p \in waiting THEN [proc[p] EXCEPT !.pc = "read"]
                              ELSE proc[p]]
  /\ UNCHANGED <<dir, kids, cg, starts, bounds>>

\* ... writes one byte, or dies if the reader is gone ...
initWrites(g) ==
  /\ inits[g] = "opened" /\ cg.frozen = 0
  /\ IF fifo.conn = {}
     THEN /\ inits' = [inits EXCEPT ![g] = "dying"]
          /\ fifo' = Fifo({}, 0, FALSE)
          /\ starts' = starts
     ELSE /\ inits' = [inits EXCEPT ![g] = "hooks"]
          /\ fifo' = [fifo EXCEPT !.byte = 1]
          /\ starts' = [starts EXCEPT ![g].released = TRUE]
  /\ UNCHANGED <<proc, dir, kids, cg, bounds>>

\* ... and closes it by the execve of the user's program, after startContainer
\* hooks that may fail
initExecs(g) ==
  /\ inits[g] = "hooks" /\ cg.frozen = 0
  /\ \E st \in {"running", "dying"} : inits' = [inits EXCEPT ![g] = st]
  /\ fifo' = Fifo(fifo.conn, fifo.byte, FALSE)
  /\ UNCHANGED <<kids, cg>> /\ UNCHANGED Rest

\* the user's program exits, or the kernel ends a killed process
initExits(g) ==
  /\ \/ inits[g] = "running" /\ cg.frozen = 0
     \/ inits[g] = "dying" /\ CanDie
  /\ inits' = [inits EXCEPT ![g] = "zombie"]
  /\ fifo' = Fifo(fifo.conn, fifo.byte, \E h \in Gens \ {g} : inits[h] \in {"opened", "hooks"})
  /\ UNCHANGED <<kids, cg>> /\ UNCHANGED Rest

\* init is reaped by its new parent, unless that is a run command
initReaped(g) ==
  /\ inits[g] = "zombie"
  /\ \A p \in Procs : proc[p].cmd = "run" => proc[p].gen # g
  /\ inits' = [inits EXCEPT ![g] = "gone"]
  /\ UNCHANGED <<kids, cg, fifo>> /\ UNCHANGED Rest

\* the processes of an own pid namespace die with its init and are part of it
fork(k) ==
  /\ ~host.pidns
  /\ kids[k] = "none" /\ cg.frozen = 0 /\ cg.exists
  /\ \/ \E g \in Gens : inits[g] = "running"
     \/ \E j \in Kids : kids[j] = "alive"
  /\ kids' = [kids EXCEPT ![k] = "alive"]
  /\ UNCHANGED <<inits, cg, fifo>> /\ UNCHANGED Rest

kidExits(k) ==
  /\ \/ kids[k] = "alive" /\ cg.frozen = 0
     \/ kids[k] = "dying" /\ CanDie
  /\ kids' = [kids EXCEPT ![k] = "none"]
  /\ UNCHANGED <<inits, cg, fifo>> /\ UNCHANGED Rest

\* a command is killed; a runc init it was still starting dies with its pipe
Crash(p) ==
  /\ ~At(p, "idle")
  /\ Event
  /\ Goto(p, "idle")
  /\ fifo' = Close(p)
  /\ inits' = IF proc[p].gen # 0 /\ inits[proc[p].gen] = "booting"
              THEN KillInit(proc[p].gen) ELSE inits
  /\ UNCHANGED <<dir, kids, cg, starts, host>>

----------------------------------------------------------------------------
CreateStep(p) == factoryCreate(p) \/ mkdirRoot(p) \/ createExecFifo(p) \/ startInit(p)
                 \/ saveState(p) \/ proceed(p) \/ terminate(p)
StartStep(p) == fifoOpen(p) \/ awaitFifoOpen(p) \/ execPoll(p) \/ readByte(p)
                \/ readFromExecFifo(p)
                \/ removeFifo(p) \/ forward(p)
KillStep(p) == signalStatus(p) \/ Signal(p) \/ unfreeze(p) \/ killContainer(p)
               \/ Pause(p) \/ Resume(p)
DestroyStep(p) == Destroy(p) \/ freezeAll(p) \/ listPids(p) \/ signalPids(p) \/ thawAll(p)
                  \/ destroyCgroup(p) \/ removeRoot(p) \/ removePath(p)
Step(p) == load(p) \/ currentStatus(p) \/ CreateStep(p) \/ StartStep(p) \/ KillStep(p) \/ DestroyStep(p)

\* a thread that can run, runs; the user's program owes nobody an exit
InitStep(g) == initOpens(g) \/ initWrites(g) \/ initExecs(g)
               \/ (inits[g] = "dying" /\ initExits(g))
Host == \/ \E g \in Gens : initOpens(g) \/ initWrites(g) \/ initExecs(g) \/ initExits(g)
                           \/ initReaped(g)
        \/ \E k \in Kids : fork(k) \/ kidExits(k)

Next == \/ \E p \in 1..(Slots - 1), cmd \in Commands : Issue(p, cmd)
        \/ Cleanup
        \/ \E p \in Procs : Step(p) \/ createFails(p) \/ Crash(p)
        \/ Host

Fairness == /\ \A p \in Procs : WF_vars(Step(p))
            /\ \A g \in Gens : WF_vars(InitStep(g))
            /\ WF_vars(Cleanup)

Spec == Init /\ [][Next]_vars /\ Fairness

----------------------------------------------------------------------------
(* What the commands promise.                                               *)

\* what the container is: the directory, then the process it names
Status ==
  IF ~dir.exists THEN "none"
  ELSE IF dir.state = 0 THEN "creating"
  ELSE CASE inits[dir.state] = "booting" -> "creating"
         [] inits[dir.state] = "blocked" -> "created"
         [] inits[dir.state] \in {"opened", "hooks", "running"} -> "running"
         [] OTHER -> "stopped"

OCI == INSTANCE OCILifecycle WITH status <- Status

\* Whatever commands interleave, and wherever one is killed, the container goes
\* through the abstract life cycle: it is created before it runs, it runs at
\* most once, and its state directory is never removed while its process lives
\* on (state_linux.go's states, delete.go's killContainer).
ImplementsOCI == OCI!Spec

\* Of any number of concurrent starts of one container at most one reports
\* success, and only when the user's process was let go: the one byte in the
\* exec fifo has one reader, and an empty read is an error (readFromExecFifo).
StartOnce ==
  \A g \in Gens : /\ starts[g].won <= 1
                  /\ starts[g].won = 1 => starts[g].released

\* signalAllProcesses leaves no process of the container unsignalled as long as
\* no other command thaws or freezes the cgroup meanwhile: nothing forks between
\* the list and the signal.
KillAllReachesForks ==
  \A p \in Procs : At(p, "thaw") /\ cg.frozen = p => \A k \in Kids : kids[k] # "alive"
=============================================================================
