-------------------------- MODULE LifecycleProofs ---------------------------
(***************************************************************************)
(* The inductive invariant of ContainerLifecycle, for any number of        *)
(* commands, creations and container processes; that every step preserves  *)
(* it; what follows from it; and the abstract life cycle, step by step.    *)
(*                                                                         *)
(* Every command that has loaded the container has the same creation in    *)
(* hand, the one state.json names while it exists; and a command that is   *)
(* about to remove the state directory knows that the process of that      *)
(* creation is over, or is killed and has left nothing unread in the exec  *)
(* fifo.                                                                   *)
(***************************************************************************)
EXTENDS ContainerLifecycle, TLAPS

(* Most leaves are first-order; Zenon finds them at once.                  *)
USE ZenonT(10), SMT

TypeOK ==
  /\ proc \in [Procs -> Command]
  /\ dir \in [exists : BOOLEAN, fifo : BOOLEAN, state : 0..MaxGen]
  /\ inits \in [Gens -> InitStates]
  /\ kids \in [Kids -> {"none", "alive", "dying"}]
  /\ cg \in [exists : BOOLEAN, frozen : 0..Slots]
  /\ fifo \in [conn : SUBSET Procs, byte : 0..1]
  /\ starts \in [Gens -> [won : Nat, released : BOOLEAN]]

-----------------------------------------------------------------------------
(* The inductive invariant.                                                *)

\* The process of creation g is on its way to the user's program, or runs it.
Live(g) == inits[g] \in {"blocked", "opened", "hooks", "running"}
Over(g) == inits[g] \in {"zombie", "gone"}
\* It will write nothing to the exec fifo, and what it wrote has been read.
Spent(g) == Over(g) \/ (inits[g] \in {"running", "dying"} /\ fifo.byte = 0)
\* It may be removed: what is left of it is killed.
Ended(g) == Over(g) \/ (inits[g] = "dying" /\ fifo.byte = 0)

\* p has a creation in hand that is past the creating command.
Using(p) == proc[p].gen # 0 /\ ~Creating(p)
Destroying(p) ==
  \/ proc[p].pc \in {"rmcgroup", "rmdir"}
  \/ proc[p].pc \in {"freeze", "list", "sigall", "thaw"} /\ proc[p].cmd # "killall"

\* A command has a creation in hand from the moment it makes or loads one;
\* whoever creates is alone.
ProcOk(p) ==
  /\ At(p, "idle") => proc[p] = Idle
  /\ proc[p].gen = 0 <=> proc[p].pc \in {"idle", "load", "factory", "mkdir", "rmpath"}
  /\ proc[p].gen = 0 => ~proc[p].data
  /\ Creating(p) => \A q \in Procs : q = p \/ At(q, "idle")
ProcInv == \A p \in Procs : ProcOk(p)

\* A creation goes through its steps on a directory and a number of its own.
CreateOk(p) ==
  /\ Creating(p) => proc[p].state # "running" /\ ~proc[p].data
  /\ proc[p].pc \in {"factory", "mkdir"} => \E g \in Gens : inits[g] = "none"
  /\ At(p, "mkdir") => ~dir.exists
  /\ At(p, "mkfifo") => dir.exists /\ ~dir.fifo
  /\ proc[p].pc \in {"spawn", "save", "proceed"} => dir.fifo
  /\ proc[p].pc \in {"mkfifo", "spawn", "save", "rmpath"} => dir.state = 0
  /\ proc[p].pc \in {"mkfifo", "spawn"} => inits[proc[p].gen] = "none"
  /\ proc[p].pc \in {"save", "proceed"} => inits[proc[p].gen] = "booting"
  /\ At(p, "proceed") => proc[p].state = "created" /\ dir.state = proc[p].gen
  /\ At(p, "abort") => inits[proc[p].gen] \in {"none", "dying", "zombie", "gone"}
  /\ proc[p].pc \in {"mkfifo", "spawn", "abort"} /\ inits[proc[p].gen] = "none" =>
       \A h \in Gens : h < proc[p].gen => inits[h] # "none"
CreateInv == \A p \in Procs : CreateOk(p)

\* Creations are numbered in order, and one that was not begun was not started.
GenInv ==
  /\ \E n \in 0..MaxGen : \A g \in Gens : inits[g] # "none" <=> g <= n
  /\ \A g \in Gens : inits[g] \in {"none", "booting"} =>
                      starts[g] = [won |-> 0, released |-> FALSE]

\* There is one creation at a time: commands and state.json agree on it, and
\* no process of another one lives, but for killed ones.
OneInv ==
  /\ \A p, q \in Procs : proc[p].gen # 0 /\ proc[q].gen # 0 => proc[p].gen = proc[q].gen
  /\ \A p \in Procs : proc[p].gen # 0 /\ dir.state # 0 => proc[p].gen = dir.state
  /\ \A g \in Gens : Live(g) => dir.state = g
  /\ \A g \in Gens : inits[g] = "booting" =>
       \E p \in Procs : proc[p].pc \in {"save", "proceed"} /\ proc[p].gen = g

\* The state directory and the creation it names.
DirInv ==
  /\ ~dir.exists => dir = NoDir
  /\ dir.state # 0 =>
       /\ inits[dir.state] # "none"
       /\ dir.fifo => starts[dir.state].won = 0
       /\ ~dir.fifo => Spent(dir.state)

\* What a command that has loaded the container knows of it.
Knows(p, g) ==
  /\ inits[g] \notin {"none", "booting"}
  /\ dir.state = 0 => ~dir.fifo
  /\ dir.fifo => starts[g].won = 0
  /\ ~dir.fifo => Spent(g)
  /\ proc[p].state = "stopped" => Over(g)
  /\ proc[p].state = "running" => ~dir.fifo
  /\ proc[p].pc \in {"read", "rmfifo"} => inits[g] # "blocked"
  /\ At(p, "rmfifo") => proc[p].data /\ inits[g] \notin {"opened", "hooks"}
  /\ proc[p].data => /\ starts[g].released /\ fifo.byte = 0
                     /\ inits[g] \in {"hooks", "running", "dying", "zombie", "gone"}
  /\ At(p, "destroy") /\ proc[p].state = "created" => Spent(g)
  /\ Destroying(p) => Ended(g)
UseOk(p) == Using(p) => Knows(p, proc[p].gen)
UseInv == \A p \in Procs : UseOk(p)

\* The byte in the exec fifo is that of the current creation.
FifoInv ==
  /\ \A p \in fifo.conn : At(p, "read")
  /\ fifo.byte = 1 =>
       /\ fifo.conn # {} \/ (dir.state # 0 /\ inits[dir.state] \in {"hooks", "dying"})
       /\ \A p \in Procs : proc[p].gen # 0 => starts[proc[p].gen].released
       /\ dir.state # 0 => starts[dir.state].released
       /\ \A g \in Gens : inits[g] \notin {"booting", "blocked", "opened"}

\* A command that has frozen the cgroup itself has listed, then signalled,
\* whatever can fork.
ListInv ==
  \A p \in Procs : cg.frozen = p =>
    /\ At(p, "sigall") => \A k \in Kids : kids[k] = "alive" => k \in proc[p].list
    /\ At(p, "thaw") => \A k \in Kids : kids[k] # "alive"

IInv == /\ TypeOK /\ ProcInv /\ CreateInv /\ GenInv /\ OneInv /\ DirInv
        /\ UseInv /\ FifoInv /\ ListInv /\ StartOnce

-----------------------------------------------------------------------------
(* Facts about the helpers.                                                *)

\* The record of a command slot that is free.
LEMMA IdleFacts ==
  /\ Idle \in Command /\ Idle.pc = "idle" /\ Idle.gen = 0 /\ ~Idle.data
  /\ \A cmd \in Commands, step \in Steps :
       LET r == Fresh(cmd, step) IN
       /\ r \in Command /\ r.pc = step /\ r.cmd = cmd /\ r.gen = 0
       /\ r.state = "loaded" /\ ~r.data
BY SMT, LifecycleAssumption DEF Idle, Fresh, Command, Commands, Steps, MemStates

\* What a command is after it goes to a step: idle, or its new record there.
LEMMA BecomeFacts ==
  ASSUME TypeOK, NEW p \in Procs, NEW r \in Command, NEW step \in Steps, Become(p, r, step)
  PROVE  /\ proc' \in [Procs -> Command]
         /\ \A q \in Procs : q # p => proc'[q] = proc[q]
         /\ step = "idle" => proc'[p] = Idle
         /\ step # "idle" => /\ proc'[p].pc = step /\ proc'[p].cmd = r.cmd
                             /\ proc'[p].gen = r.gen /\ proc'[p].state = r.state
                             /\ proc'[p].data = r.data /\ proc'[p].list = r.list
<1>1. /\ [r EXCEPT !.pc = step] \in Command
      /\ [r EXCEPT !.pc = step].pc = step /\ [r EXCEPT !.pc = step].cmd = r.cmd
      /\ [r EXCEPT !.pc = step].gen = r.gen /\ [r EXCEPT !.pc = step].state = r.state
      /\ [r EXCEPT !.pc = step].data = r.data /\ [r EXCEPT !.pc = step].list = r.list
  BY DEF Command
<1>2. CASE step = "idle"
  BY <1>2, IdleFacts DEF Become, TypeOK
<1>3. CASE step # "idle"
  BY <1>1, <1>3 DEF Become, TypeOK
<1> QED BY <1>2, <1>3

LEMMA GotoFacts ==
  ASSUME TypeOK, NEW p \in Procs, NEW step \in Steps, Goto(p, step)
  PROVE  /\ proc' \in [Procs -> Command]
         /\ \A q \in Procs : q # p => proc'[q] = proc[q]
         /\ step = "idle" => proc'[p] = Idle
         /\ step # "idle" => /\ proc'[p].pc = step /\ proc'[p].cmd = proc[p].cmd
                             /\ proc'[p].gen = proc[p].gen /\ proc'[p].state = proc[p].state
                             /\ proc'[p].data = proc[p].data /\ proc'[p].list = proc[p].list
BY SMT, BecomeFacts DEF Goto, TypeOK

\* The status a command computes is one of the states.
LEMMA StatusFacts ==
  ASSUME TypeOK, NEW g \in 0..MaxGen
  PROVE  /\ runType(g) \in {"stopped", "created", "running"}
         /\ Observed(g) \in {"paused", "stopped", "created", "running"}
         /\ runType(g) = "stopped" <=> ~Alive(g)
         /\ runType(g) = "running" => ~dir.fifo
         /\ Observed(g) = "stopped" => ~Alive(g)
         /\ Observed(g) = "running" => ~dir.fifo
BY DEF runType, Observed

\* A refresh changes the state in memory and nothing else.
LEMMA RefreshFacts ==
  ASSUME TypeOK, NEW p \in Procs, NEW step \in Steps, Refresh(p, step)
  PROVE  /\ proc' \in [Procs -> Command]
         /\ \A q \in Procs : q # p => proc'[q] = proc[q]
         /\ step = "idle" => proc'[p] = Idle
         /\ step # "idle" => /\ proc'[p].pc = step /\ proc'[p].cmd = proc[p].cmd
                             /\ proc'[p].gen = proc[p].gen /\ proc'[p].state = Refreshed(p)
                             /\ proc'[p].data = proc[p].data /\ proc'[p].list = proc[p].list
         /\ Refreshed(p) \in {proc[p].state, Observed(proc[p].gen)}
<1>1. Refreshed(p) \in {proc[p].state, Observed(proc[p].gen)}
  BY DEF Refreshed
<1>2. proc[p] \in Command /\ proc[p].gen \in 0..MaxGen
  BY DEF TypeOK, Command
<1>3. Refreshed(p) \in MemStates
  BY <1>1, <1>2, StatusFacts DEF MemStates, Command
<1> DEFINE r == [proc[p] EXCEPT !.state = Refreshed(p)]
<1>4. /\ r \in Command /\ r.cmd = proc[p].cmd /\ r.gen = proc[p].gen
      /\ r.state = Refreshed(p) /\ r.data = proc[p].data /\ r.list = proc[p].list
  BY <1>2, <1>3 DEF Command
<1>5. Become(p, r, step)
  BY DEF Refresh
<1> HIDE DEF r
<1> QED BY <1>1, <1>4, <1>5, BecomeFacts

\* A killed process of a creation is doomed, if it lived.
LEMMA KillFacts ==
  ASSUME TypeOK, NEW g \in Gens
  PROVE  /\ KillInit(g) \in [Gens -> InitStates]
         /\ \A h \in Gens : h # g => KillInit(g)[h] = inits[h]
         /\ inits[g] \in {"none", "zombie", "gone"} => KillInit(g)[g] = inits[g]
         /\ inits[g] \notin {"none", "zombie", "gone"} => KillInit(g)[g] = "dying"
BY SMT DEF KillInit, Alive, TypeOK, InitStates, Gens

\* A command with a creation in hand: which one, and what is alive of it.
LEMMA GenFacts ==
  ASSUME TypeOK, ProcInv, NEW p \in Procs
  PROVE  /\ proc[p] \in Command /\ proc[p].gen \in 0..MaxGen
         /\ proc[p].gen # 0 => proc[p].gen \in Gens
         /\ proc[p].pc \notin {"idle", "load", "factory", "mkdir", "rmpath"} =>
              proc[p].gen \in Gens
         /\ dir.state \in 0..MaxGen /\ (dir.state # 0 => dir.state \in Gens)
<1>1. proc[p] \in Command /\ proc[p].gen \in 0..MaxGen /\ dir.state \in 0..MaxGen
  BY DEF TypeOK, Command
<1>2. \A n \in 0..MaxGen : n # 0 => n \in Gens
  BY SMT, LifecycleAssumption DEF Gens
<1> QED BY <1>1, <1>2 DEF ProcInv, ProcOk

LEMMA AliveFacts ==
  ASSUME TypeOK, NEW g \in Gens
  PROVE  Alive(g) <=> inits[g] \notin {"none", "zombie", "gone"}
BY SMT DEF TypeOK, Alive, InitStates, Gens

-----------------------------------------------------------------------------
(* What a step leaves alone.                                               *)

\* The ways the process of a creation may change.
Advance(g) ==
  \/ inits'[g] = inits[g]
  \/ inits[g] = "blocked" /\ inits'[g] = "opened"
  \/ inits[g] = "opened" /\ inits'[g] = "hooks"
  \/ inits[g] = "hooks" /\ inits'[g] = "running"
  \/ inits[g] \notin {"none", "zombie", "gone"} /\ inits'[g] = "dying"
  \/ inits[g] \in {"running", "dying"} /\ inits'[g] = "zombie"
  \/ inits[g] = "zombie" /\ inits'[g] = "gone"

\* A step keeps what the other commands that use creation g know of it.
Keeps(g) ==
  /\ Advance(g)
  /\ fifo'.byte = 1 => fifo.byte = 1 \/ inits[g] = "opened"
  /\ starts[g].released => starts'[g].released
  /\ dir'.fifo => dir.fifo /\ starts'[g].won = starts[g].won
  /\ dir'.state \in {0, dir.state}
  /\ dir'.state = 0 /\ dir.state # 0 => ~dir'.fifo
  /\ dir.fifo /\ ~dir'.fifo => Spent(g)'

\* A command that does not move keeps its part of the invariant.
LEMMA OthersKeep ==
  ASSUME IInv, TypeOK', NEW q \in Procs, proc'[q] = proc[q], ~Creating(q),
         At(q, "idle") \/ dir'.state \in {0, dir.state},
         proc[q].gen # 0 => Keeps(proc[q].gen)
  PROVE  ProcOk(q)' /\ CreateOk(q)' /\ UseOk(q)'
<1> USE DEF IInv
<1>1. ProcOk(q) /\ CreateOk(q) /\ UseOk(q)
  BY DEF ProcInv, CreateInv, UseInv
<1>2. /\ ~Creating(q)' /\ (At(q, "idle"))' = At(q, "idle")
      /\ Using(q)' = Using(q) /\ Destroying(q)' = Destroying(q)
  BY DEF Creating, At, Using, Destroying
<1>3. ProcOk(q)'
  BY <1>1, <1>2 DEF ProcOk
<1>4. CreateOk(q)'
  BY <1>1, <1>2 DEF CreateOk, At, Creating
<1>5. UseOk(q)'
  <2> SUFFICES ASSUME Using(q) PROVE UseOk(q)'
    BY <1>2 DEF UseOk
  <2>1. PICK g \in Gens : g = proc[q].gen
    BY GenFacts DEF Using
  <2>2. Keeps(g) /\ proc'[q].gen = g /\ Knows(q, g)
    BY <1>1, <2>1 DEF UseOk, Using
  <2>3. fifo.byte \in 0..1 /\ fifo'.byte \in 0..1
    BY DEF TypeOK
  <2>4. (Over(g) => Over(g)') /\ (Spent(g) => Spent(g)') /\ (Ended(g) => Ended(g)')
    BY SMT, <2>2, <2>3 DEF Keeps, Advance, Over, Spent, Ended
  <2>5. inits'[g] \notin {"none", "booting"}
    BY <2>2 DEF Knows, Keeps, Advance
  <2>6. /\ (dir.state = 0 => ~dir.fifo)' /\ (dir.fifo => starts[g].won = 0)'
        /\ (~dir.fifo => Spent(g))' /\ (proc[q].state = "running" => ~dir.fifo)'
    BY <2>2, <2>4 DEF Knows, Keeps
  <2>7. /\ proc[q].pc \in {"read", "rmfifo"} => inits'[g] # "blocked"
        /\ At(q, "rmfifo") => proc[q].data /\ inits'[g] \notin {"opened", "hooks"}
    BY <2>2 DEF Knows, Keeps, Advance
  <2>8. proc[q].data => /\ starts'[g].released /\ fifo'.byte = 0
                        /\ inits'[g] \in {"hooks", "running", "dying", "zombie", "gone"}
    BY SMT, <2>2, <2>3 DEF Knows, Keeps, Advance
  <2>9. Knows(q, g)'
    BY <2>2, <2>4, <2>5, <2>6, <2>7, <2>8, <1>2 DEF Knows, At
  <2> QED BY <2>2, <2>9 DEF UseOk
<1> QED BY <1>3, <1>4, <1>5

\* A command that neither has listed the processes nor signalled them, and
\* freezes the cgroup for nobody but itself, keeps ListInv.
LEMMA ListKeep ==
  ASSUME TypeOK, ListInv, NEW p \in Procs, UNCHANGED kids,
         cg'.frozen \in {0, p, cg.frozen},
         \A q \in Procs : q # p => proc'[q] = proc[q],
         proc'[p].pc \notin {"sigall", "thaw"}
  PROVE  ListInv'
<1>1. \A q \in Procs : q # 0
  BY SMT, LifecycleAssumption DEF Procs
<1> QED BY <1>1 DEF ListInv, At

\* A step of p that changes nothing but p, the cgroup and the kids: what is
\* left to show is p's own part of the invariant.
LEMMA LocalStep ==
  ASSUME IInv, TypeOK', ListInv', NEW p \in Procs,
         UNCHANGED <<dir, inits, fifo, starts>>,
         \A q \in Procs : q # p => proc'[q] = proc[q] /\ ~Creating(q),
         proc[p].pc \notin {"read", "save", "proceed"},
         proc'[p].gen \in {0, proc[p].gen} \/ (dir.state # 0 /\ proc'[p].gen = dir.state),
         ProcOk(p)', CreateOk(p)', UseOk(p)'
  PROVE  IInv'
<1> USE DEF IInv
<1>1. ASSUME NEW q \in Procs PROVE (ProcOk(q) /\ CreateOk(q) /\ UseOk(q))'
  <2>1. CASE q = p
    BY <2>1
  <2>2. CASE q # p
    BY <2>2, OthersKeep DEF Keeps, Advance
  <2> QED BY <2>1, <2>2
<1>2. GenInv' /\ DirInv' /\ StartOnce'
  BY DEF GenInv, DirInv, StartOnce, Spent, Over
<1>3. OneInv'
  <2>1. \A q \in Procs : proc'[q].gen = 0 \/ proc'[q].gen = proc[q].gen
                         \/ (dir.state # 0 /\ proc'[q].gen = dir.state)
    OBVIOUS
  <2>2. \A q, r \in Procs : proc'[q].gen # 0 /\ proc'[r].gen # 0 => proc'[q].gen = proc'[r].gen
    BY SMT, <2>1 DEF OneInv
  <2>3. \A q \in Procs : proc'[q].gen # 0 /\ dir'.state # 0 => proc'[q].gen = dir'.state
    BY <2>1 DEF OneInv
  <2>4. \A g \in Gens : inits'[g] = "booting" =>
          \E q \in Procs : proc'[q].pc \in {"save", "proceed"} /\ proc'[q].gen = g
    BY SMT DEF OneInv
  <2> QED BY <2>2, <2>3, <2>4 DEF OneInv, Live
<1>4. FifoInv'
  <2>1. \A q \in fifo.conn : q \in Procs /\ q # p
    BY SMT DEF FifoInv, At, TypeOK
  <2>2. fifo.byte = 1 => \A q \in Procs : proc'[q].gen # 0 => starts'[proc'[q].gen].released
    BY DEF FifoInv
  <2> QED BY <2>1, <2>2 DEF FifoInv, At
<1> QED BY <1>1, <1>2, <1>3, <1>4 DEF ProcInv, CreateInv, UseInv

-----------------------------------------------------------------------------
(* Commands are issued.                                                    *)

LEMMA Issued ==
  ASSUME IInv, NEW p \in Procs, NEW cmd \in Commands, NEW step \in {"factory", "load"},
         At(p, "idle"), Become(p, Fresh(cmd, step), step),
         \A q \in Procs : ~Creating(q),
         step = "factory" => /\ \A q \in Procs : At(q, "idle")
                             /\ \E g \in Gens : inits[g] = "none",
         UNCHANGED <<dir, inits, kids, cg, fifo, starts>>
  PROVE  IInv'
<1> USE DEF IInv
<1>1. Fresh(cmd, step) \in Command /\ step \in Steps /\ step # "idle"
  BY SMT, IdleFacts DEF Steps
<1>2. /\ proc' \in [Procs -> Command] /\ (\A q \in Procs : q # p => proc'[q] = proc[q])
      /\ proc'[p].pc = step /\ proc'[p].gen = 0 /\ proc'[p].state = "loaded" /\ ~proc'[p].data
  <2>1. Fresh(cmd, step).gen = 0 /\ Fresh(cmd, step).state = "loaded" /\ ~Fresh(cmd, step).data
    BY <1>1, IdleFacts
  <2> QED BY <1>1, <2>1, BecomeFacts
<1>3. TypeOK'
  BY <1>2 DEF TypeOK
<1>4. ListInv'
  BY <1>2, ListKeep
<1>5. ProcOk(p)' /\ CreateOk(p)' /\ UseOk(p)'
  BY <1>2 DEF ProcOk, CreateOk, UseOk, At, Creating, Using
<1> QED BY <1>2, <1>3, <1>4, <1>5, LocalStep DEF At

LEMMA IssueStep == ASSUME IInv, NEW p \in 1..(Slots - 1), NEW cmd \in Commands, Issue(p, cmd) PROVE IInv'
<1>1. p \in Procs
  BY SMT, LifecycleAssumption DEF Procs
<1>2. PICK step \in {"factory", "load"} :
        /\ step = IF cmd \in {"create", "run"} THEN "factory" ELSE "load"
        /\ Become(p, Fresh(cmd, step), step)
  BY DEF Issue
<1>3. \A q \in Procs : ~Creating(q)
  BY DEF Issue, CallerOrder, Creating, At
<1>4. step = "factory" => /\ \A q \in Procs : At(q, "idle")
                          /\ \E g \in Gens : inits[g] = "none"
  BY <1>2 DEF Issue, CallerOrder
<1> QED BY <1>1, <1>2, <1>3, <1>4, Issued DEF Issue, FreeSlot

LEMMA CleanupStep == ASSUME IInv, Cleanup PROVE IInv'
<1>1. Slots \in Procs /\ "forcedelete" \in Commands
  BY SMT, LifecycleAssumption DEF Procs, Commands
<1>2. \A q \in Procs : ~Creating(q)
  BY DEF Cleanup, Creating
<1> QED BY <1>1, <1>2, Issued DEF Cleanup

-----------------------------------------------------------------------------
(* Steps that change no more than the command, its cgroup and the kids.    *)

\* While a command runs, no other one creates.
LEMMA NoCreator ==
  ASSUME ProcInv, NEW p \in Procs, ~At(p, "idle"), NEW q \in Procs, q # p
  PROVE  ~Creating(q)
BY DEF ProcInv, ProcOk

\* p, which uses the container, goes on to another step or returns.
LEMMA MoveStep ==
  ASSUME IInv, TypeOK', ListInv', NEW p \in Procs, Using(p), ~At(p, "read"),
         UNCHANGED <<dir, inits, fifo, starts>>,
         \A q \in Procs : q # p => proc'[q] = proc[q],
         \/ proc'[p] = Idle
         \/ /\ proc'[p].gen = proc[p].gen /\ proc'[p].data = proc[p].data
            /\ proc'[p].pc \in {"status", "open", "wait", "sigstatus", "signal", "unfreeze",
                 "poll", "freezeCmd", "thawCmd", "destroy", "freeze", "list", "sigall",
                 "thaw", "rmcgroup", "rmdir"}
            /\ proc'[p].state \in {proc[p].state, Observed(proc[p].gen)}
            /\ At(p, "destroy")' /\ proc'[p].state = "created" => Spent(proc[p].gen)
            /\ Destroying(p)' => Ended(proc[p].gen)
  PROVE  IInv'
<1> USE DEF IInv
<1>1. PICK g \in Gens : g = proc[p].gen
  BY GenFacts DEF Using
<1>2. Knows(p, g) /\ ProcOk(p)
  BY <1>1 DEF UseInv, UseOk, ProcInv
<1>3. ~At(p, "idle")
  BY <1>1, LifecycleAssumption DEF ProcInv, ProcOk, At, Using
<1>4. \A q \in Procs : q # p => ~Creating(q)
  BY <1>3, NoCreator
<1>5. CASE proc'[p] = Idle
  <2>1. proc'[p].pc = "idle" /\ proc'[p].gen = 0 /\ ~proc'[p].data
    BY <1>5, IdleFacts
  <2>2. ProcOk(p)' /\ CreateOk(p)' /\ UseOk(p)'
    BY <2>1, <1>5 DEF ProcOk, CreateOk, UseOk, At, Creating, Using, Idle
  <2> QED BY <2>1, <2>2, <1>4, LocalStep DEF Using, Creating, At
<1>6. CASE proc'[p] # Idle
  <2>1. ProcOk(p)' /\ CreateOk(p)'
    BY SMTT(20), <1>6, <1>1 DEF ProcOk, CreateOk, At, Creating, Gens
  <2>2. proc'[p].state = "stopped" => Over(g)
    BY SMT, <1>1, <1>2, <1>6, StatusFacts, AliveFacts, GenFacts DEF Knows, Over, TypeOK, InitStates
  <2>3. proc'[p].state = "running" => ~dir.fifo
    BY ZenonT(20), <1>1, <1>2, <1>6, StatusFacts, GenFacts DEF Knows
  <2>4. Knows(p, g)'
    <3>1. proc'[p].pc \notin {"read", "rmfifo"} /\ proc'[p].data = proc[p].data
      BY <1>6
    <3>2. /\ At(p, "destroy")' /\ proc'[p].state = "created" => Spent(g)'
          /\ Destroying(p)' => Ended(g)'
      BY <1>1, <1>6 DEF Spent, Ended, Over
    <3> QED BY <1>2, <2>2, <2>3, <3>1, <3>2 DEF Knows, At, Over, Spent
  <2>5. UseOk(p)' /\ proc'[p].gen = proc[p].gen
    BY <1>1, <1>6, <2>4 DEF UseOk
  <2> QED BY <2>1, <2>5, <1>4, LocalStep DEF Using, Creating, At
<1> QED BY <1>5, <1>6

\* A step that only refreshes the status.
LEMMA RefreshStep ==
  ASSUME IInv, NEW p \in Procs, Using(p), ~At(p, "read"),
         NEW step \in {"idle", "open", "signal", "sigstatus", "poll", "freezeCmd", "thawCmd",
                       "destroy", "freeze"},
         Refresh(p, step), UNCHANGED <<dir, inits, kids, cg, fifo, starts>>,
         step = "freeze" => proc[p].cmd = "killall",
         step = "destroy" /\ Refreshed(p) = "created" => Spent(proc[p].gen)
  PROVE  IInv'
<1> USE DEF IInv
<1>1. step \in Steps
  BY DEF Steps
<1>2. TypeOK'
  BY <1>1, RefreshFacts DEF TypeOK
<1>3. step # "idle" => proc'[p].pc = step /\ proc'[p].cmd = proc[p].cmd
  BY <1>1, RefreshFacts
<1>4. ListInv'
  BY SMT, <1>1, RefreshFacts, IdleFacts, ListKeep
<1>5. Destroying(p)' /\ step # "idle" => FALSE
  BY <1>3 DEF Destroying
<1> QED BY <1>1, <1>2, <1>3, <1>4, <1>5, RefreshFacts, MoveStep DEF At

\* A step that only goes on, and may change the cgroup.
LEMMA GotoStep ==
  ASSUME IInv, NEW p \in Procs, Using(p), ~At(p, "read"),
         NEW step \in {"idle", "wait", "poll", "destroy", "freeze", "list", "rmcgroup", "rmdir"},
         Goto(p, step), UNCHANGED <<dir, inits, kids, fifo, starts>>,
         cg' \in [exists : BOOLEAN, frozen : 0..Slots], cg'.frozen \in {0, p, cg.frozen},
         step = "destroy" /\ proc[p].state = "created" => Spent(proc[p].gen),
         step \in {"freeze", "list"} /\ proc[p].cmd # "killall" => Ended(proc[p].gen),
         step \in {"rmcgroup", "rmdir"} => Ended(proc[p].gen)
  PROVE  IInv'
<1> USE DEF IInv
<1>1. step \in Steps
  BY DEF Steps
<1>2. TypeOK'
  BY <1>1, GotoFacts DEF TypeOK
<1>3. step # "idle" => proc'[p].pc = step /\ proc'[p].cmd = proc[p].cmd
  BY <1>1, GotoFacts
<1>4. ListInv'
  BY SMT, <1>1, GotoFacts, IdleFacts, ListKeep
<1>5. Destroying(p)' /\ step # "idle" => Ended(proc[p].gen)
  BY <1>3 DEF Destroying
<1> QED BY <1>1, <1>2, <1>3, <1>4, <1>5, GotoFacts, MoveStep DEF At

\* p uses the container at every step past the load.
LEMMA UsingAt ==
  ASSUME ProcInv, NEW p \in Procs,
         proc[p].pc \in {"status", "open", "wait", "read", "rmfifo", "forward", "sigstatus",
           "signal", "unfreeze", "poll", "freezeCmd", "thawCmd", "destroy", "freeze", "list",
           "sigall", "thaw", "rmcgroup", "rmdir"}
  PROVE  Using(p)
BY DEF ProcInv, ProcOk, Using, Creating

LEMMA StatusStep == ASSUME IInv, NEW p \in Procs, currentStatus(p) PROVE IInv'
<1>1. Using(p) /\ ~At(p, "read")
  BY UsingAt DEF IInv, currentStatus, At
<1>2. PICK step : /\ step = IF RefreshOk(p) THEN AfterStatus(proc[p].cmd, Refreshed(p)) ELSE "idle"
                  /\ Refresh(p, step)
  BY DEF currentStatus
<1>3. /\ step \in {"idle", "open", "signal", "sigstatus", "freezeCmd", "thawCmd", "destroy", "freeze"}
      /\ step = "freeze" => proc[p].cmd = "killall"
      /\ step = "destroy" => Refreshed(p) = "stopped"
  <2>1. CASE ~RefreshOk(p)
    BY <1>2, <2>1
  <2>2. CASE RefreshOk(p) /\ proc[p].cmd \in {"kill", "killall"}
    BY <1>2, <2>2 DEF AfterStatus, killCommand
  <2>3. CASE RefreshOk(p) /\ proc[p].cmd \in {"start", "pause", "resume"}
    BY <1>2, <2>3 DEF AfterStatus, startCommand, pauseCommand, resumeCommand
  <2>4. CASE RefreshOk(p) /\ proc[p].cmd \notin {"kill", "killall", "start", "pause", "resume"}
    BY <1>2, <2>4 DEF AfterStatus, deleteCommand
  <2> QED BY <2>1, <2>2, <2>3, <2>4
<1> QED BY <1>1, <1>2, <1>3, RefreshStep DEF currentStatus

LEMMA SignalStatusStep == ASSUME IInv, NEW p \in Procs, signalStatus(p) PROVE IInv'
<1>1. Using(p) /\ ~At(p, "read")
  BY UsingAt DEF IInv, signalStatus, At
<1>2. PICK step \in {"signal", "poll"} : Refresh(p, step)
  BY DEF signalStatus
<1> QED BY <1>1, <1>2, RefreshStep DEF signalStatus

\* killContainer goes on to destroy only when the process is over, or when the
\* state in memory is not the status "created".
LEMMA PollStep == ASSUME IInv, NEW p \in Procs, killContainer(p) PROVE IInv'
<1>1. Using(p) /\ ~At(p, "read")
  BY UsingAt DEF IInv, killContainer, At
<1>2. PICK step \in {"poll", "idle", "destroy"} :
        /\ Refresh(p, step)
        /\ step = "destroy" => \/ ~RefreshOk(p) \/ Refreshed(p) = "stopped"
                               \/ inits[proc[p].gen] = "gone"
  BY DEF killContainer
<1>3. ~RefreshOk(p) => Refreshed(p) # "created"
  <2>1. proc[p].gen \in 0..MaxGen
    BY GenFacts DEF IInv
  <2>2. proc[p].state = "created" => RefreshOk(p)
    BY <2>1, StatusFacts DEF IInv, RefreshOk, transition
  <2> QED BY <2>2 DEF Refreshed
<1>4. step = "destroy" /\ Refreshed(p) = "created" => Spent(proc[p].gen)
  BY <1>2, <1>3 DEF Spent, Over
<1> QED BY <1>1, <1>2, <1>4, RefreshStep DEF killContainer

LEMMA OpenStep == ASSUME IInv, NEW p \in Procs, fifoOpen(p) PROVE IInv'
<1>1. Using(p) /\ ~At(p, "read")
  BY UsingAt DEF IInv, fifoOpen, At
<1>2. ~dir.fifo => Spent(proc[p].gen)
  BY <1>1 DEF IInv, UseInv, UseOk, Knows
<1>3. PICK step \in {"wait", "idle", "destroy"} : Goto(p, step) /\ (step = "destroy" => ~dir.fifo)
  BY DEF fifoOpen, ExecFails
<1> QED BY SMT, <1>1, <1>2, <1>3, GotoStep DEF fifoOpen, IInv, TypeOK

\* pause, resume, and the thaw of a kill.
LEMMA CgroupStep ==
  ASSUME IInv, NEW p \in Procs, unfreeze(p) \/ Pause(p) \/ Resume(p) PROVE IInv'
<1>1. Using(p) /\ ~At(p, "read")
  BY UsingAt DEF IInv, unfreeze, Pause, Resume, At
<1>2. PICK step \in {"idle", "poll"} : Goto(p, step)
  BY DEF unfreeze, Pause, Resume
<1>3. cg' \in [exists : BOOLEAN, frozen : 0..Slots] /\ cg'.frozen \in {0, p, cg.frozen}
  BY SMTT(20), LifecycleAssumption DEF unfreeze, Pause, Resume, IInv, TypeOK, Procs
<1>4. UNCHANGED <<dir, inits, kids, fifo, starts>>
  BY DEF unfreeze, Pause, Resume
<1> QED BY <1>1, <1>2, <1>3, <1>4, GotoStep

LEMMA EndedAt ==
  ASSUME IInv, NEW p \in Procs, Destroying(p) PROVE Ended(proc[p].gen)
<1>1. Using(p)
  BY UsingAt DEF IInv, Destroying
<1> QED BY <1>1 DEF IInv, UseInv, UseOk, Knows

LEMMA FreezeStep == ASSUME IInv, NEW p \in Procs, freezeAll(p) \/ destroyCgroup(p) PROVE IInv'
<1>1. Using(p) /\ ~At(p, "read")
  BY UsingAt DEF IInv, freezeAll, destroyCgroup, At
<1>2. PICK step \in {"list", "rmdir"} :
        /\ Goto(p, step)
        /\ step = "rmdir" => At(p, "rmcgroup")
        /\ step = "list" => At(p, "freeze")
  BY DEF freezeAll, destroyCgroup
<1>3. cg' \in [exists : BOOLEAN, frozen : 0..Slots] /\ cg'.frozen \in {0, p, cg.frozen}
  <2>1. CASE freezeAll(p)
    <3>1. /\ cg \in [exists : BOOLEAN, frozen : 0..Slots] /\ p \in 0..Slots
          /\ cg' = [cg EXCEPT !.frozen = IF cg.exists THEN p ELSE 0] /\ 0 \in 0..Slots
      BY SMT, <2>1, LifecycleAssumption DEF freezeAll, IInv, TypeOK, Procs
    <3>2. CASE cg.exists
      BY <3>1, <3>2
    <3>3. CASE ~cg.exists
      BY <3>1, <3>3
    <3> QED BY <3>2, <3>3
  <2>2. CASE destroyCgroup(p)
    <3>1. cg' \in {cg, NoCgroup}
      BY <2>2 DEF destroyCgroup
    <3>2. cg \in [exists : BOOLEAN, frozen : 0..Slots] /\ 0 \in 0..Slots
      BY SMT, LifecycleAssumption DEF IInv, TypeOK
    <3>3. NoCgroup \in [exists : BOOLEAN, frozen : 0..Slots] /\ NoCgroup.frozen = 0
      BY <3>2 DEF NoCgroup
    <3> QED BY <3>1, <3>2, <3>3
  <2> QED BY <2>1, <2>2
<1>4. UNCHANGED <<dir, inits, kids, fifo, starts>>
  BY DEF freezeAll, destroyCgroup
<1>5. /\ step = "list" /\ proc[p].cmd # "killall" => Ended(proc[p].gen)
      /\ step = "rmdir" => Ended(proc[p].gen)
  BY <1>2, EndedAt DEF Destroying, At
<1> QED BY <1>1, <1>2, <1>3, <1>4, <1>5, GotoStep

\* The thaw forgets the list and goes on as it came.
LEMMA ThawStep == ASSUME IInv, NEW p \in Procs, thawAll(p) PROVE IInv'
<1> USE DEF IInv
<1> DEFINE r == [proc[p] EXCEPT !.list = {}]
<1>1. Using(p) /\ ~At(p, "read")
  BY UsingAt DEF thawAll, At
<1>2. /\ r \in Command /\ r.cmd = proc[p].cmd /\ r.gen = proc[p].gen
      /\ r.state = proc[p].state /\ r.data = proc[p].data
  BY SMT DEF TypeOK, Command
<1>3. PICK step \in {"idle", "rmcgroup"} :
        Become(p, r, step) /\ (step = "rmcgroup" => proc[p].cmd # "killall")
  BY DEF thawAll
<1>4. step \in Steps
  BY DEF Steps
<1> HIDE DEF r
<1>5. /\ proc' \in [Procs -> Command] /\ \A q \in Procs : q # p => proc'[q] = proc[q]
      /\ step = "idle" => proc'[p] = Idle
      /\ step # "idle" => /\ proc'[p].pc = step /\ proc'[p].gen = proc[p].gen
                          /\ proc'[p].state = proc[p].state /\ proc'[p].data = proc[p].data
  BY <1>2, <1>3, <1>4, BecomeFacts
<1>6. TypeOK'
  BY SMT, <1>5, LifecycleAssumption DEF thawAll, TypeOK
<1>7. ListInv'
  BY SMT, <1>5, IdleFacts, ListKeep DEF thawAll, TypeOK
<1>8. step # "idle" => Ended(proc[p].gen)
  BY <1>3, EndedAt DEF thawAll, Destroying, At
<1> QED BY <1>1, <1>5, <1>6, <1>7, <1>8, MoveStep DEF thawAll, At

\* Once the processes are listed in a cgroup it froze itself, p has them all.
LEMMA ListStep == ASSUME IInv, NEW p \in Procs, listPids(p) PROVE IInv'
<1> USE DEF IInv
<1> DEFINE r == [proc[p] EXCEPT !.list = Listed(p)]
<1>1. Using(p) /\ ~At(p, "read")
  BY UsingAt DEF listPids, At
<1>2. Listed(p) \in SUBSET (0..MaxKids)
  BY SMT, LifecycleAssumption DEF Listed, Kids
<1>3. /\ r \in Command /\ r.cmd = proc[p].cmd /\ r.gen = proc[p].gen
      /\ r.state = proc[p].state /\ r.data = proc[p].data /\ r.list = Listed(p)
  BY SMT, <1>2 DEF TypeOK, Command
<1>4. Become(p, r, "sigall") /\ "sigall" \in Steps
  BY DEF listPids, Steps
<1> HIDE DEF r
<1>5. /\ proc' \in [Procs -> Command] /\ \A q \in Procs : q # p => proc'[q] = proc[q]
      /\ proc'[p].pc = "sigall" /\ proc'[p].gen = proc[p].gen /\ proc'[p].cmd = proc[p].cmd
      /\ proc'[p].state = proc[p].state /\ proc'[p].data = proc[p].data
      /\ proc'[p].list = Listed(p)
  BY <1>3, <1>4, BecomeFacts
<1>6. TypeOK'
  BY <1>5 DEF listPids, TypeOK
<1>7. ListInv'
  BY <1>5 DEF listPids, ListInv, At, Listed
<1>8. Destroying(p)' => Ended(proc[p].gen)
  BY <1>5, EndedAt DEF listPids, Destroying, At
<1> QED BY <1>1, <1>5, <1>6, <1>7, <1>8, MoveStep DEF listPids, At

\* LinuxFactory.Create finds the directory free.
LEMMA FactoryStep == ASSUME IInv, NEW p \in Procs, factoryCreate(p) PROVE IInv'
<1> USE DEF IInv
<1>1. PICK step \in {"idle", "mkdir"} : Goto(p, step) /\ (step = "mkdir" => ~dir.exists)
  BY DEF factoryCreate
<1>2. step \in Steps
  BY DEF Steps
<1>3. /\ proc' \in [Procs -> Command] /\ \A q \in Procs : q # p => proc'[q] = proc[q]
      /\ proc'[p] = Idle \/ (proc'[p].pc = "mkdir" /\ ~dir.exists /\ proc'[p].gen = proc[p].gen
                             /\ proc'[p].state = proc[p].state /\ proc'[p].data = proc[p].data)
  BY <1>1, <1>2, GotoFacts
<1>4. TypeOK'
  BY <1>3 DEF factoryCreate, TypeOK
<1>5. ListInv'
  BY <1>3, IdleFacts, ListKeep DEF factoryCreate
<1>6. At(p, "factory") /\ Creating(p) /\ proc[p].gen = 0 /\ ProcOk(p) /\ CreateOk(p)
  BY DEF factoryCreate, ProcInv, ProcOk, At, Creating, CreateInv
<1>7. proc'[p].gen = 0
  BY <1>3, <1>6, IdleFacts
<1>8. ProcOk(p)' /\ CreateOk(p)' /\ UseOk(p)'
  <2>1. CASE proc'[p] = Idle
    BY <2>1, IdleFacts DEF ProcOk, CreateOk, UseOk, At, Creating, Using
  <2>2. CASE proc'[p].pc = "mkdir"
    BY SMT, <2>2, <1>3, <1>6, <1>7, IdleFacts
       DEF factoryCreate, ProcOk, CreateOk, UseOk, At, Creating, Using
  <2> QED BY <1>3, <2>1, <2>2
<1>9. \A q \in Procs : q # p => ~Creating(q)
  BY <1>6, NoCreator DEF At
<1> QED BY <1>3, <1>4, <1>5, <1>6, <1>7, <1>8, <1>9, LocalStep DEF factoryCreate, At

LEMMA LoadedType ==
  ASSUME NEW c \in Command, NEW g \in 0..MaxGen, NEW st \in MemStates
  PROVE  [c EXCEPT !.gen = g, !.state = st] \in Command
BY DEF Command

\* The container is loaded: the command learns which creation it is.
LEMMA LoadStep == ASSUME IInv, NEW p \in Procs, load(p) PROVE IInv'
<1> USE DEF IInv
<1>1. At(p, "load") /\ proc[p].gen = 0 /\ ~proc[p].data
  BY DEF load, ProcInv, ProcOk, At
<1>2. \A q \in Procs : q # p => ~Creating(q)
  BY <1>1, NoCreator DEF At
<1>3. CASE dir.state = 0
  <2>1. PICK step \in {"rmpath", "idle"} : Goto(p, step)
    BY <1>3 DEF load
  <2>2. step \in Steps
    BY DEF Steps
  <2>3. /\ proc' \in [Procs -> Command] /\ \A q \in Procs : q # p => proc'[q] = proc[q]
        /\ proc'[p] = Idle \/ proc'[p].pc = "rmpath"
        /\ proc'[p].gen = 0 /\ ~proc'[p].data
    BY <2>1, <2>2, <1>1, GotoFacts, IdleFacts
  <2>4. TypeOK'
    BY <2>3 DEF load, TypeOK
  <2>5. ListInv'
    BY <2>3, IdleFacts, ListKeep DEF load
  <2>6. ProcOk(p)' /\ CreateOk(p)' /\ UseOk(p)'
    BY <2>3, <1>3, IdleFacts DEF load, ProcOk, CreateOk, UseOk, At, Creating, Using
  <2> QED BY <1>1, <1>2, <2>3, <2>4, <2>5, <2>6, LocalStep DEF load, At
<1>4. CASE dir.state # 0
  <2> DEFINE r == [proc[p] EXCEPT !.gen = dir.state, !.state = Observed(dir.state)]
  <2>1. dir.state \in Gens /\ dir.state \in 0..MaxGen
    BY <1>4, GenFacts
  <2>2. r \in Command /\ r.gen = dir.state /\ r.state = Observed(dir.state) /\ r.data = proc[p].data
    <3>1. Observed(dir.state) \in MemStates
      BY <2>1, StatusFacts DEF MemStates
    <3>2. proc[p] \in Command
      BY DEF TypeOK
    <3>3. PICK c \in Command, g \in 0..MaxGen, st \in MemStates :
            c = proc[p] /\ g = dir.state /\ st = Observed(dir.state)
      BY <2>1, <3>1, <3>2
    <3>4. r = [c EXCEPT !.gen = g, !.state = st]
      BY <3>3
    <3> HIDE DEF r
    <3>5. r \in Command
      BY <3>4, LoadedType
    <3>6. r.gen = g /\ r.state = st /\ r.data = c.data
      BY <3>4, SMT DEF Command
    <3> QED BY <3>3, <3>5, <3>6
  <2>3. Become(p, r, "status") /\ "status" \in Steps
    BY <1>4 DEF load, Steps
  <2> HIDE DEF r
  <2>4. /\ proc' \in [Procs -> Command] /\ \A q \in Procs : q # p => proc'[q] = proc[q]
        /\ proc'[p].pc = "status" /\ proc'[p].gen = dir.state /\ ~proc'[p].data
        /\ proc'[p].state = Observed(dir.state)
    BY SMT, <2>2, <2>3, <1>1, BecomeFacts
  <2>5. TypeOK'
    BY <2>4 DEF load, TypeOK
  <2>6. ListInv'
    BY <2>4, ListKeep DEF load
  <2>7. PICK g \in Gens : g = dir.state
    BY <2>1
  <2>8. inits[g] \notin {"none", "booting"}
    <3>1. inits[g] # "booting"
      BY <1>1, <1>2, <2>7 DEF OneInv, Creating, At
    <3> QED BY <3>1, <2>7, <1>4 DEF DirInv
  <2>9. proc'[p].state = "stopped" => Over(g)
    BY <2>1, <2>4, <2>7, <2>8, StatusFacts, AliveFacts DEF Over, TypeOK, InitStates
  <2>10. proc'[p].state = "running" => ~dir.fifo
    BY <2>1, <2>4, StatusFacts
  <2>11. Knows(p, g)'
    BY <1>4, <2>4, <2>7, <2>8, <2>9, <2>10 DEF load, DirInv, Knows, At, Over, Spent, Destroying
  <2>12. ProcOk(p)' /\ CreateOk(p)' /\ UseOk(p)'
    BY <1>4, <2>4, <2>7, <2>11 DEF ProcOk, CreateOk, UseOk, At, Creating
  <2> QED BY <1>1, <1>2, <1>4, <2>4, <2>5, <2>6, <2>12, LocalStep DEF load, At
<1> QED BY <1>3, <1>4

-----------------------------------------------------------------------------
(* Steps of a command that uses the container and changes more.            *)

\* A command that runs and does not create is not beside a creation.
LEMMA NoBooting ==
  ASSUME IInv, NEW p \in Procs, Using(p), NEW g \in Gens
  PROVE  inits[g] # "booting" /\ ~At(p, "idle")
<1>1. ~At(p, "idle")
  BY DEF IInv, ProcInv, ProcOk, At, Using
<1> QED BY SMT, <1>1, NoCreator DEF IInv, OneInv, Using, Creating

\* Such a step keeps the invariant if it keeps what the others know of the one
\* creation they all have in hand.
LEMMA UserStep ==
  ASSUME IInv, TypeOK', ListInv', NEW p \in Procs, Using(p),
         NEW g \in Gens, g = proc[p].gen, Keeps(g), proc'[p].gen \in {0, g},
         \A q \in Procs : q # p => proc'[q] = proc[q],
         \A h \in Gens : h # g => inits'[h] = inits[h] /\ starts'[h] = starts[h],
         ~dir'.exists => dir' = NoDir,
         dir'.state # dir.state => ~Live(g)',
         ProcOk(p)', CreateOk(p)', UseOk(p)', FifoInv', StartOnce'
  PROVE  IInv'
<1> USE DEF IInv
<1>1. inits[g] \notin {"none", "booting"}
  BY DEF UseInv, UseOk, Knows
<1>2. \A q \in Procs : q # p => ~Creating(q)
  BY NoBooting, NoCreator
<1>3. ASSUME NEW q \in Procs PROVE (ProcOk(q) /\ CreateOk(q) /\ UseOk(q))'
  <2>1. CASE q = p
    BY <2>1
  <2>2. CASE q # p
    <3>1. proc[q].gen # 0 => proc[q].gen = g
      BY SMT, LifecycleAssumption DEF OneInv, Gens
    <3>2. dir'.state \in {0, dir.state}
      BY DEF Keeps
    <3> QED BY ZenonT(20), <2>2, <1>2, <3>1, <3>2, OthersKeep
  <2> QED BY <2>1, <2>2
<1>4. GenInv'
  <2>1. \A h \in Gens : inits'[h] = "none" <=> inits[h] = "none"
    BY DEF Keeps, Advance
  <2>2. \A h \in Gens : inits[h] \in {"none", "booting"} => starts'[h] = starts[h]
    BY <1>1
  <2>3. \A h \in Gens : inits'[h] = "booting" => inits[h] = "booting"
    BY DEF Keeps, Advance
  <2> QED BY <2>1, <2>2, <2>3 DEF GenInv
<1>5. OneInv'
  <2>0. \A q \in Procs : proc'[q].gen # 0 => proc[q].gen = proc'[q].gen
    OBVIOUS
  <2>1. \A q, r \in Procs : proc'[q].gen # 0 /\ proc'[r].gen # 0 => proc'[q].gen = proc'[r].gen
    <3>1. \A q, r \in Procs : proc[q].gen # 0 /\ proc[r].gen # 0 => proc[q].gen = proc[r].gen
      BY DEF OneInv
    <3>2. ASSUME NEW q \in Procs, NEW r \in Procs, proc'[q].gen # 0, proc'[r].gen # 0
          PROVE  proc'[q].gen = proc'[r].gen
      <4>1. proc[q].gen = proc'[q].gen /\ proc[r].gen = proc'[r].gen
        BY <2>0, <3>2
      <4> QED BY <3>1, <3>2, <4>1
    <3> QED BY <3>2
  <2>2. \A q \in Procs : proc'[q].gen # 0 /\ dir'.state # 0 => proc'[q].gen = dir'.state
    <3>1. dir'.state # 0 => dir'.state = dir.state
      BY DEF Keeps
    <3>2. ASSUME NEW q \in Procs, proc'[q].gen # 0, dir'.state # 0 PROVE proc'[q].gen = dir'.state
      <4>1. proc[q].gen = proc'[q].gen
        BY <2>0, <3>2
      <4> QED BY <3>1, <3>2, <4>1 DEF OneInv
    <3> QED BY <3>2
  <2>3. \A h \in Gens : Live(h)' => dir'.state = h
    <3>1. \A h \in Gens : Live(h)' => Live(h)
      BY DEF Live, Keeps, Advance
    <3>2. \A h \in Gens : h # 0
      BY SMT, LifecycleAssumption DEF Gens
    <3>3. \A h \in Gens : Live(h) => dir.state = h /\ h = g
      BY SMT, <3>2 DEF OneInv
    <3> QED BY <3>1, <3>3
  <2>4. \A h \in Gens : inits'[h] # "booting"
    <3>1. inits'[g] # "booting"
      BY NoBooting DEF Keeps, Advance
    <3> QED BY <3>1, NoBooting
  <2> QED BY ZenonT(20), <2>1, <2>2, <2>3, <2>4 DEF OneInv
<1>6. DirInv'
  <2> SUFFICES ASSUME dir'.state # 0 PROVE DirInv'
    BY DEF DirInv
  <2>1. dir'.state = g /\ dir.state = g
    <3>1. dir'.state = dir.state /\ g # 0
      BY SMT, LifecycleAssumption DEF Keeps, Gens
    <3> QED BY <3>1 DEF OneInv
  <2>2. fifo'.byte \in 0..1 /\ fifo.byte \in 0..1
    BY DEF TypeOK
  <2>3. Spent(g) => Spent(g)'
    <3>1. Advance(g) /\ (inits[g] # "opened" /\ fifo.byte = 0 => fifo'.byte = 0)
      BY SMT, <2>2 DEF Keeps
    <3> QED BY <3>1 DEF Advance, Spent, Over
  <2>4. inits'[g] # "none"
    BY <1>1 DEF Keeps, Advance
  <2> QED BY <2>1, <2>3, <2>4 DEF DirInv, Keeps
<1> QED BY <1>3, <1>4, <1>5, <1>6 DEF ProcInv, CreateInv, UseInv

\* A step of the process of creation g.
LEMMA HostStep ==
  ASSUME IInv, TypeOK', UNCHANGED <<proc, dir, kids, cg>>, NEW g \in Gens,
         Advance(g), inits[g] \notin {"none", "booting"},
         \A h \in Gens : h # g => inits'[h] = inits[h] /\ starts'[h] = starts[h],
         starts'[g].won = starts[g].won, starts[g].released => starts'[g].released,
         fifo'.byte = 1 => fifo.byte = 1 \/ inits[g] = "opened",
         FifoInv'
  PROVE  IInv'
<1> USE DEF IInv
<1>1. inits[g] = "opened" => dir.state = g
  BY DEF OneInv, Live
<1>2. fifo'.byte \in 0..1 /\ fifo.byte \in 0..1
  BY DEF TypeOK
<1>3. ASSUME NEW q \in Procs PROVE (ProcOk(q) /\ CreateOk(q) /\ UseOk(q))'
  <2>1. CASE Creating(q)
    <3>1. ProcOk(q)' /\ UseOk(q)'
      BY <2>1 DEF ProcInv, ProcOk, UseOk, Using, Creating, At
    <3>2. CreateOk(q)'
      <4>1. \A h \in Gens : (inits[h] = "none" <=> inits'[h] = "none")
                            /\ (inits[h] = "booting" => inits'[h] = "booting")
        BY DEF Advance
      <4>2. proc[q].pc \notin {"factory", "mkdir"} => proc[q].gen \in Gens
        BY <2>1, GenFacts DEF Creating
      <4>3. At(q, "abort") => inits'[proc[q].gen] \in {"none", "dying", "zombie", "gone"}
        BY <4>2 DEF CreateInv, CreateOk, At, Advance
      <4> QED BY <4>1, <4>2, <4>3 DEF CreateInv, CreateOk, At, Creating
    <3> QED BY <3>1, <3>2
  <2>2. CASE ~Creating(q)
    <3>1. ASSUME proc[q].gen # 0 PROVE Keeps(proc[q].gen)
      <4>1. proc[q].gen \in Gens /\ (inits[g] = "opened" => proc[q].gen = g)
        BY SMT, <3>1, <1>1, GenFacts, LifecycleAssumption DEF OneInv, Gens
      <4> QED BY <4>1 DEF Keeps, Advance
    <3> QED BY <2>2, <3>1, OthersKeep
  <2> QED BY <2>1, <2>2
<1>4. GenInv'
  BY DEF GenInv, Advance
<1>5. OneInv'
  BY SMT DEF OneInv, Live, Advance
<1>6. DirInv'
  <2> SUFFICES ASSUME dir.state # 0 PROVE DirInv'
    BY DEF DirInv
  <2>1. PICK h \in Gens : h = dir.state
    BY SMTT(20), GenFacts, LifecycleAssumption DEF TypeOK, Gens
  <2>2. Advance(h) /\ (fifo'.byte = 1 => fifo.byte = 1 \/ inits[h] = "opened")
    BY <2>1, <1>1 DEF Advance
  <2>3. (Spent(h) => Spent(h)') /\ (inits[h] # "none" => inits'[h] # "none")
    BY SMT, <2>2, <1>2 DEF Advance, Spent, Over
  <2>4. starts'[h].won = starts[h].won
    OBVIOUS
  <2> QED BY <2>1, <2>3, <2>4 DEF DirInv
<1>7. StartOnce' /\ ListInv'
  BY DEF StartOnce, ListInv, At
<1> QED BY <1>3, <1>4, <1>5, <1>6, <1>7 DEF ProcInv, CreateInv, UseInv

\* A kill, and a reaping, keep what the others know.
LEMMA KillKeeps ==
  ASSUME IInv, NEW g \in Gens, inits[g] # "none", UNCHANGED <<dir, fifo, starts>>,
         \/ inits' = inits \/ inits' = KillInit(g)
         \/ inits[g] \in {"zombie", "gone"} /\ inits' = [inits EXCEPT ![g] = "gone"]
  PROVE  /\ Keeps(g) /\ inits' \in [Gens -> InitStates]
         /\ \A h \in Gens : h # g => inits'[h] = inits[h]
<1>1. inits \in [Gens -> InitStates] /\ "gone" \in InitStates
  BY DEF IInv, TypeOK, InitStates
<1>2. /\ inits' \in [Gens -> InitStates]
      /\ \A h \in Gens : h # g => inits'[h] = inits[h]
      /\ \/ inits'[g] = inits[g]
         \/ inits[g] \notin {"none", "zombie", "gone"} /\ inits'[g] = "dying"
         \/ inits[g] \in {"zombie", "gone"} /\ inits'[g] = "gone"
  BY <1>1, KillFacts DEF IInv
<1> QED BY <1>2 DEF Keeps, Advance

\* FifoInv survives a kill: a killed process still holds its end of the fifo.
LEMMA KillFifo ==
  ASSUME IInv, NEW p \in Procs, NEW g \in Gens, g = proc[p].gen,
         UNCHANGED <<dir, fifo, starts>>, ~At(p, "read"),
         proc'[p].gen \in {0, g}, \A q \in Procs : q # p => proc'[q] = proc[q],
         inits'[g] \in {inits[g], "dying"} \/ (Over(g) /\ inits'[g] = "gone"),
         \A h \in Gens : h # g => inits'[h] = inits[h]
  PROVE  FifoInv'
<1> USE DEF IInv
<1>1. \A q \in fifo.conn : q \in Procs /\ q # p
  BY SMT DEF FifoInv, At, TypeOK
<1>2. fifo.byte = 1 => \A q \in Procs : proc'[q].gen # 0 => starts'[proc'[q].gen].released
  BY DEF FifoInv
<1>3. dir.state # 0 /\ inits[dir.state] \in {"hooks", "dying"} =>
        inits'[dir.state] \in {"hooks", "dying"}
  BY GenFacts DEF Over
<1> QED BY <1>1, <1>2, <1>3 DEF FifoInv, At

\* A step that kills, or reaps, and goes on.
LEMMA KillGoto ==
  ASSUME IInv, ListInv', NEW p \in Procs, Using(p), ~At(p, "read"),
         NEW step \in {"idle", "unfreeze", "poll", "freeze", "rmcgroup", "destroy", "thaw"},
         Goto(p, step), UNCHANGED <<dir, cg, fifo, starts>>,
         kids' \in [Kids -> {"none", "alive", "dying"}],
         NEW g \in Gens, g = proc[p].gen,
         \/ inits' = inits \/ inits' = KillInit(g)
         \/ inits[g] \in {"zombie", "gone"} /\ inits' = [inits EXCEPT ![g] = "gone"],
         step = "destroy" /\ proc[p].state = "created" => Spent(g)',
         step \in {"freeze", "thaw"} /\ proc[p].cmd # "killall" => Ended(g)',
         step = "rmcgroup" => Ended(g)'
  PROVE  IInv'
<1> USE DEF IInv
<1>1. step \in Steps /\ Knows(p, g) /\ ~Creating(p)
  BY DEF Steps, UseInv, UseOk, Using
<1>2. /\ proc' \in [Procs -> Command] /\ \A q \in Procs : q # p => proc'[q] = proc[q]
      /\ step = "idle" => proc'[p] = Idle
      /\ step # "idle" => /\ proc'[p].pc = step /\ proc'[p].cmd = proc[p].cmd
                          /\ proc'[p].gen = g /\ proc'[p].state = proc[p].state
                          /\ proc'[p].data = proc[p].data
  BY SMT, <1>1, GotoFacts
<1>3. /\ Keeps(g) /\ inits' \in [Gens -> InitStates]
      /\ \A h \in Gens : h # g => inits'[h] = inits[h]
  BY <1>1, KillKeeps DEF Knows
<1>4. TypeOK'
  BY <1>2, <1>3 DEF TypeOK
<1>5. inits'[g] \in {inits[g], "dying"} \/ (Over(g) /\ inits'[g] = "gone")
  BY SMT, KillFacts DEF Over, TypeOK
<1>6. proc'[p].gen \in {0, g}
  BY <1>2, IdleFacts
<1>7. FifoInv'
  BY <1>2, <1>3, <1>5, <1>6, KillFifo
<1>8. ProcOk(p)' /\ CreateOk(p)' /\ UseOk(p)'
  <2>1. CASE step = "idle"
    BY <2>1, <1>2, IdleFacts DEF ProcOk, CreateOk, UseOk, At, Creating, Using
  <2>2. CASE step # "idle"
    <3>1. ProcOk(p)' /\ CreateOk(p)'
      BY SMT, <2>2, <1>2, LifecycleAssumption DEF ProcOk, CreateOk, At, Creating, Gens
    <3>2. /\ inits'[g] \notin {"none", "booting"} /\ (Over(g) => Over(g)')
          /\ inits[g] \in {"hooks", "running", "dying", "zombie", "gone"} =>
               inits'[g] \in {"hooks", "running", "dying", "zombie", "gone"}
      BY <1>1, <1>3 DEF Knows, Keeps, Advance, Over
    <3>3. Spent(g) => Spent(g)'
      BY <1>1, <1>3 DEF Knows, Keeps, Advance, Spent, Over
    <3>4. Knows(p, g)'
      BY <2>2, <1>1, <1>2, <3>2, <3>3 DEF Knows, At, Destroying
    <3> QED BY <2>2, <1>2, <3>1, <3>4 DEF UseOk
  <2> QED BY <2>1, <2>2
<1>9. StartOnce'
  BY DEF StartOnce
<1>10. ~dir'.exists => dir' = NoDir
  BY DEF DirInv
<1> QED BY <1>2, <1>3, <1>4, <1>6, <1>7, <1>8, <1>9, <1>10, UserStep

LEMMA SignalStep == ASSUME IInv, NEW p \in Procs, Signal(p) PROVE IInv'
<1> USE DEF IInv
<1>1. Using(p) /\ ~At(p, "read")
  BY UsingAt DEF Signal, At
<1>2. PICK g \in Gens : g = proc[p].gen
  BY <1>1, GenFacts DEF Using
<1>3. PICK step \in {"unfreeze", "idle", "poll"} : Goto(p, step)
  BY DEF Signal
<1>4. ListInv'
  <2>1. UNCHANGED <<kids, cg>> /\ step \in Steps /\ step \notin {"sigall", "thaw"}
    BY DEF Signal, Steps
  <2>2. proc'[p].pc \notin {"sigall", "thaw"} /\ \A q \in Procs : q # p => proc'[q] = proc[q]
    BY <1>3, <2>1, GotoFacts, IdleFacts
  <2> QED BY <2>1, <2>2, ListKeep
<1>5. kids' \in [Kids -> {"none", "alive", "dying"}]
  BY DEF Signal, TypeOK
<1> QED BY <1>1, <1>2, <1>3, <1>4, <1>5, KillGoto DEF Signal

LEMMA ForwardStep == ASSUME IInv, NEW p \in Procs, forward(p) PROVE IInv'
<1> USE DEF IInv
<1>1. Using(p) /\ ~At(p, "read")
  BY UsingAt DEF forward, At
<1>2. PICK g \in Gens : g = proc[p].gen
  BY <1>1, GenFacts DEF Using
<1>3. ListInv'
  BY GotoFacts, ListKeep DEF forward, Steps
<1>4. kids' \in [Kids -> {"none", "alive", "dying"}]
  BY DEF forward, TypeOK
<1>5. Spent(g)'
  BY <1>2 DEF forward, Spent, Over, TypeOK
<1> QED BY <1>1, <1>2, <1>3, <1>4, <1>5, KillGoto DEF forward

\* Every process that may fork is on the list, and is signalled.
LEMMA SigallStep == ASSUME IInv, NEW p \in Procs, signalPids(p) PROVE IInv'
<1> USE DEF IInv
<1>1. Using(p) /\ ~At(p, "read")
  BY UsingAt DEF signalPids, At
<1>2. PICK g \in Gens : g = proc[p].gen
  BY <1>1, GenFacts DEF Using
<1>3. Goto(p, "thaw") /\ "thaw" \in Steps /\ inits' \in {inits, KillInit(g)}
  BY <1>2 DEF signalPids, Steps
<1>4. \A k \in Kids : kids'[k] \in {"none", "alive", "dying"} /\ (kids'[k] = "alive" => kids[k] = "alive" /\ k \notin proc[p].list)
  BY DEF signalPids, TypeOK
<1>5. kids' \in [Kids -> {"none", "alive", "dying"}]
  BY <1>4 DEF signalPids
<1>6. ListInv'
  <2>1. /\ proc'[p].pc = "thaw" /\ \A q \in Procs : q # p => proc'[q] = proc[q]
    BY <1>3, GotoFacts
  <2> QED BY <2>1, <1>4 DEF signalPids, ListInv, At
<1>7. proc[p].cmd # "killall" => Ended(g)'
  <2>1. proc[p].cmd # "killall" => Ended(g)
    BY <1>2, EndedAt DEF signalPids, Destroying, At
  <2>2. inits[g] # "none" /\ Ended(g) => Ended(g)'
    BY <1>3, KillFacts DEF signalPids, Ended, Over
  <2>3. inits[g] # "none"
    BY <1>1, <1>2 DEF UseInv, UseOk, Knows
  <2> QED BY <2>1, <2>2, <2>3
<1> QED BY <1>1, <1>2, <1>3, <1>5, <1>6, <1>7, KillGoto DEF signalPids

\* Destroy goes on only when the process is over, or killed and its byte read.
LEMMA DestroyStep1 == ASSUME IInv, NEW p \in Procs, Destroy(p) PROVE IInv'
<1> USE DEF IInv
<1>1. Using(p) /\ ~At(p, "read")
  BY UsingAt DEF Destroy, At
<1>2. PICK g \in Gens : g = proc[p].gen
  BY <1>1, GenFacts DEF Using
<1>3. Knows(p, g) /\ At(p, "destroy") /\ g \in 0..MaxGen
  BY SMT, <1>1, <1>2 DEF UseInv, UseOk, Destroy, Gens
<1>4. runType(g) = "stopped" => Over(g)
  BY <1>3, StatusFacts, AliveFacts DEF Knows, Over, TypeOK, InitStates
<1>5. UNCHANGED <<dir, kids, fifo, starts>>
  BY DEF Destroy
<1>6. CASE proc[p].state = "created" /\ inits' = KillInit(g) /\ cg' = cg /\ DestroyBegin(p)
  <2>1. PICK step \in {"rmcgroup", "freeze"} : Goto(p, step)
    BY <1>6 DEF DestroyBegin
  <2>2. Ended(g)'
    BY <1>3, <1>5, <1>6, KillFacts DEF Knows, Spent, Ended, Over
  <2>3. ListInv'
    BY <2>1, <1>5, <1>6, GotoFacts, ListKeep DEF Steps
  <2> QED BY <1>1, <1>2, <1>5, <1>6, <2>1, <2>2, <2>3, KillGoto DEF TypeOK
<1>7. CASE UNCHANGED inits
  <2>1. cg' \in [exists : BOOLEAN, frozen : 0..Slots] /\ cg'.frozen \in {0, p, cg.frozen}
    BY SMT, LifecycleAssumption DEF Destroy, TypeOK
  <2>2. PICK step \in {"idle", "rmcgroup", "freeze"} :
          /\ Goto(p, step)
          /\ \/ step = "idle" \/ (proc[p].state = "paused" /\ runType(g) = "stopped")
             \/ (proc[p].state = "created" /\ inits' = KillInit(g) /\ cg' = cg /\ DestroyBegin(p))
             \/ proc[p].state = "stopped"
             \/ (proc[p].state = "running" /\ runType(g) # "running")
    BY <1>2 DEF Destroy, DestroyBegin
  <2>3. CASE step = "idle"
    BY <1>1, <1>5, <1>7, <2>1, <2>2, <2>3, GotoStep
  <2>4. CASE (proc[p].state = "created" /\ inits' = KillInit(g) /\ cg' = cg /\ DestroyBegin(p))
    BY <2>4, <1>6
  <2>5. CASE step # "idle" /\ ~(proc[p].state = "created" /\ inits' = KillInit(g) /\ cg' = cg /\ DestroyBegin(p))
    <3>1. proc[p].state = "running" /\ runType(g) # "running" => runType(g) = "stopped"
      BY <1>3 DEF Knows, runType
    <3>2. Ended(g)
      BY <1>3, <1>4, <2>2, <2>5, <3>1 DEF Knows, Ended
    <3> QED BY <1>1, <1>2, <1>5, <1>7, <2>1, <2>2, <3>2, GotoStep
  <2> QED BY <2>3, <2>4, <2>5
<1> QED BY <1>2, <1>6, <1>7 DEF Destroy

-----------------------------------------------------------------------------
(* start: the exec fifo.                                                   *)

\* A step of the exec: p, which has creation g in hand, goes on to `step' with
\* r in memory, ...
ExecGoes(p, g, r, step) ==
  /\ Using(p) /\ g = proc[p].gen
  /\ r \in Command /\ r.gen = g /\ r.cmd = proc[p].cmd /\ r.state = proc[p].state
  /\ step \in {"idle", "read", "rmfifo", "forward", "destroy"} /\ Become(p, r, step)
  /\ UNCHANGED <<inits, kids, cg>>

\* ... may take the fifo away or read from it, ...
ExecLeaves(g) ==
  /\ dir' \in [exists : BOOLEAN, fifo : BOOLEAN, state : 0..MaxGen]
  /\ dir'.exists = dir.exists /\ dir'.state = dir.state /\ (dir'.fifo => dir.fifo)
  /\ dir.fifo /\ ~dir'.fifo => Spent(g)'
  /\ ~dir'.exists => dir' = NoDir
  /\ fifo' \in [conn : SUBSET Procs, byte : 0..1] /\ fifo'.byte <= fifo.byte
  /\ starts' \in [Gens -> [won : Nat, released : BOOLEAN]]
  /\ \A h \in Gens : h # g => starts'[h] = starts[h]
  /\ starts'[g].released = starts[g].released
  /\ dir'.fifo => starts'[g].won = starts[g].won
  /\ StartOnce'

\* ... and knows what it has to know there.
ExecLearns(p, g, r, step) ==
  /\ step \in {"read", "rmfifo"} => inits[g] # "blocked"
  /\ step = "rmfifo" => r.data /\ inits[g] \notin {"opened", "hooks"}
  /\ r.data => /\ starts[g].released /\ fifo'.byte = 0
               /\ inits[g] \in {"hooks", "running", "dying", "zombie", "gone"}
  /\ step = "destroy" /\ proc[p].state = "created" => Spent(g)'
  /\ fifo'.conn \subseteq (fifo.conn \cup {p}) /\ (p \in fifo'.conn => step = "read")
  /\ fifo'.byte = 1 =>
       fifo'.conn # {} \/ (dir.state # 0 /\ inits[dir.state] \in {"hooks", "dying"})

LEMMA ExecStep ==
  ASSUME IInv, NEW p \in Procs, NEW g \in Gens, NEW r, NEW step,
         ExecGoes(p, g, r, step), ExecLeaves(g), ExecLearns(p, g, r, step)
  PROVE  IInv'
<1> USE DEF IInv
<1>1. step \in Steps /\ Knows(p, g) /\ ~Creating(p)
  BY DEF ExecGoes, Steps, UseInv, UseOk, Using
<1>2. /\ proc' \in [Procs -> Command] /\ \A q \in Procs : q # p => proc'[q] = proc[q]
      /\ step = "idle" => proc'[p] = Idle
      /\ step # "idle" => /\ proc'[p].pc = step /\ proc'[p].cmd = proc[p].cmd
                          /\ proc'[p].gen = g /\ proc'[p].state = proc[p].state
                          /\ proc'[p].data = r.data
  BY SMT, <1>1, BecomeFacts DEF ExecGoes
<1>3. TypeOK'
  BY <1>2 DEF TypeOK, ExecGoes, ExecLeaves
<1>4. fifo'.byte = 1 => fifo.byte = 1
  BY SMT DEF TypeOK, ExecLeaves
<1>5. Keeps(g)
  BY <1>1, <1>4 DEF Keeps, Advance, Knows, ExecGoes, ExecLeaves
<1>6. ListInv'
  <2>1. proc'[p].pc \notin {"sigall", "thaw"}
    BY <1>2, IdleFacts DEF ExecGoes
  <2> QED BY <1>2, <2>1, ListKeep DEF ExecGoes
<1>7. proc'[p].gen \in {0, g}
  BY <1>2, IdleFacts
<1>8. FifoInv'
  <2>1. \A q \in fifo'.conn : At(q, "read")'
    <3>1. \A q \in fifo'.conn : q \in Procs
      BY DEF ExecLeaves
    <3>2. \A q \in fifo'.conn : q # p => q \in fifo.conn
      BY DEF ExecLearns
    <3>3. p \in fifo'.conn => proc'[p].pc = "read"
      BY <1>2 DEF ExecLearns
    <3> QED BY <3>1, <3>2, <3>3, <1>2 DEF FifoInv, At
  <2>2. fifo'.byte = 1 => \A q \in Procs : proc'[q].gen # 0 => starts'[proc'[q].gen].released
    <3>1. \A q \in Procs : proc'[q].gen # 0 => proc[q].gen = proc'[q].gen /\ proc[q].gen \in Gens
      BY <1>2, <1>7, GenFacts DEF ExecGoes
    <3>2. \A h \in Gens : starts[h].released => starts'[h].released
      BY DEF ExecLeaves
    <3> QED BY <1>4, <3>1, <3>2 DEF FifoInv
  <2>3. fifo'.byte = 1 /\ dir'.state # 0 => starts'[dir'.state].released
    <3>1. dir.state # 0 => dir.state \in Gens
      BY GenFacts
    <3>2. dir'.state = dir.state /\ \A h \in Gens : starts[h].released => starts'[h].released
      BY DEF ExecLeaves
    <3> QED BY <1>4, <3>1, <3>2 DEF FifoInv
  <2>4. /\ inits' = inits /\ dir'.state = dir.state
        /\ fifo'.byte = 1 =>
             fifo'.conn # {} \/ (dir.state # 0 /\ inits[dir.state] \in {"hooks", "dying"})
    BY DEF ExecGoes, ExecLeaves, ExecLearns
  <2> QED BY <1>4, <2>1, <2>2, <2>3, <2>4 DEF FifoInv
<1>9. ProcOk(p)' /\ CreateOk(p)' /\ UseOk(p)'
  <2>1. CASE step = "idle"
    BY <2>1, <1>2, IdleFacts DEF ProcOk, CreateOk, UseOk, At, Creating, Using
  <2>2. CASE step # "idle"
    <3>1. ProcOk(p)' /\ CreateOk(p)'
      <4>1. step \in {"read", "rmfifo", "forward", "destroy"} /\ proc'[p].pc = step
        BY <2>2, <1>2 DEF ExecGoes
      <4>2. proc'[p].gen = g /\ g # 0
        BY SMT, <2>2, <1>2, LifecycleAssumption DEF Gens
      <4> QED BY SMT, <4>1, <4>2 DEF ProcOk, CreateOk, At, Creating
    <3>2. (Over(g) => Over(g)') /\ (Spent(g) => Spent(g)')
      <4>1. fifo.byte = 0 => fifo'.byte = 0
        BY SMT, <1>4 DEF TypeOK, ExecLeaves
      <4> QED BY <4>1 DEF Over, Spent, ExecGoes
    <3>3. Knows(p, g)'
      <4>1. /\ inits' = inits /\ dir'.state = dir.state /\ proc'[p].pc = step
            /\ dir'.fifo => dir.fifo /\ starts'[g].won = starts[g].won
            /\ dir.fifo /\ ~dir'.fifo => Spent(g)'
            /\ starts'[g].released = starts[g].released
        BY <2>2, <1>2 DEF ExecGoes, ExecLeaves
      <4>2. step \notin {"rmcgroup", "rmdir", "freeze", "list", "sigall", "thaw"}
        BY DEF ExecGoes
      <4>3. proc'[p].state = proc[p].state /\ proc'[p].data = r.data
        BY <2>2, <1>2
      <4>4. /\ inits'[g] \notin {"none", "booting"} /\ (dir'.state = 0 => ~dir'.fifo)
            /\ (dir'.fifo => starts'[g].won = 0) /\ (~dir'.fifo => Spent(g)')
            /\ (proc'[p].state = "stopped" => Over(g)') /\ (proc'[p].state = "running" => ~dir'.fifo)
        BY <1>1, <3>2, <4>1, <4>3 DEF Knows
      <4>5. /\ proc'[p].pc \in {"read", "rmfifo"} => inits'[g] # "blocked"
            /\ At(p, "rmfifo")' => proc'[p].data /\ inits'[g] \notin {"opened", "hooks"}
            /\ proc'[p].data =>
                 /\ starts'[g].released /\ fifo'.byte = 0
                 /\ inits'[g] \in {"hooks", "running", "dying", "zombie", "gone"}
            /\ At(p, "destroy")' /\ proc'[p].state = "created" => Spent(g)'
        BY <4>1, <4>3 DEF ExecLearns, At
      <4>6. ~Destroying(p)'
        BY <4>1, <4>2 DEF Destroying
      <4> QED BY <4>4, <4>5, <4>6 DEF Knows
    <3> QED BY <2>2, <1>2, <3>1, <3>3 DEF UseOk
  <2> QED BY <2>1, <2>2
<1>10. /\ Using(p) /\ g = proc[p].gen /\ dir'.state = dir.state /\ FifoInv' /\ StartOnce'
       /\ \A h \in Gens : h # g => inits'[h] = inits[h] /\ starts'[h] = starts[h]
       /\ ~dir'.exists => dir' = NoDir
  BY <1>8 DEF ExecGoes, ExecLeaves
<1> HIDE DEF IInv
<1> QED BY <1>2, <1>3, <1>5, <1>6, <1>7, <1>9, <1>10, UserStep

\* A writer of the fifo is the process of the creation p has in hand.
LEMMA WriterFacts ==
  ASSUME IInv, NEW p \in Procs, Using(p), NEW g \in Gens, g = proc[p].gen, Writer
  PROVE  inits[g] \in {"opened", "hooks"} /\ dir.state = g
<1>1. PICK h \in Gens : inits[h] \in {"opened", "hooks"}
  BY DEF Writer
<1>2. dir.state = h /\ h # 0
  BY SMT, <1>1, LifecycleAssumption DEF IInv, OneInv, Live, Gens
<1> QED BY SMT, <1>1, <1>2, LifecycleAssumption DEF IInv, OneInv, Gens

\* The open ends when there is a writer, or when the process is found dead.
LEMMA AwaitStep == ASSUME IInv, NEW p \in Procs, awaitFifoOpen(p) \/ execPoll(p) PROVE IInv'
<1> USE DEF IInv
<1>1. Using(p) /\ At(p, "wait")
  BY UsingAt DEF awaitFifoOpen, execPoll, At
<1>2. PICK g \in Gens : g = proc[p].gen
  BY <1>1, GenFacts DEF Using
<1>3. Knows(p, g) /\ proc[p] \in Command
  BY <1>1, <1>2 DEF UseInv, UseOk, TypeOK
<1>4. UNCHANGED <<dir, inits, kids, cg, starts>>
  BY DEF awaitFifoOpen, execPoll
<1>5. PICK step \in {"read", "idle", "destroy"} :
        /\ Become(p, proc[p], step)
        /\ step = "read" => fifo' = [fifo EXCEPT !.conn = @ \cup {p}]
        /\ step # "read" => fifo' = fifo /\ ~dir.fifo
  BY DEF awaitFifoOpen, execPoll, ExecFails, Goto
<1>6. inits[g] # "blocked"
  BY <1>1, <1>2, WriterFacts, AliveFacts DEF awaitFifoOpen, execPoll
<1>7. /\ fifo' \in [conn : SUBSET Procs, byte : 0..1] /\ fifo'.byte = fifo.byte
      /\ fifo'.conn \subseteq (fifo.conn \cup {p})
      /\ p \in fifo'.conn => step = "read"
      /\ fifo.conn \subseteq fifo'.conn
  BY SMT, <1>1, <1>5 DEF TypeOK, FifoInv, At
<1>8. fifo'.byte <= fifo.byte
  BY SMT, <1>7 DEF TypeOK
<1>9. fifo'.byte = 1 =>
        fifo'.conn # {} \/ (dir.state # 0 /\ inits[dir.state] \in {"hooks", "dying"})
  BY <1>7 DEF FifoInv
<1>10. proc[p].data => /\ starts[g].released /\ fifo'.byte = 0
                       /\ inits[g] \in {"hooks", "running", "dying", "zombie", "gone"}
  BY <1>3, <1>7 DEF Knows
<1>11. step = "destroy" => Spent(g)'
  BY <1>3, <1>4, <1>5 DEF Knows, Spent, Over
<1>12. StartOnce' /\ (~dir'.exists => dir' = NoDir)
       /\ dir' \in [exists : BOOLEAN, fifo : BOOLEAN, state : 0..MaxGen]
       /\ starts' \in [Gens -> [won : Nat, released : BOOLEAN]]
  BY ZenonT(20), <1>4 DEF StartOnce, DirInv, TypeOK
<1> HIDE DEF IInv
<1>13. ExecGoes(p, g, proc[p], step)
  BY <1>1, <1>2, <1>3, <1>4, <1>5, <1>6, <1>7, <1>8, <1>9, <1>10, <1>11, <1>12 DEF ExecGoes
<1>14. ExecLeaves(g)
  BY <1>1, <1>2, <1>3, <1>4, <1>5, <1>6, <1>7, <1>8, <1>9, <1>10, <1>11, <1>12 DEF ExecLeaves
<1>15. ExecLearns(p, g, proc[p], step)
  BY <1>1, <1>2, <1>3, <1>4, <1>5, <1>6, <1>7, <1>8, <1>9, <1>10, <1>11, <1>12 DEF ExecLearns
<1> QED BY <1>13, <1>14, <1>15, ExecStep

\* The byte is that of the creation in hand, whose process was let go.
LEMMA ReadStep == ASSUME IInv, NEW p \in Procs, readByte(p) PROVE IInv'
<1> USE DEF IInv
<1>1. Using(p) /\ At(p, "read")
  BY UsingAt DEF readByte, At
<1>2. PICK g \in Gens : g = proc[p].gen
  BY <1>1, GenFacts DEF Using
<1> DEFINE r == [proc[p] EXCEPT !.data = TRUE]
<1>3. Knows(p, g) /\ r \in Command /\ r.gen = g /\ r.cmd = proc[p].cmd /\ r.state = proc[p].state
  <2>1. Knows(p, g) /\ proc[p] \in Command
    BY <1>1, <1>2 DEF UseInv, UseOk, TypeOK
  <2> QED BY <1>2, <2>1 DEF Command
<1>4. UNCHANGED <<dir, inits, kids, cg, starts>> /\ Become(p, r, "read")
  BY DEF readByte
<1> HIDE DEF r
<1>5. /\ fifo' \in [conn : SUBSET Procs, byte : 0..1] /\ fifo'.byte = 0 /\ fifo'.conn = fifo.conn
      /\ fifo.byte = 1
  BY SMTT(20), SMT DEF readByte, TypeOK
<1>6. starts[g].released
  BY SMT, <1>2, <1>5, LifecycleAssumption DEF FifoInv, Gens
<1>7. inits[g] \in {"hooks", "running", "dying", "zombie", "gone"}
  <2>1. inits[g] \notin {"none", "booting", "blocked"} /\ inits[g] \in InitStates
    BY <1>1, <1>3 DEF Knows, At, TypeOK
  <2>2. inits[g] # "opened"
    BY <1>5 DEF FifoInv
  <2> QED BY <2>1, <2>2 DEF InitStates
<1>8. StartOnce' /\ (~dir'.exists => dir' = NoDir) /\ fifo'.byte <= fifo.byte
       /\ dir' \in [exists : BOOLEAN, fifo : BOOLEAN, state : 0..MaxGen]
       /\ starts' \in [Gens -> [won : Nat, released : BOOLEAN]]
  BY SMT, <1>4, <1>5 DEF StartOnce, DirInv, TypeOK
<1>9. dir.fifo = dir'.fifo /\ fifo'.byte # 1 /\ r.data \in BOOLEAN
  BY SMT, <1>3, <1>4, <1>5 DEF Command
<1> HIDE DEF IInv
<1>10. ExecGoes(p, g, r, "read")
  BY <1>1, <1>2, <1>3, <1>4, <1>5, <1>6, <1>7, <1>8, <1>9 DEF ExecGoes
<1>11. ExecLeaves(g)
  BY <1>1, <1>2, <1>3, <1>4, <1>5, <1>6, <1>7, <1>8, <1>9 DEF ExecLeaves
<1>12. ExecLearns(p, g, r, "read")
  BY <1>1, <1>2, <1>3, <1>4, <1>5, <1>6, <1>7, <1>8, <1>9 DEF ExecLearns
<1> QED BY <1>10, <1>11, <1>12, ExecStep

\* The read ends when every writer has closed: without data it is an error.
LEMMA ReadEndStep == ASSUME IInv, NEW p \in Procs, readFromExecFifo(p) PROVE IInv'
<1> USE DEF IInv
<1>1. Using(p) /\ At(p, "read") /\ fifo.byte = 0 /\ ~Writer
  BY UsingAt DEF readFromExecFifo, At
<1>2. PICK g \in Gens : g = proc[p].gen
  BY <1>1, GenFacts DEF Using
<1>3. Knows(p, g) /\ proc[p] \in Command
  BY <1>1, <1>2 DEF UseInv, UseOk, TypeOK
<1>4. UNCHANGED <<dir, inits, kids, cg, starts>>
  BY DEF readFromExecFifo
<1>5. PICK step \in {"rmfifo", "idle", "destroy"} :
        Become(p, proc[p], step) /\ (step = "rmfifo" => proc[p].data)
  BY DEF readFromExecFifo, ExecFails, Goto
<1>6. inits[g] \notin {"none", "booting", "blocked", "opened", "hooks"} /\ inits[g] \in InitStates
  BY <1>1, <1>3 DEF Knows, At, Writer, TypeOK
<1>7. /\ fifo' \in [conn : SUBSET Procs, byte : 0..1] /\ fifo'.byte = 0
      /\ fifo'.conn = fifo.conn \ {p}
  BY <1>1 DEF readFromExecFifo, Close, Fifo, TypeOK
<1>8. Spent(g)'
  BY <1>4, <1>6, <1>7 DEF Spent, Over, InitStates
<1>9. inits[g] \in {"hooks", "running", "dying", "zombie", "gone"}
  BY <1>6 DEF InitStates
<1>10. StartOnce' /\ (~dir'.exists => dir' = NoDir) /\ fifo'.byte <= fifo.byte
       /\ dir' \in [exists : BOOLEAN, fifo : BOOLEAN, state : 0..MaxGen]
       /\ starts' \in [Gens -> [won : Nat, released : BOOLEAN]]
  BY SMTT(20), <1>1, <1>4, <1>7 DEF StartOnce, DirInv, TypeOK
<1> HIDE DEF IInv
<1>11. /\ proc[p].data => starts[g].released
       /\ fifo'.conn \subseteq (fifo.conn \cup {p}) /\ p \notin fifo'.conn /\ fifo'.byte # 1
       /\ proc[p].gen = g /\ dir.fifo = dir'.fifo
  BY <1>2, <1>3, <1>4, <1>7 DEF Knows
<1>12. ExecGoes(p, g, proc[p], step)
  BY <1>1, <1>3, <1>4, <1>5, <1>6, <1>7, <1>8, <1>9, <1>10, <1>11 DEF ExecGoes
<1>13. ExecLeaves(g)
  BY <1>1, <1>3, <1>4, <1>5, <1>6, <1>7, <1>8, <1>9, <1>10, <1>11 DEF ExecLeaves
<1>14. ExecLearns(p, g, proc[p], step)
  BY <1>1, <1>3, <1>4, <1>5, <1>6, <1>7, <1>8, <1>9, <1>10, <1>11 DEF ExecLearns
<1> QED BY <1>12, <1>13, <1>14, ExecStep

\* The fifo can be removed once in the life of a creation, and only by a
\* command that has read its byte.
LEMMA RmfifoStep == ASSUME IInv, NEW p \in Procs, removeFifo(p) PROVE IInv'
<1> USE DEF IInv
<1>1. Using(p) /\ At(p, "rmfifo")
  BY UsingAt DEF removeFifo, At
<1>2. PICK g \in Gens : g = proc[p].gen
  BY <1>1, GenFacts DEF Using
<1>3. Knows(p, g) /\ proc[p] \in Command
  BY <1>1, <1>2 DEF UseInv, UseOk, TypeOK
<1>4. UNCHANGED <<inits, kids, cg, fifo>>
  BY DEF removeFifo
<1>5. /\ proc[p].data /\ starts[g].released /\ fifo.byte = 0 /\ inits[g] \notin {"opened", "hooks"}
      /\ inits[g] \in {"hooks", "running", "dying", "zombie", "gone"}
  BY <1>1, <1>3 DEF Knows
<1>6. Spent(g)'
  BY <1>4, <1>5 DEF Spent, Over
<1>7. fifo' \in [conn : SUBSET Procs, byte : 0..1] /\ fifo'.byte <= fifo.byte /\ p \notin fifo'.conn
  BY SMTT(20), <1>1, <1>4, <1>5 DEF TypeOK, FifoInv, At
<1>8. CASE dir.fifo
  <2>1. /\ dir' = [dir EXCEPT !.fifo = FALSE]
        /\ starts' = [starts EXCEPT ![g].won = @ + 1]
    BY <1>2, <1>8 DEF removeFifo
  <2>2. PICK step \in {"forward", "idle"} : Become(p, proc[p], step)
    BY <1>8 DEF removeFifo, Goto
  <2>3. /\ dir' \in [exists : BOOLEAN, fifo : BOOLEAN, state : 0..MaxGen]
        /\ dir'.exists = dir.exists /\ dir'.state = dir.state /\ ~dir'.fifo
    BY <2>1 DEF TypeOK
  <2>4. ~dir'.exists => dir' = NoDir
    BY SMT, <1>8, <2>3 DEF DirInv, NoDir
  <2>5. starts[g].won = 0
    BY <1>3, <1>8 DEF Knows
  <2>6. /\ starts' \in [Gens -> [won : Nat, released : BOOLEAN]]
        /\ \A h \in Gens : h # g => starts'[h] = starts[h]
        /\ starts'[g].released = starts[g].released /\ starts'[g].won = 1
    BY SMT, <2>1, <2>5 DEF TypeOK
  <2>7. StartOnce'
    <3>1. starts'[g].won <= 1 /\ starts'[g].released
      BY SMT, <2>6, <1>5
    <3>2. \A h \in Gens : h # g => starts'[h].won <= 1 /\ (starts'[h].won = 1 => starts'[h].released)
      BY <2>6 DEF StartOnce
    <3> QED BY <3>1, <3>2 DEF StartOnce
  <2>8. /\ dir'.fifo => dir.fifo /\ starts'[g].won = starts[g].won
        /\ dir.fifo /\ ~dir'.fifo => Spent(g)'
        /\ fifo'.byte # 1 /\ fifo'.conn \subseteq (fifo.conn \cup {p})
    BY SMT, <1>4, <1>5, <1>6, <1>8, <2>3
  <2>9. /\ step \in {"idle", "read", "rmfifo", "forward", "destroy"}
        /\ step \in {"read", "rmfifo"} => inits[g] # "blocked"
        /\ step = "rmfifo" => proc[p].data /\ inits[g] \notin {"opened", "hooks"}
        /\ step = "destroy" /\ proc[p].state = "created" => Spent(g)'
    BY <2>2
  <2>10. fifo'.byte = 1 => \/ fifo'.conn # {}
                           \/ (dir.state # 0 /\ inits[dir.state] \in {"hooks", "dying"})
    BY <2>8
  <2>11. /\ proc[p].gen = g /\ (p \in fifo'.conn => step = "read")
         /\ proc[p].data => /\ starts[g].released /\ fifo'.byte = 0
                            /\ inits[g] \in {"hooks", "running", "dying", "zombie", "gone"}
         /\ UNCHANGED <<inits, kids, cg>>
    BY ZenonT(20), <1>2, <1>4, <1>5, <1>7
  <2> HIDE DEF IInv
  <2>12. ExecGoes(p, g, proc[p], step)
    BY <1>1, <1>3, <1>7, <2>2, <2>3, <2>4, <2>6, <2>7, <2>8, <2>9, <2>10, <2>11 DEF ExecGoes
  <2>13. ExecLeaves(g)
    BY <1>1, <1>3, <1>7, <2>2, <2>3, <2>4, <2>6, <2>7, <2>8, <2>9, <2>10, <2>11 DEF ExecLeaves
  <2>14. ExecLearns(p, g, proc[p], step)
    BY <1>1, <1>3, <1>7, <2>2, <2>3, <2>4, <2>6, <2>7, <2>8, <2>9, <2>10, <2>11 DEF ExecLearns
  <2> QED BY <2>12, <2>13, <2>14, ExecStep
<1>9. CASE ~dir.fifo
  <2>1. UNCHANGED <<dir, starts>>
    BY <1>9 DEF removeFifo
  <2>2. PICK step \in {"destroy", "idle"} : Become(p, proc[p], step)
    BY <1>9 DEF removeFifo, Goto, ExecFails
  <2>3. StartOnce' /\ (~dir'.exists => dir' = NoDir)
        /\ dir' \in [exists : BOOLEAN, fifo : BOOLEAN, state : 0..MaxGen]
        /\ starts' \in [Gens -> [won : Nat, released : BOOLEAN]]
    BY <2>1 DEF StartOnce, DirInv, TypeOK
  <2> HIDE DEF IInv
  <2>4. /\ step \in {"idle", "read", "rmfifo", "forward", "destroy"}
        /\ step \notin {"read", "rmfifo"} /\ proc[p].gen = g
        /\ fifo'.conn \subseteq (fifo.conn \cup {p}) /\ fifo'.byte # 1 /\ fifo'.byte = 0
    BY <1>2, <1>4, <1>5, <2>2
  <2>5. /\ dir'.exists = dir.exists /\ dir'.state = dir.state /\ dir'.fifo = dir.fifo
        /\ \A h \in Gens : starts'[h] = starts[h]
    BY <2>1
  <2>6. /\ Using(p) /\ proc[p] \in Command /\ Become(p, proc[p], step) /\ UNCHANGED <<inits, kids, cg>>
        /\ fifo' \in [conn : SUBSET Procs, byte : 0..1] /\ fifo'.byte <= fifo.byte
        /\ p \notin fifo'.conn /\ starts[g].released /\ Spent(g)' /\ StartOnce'
        /\ inits[g] \in {"hooks", "running", "dying", "zombie", "gone"}
    BY <1>1, <1>3, <1>4, <1>5, <1>6, <1>7, <2>2, <2>3
  <2>7. ExecGoes(p, g, proc[p], step)
    BY <2>3, <2>4, <2>5, <2>6 DEF ExecGoes
  <2>8. ExecLeaves(g)
    BY <2>3, <2>4, <2>5, <2>6 DEF ExecLeaves
  <2>9. ExecLearns(p, g, proc[p], step)
    BY <2>3, <2>4, <2>5, <2>6 DEF ExecLearns
  <2> QED BY <2>7, <2>8, <2>9, ExecStep
<1> QED BY <1>8, <1>9

-----------------------------------------------------------------------------
(* The state directory is removed.                                         *)

LEMMA RmdirStep == ASSUME IInv, NEW p \in Procs, removeRoot(p) PROVE IInv'
<1> USE DEF IInv
<1>1. Using(p) /\ At(p, "rmdir")
  BY UsingAt DEF removeRoot, At
<1>2. PICK g \in Gens : g = proc[p].gen
  BY <1>1, GenFacts DEF Using
<1>3. Knows(p, g) /\ Ended(g)
  BY <1>1, <1>2, EndedAt DEF UseInv, UseOk, Destroying, At
<1>4. UNCHANGED <<inits, kids, cg, fifo, starts>> /\ dir' = NoDir /\ Goto(p, "idle")
  BY DEF removeRoot
<1>5. proc' \in [Procs -> Command] /\ proc'[p] = Idle /\ \A q \in Procs : q # p => proc'[q] = proc[q]
  BY <1>4, GotoFacts DEF Steps
<1>6. ~dir'.exists /\ ~dir'.fifo /\ dir'.state = 0
  BY <1>4 DEF NoDir
<1>7. dir' \in [exists : BOOLEAN, fifo : BOOLEAN, state : 0..MaxGen]
  BY SMT, <1>4, LifecycleAssumption DEF NoDir
<1>8. TypeOK'
  BY <1>4, <1>5, <1>7 DEF TypeOK
<1>9. Keeps(g) /\ ~Live(g)'
  BY <1>3, <1>4, <1>6 DEF Keeps, Advance, Ended, Spent, Over, Live
<1>10. ProcOk(p)' /\ CreateOk(p)' /\ UseOk(p)'
  BY <1>5, IdleFacts DEF ProcOk, CreateOk, UseOk, At, Creating, Using
<1>11. ListInv'
  BY <1>4, <1>5, IdleFacts, ListKeep
<1>12. FifoInv'
  <2>1. \A q \in fifo.conn : q \in Procs /\ q # p
    BY ZenonT(20), <1>1 DEF FifoInv, At, TypeOK
  <2>2. fifo.byte = 1 => fifo.conn # {}
    <3>1. dir.state # 0 => dir.state = g
      BY SMT, <1>2, LifecycleAssumption DEF OneInv, Gens
    <3> QED BY SMT, <1>3, <3>1 DEF FifoInv, Ended, Over
  <2> QED BY SMTT(20), <1>4, <1>5, <1>6, <2>1, <2>2, IdleFacts DEF FifoInv, At
<1>13. StartOnce'
  BY <1>4 DEF StartOnce
<1> QED BY <1>1, <1>2, <1>4, <1>5, <1>6, <1>8, <1>9, <1>10, <1>11, <1>12, <1>13, IdleFacts, UserStep

\* What is left of an aborted creation is nobody's.
LEMMA RmpathStep == ASSUME IInv, NEW p \in Procs, removePath(p) PROVE IInv'
<1> USE DEF IInv
<1>1. At(p, "rmpath") /\ dir.state = 0 /\ proc[p].gen = 0
  BY DEF removePath, CreateInv, CreateOk, ProcInv, ProcOk, At
<1>2. UNCHANGED <<inits, kids, cg, fifo, starts>> /\ dir' = NoDir /\ Goto(p, "idle")
  BY DEF removePath
<1>3. proc' \in [Procs -> Command] /\ proc'[p] = Idle /\ \A q \in Procs : q # p => proc'[q] = proc[q]
  BY <1>2, GotoFacts DEF Steps
<1>4. ~dir'.exists /\ ~dir'.fifo /\ dir'.state = 0
  BY <1>2 DEF NoDir
<1>5. TypeOK'
  BY SMT, <1>2, <1>3, LifecycleAssumption DEF TypeOK, NoDir
<1>6. ASSUME NEW q \in Procs PROVE (ProcOk(q) /\ CreateOk(q) /\ UseOk(q))'
  <2>1. CASE q = p
    BY <2>1, <1>3, IdleFacts DEF ProcOk, CreateOk, UseOk, At, Creating, Using
  <2>2. CASE q # p
    <3>1. ~Creating(q)
      BY <1>1, <2>2, NoCreator DEF At
    <3>2. proc[q].gen # 0 => ~dir.fifo
      BY <1>1, <3>1 DEF UseInv, UseOk, Knows, Using
    <3>3. proc[q].gen # 0 => Keeps(proc[q].gen)
      BY <1>2, <1>4, <3>2 DEF Keeps, Advance
    <3> QED BY <1>3, <1>4, <1>5, <2>2, <3>1, <3>3, OthersKeep
  <2> QED BY <2>1, <2>2
<1>7. GenInv' /\ DirInv' /\ StartOnce'
  BY ZenonT(20), <1>2, <1>4 DEF GenInv, DirInv, StartOnce
<1>8. OneInv'
  <2>1. \A g \in Gens : ~Live(g) /\ (inits[g] = "booting" => FALSE)
    BY SMTT(20), <1>1, LifecycleAssumption, NoCreator DEF OneInv, Gens, Creating, At
  <2> QED BY SMTT(20), <1>2, <1>3, <1>4, <2>1, IdleFacts DEF OneInv, Live
<1>9. FifoInv'
  <2>1. \A q \in fifo.conn : q \in Procs /\ q # p
    BY <1>1 DEF FifoInv, At, TypeOK
  <2> QED BY SMT, <1>1, <1>2, <1>3, <1>4, <2>1, IdleFacts DEF FifoInv, At
<1>10. ListInv'
  BY <1>2, <1>3, IdleFacts, ListKeep
<1> QED BY <1>5, <1>6, <1>7, <1>8, <1>9, <1>10 DEF ProcInv, CreateInv, UseInv


-----------------------------------------------------------------------------
(* create and run.                                                         *)

\* Whoever creates is alone, and the exec fifo is empty.
LEMMA AloneFacts ==
  ASSUME IInv, NEW p \in Procs, Creating(p)
  PROVE  /\ \A q \in Procs : q # p => proc[q] = Idle
         /\ fifo.conn = {}
         /\ (At(p, "abort") => ~Alive(proc[p].gen)) /\ ~At(p, "factory") => fifo.byte = 0
<1> USE DEF IInv
<1>1. \A q \in Procs : q # p => proc[q] = Idle
  BY DEF ProcInv, ProcOk
<1>2. fifo.conn = {}
  <2>1. \A q \in fifo.conn : FALSE
    BY SMT, <1>1, IdleFacts DEF FifoInv, TypeOK, At, Creating
  <2> QED BY <2>1
<1>3. ASSUME At(p, "abort") => ~Alive(proc[p].gen), ~At(p, "factory"), fifo.byte = 1 PROVE FALSE
  <2>1. dir.state # 0 /\ inits[dir.state] \in {"hooks", "dying"} /\ dir.state \in Gens
    BY <1>2, <1>3, GenFacts DEF FifoInv
  <2>2. ~At(p, "mkdir")
    BY SMT, <2>1 DEF CreateInv, CreateOk, DirInv, NoDir
  <2>3. proc[p].pc \in {"proceed", "abort"}
    BY <1>3, <2>1, <2>2 DEF CreateInv, CreateOk, At, Creating
  <2>4. proc[p].gen = dir.state
    BY <2>1, <2>3 DEF OneInv, ProcInv, ProcOk
  <2>5. At(p, "abort")
    BY <2>1, <2>3, <2>4 DEF CreateInv, CreateOk, At
  <2> QED BY <1>3, <2>1, <2>4, <2>5, AliveFacts
<1>4. fifo.byte \in 0..1
  BY DEF TypeOK
<1> QED BY SMT, <1>1, <1>2, <1>3, <1>4

\* A step of a creator: nobody else has anything to lose.
LEMMA AloneStep ==
  ASSUME IInv, TypeOK', NEW p \in Procs, Creating(p), fifo.byte = 0,
         UNCHANGED <<kids, fifo>>, cg'.frozen = cg.frozen,
         \A q \in Procs : q # p => proc'[q] = proc[q],
         proc'[p].pc \notin {"sigall", "thaw"},
         ProcOk(p)', CreateOk(p)', UseOk(p)', GenInv', DirInv', StartOnce',
         proc'[p].gen # 0 /\ dir'.state # 0 => proc'[p].gen = dir'.state,
         \A h \in Gens : Live(h)' => dir'.state = h,
         \A h \in Gens : inits'[h] = "booting" =>
           proc'[p].pc \in {"save", "proceed"} /\ proc'[p].gen = h
  PROVE  IInv'
<1> USE DEF IInv
<1>1. (\A q \in Procs : q # p => proc[q] = Idle) /\ fifo.conn = {}
  BY AloneFacts
<1>2. ASSUME NEW q \in Procs PROVE (ProcOk(q) /\ CreateOk(q) /\ UseOk(q))'
  <2>1. CASE q = p
    BY <2>1
  <2>2. CASE q # p
    <3>1. proc'[q] = Idle /\ Idle.pc = "idle" /\ Idle.gen = 0 /\ ~Idle.data
      BY <1>1, <2>2, IdleFacts
    <3>2. proc'[q].pc = "idle" /\ proc'[q].gen = 0 /\ ~proc'[q].data
      BY <3>1
    <3>3. ~Creating(q)' BY <3>2 DEF Creating
    <3>4. ProcOk(q)' BY <3>1, <3>2, <3>3 DEF ProcOk, At
    <3>5. CreateOk(q)' BY <3>2, <3>3 DEF CreateOk, At
    <3>6. UseOk(q)' BY <3>2 DEF UseOk, Using
    <3> QED BY <3>4, <3>5, <3>6
  <2> QED BY <2>1, <2>2
<1>3. OneInv'
  <2>1. \A q \in Procs : proc'[q].gen # 0 => q = p
    BY <1>1, IdleFacts
  <2> QED BY <2>1 DEF OneInv
<1>4. FifoInv'
  <2>1. fifo' = fifo /\ fifo'.byte # 1 /\ fifo'.conn = {}
    BY <1>1, SMT
  <2> QED BY <2>1 DEF FifoInv
<1>5. ListInv'
  BY ListKeep
<1> QED BY <1>2, <1>3, <1>4, <1>5 DEF ProcInv, CreateInv, UseInv

\* The number of the next creation.
LEMMA NextGenFacts ==
  ASSUME GenInv, \E g \in Gens : inits[g] = "none"
  PROVE  /\ NextGen \in Gens /\ inits[NextGen] = "none"
         /\ \A h \in Gens : h < NextGen => inits[h] # "none"
<1>1. PICK n \in 0..MaxGen : \A g \in Gens : inits[g] # "none" <=> g <= n
  BY DEF GenInv
<1>2. n + 1 \in Gens /\ inits[n + 1] = "none"
  BY SMT, <1>1, LifecycleAssumption DEF Gens
<1>3. \A h \in Gens : h < n + 1 => inits[h] # "none"
  BY SMT, <1>1 DEF Gens
<1> QED BY <1>2, <1>3 DEF NextGen

LEMMA MkdirStep == ASSUME IInv, NEW p \in Procs, mkdirRoot(p) PROVE IInv'
<1> USE DEF IInv
<1>1. Creating(p) /\ At(p, "mkdir") /\ dir = NoDir /\ fifo.byte = 0
  BY AloneFacts DEF mkdirRoot, Creating, At, CreateInv, CreateOk, DirInv
<1>2. PICK g \in Gens : g = NextGen /\ inits[g] = "none" /\ \A h \in Gens : h < g => inits[h] # "none"
  BY <1>1, NextGenFacts DEF CreateInv, CreateOk, At
<1> DEFINE r == [proc[p] EXCEPT !.state = "stopped", !.gen = NextGen]
<1>3. proc[p] \in Command /\ g \in 0..MaxGen /\ proc[p].gen = 0 /\ ~proc[p].data
  BY SMT, <1>1 DEF TypeOK, Gens, ProcInv, ProcOk, At
<1>4. r \in Command
  <2>1. "stopped" \in MemStates /\ r = [proc[p] EXCEPT !.gen = g, !.state = "stopped"]
    BY <1>2, <1>3 DEF MemStates, Command
  <2> QED BY <1>3, <2>1, LoadedType
<1>5. r.gen = g /\ r.state = "stopped" /\ ~r.data
  BY <1>2, <1>3, SMT DEF Command
<1>6. Become(p, r, "mkfifo") /\ "mkfifo" \in Steps
  BY DEF mkdirRoot, Steps
<1> HIDE DEF r
<1>7. /\ proc' \in [Procs -> Command] /\ \A q \in Procs : q # p => proc'[q] = proc[q]
      /\ proc'[p].pc = "mkfifo" /\ proc'[p].gen = g /\ proc'[p].state = "stopped" /\ ~proc'[p].data
  BY SMT, <1>4, <1>5, <1>6, BecomeFacts
<1>8. UNCHANGED <<inits, kids, cg, fifo, starts>> /\ dir' = [dir EXCEPT !.exists = TRUE]
  BY DEF mkdirRoot
<1>9. /\ dir' \in [exists : BOOLEAN, fifo : BOOLEAN, state : 0..MaxGen]
      /\ dir'.exists /\ ~dir'.fifo /\ dir'.state = 0 /\ dir.state = 0
  BY <1>1, <1>8 DEF TypeOK, NoDir
<1>10. TypeOK'
  BY <1>7, <1>8, <1>9 DEF TypeOK
<1>11. ProcOk(p)'
  BY SMT, <1>1, <1>7, LifecycleAssumption DEF ProcInv, ProcOk, At, Creating, Gens
<1>12. CreateOk(p)' /\ UseOk(p)'
  BY <1>2, <1>7, <1>8, <1>9 DEF CreateOk, UseOk, At, Creating, Using
<1>13. GenInv' /\ DirInv' /\ StartOnce'
  BY <1>8, <1>9 DEF GenInv, DirInv, StartOnce
<1>14. \A h \in Gens : ~Live(h)' /\ inits'[h] # "booting"
  <2>1. \A h \in Gens : h # 0
    BY SMT, LifecycleAssumption DEF Gens
  <2>2. \A h \in Gens : ~Live(h) /\ inits[h] # "booting"
    BY SMT, <1>1, <1>9, <2>1 DEF OneInv, ProcInv, ProcOk, At, Creating
  <2> QED BY <2>2, <1>8 DEF Live
<1> QED BY <1>1, <1>7, <1>8, <1>9, <1>10, <1>11, <1>12, <1>13, <1>14, AloneStep

LEMMA MkfifoStep == ASSUME IInv, NEW p \in Procs, createExecFifo(p) PROVE IInv'
<1> USE DEF IInv
<1>1. Creating(p) /\ At(p, "mkfifo") /\ fifo.byte = 0 /\ dir.state = 0
  BY AloneFacts DEF createExecFifo, Creating, At, CreateInv, CreateOk
<1>2. PICK g \in Gens : g = proc[p].gen
  BY <1>1, GenFacts DEF At
<1>3. Goto(p, "spawn") /\ "spawn" \in Steps
  BY DEF createExecFifo, Steps
<1>4. /\ proc' \in [Procs -> Command] /\ \A q \in Procs : q # p => proc'[q] = proc[q]
      /\ proc'[p].pc = "spawn" /\ proc'[p].gen = g /\ proc'[p].state = proc[p].state
      /\ proc'[p].data = proc[p].data
  BY <1>2, <1>3, GotoFacts
<1>5. UNCHANGED <<inits, kids, cg, fifo, starts>> /\ dir' = [dir EXCEPT !.fifo = TRUE]
  BY DEF createExecFifo
<1>6. /\ dir' \in [exists : BOOLEAN, fifo : BOOLEAN, state : 0..MaxGen]
      /\ dir'.exists = dir.exists /\ dir'.fifo /\ dir'.state = 0
  BY <1>1, <1>5 DEF TypeOK
<1>7. TypeOK'
  BY <1>4, <1>5, <1>6 DEF TypeOK
<1>8. ProcOk(p)'
  BY SMTT(20), <1>1, <1>4, LifecycleAssumption DEF ProcInv, ProcOk, At, Creating, Gens
<1>9. CreateOk(p)' /\ UseOk(p)'
  BY SMTT(20), <1>1, <1>2, <1>4, <1>5, <1>6 DEF CreateInv, CreateOk, UseOk, At, Creating, Using
<1>10. dir.exists
  BY <1>1 DEF CreateInv, CreateOk
<1>11. GenInv' /\ DirInv' /\ StartOnce'
  BY <1>5, <1>6, <1>10 DEF GenInv, DirInv, StartOnce
<1>12. \A h \in Gens : ~Live(h)' /\ inits'[h] # "booting"
  <2>1. \A h \in Gens : h # 0
    BY SMT, LifecycleAssumption DEF Gens
  <2>2. \A h \in Gens : ~Live(h) /\ inits[h] # "booting"
    BY <1>1, <2>1 DEF OneInv, ProcInv, ProcOk, At, Creating
  <2> QED BY <2>2, <1>5 DEF Live
<1> QED BY <1>1, <1>4, <1>5, <1>6, <1>7, <1>8, <1>9, <1>11, <1>12, AloneStep

\* The new creation is the next one, and the only one that lives.
LEMMA NewGen ==
  ASSUME IInv, NEW p \in Procs, NEW g \in Gens, g = proc[p].gen, inits[g] = "none",
         proc[p].pc \in {"mkfifo", "spawn", "abort"},
         inits' \in [Gens -> InitStates], inits'[g] # "none",
         \A h \in Gens : h # g => inits'[h] = inits[h], UNCHANGED starts
  PROVE  GenInv'
<1> USE DEF IInv
<1>1. PICK n \in 0..MaxGen : \A h \in Gens : inits[h] # "none" <=> h <= n
  BY DEF GenInv
<1>2. \A h \in Gens : h < g => inits[h] # "none"
  BY DEF CreateInv, CreateOk
<1>3. g = n + 1
  <2>1. g > n
    BY SMT, <1>1 DEF Gens
  <2>2. g > n + 1 => n + 1 \in Gens /\ n + 1 < g
    BY SMT, LifecycleAssumption DEF Gens
  <2>3. ~(g > n + 1)
    <3>1. n + 1 \in Gens => (inits[n + 1] # "none" <=> n + 1 <= n)
      BY <1>1
    <3> QED BY SMT, <1>2, <2>2, <3>1
  <2> QED BY SMT, <2>1, <2>3 DEF Gens
<1>4. n + 1 \in 0..MaxGen
  BY SMT, <1>3, LifecycleAssumption DEF Gens
<1>5. \A h \in Gens : inits'[h] # "none" <=> h <= n + 1
  BY SMT, <1>1, <1>3 DEF Gens
<1>6. \A h \in Gens : inits'[h] \in {"none", "booting"} => inits[h] \in {"none", "booting"}
  OBVIOUS
<1> QED BY <1>4, <1>5, <1>6 DEF GenInv

LEMMA SpawnStep == ASSUME IInv, NEW p \in Procs, startInit(p) PROVE IInv'
<1> USE DEF IInv
<1>1. Creating(p) /\ At(p, "spawn") /\ fifo.byte = 0 /\ dir.state = 0 /\ dir.fifo
  BY AloneFacts DEF startInit, Creating, At, CreateInv, CreateOk
<1>2. PICK g \in Gens : g = proc[p].gen
  BY <1>1, GenFacts DEF At
<1>3. Goto(p, "save") /\ "save" \in Steps
  BY DEF startInit, Steps
<1>4. /\ proc' \in [Procs -> Command] /\ \A q \in Procs : q # p => proc'[q] = proc[q]
      /\ proc'[p].pc = "save" /\ proc'[p].gen = g /\ proc'[p].state = proc[p].state
      /\ proc'[p].data = proc[p].data
  BY <1>2, <1>3, GotoFacts
<1>5. UNCHANGED <<dir, kids, fifo, starts>>
  BY DEF startInit
<1>6. inits' \in [Gens -> InitStates] /\ inits'[g] = "booting"
      /\ \A h \in Gens : h # g => inits'[h] = inits[h]
  BY <1>2 DEF startInit, TypeOK, InitStates
<1>7. cg' \in [exists : BOOLEAN, frozen : 0..Slots] /\ cg'.frozen = cg.frozen
  BY DEF startInit, TypeOK
<1>8. TypeOK'
  BY <1>4, <1>5, <1>6, <1>7 DEF TypeOK
<1>9. ProcOk(p)'
  BY SMT, <1>1, <1>4, LifecycleAssumption DEF ProcInv, ProcOk, At, Creating, Gens
<1>10. CreateOk(p)' /\ UseOk(p)'
  BY ZenonT(20), <1>1, <1>2, <1>4, <1>5, <1>6 DEF CreateInv, CreateOk, UseOk, At, Creating, Using
<1>11. inits[g] = "none"
  BY <1>1, <1>2 DEF CreateInv, CreateOk, At
<1>12. GenInv'
  BY <1>1, <1>2, <1>5, <1>6, <1>11, NewGen DEF At
<1>13. DirInv' /\ StartOnce'
  BY <1>1, <1>5 DEF DirInv, StartOnce
<1>14. \A h \in Gens : ~Live(h)' /\ (inits'[h] = "booting" => h = g)
  <2>1. \A h \in Gens : h # 0
    BY SMT, LifecycleAssumption DEF Gens
  <2>2. \A h \in Gens : ~Live(h) /\ inits[h] # "booting"
    BY <1>1, <2>1 DEF OneInv, ProcInv, ProcOk, At, Creating
  <2> QED BY <2>2, <1>6 DEF Live
<1> QED BY <1>1, <1>4, <1>5, <1>7, <1>8, <1>9, <1>10, <1>12, <1>13, <1>14, AloneStep

LEMMA SaveStep == ASSUME IInv, NEW p \in Procs, saveState(p) PROVE IInv'
<1> USE DEF IInv
<1>1. Creating(p) /\ At(p, "save") /\ fifo.byte = 0 /\ dir.state = 0 /\ dir.fifo
  BY AloneFacts DEF saveState, Creating, At, CreateInv, CreateOk
<1>2. PICK g \in Gens : g = proc[p].gen
  BY <1>1, GenFacts DEF At
<1>3. inits[g] = "booting" /\ ~proc[p].data /\ proc[p] \in Command /\ g # 0
  BY SMTT(20), <1>1, <1>2, LifecycleAssumption DEF CreateInv, CreateOk, At, TypeOK, Gens
<1> DEFINE r == [proc[p] EXCEPT !.state = "created"]
<1>4. r \in Command /\ r.gen = g /\ r.state = "created" /\ ~r.data
  BY <1>2, <1>3 DEF Command, MemStates
<1>5. Become(p, r, "proceed") /\ "proceed" \in Steps
  BY DEF saveState, Steps
<1> HIDE DEF r
<1>6. /\ proc' \in [Procs -> Command] /\ \A q \in Procs : q # p => proc'[q] = proc[q]
      /\ proc'[p].pc = "proceed" /\ proc'[p].gen = g /\ proc'[p].state = "created" /\ ~proc'[p].data
  BY SMT, <1>4, <1>5, BecomeFacts
<1>7. UNCHANGED <<inits, kids, cg, fifo, starts>> /\ dir' = [dir EXCEPT !.state = g]
  BY <1>2 DEF saveState
<1>8. /\ dir' \in [exists : BOOLEAN, fifo : BOOLEAN, state : 0..MaxGen]
      /\ dir'.exists = dir.exists /\ dir'.fifo /\ dir'.state = g
  BY SMT, <1>1, <1>7 DEF TypeOK, Gens
<1>9. TypeOK'
  BY <1>6, <1>7, <1>8 DEF TypeOK
<1>10. ProcOk(p)'
  BY SMT, <1>1, <1>3, <1>6 DEF ProcInv, ProcOk, At, Creating
<1>11. CreateOk(p)' /\ UseOk(p)'
  BY <1>3, <1>6, <1>7, <1>8 DEF CreateOk, UseOk, At, Creating, Using
<1>12. dir.exists
  BY SMTT(20), <1>1 DEF DirInv, NoDir
<1>13. starts[g].won = 0
  BY SMT, <1>3 DEF GenInv
<1>14. GenInv' /\ DirInv' /\ StartOnce'
  BY <1>3, <1>7, <1>8, <1>12, <1>13 DEF GenInv, DirInv, StartOnce
<1>15. \A h \in Gens : ~Live(h)' /\ (inits'[h] = "booting" => h = g)
  <2>1. \A h \in Gens : h # 0
    BY SMTT(20), LifecycleAssumption DEF Gens
  <2>2. \A h \in Gens : ~Live(h) /\ (inits[h] = "booting" => h = g)
    BY SMTT(20), <1>1, <1>2, <2>1 DEF OneInv, ProcInv, ProcOk, At, Creating
  <2> QED BY <2>2, <1>7 DEF Live
<1> QED BY <1>1, <1>6, <1>7, <1>8, <1>9, <1>10, <1>11, <1>14, <1>15, AloneStep

LEMMA ProceedStep == ASSUME IInv, NEW p \in Procs, proceed(p) PROVE IInv'
<1> USE DEF IInv
<1>1. Creating(p) /\ At(p, "proceed") /\ fifo.byte = 0 /\ dir.fifo /\ proc[p].state = "created"
  BY AloneFacts DEF proceed, Creating, At, CreateInv, CreateOk
<1>2. PICK g \in Gens : g = proc[p].gen
  BY <1>1, GenFacts DEF At
<1>3. inits[g] = "booting" /\ ~proc[p].data /\ g # 0
  BY SMTT(20), <1>1, <1>2, LifecycleAssumption DEF CreateInv, CreateOk, At, Gens
<1>4. dir.state = g
  BY <1>1, <1>2 DEF CreateInv, CreateOk
<1>5. PICK step \in {"open", "idle"} : Goto(p, step)
  BY DEF proceed
<1>6. /\ proc' \in [Procs -> Command] /\ \A q \in Procs : q # p => proc'[q] = proc[q]
      /\ \/ proc'[p] = Idle
         \/ /\ proc'[p].pc = "open" /\ proc'[p].gen = g /\ proc'[p].state = "created"
            /\ ~proc'[p].data
  BY <1>1, <1>2, <1>3, <1>5, GotoFacts DEF Steps
<1>7. UNCHANGED <<dir, kids, cg, fifo, starts>>
  BY DEF proceed
<1>8. inits' \in [Gens -> InitStates] /\ inits'[g] = "blocked"
      /\ \A h \in Gens : h # g => inits'[h] = inits[h]
  BY <1>2 DEF proceed, TypeOK, InitStates
<1>9. TypeOK'
  BY <1>6, <1>7, <1>8 DEF TypeOK
<1>10. starts[g].won = 0
  BY SMT, <1>3 DEF GenInv
<1>11. ProcOk(p)' /\ CreateOk(p)' /\ UseOk(p)'
  <2>1. CASE proc'[p] = Idle
    BY <2>1, IdleFacts DEF ProcOk, CreateOk, UseOk, At, Creating, Using
  <2>2. CASE proc'[p] # Idle
    <3>1. ProcOk(p)' /\ CreateOk(p)'
      BY <1>3, <1>6, <2>2 DEF ProcOk, CreateOk, At, Creating
    <3>2. Knows(p, g)'
      BY <1>1, <1>3, <1>4, <1>6, <1>7, <1>8, <1>10, <2>2 DEF Knows, At, Destroying
    <3> QED BY <1>6, <2>2, <3>1, <3>2 DEF UseOk
  <2> QED BY <2>1, <2>2
<1>12. GenInv'
  <2>1. \A h \in Gens : inits'[h] = "none" <=> inits[h] = "none"
    BY <1>3, <1>8
  <2>2. \A h \in Gens : inits'[h] = "booting" => inits[h] = "booting"
    BY <1>8
  <2> QED BY <1>7, <2>1, <2>2 DEF GenInv
<1>13. DirInv' /\ StartOnce'
  BY <1>1, <1>4, <1>7, <1>8 DEF DirInv, StartOnce
<1>14. \A h \in Gens : (Live(h)' => h = g) /\ inits'[h] # "booting"
  <2>1. \A h \in Gens : (Live(h) => h = g) /\ (inits[h] = "booting" => h = g)
    BY SMTT(20), <1>1, <1>2, <1>4 DEF OneInv, ProcInv, ProcOk, At, Creating
  <2> QED BY <2>1, <1>8 DEF Live
<1>15. proc'[p].pc \in {"idle", "open"} /\ proc'[p].gen \in {0, g}
  BY <1>6, IdleFacts
<1> QED BY <1>1, <1>4, <1>6, <1>7, <1>9, <1>11, <1>12, <1>13, <1>14, <1>15, AloneStep

\* A creation fails, or its command is killed: its process is killed too.
LEMMA AbortStep ==
  ASSUME IInv, NEW p \in Procs, NEW g \in Gens, g = proc[p].gen,
         proc[p].pc \in {"mkfifo", "spawn", "save", "proceed"},
         \A q \in Procs : q # p => proc'[q] = proc[q], proc' \in [Procs -> Command],
         proc'[p] = Idle \/ (/\ proc'[p].pc = "abort" /\ proc'[p].gen = g
                             /\ proc'[p].state = proc[p].state /\ proc'[p].data = proc[p].data),
         inits' = IF inits[g] = "booting" THEN KillInit(g) ELSE inits,
         UNCHANGED <<dir, kids, cg, fifo, starts>>
  PROVE  IInv'
<1> USE DEF IInv
<1>1. Creating(p) /\ fifo.byte = 0 /\ ~At(p, "abort")
  BY AloneFacts DEF Creating, At
<1>2. inits[g] \in {"none", "booting"}
  BY DEF CreateInv, CreateOk
<1>3. inits' \in [Gens -> InitStates] /\ inits'[g] \in {"none", "dying"}
      /\ (inits'[g] = "none" <=> inits[g] = "none")
      /\ \A h \in Gens : h # g => inits'[h] = inits[h]
  BY SMT, <1>2, KillFacts DEF TypeOK
<1>4. TypeOK'
  BY <1>3 DEF TypeOK
<1>5. ProcOk(p)' /\ CreateOk(p)' /\ UseOk(p)'
  <2>1. CASE proc'[p] = Idle
    BY <2>1, IdleFacts DEF ProcOk, CreateOk, UseOk, At, Creating, Using
  <2>2. CASE proc'[p] # Idle
    <3>1. ProcOk(p)' /\ UseOk(p)'
      BY SMTT(20), <1>1, <2>2, LifecycleAssumption DEF ProcInv, ProcOk, UseOk, Using, At, Creating, Gens
    <3>2. inits'[g] = "none" => \A h \in Gens : h < g => inits'[h] # "none"
      BY ZenonT(20), <1>3 DEF CreateInv, CreateOk, Gens
    <3>3. CreateOk(p)'
      <4>1. /\ proc'[p].pc = "abort" /\ proc'[p].gen = g
            /\ proc'[p].state = proc[p].state /\ proc'[p].data = proc[p].data
        BY <2>2
      <4>2. proc[p].state # "running" /\ ~proc[p].data /\ inits'[g] \in {"none", "dying"}
        BY ZenonT(20), <1>1, <1>3 DEF CreateInv, CreateOk
      <4> QED BY <3>2, <4>1, <4>2 DEF CreateOk, At, Creating
    <3> QED BY <3>1, <3>3
  <2> QED BY <2>1, <2>2
<1>6. GenInv' /\ StartOnce'
  BY SMT, <1>3 DEF GenInv, StartOnce
<1>7. DirInv'
  <2>1. dir.state # 0 => dir.state = g /\ dir.fifo
    BY SMT, LifecycleAssumption DEF OneInv, CreateInv, CreateOk, Gens
  <2> QED BY ZenonT(20), <1>3, <2>1 DEF DirInv
<1>8. \A h \in Gens : (Live(h)' => dir'.state = h) /\ inits'[h] # "booting"
  <2>1. \A h \in Gens : (Live(h) => dir.state = h) /\ (inits[h] = "booting" => h = g)
    BY SMT, <1>1 DEF OneInv, ProcInv, ProcOk, At, Creating
  <2> QED BY <2>1, <1>3 DEF Live
<1>9. proc'[p].pc \in {"idle", "abort"} /\ proc'[p].gen \in {0, g}
  BY IdleFacts
<1>10. proc'[p].gen # 0 /\ dir'.state # 0 => proc'[p].gen = dir'.state
  BY <1>9 DEF OneInv
<1> QED BY <1>1, <1>4, <1>5, <1>6, <1>7, <1>8, <1>9, <1>10, AloneStep

LEMMA CreateFailsStep == ASSUME IInv, NEW p \in Procs, createFails(p) PROVE IInv'
<1> USE DEF IInv
<1>1. PICK g \in Gens : g = proc[p].gen
  BY GenFacts DEF createFails
<1>2. inits[g] \in {"none", "booting"}
  BY <1>1 DEF createFails, CreateInv, CreateOk
<1>3. inits' = IF inits[g] = "booting" THEN KillInit(g) ELSE inits
  BY <1>1, <1>2 DEF createFails, KillInit, Alive
<1>4. /\ proc' \in [Procs -> Command] /\ proc'[p].pc = "abort"
      /\ \A q \in Procs : q # p => proc'[q] = proc[q]
      /\ proc'[p].gen = proc[p].gen /\ proc'[p].state = proc[p].state
      /\ proc'[p].data = proc[p].data /\ proc'[p].cmd = proc[p].cmd
  BY ZenonT(20), GotoFacts DEF createFails, Steps
<1> HIDE DEF IInv
<1> QED BY <1>1, <1>3, <1>4, AbortStep DEF createFails

LEMMA TerminateStep == ASSUME IInv, NEW p \in Procs, terminate(p) PROVE IInv'
<1> USE DEF IInv
<1>1. Creating(p) /\ At(p, "abort") /\ fifo.byte = 0
  BY AloneFacts DEF terminate, Creating, At
<1>2. PICK g \in Gens : g = proc[p].gen
  BY <1>1, GenFacts DEF At
<1>3. Goto(p, "destroy") /\ "destroy" \in Steps
  BY DEF terminate, Steps
<1>4. /\ proc' \in [Procs -> Command] /\ \A q \in Procs : q # p => proc'[q] = proc[q]
      /\ proc'[p].pc = "destroy" /\ proc'[p].gen = g /\ proc'[p].state = proc[p].state
      /\ proc'[p].data = proc[p].data
  BY <1>2, <1>3, GotoFacts
<1>5. UNCHANGED <<kids, cg, fifo, starts>> /\ dir' = [dir EXCEPT !.fifo = FALSE]
  BY DEF terminate
<1>6. /\ dir' \in [exists : BOOLEAN, fifo : BOOLEAN, state : 0..MaxGen]
      /\ dir'.exists = dir.exists /\ ~dir'.fifo /\ dir'.state = dir.state
  BY <1>5 DEF TypeOK
<1>7. inits' \in [Gens -> InitStates] /\ inits'[g] = "gone"
      /\ \A h \in Gens : h # g => inits'[h] = inits[h]
  BY <1>2 DEF terminate, TypeOK, InitStates
<1>8. TypeOK'
  BY <1>4, <1>5, <1>6, <1>7 DEF TypeOK
<1>9. proc[p].state # "running" /\ ~proc[p].data /\ g # 0
  BY SMTT(20), <1>1, LifecycleAssumption DEF CreateInv, CreateOk, Gens
<1>10. ProcOk(p)' /\ CreateOk(p)'
  BY <1>4, <1>9 DEF ProcOk, CreateOk, At, Creating
<1>11. UseOk(p)'
  <2>1. Over(g)' /\ Spent(g)' /\ Ended(g)'
    BY <1>7 DEF Over, Spent, Ended
  <2>2. Knows(p, g)'
    BY <1>4, <1>6, <1>7, <1>9, <2>1 DEF Knows, At, Destroying
  <2> QED BY <1>4, <2>2 DEF UseOk
<1>12. GenInv'
  <2>1. CASE inits[g] = "none"
    BY <1>1, <1>2, <1>5, <1>7, <2>1, NewGen DEF At
  <2>2. CASE inits[g] # "none"
    <3>1. \A h \in Gens : inits'[h] = "none" <=> inits[h] = "none"
      BY <1>7, <2>2
    <3>2. \A h \in Gens : inits'[h] = "booting" => inits[h] = "booting"
      BY <1>7
    <3> QED BY <1>5, <3>1, <3>2 DEF GenInv
  <2> QED BY <2>1, <2>2
<1>13. dir.state # 0 => dir.state = g
  BY <1>2, <1>9 DEF OneInv
<1>14. DirInv' /\ StartOnce'
  <2>1. ~dir.exists => ~dir.fifo
    BY SMT DEF DirInv, NoDir
  <2>2. ~dir'.exists => dir' = NoDir
    BY SMT, <1>6, <2>1 DEF DirInv, NoDir
  <2> QED BY <1>5, <1>6, <1>7, <1>13, <2>2 DEF DirInv, StartOnce, Spent, Over
<1>15. \A h \in Gens : (Live(h)' => dir'.state = h) /\ inits'[h] # "booting"
  <2>1. \A h \in Gens : (Live(h) => dir.state = h) /\ inits[h] # "booting"
    BY <1>1 DEF OneInv, ProcInv, ProcOk, At, Creating
  <2> QED BY <2>1, <1>6, <1>7 DEF Live
<1> QED BY <1>1, <1>4, <1>5, <1>6, <1>8, <1>10, <1>11, <1>12, <1>13, <1>14, <1>15, AloneStep

-----------------------------------------------------------------------------
(* A command is killed.                                                    *)

\* What closing p's end of the fifo leaves in it.
LEMMA CloseFacts ==
  ASSUME TypeOK, NEW p \in Procs
  PROVE  /\ Close(p) \in [conn : SUBSET Procs, byte : 0..1]
         /\ Close(p).conn = fifo.conn \ {p}
         /\ Close(p).byte = 1 => fifo.byte = 1 /\ (Close(p).conn # {} \/ Writer)
<1>1. fifo.conn \in SUBSET Procs /\ fifo.byte \in 0..1
  BY DEF TypeOK
<1> QED BY SMT, <1>1 DEF Close, Fifo

LEMMA LeaveStep ==
  ASSUME IInv, NEW p \in Procs, ~At(p, "idle"), proc[p].pc \notin {"save", "proceed"},
         Goto(p, "idle"), fifo' = Close(p), UNCHANGED <<dir, inits, kids, cg, starts>>
  PROVE  IInv'
<1> USE DEF IInv
<1>1. proc' \in [Procs -> Command] /\ proc'[p] = Idle /\ \A q \in Procs : q # p => proc'[q] = proc[q]
  BY GotoFacts DEF Steps
<1>2. TypeOK'
  BY <1>1, CloseFacts DEF TypeOK
<1>3. ASSUME NEW q \in Procs PROVE (ProcOk(q) /\ CreateOk(q) /\ UseOk(q))'
  <2>1. CASE q = p
    BY <2>1, <1>1, IdleFacts DEF ProcOk, CreateOk, UseOk, At, Creating, Using
  <2>2. CASE q # p
    <3>1. ~Creating(q)
      BY <2>2, NoCreator
    <3>2. proc[q].gen # 0 => Keeps(proc[q].gen)
      BY CloseFacts DEF Keeps, Advance
    <3> QED BY <1>1, <1>2, <2>2, <3>1, <3>2, OthersKeep
  <2> QED BY <2>1, <2>2
<1>4. GenInv' /\ StartOnce' /\ ListInv'
  BY SMT, <1>1, IdleFacts, ListKeep DEF GenInv, StartOnce
<1>5. DirInv'
  <2>1. fifo.byte = 0 => fifo'.byte = 0
    BY SMTT(20), <1>2, CloseFacts DEF TypeOK
  <2> QED BY <2>1 DEF DirInv, Spent, Over
<1>6. OneInv'
  BY SMTT(20), <1>1, IdleFacts DEF OneInv, Live
<1>7. FifoInv'
  <2>1. \A q \in fifo'.conn : q \in Procs /\ q # p /\ q \in fifo.conn
    BY SMT, <1>2, CloseFacts DEF TypeOK
  <2>2. fifo'.byte = 1 => fifo.byte = 1
    BY CloseFacts
  <2>3. fifo'.byte = 1 => fifo'.conn # {} \/ (dir.state # 0 /\ inits[dir.state] \in {"hooks", "dying"})
    <3>1. \A g \in Gens : g # 0
      BY SMTT(20), LifecycleAssumption DEF Gens
    <3>2. fifo.byte = 1 /\ Writer => dir.state # 0 /\ inits[dir.state] = "hooks"
      BY SMT, <3>1 DEF FifoInv, Writer, OneInv, Live
    <3> QED BY <3>2, CloseFacts
  <2>4. \A q \in fifo'.conn : At(q, "read")'
    BY <1>1, <2>1 DEF FifoInv, At
  <2>5. \A q \in Procs : proc'[q].gen # 0 => proc'[q].gen = proc[q].gen
    BY <1>1, IdleFacts
  <2> QED BY <2>2, <2>3, <2>4, <2>5 DEF FifoInv
<1> QED BY <1>2, <1>3, <1>4, <1>5, <1>6, <1>7 DEF ProcInv, CreateInv, UseInv

LEMMA CrashStep == ASSUME IInv, NEW p \in Procs, Crash(p) PROVE IInv'
<1> USE DEF IInv
<1>1. /\ ~At(p, "idle") /\ Goto(p, "idle") /\ fifo' = Close(p)
      /\ UNCHANGED <<dir, kids, cg, starts>>
  BY DEF Crash
<1>2. CASE proc[p].pc \in {"save", "proceed"}
  <2>1. PICK g \in Gens : g = proc[p].gen
    BY <1>2, GenFacts
  <2>2. inits' = IF inits[g] = "booting" THEN KillInit(g) ELSE inits
    BY SMT, <2>1, LifecycleAssumption DEF Crash, Gens
  <2>3. fifo' = fifo
    <3>1. fifo.conn = {} /\ fifo.byte = 0
      BY <1>2, AloneFacts DEF Creating, At
    <3>2. fifo = [conn |-> {}, byte |-> 0]
      BY <3>1 DEF TypeOK
    <3>3. Close(p) = [conn |-> {}, byte |-> 0]
      BY <3>1 DEF Close, Fifo
    <3> QED BY <1>1, <3>2, <3>3
  <2>4. proc' \in [Procs -> Command] /\ proc'[p] = Idle /\ \A q \in Procs : q # p => proc'[q] = proc[q]
    BY <1>1, GotoFacts DEF Steps
  <2> QED BY <1>1, <1>2, <2>1, <2>2, <2>3, <2>4, AbortStep
<1>3. CASE proc[p].pc \notin {"save", "proceed"}
  <2>1. proc[p].gen # 0 => inits[proc[p].gen] # "booting"
    BY SMTT(20), <1>1, <1>3, GenFacts, NoCreator DEF OneInv, Creating
  <2>2. UNCHANGED inits
    BY <2>1 DEF Crash
  <2> QED BY ZenonT(20), <1>1, <1>3, <2>2, LeaveStep
<1> QED BY <1>2, <1>3

-----------------------------------------------------------------------------
(* The process of the container.                                           *)

LEMMA OpensStep == ASSUME IInv, NEW g \in Gens, initOpens(g) PROVE IInv'
<1> USE DEF IInv
<1> DEFINE W == {p \in Procs : At(p, "wait") /\ proc[p].gen = g}
<1>1. /\ inits[g] = "blocked" /\ W # {} /\ cg.frozen = 0
      /\ inits' = [inits EXCEPT ![g] = "opened"]
      /\ fifo' = [fifo EXCEPT !.conn = @ \cup W]
      /\ proc' = [p \in Procs |-> IF p \in W THEN [proc[p] EXCEPT !.pc = "read"] ELSE proc[p]]
      /\ UNCHANGED <<dir, kids, cg, starts>>
  BY DEF initOpens
<1>2. g # 0 /\ dir.state = g /\ fifo.byte = 0 /\ dir.fifo /\ starts[g].won = 0
  <2>1. g # 0 /\ dir.state = g
    BY SMT, <1>1, LifecycleAssumption DEF OneInv, Live, Gens
  <2>2. fifo.byte = 0
    BY SMT, <1>1 DEF FifoInv, TypeOK
  <2> QED BY <1>1, <2>1, <2>2 DEF DirInv, Spent, Over
<1>3. ASSUME NEW q \in Procs, q \in W
      PROVE  /\ proc'[q] \in Command /\ proc'[q].pc = "read" /\ proc[q].pc = "wait"
             /\ proc'[q].gen = g /\ proc[q].gen = g /\ proc'[q].state = proc[q].state
             /\ proc'[q].data = proc[q].data
  <2>1. proc[q] \in Command /\ At(q, "wait") /\ proc[q].gen = g
    BY <1>3 DEF TypeOK
  <2>2. proc'[q] = [proc[q] EXCEPT !.pc = "read"] /\ proc[q].pc = "wait"
    BY <1>1, <1>3, <2>1 DEF At
  <2> QED BY <2>1, <2>2 DEF Command, Steps
<1>4. \A q \in Procs : q \notin W => proc'[q] = proc[q]
  BY <1>1
<1> HIDE DEF W
<1>5. proc' \in [Procs -> Command]
  BY <1>1, <1>3, <1>4 DEF TypeOK
<1>6. inits' \in [Gens -> InitStates] /\ inits'[g] = "opened"
      /\ \A h \in Gens : h # g => inits'[h] = inits[h]
  BY <1>1 DEF TypeOK, InitStates
<1>7. W \in SUBSET Procs
  BY DEF W
<1>8. fifo' \in [conn : SUBSET Procs, byte : 0..1] /\ fifo'.byte = 0
      /\ fifo'.conn = fifo.conn \cup W
  BY <1>1, <1>2, <1>7 DEF TypeOK
<1>9. TypeOK'
  BY <1>1, <1>5, <1>6, <1>8 DEF TypeOK
<1>10. \A q \in Procs : ~Creating(q)
  BY <1>1, <1>3, <1>7, NoCreator DEF At, Creating
<1>11. \A q \in Procs : proc'[q].gen = proc[q].gen
  BY <1>3, <1>4
<1>12. ASSUME NEW q \in Procs PROVE (ProcOk(q) /\ CreateOk(q) /\ UseOk(q))'
  <2>1. \A r \in Procs : ~Creating(r)'
    BY <1>3, <1>4, <1>10 DEF Creating
  <2>2. (ProcOk(q) /\ CreateOk(q))'
    <3>1. CASE q \in W
      BY <3>1, <1>2, <1>3, <2>1 DEF ProcOk, CreateOk, ProcInv, At, Creating
    <3>2. CASE q \notin W
      <4>1. proc'[q] = proc[q] /\ ~Creating(q) /\ ~Creating(q)' /\ ProcOk(q)
        BY <3>2, <1>4, <1>10, <2>1 DEF ProcInv
      <4>2. proc[q].pc # "rmpath"
        <5>1. CreateOk(q)
          BY DEF CreateInv
        <5> QED BY <5>1, <1>2 DEF CreateOk
      <4> QED BY <4>1, <4>2 DEF ProcOk, CreateOk, At, Creating
    <3> QED BY <3>1, <3>2
  <2>3. UseOk(q)'
    <3>1. SUFFICES ASSUME Using(q)' PROVE Knows(q, g)' /\ proc'[q].gen = g
      BY DEF UseOk
    <3>2. proc[q].gen = g /\ Using(q) /\ proc'[q].gen = g
      BY <1>2, <1>10, <1>11, <3>1 DEF Using, OneInv
    <3>3. Knows(q, g)
      BY <3>2 DEF UseInv, UseOk
    <3>4. /\ ~proc[q].data /\ proc[q].state \notin {"stopped", "running"}
          /\ proc[q].pc \notin {"read", "rmfifo"} /\ ~Destroying(q)
          /\ ~(At(q, "destroy") /\ proc[q].state = "created")
      BY <1>1, <1>2, <3>3 DEF Knows, Spent, Over, Ended
    <3>5. /\ ~proc'[q].data /\ proc'[q].state \notin {"stopped", "running"}
          /\ proc'[q].pc # "rmfifo" /\ ~Destroying(q)'
          /\ ~(At(q, "destroy")' /\ proc'[q].state = "created")
      <4>1. CASE q \in W
        BY <4>1, <1>3, <3>4 DEF Destroying, At
      <4>2. CASE q \notin W
        BY <4>2, <1>4, <3>4 DEF Destroying, At
      <4> QED BY <4>1, <4>2
    <3> QED BY <1>1, <1>2, <1>6, <3>2, <3>5 DEF Knows, At
  <2> QED BY <2>2, <2>3
<1>13. GenInv' /\ StartOnce'
  <2>1. \A h \in Gens : inits'[h] \in {"none", "booting"} <=> inits[h] \in {"none", "booting"}
    BY <1>1, <1>6
  <2>2. \A h \in Gens : inits'[h] # "none" <=> inits[h] # "none"
    BY <1>1, <1>6
  <2> QED BY <1>1, <2>1, <2>2 DEF GenInv, StartOnce
<1>14. OneInv'
  <2>1. \A h \in Gens : inits[h] # "booting"
    BY <1>10 DEF OneInv, Creating
  <2> QED BY SMTT(20), <1>1, <1>2, <1>6, <1>11, <2>1 DEF OneInv, Live
<1>15. DirInv'
  BY ZenonT(20), <1>1, <1>2, <1>6 DEF DirInv
<1>16. FifoInv' /\ ListInv'
  <2>1. \A q \in fifo'.conn : At(q, "read")'
    BY <1>3, <1>4, <1>7, <1>8 DEF FifoInv, At, TypeOK
  <2>2. \A q \in Procs : cg'.frozen # q
    BY SMT, <1>1, LifecycleAssumption DEF Procs
  <2>3. fifo'.byte # 1
    BY SMT, <1>8
  <2>4. FifoInv' BY <2>1, <2>3 DEF FifoInv
  <2>5. ListInv' BY <2>2 DEF ListInv
  <2> QED BY <2>4, <2>5
<1> QED BY <1>9, <1>12, <1>13, <1>14, <1>15, <1>16 DEF ProcInv, CreateInv, UseInv

LEMMA WritesStep == ASSUME IInv, NEW g \in Gens, initWrites(g) PROVE IInv'
<1> USE DEF IInv
<1>1. inits[g] = "opened" /\ UNCHANGED <<proc, dir, kids, cg>>
  BY DEF initWrites
<1>2. g # 0 /\ dir.state = g
  BY SMT, <1>1, LifecycleAssumption DEF OneInv, Live, Gens
<1>3. starts[g] \in [won : Nat, released : BOOLEAN] /\ fifo.conn \in SUBSET Procs
  BY DEF TypeOK
<1>4. /\ inits' \in [Gens -> InitStates] /\ inits'[g] \in {"dying", "hooks"}
      /\ \A h \in Gens : h # g => inits'[h] = inits[h]
  <2>1. inits \in [Gens -> InitStates] /\ {"dying", "hooks"} \subseteq InitStates
    BY DEF TypeOK, InitStates
  <2>2. PICK x \in {"dying", "hooks"} : inits' = [inits EXCEPT ![g] = x]
    BY DEF initWrites
  <2> QED BY <2>1, <2>2
<1>5. CASE fifo.conn = {}
  <2>1. fifo' = [conn |-> {}, byte |-> 0] /\ starts' = starts
    BY <1>5 DEF initWrites, Fifo
  <2>2. TypeOK'
    BY SMTT(20), <1>1, <1>4, <2>1 DEF TypeOK
  <2>3. FifoInv'
    BY SMT, <2>1 DEF FifoInv
  <2> QED BY <1>1, <1>4, <2>1, <2>2, <2>3, HostStep DEF Advance
<1>6. CASE fifo.conn # {}
  <2>1. fifo' = [fifo EXCEPT !.byte = 1] /\ starts' = [starts EXCEPT ![g].released = TRUE]
    BY <1>6 DEF initWrites
  <2>2. fifo' \in [conn : SUBSET Procs, byte : 0..1] /\ fifo'.conn = fifo.conn
    BY SMT, <2>1 DEF TypeOK
  <2>3. /\ starts' \in [Gens -> [won : Nat, released : BOOLEAN]]
        /\ starts'[g].released /\ starts'[g].won = starts[g].won
        /\ \A h \in Gens : h # g => starts'[h] = starts[h]
    BY <1>3, <2>1 DEF TypeOK
  <2>4. TypeOK'
    BY <1>1, <1>4, <2>2, <2>3 DEF TypeOK
  <2>5. \A q \in Procs : proc[q].gen # 0 => proc[q].gen = g
    BY <1>2 DEF OneInv
  <2>6. \A h \in Gens : inits'[h] \notin {"booting", "blocked", "opened"}
    <3>1. SUFFICES ASSUME NEW h \in Gens, h # g PROVE inits[h] \notin {"booting", "blocked", "opened"}
      BY <1>4
    <3>2. ~Live(h)
      BY <1>2, <3>1 DEF OneInv
    <3>3. inits[h] # "booting"
      BY SMTT(20), <1>2, <3>1, LifecycleAssumption DEF OneInv, Gens
    <3> QED BY <3>2, <3>3 DEF Live
  <2>7. FifoInv'
    BY ZenonT(20), <1>1, <1>2, <1>6, <2>2, <2>3, <2>5, <2>6 DEF FifoInv, At
  <2> QED BY <1>1, <1>4, <2>3, <2>4, <2>7, HostStep DEF Advance
<1> QED BY <1>5, <1>6

\* Whether the byte stays depends on who holds the fifo.
LEMMA ByteStays ==
  ASSUME TypeOK, NEW w \in BOOLEAN
  PROVE  /\ Fifo(fifo.conn, fifo.byte, w) \in [conn : SUBSET Procs, byte : 0..1]
         /\ Fifo(fifo.conn, fifo.byte, w).conn = fifo.conn
         /\ Fifo(fifo.conn, fifo.byte, w).byte = 1 => fifo.byte = 1 /\ (fifo.conn # {} \/ w)
<1>1. fifo.conn \in SUBSET Procs /\ fifo.byte \in 0..1
  BY DEF TypeOK
<1> QED BY SMT, <1>1 DEF Fifo

LEMMA EndStep ==
  ASSUME IInv, NEW g \in Gens, initExecs(g) \/ initExits(g) \/ initReaped(g)
  PROVE  IInv'
<1> USE DEF IInv
<1> DEFINE other == \E h \in Gens \ {g} : inits[h] \in {"opened", "hooks"}
<1>1. UNCHANGED <<proc, dir, kids, cg, starts>>
  BY DEF initExecs, initExits, initReaped, Rest
<1>2. /\ inits' \in [Gens -> InitStates] /\ \A h \in Gens : h # g => inits'[h] = inits[h]
      /\ inits'[g] \in {"running", "dying", "zombie", "gone"}
      /\ inits[g] \in {"hooks", "running", "dying", "zombie"} /\ Advance(g)
  <2>1. CASE initExecs(g)
    BY SMT, <2>1 DEF initExecs, TypeOK, InitStates, Advance
  <2>2. CASE initExits(g)
    BY <2>2 DEF initExits, TypeOK, InitStates, Advance
  <2>3. CASE initReaped(g)
    BY <2>3 DEF initReaped, TypeOK, InitStates, Advance
  <2> QED BY <2>1, <2>2, <2>3
<1>3. /\ fifo' \in [conn : SUBSET Procs, byte : 0..1] /\ fifo'.conn = fifo.conn
      /\ fifo'.byte = 1 => fifo.byte = 1
      /\ fifo'.byte = 1 => fifo.conn # {} \/ other \/ inits[g] = "zombie"
  <2>1. CASE initExecs(g)
    <3>1. fifo' = Fifo(fifo.conn, fifo.byte, FALSE)
      BY <2>1 DEF initExecs
    <3> QED BY <3>1, ByteStays
  <2>2. CASE initExits(g)
    <3>1. fifo' = Fifo(fifo.conn, fifo.byte, other) /\ other \in BOOLEAN
      BY <2>2 DEF initExits
    <3> HIDE DEF other
    <3> QED BY <3>1, ByteStays
  <2>3. CASE initReaped(g)
    BY <2>3 DEF initReaped, TypeOK
  <2> QED BY <2>1, <2>2, <2>3
<1>4. TypeOK'
  BY <1>1, <1>2, <1>3 DEF TypeOK
<1>5. FifoInv'
  <2>1. SUFFICES ASSUME fifo'.byte = 1
        PROVE  fifo'.conn # {} \/ (dir'.state # 0 /\ inits'[dir'.state] \in {"hooks", "dying"})
    BY <1>1, <1>2, <1>3 DEF FifoInv, At
  <2>2. CASE fifo.conn # {}
    BY <2>2, <1>3
  <2>3. CASE other /\ fifo.byte = 1
    <3>1. PICK h \in Gens \ {g} : inits[h] \in {"opened", "hooks"}
      BY <2>3
    <3>2. dir.state = h /\ h # 0 /\ inits[h] = "hooks"
      BY SMTT(20), <2>3, <3>1, LifecycleAssumption DEF OneInv, Live, Gens, FifoInv
    <3> QED BY <1>1, <1>2, <3>1, <3>2
  <2>4. CASE inits[g] = "zombie" /\ fifo.byte = 1 /\ fifo.conn = {}
    <3>1. dir.state # 0 /\ inits[dir.state] \in {"hooks", "dying"} /\ dir.state \in Gens
      BY SMT, <2>4 DEF FifoInv, TypeOK, Gens
    <3> QED BY <1>1, <1>2, <2>4, <3>1
  <2> QED BY <1>3, <2>1, <2>2, <2>3, <2>4
<1> QED BY <1>1, <1>2, <1>3, <1>4, <1>5, HostStep

\* The rest of the invariant is not about the container's other processes.
LEMMA SameStep ==
  ASSUME IInv, UNCHANGED <<proc, dir, inits, fifo, starts>>, TypeOK', ListInv'
  PROVE  IInv'
<1> USE DEF IInv
<1>1. ProcInv'
  BY DEF ProcInv, ProcOk, At, Creating
<1>2. ASSUME NEW q \in Procs PROVE CreateOk(q)'
  <2>1. CreateOk(q)
    BY DEF CreateInv
  <2> QED BY <2>1 DEF CreateOk, At, Creating
<1>3. ASSUME NEW q \in Procs PROVE UseOk(q)'
  <2>1. UseOk(q)
    BY DEF UseInv
  <2>2. (Spent(proc[q].gen)' <=> Spent(proc[q].gen)) /\ (Ended(proc[q].gen)' <=> Ended(proc[q].gen))
    BY DEF Spent, Ended, Over
  <2> QED BY <2>1, <2>2 DEF UseOk, Using, Creating, Knows, Over, Destroying, At
<1>4. GenInv' /\ OneInv' /\ DirInv' /\ FifoInv' /\ StartOnce'
  <2>1. GenInv' BY DEF GenInv
  <2>2. OneInv' BY DEF OneInv, Live
  <2>3. DirInv' BY DEF DirInv, Spent, Over
  <2>4. FifoInv' BY DEF FifoInv, At
  <2>5. StartOnce' BY DEF StartOnce
  <2> QED BY <2>1, <2>2, <2>3, <2>4, <2>5
<1> QED BY <1>1, <1>2, <1>3, <1>4 DEF CreateInv, UseInv

\* The other processes of the container come and go.
LEMMA KidStep ==
  ASSUME IInv, NEW k \in Kids, fork(k) \/ kidExits(k)
  PROVE  IInv'
<1>1. UNCHANGED <<proc, dir, inits, cg, fifo, starts>>
  BY DEF fork, kidExits, Rest
<1>2. kids' \in [Kids -> {"none", "alive", "dying"}]
      /\ \A j \in Kids : kids'[j] = "alive" => kids[j] = "alive" \/ cg.frozen = 0
  BY DEF IInv, fork, kidExits, TypeOK
<1>3. TypeOK'
  BY <1>1, <1>2 DEF IInv, TypeOK
<1>4. ListInv'
  BY SMT, <1>1, <1>2, LifecycleAssumption DEF IInv, ListInv, At, Procs
<1> QED BY <1>1, <1>3, <1>4, SameStep

-----------------------------------------------------------------------------
(* The invariant holds, and what follows from it.                          *)

LEMMA InitHolds == Init => IInv
<1> SUFFICES ASSUME Init PROVE IInv
  OBVIOUS
<1>1. /\ \A p \in Procs : proc[p] = Idle
      /\ dir = NoDir /\ fifo = [conn |-> {}, byte |-> 0] /\ cg = NoCgroup
      /\ \A g \in Gens : inits[g] = "none"
      /\ \A g \in Gens : starts[g] = [won |-> 0, released |-> FALSE]
  BY DEF Init
<1>2. 0 \notin Procs /\ 0 \in 0..MaxGen /\ 0 \in 0..Slots /\ \A g \in Gens : ~(g <= 0)
  BY SMTT(20), LifecycleAssumption DEF Procs, Gens
<1>3. TypeOK
  <2>1. proc \in [Procs -> Command] /\ inits \in [Gens -> InitStates]
    BY IdleFacts DEF Init, InitStates
  <2>2. kids \in [Kids -> {"none", "alive", "dying"}]
        /\ starts \in [Gens -> [won : Nat, released : BOOLEAN]]
    BY DEF Init
  <2> QED BY SMT, <1>1, <1>2, <2>1, <2>2 DEF TypeOK, NoDir, NoCgroup
<1>4. ProcInv /\ CreateInv /\ UseInv
  BY <1>1, IdleFacts DEF ProcInv, ProcOk, CreateInv, CreateOk, UseInv, UseOk, Using, At, Creating
<1>5. GenInv
  BY <1>1, <1>2 DEF GenInv
<1>6. OneInv /\ DirInv /\ FifoInv
  <2>1. dir.state = 0 /\ fifo.conn = {} /\ fifo.byte # 1 /\ \A p \in Procs : proc[p].gen = 0
    BY SMT, <1>1, IdleFacts DEF NoDir
  <2>2. OneInv BY <1>1, <2>1 DEF OneInv, Live
  <2>3. DirInv BY <1>1, <2>1 DEF DirInv
  <2>4. FifoInv BY <2>1 DEF FifoInv
  <2> QED BY <2>2, <2>3, <2>4
<1>7. ListInv /\ StartOnce
  BY SMT, <1>1, <1>2 DEF ListInv, NoCgroup, StartOnce
<1> QED BY <1>3, <1>4, <1>5, <1>6, <1>7 DEF IInv

\* Every step of a command preserves the invariant ...
LEMMA CommandStep == ASSUME IInv, NEW p \in Procs, Step(p) PROVE IInv'
<1>1. CASE CreateStep(p)
  BY <1>1, FactoryStep, MkdirStep, MkfifoStep, SpawnStep, SaveStep, ProceedStep, TerminateStep
     DEF CreateStep
<1>2. CASE StartStep(p)
  BY <1>2, OpenStep, AwaitStep, ReadStep, ReadEndStep, RmfifoStep, ForwardStep DEF StartStep
<1>3. CASE KillStep(p)
  BY <1>3, SignalStatusStep, SignalStep, CgroupStep, PollStep DEF KillStep
<1>4. CASE DestroyStep(p)
  BY <1>4, DestroyStep1, FreezeStep, ListStep, SigallStep, ThawStep, RmdirStep, RmpathStep
     DEF DestroyStep
<1> QED BY <1>1, <1>2, <1>3, <1>4, LoadStep, StatusStep DEF Step

\* ... and so does every other step.
LEMMA NextHolds == IInv /\ [Next]_vars => IInv'
<1> SUFFICES ASSUME IInv, [Next]_vars PROVE IInv'
  OBVIOUS
<1>1. CASE \E p \in 1..(Slots - 1), cmd \in Commands : Issue(p, cmd)
  BY <1>1, IssueStep
<1>2. CASE Cleanup
  BY <1>2, CleanupStep
<1>3. CASE \E p \in Procs : Step(p) \/ createFails(p) \/ Crash(p)
  BY <1>3, CommandStep, CreateFailsStep, CrashStep
<1>4. CASE Host
  BY <1>4, OpensStep, WritesStep, EndStep, KidStep DEF Host
<1>5. CASE UNCHANGED vars
  <2>1. UNCHANGED <<proc, dir, inits, kids, cg, fifo, starts>>
    BY <1>5 DEF vars
  <2>2. TypeOK' /\ ListInv'
    BY <2>1 DEF IInv, TypeOK, ListInv, At
  <2> QED BY <2>1, <2>2, SameStep
<1> QED BY <1>1, <1>2, <1>3, <1>4, <1>5 DEF Next

\* The inductive invariant holds in every behaviour, whatever commands a caller
\* issues on the ID, however their steps interleave and wherever one is killed.
THEOREM LifecycleInvariant == Spec => []IInv
BY InitHolds, NextHolds, PTL DEF Spec

\* The variables of the commands, of the state directory, of the process table
\* and of the exec fifo keep their types.
THEOREM LifecycleTypes == Spec => []TypeOK
<1>1. IInv => TypeOK
  BY DEF IInv
<1> QED BY <1>1, LifecycleInvariant, PTL

\* Of any number of concurrent start commands at most one succeeds, and only
\* when the user's process was let go (linuxContainer.exec, readFromExecFifo).
THEOREM StartsOnce == Spec => []StartOnce
<1>1. IInv => StartOnce
  BY DEF IInv
<1> QED BY <1>1, LifecycleInvariant, PTL

\* Between the list and the signal of signalAllProcesses nothing forks that
\* the signal does not reach, unless another command thawed the cgroup.
THEOREM KillAllComplete == Spec => []KillAllReachesForks
<1>1. IInv => KillAllReachesForks
  BY DEF IInv, ListInv, KillAllReachesForks
<1> QED BY <1>1, LifecycleInvariant, PTL

-----------------------------------------------------------------------------
(* The abstract life cycle of OCILifecycle, step by step.                  *)

LifeStep == OCI!Next \/ Status' = Status

\* Status, case by case: `dir' names the creation whose process decides.
LEMMA StatusIs ==
  /\ ~dir.exists => Status = "none"
  /\ dir.exists /\ dir.state = 0 => Status = "creating"
  /\ dir.exists /\ dir.state # 0 =>
       /\ inits[dir.state] = "booting" => Status = "creating"
       /\ inits[dir.state] = "blocked" => Status = "created"
       /\ inits[dir.state] \in {"opened", "hooks", "running"} => Status = "running"
       /\ inits[dir.state] \in {"none", "dying", "zombie", "gone"} => Status = "stopped"
BY DEF Status

LEMMA StatusWillBe ==
  /\ ~dir'.exists => Status' = "none"
  /\ dir'.exists /\ dir'.state = 0 => Status' = "creating"
  /\ dir'.exists /\ dir'.state # 0 =>
       /\ inits'[dir'.state] = "booting" => Status' = "creating"
       /\ inits'[dir'.state] = "blocked" => Status' = "created"
       /\ inits'[dir'.state] \in {"opened", "hooks", "running"} => Status' = "running"
       /\ inits'[dir'.state] \in {"none", "dying", "zombie", "gone"} => Status' = "stopped"
BY DEF Status

\* While the directory names the same creation, its process only goes forward.
LEMMA ForwardLife ==
  ASSUME IInv, dir'.exists = dir.exists, dir'.state = dir.state,
         dir.state # 0 => Advance(dir.state)
  PROVE  LifeStep
<1>1. dir.state # 0 => inits[dir.state] \in InitStates
  BY SMT DEF IInv, TypeOK, Gens
<1>2. CASE ~dir.exists \/ dir.state = 0
  BY SMT, <1>2, StatusIs, StatusWillBe DEF LifeStep
<1>3. CASE dir.exists /\ dir.state # 0
  BY <1>1, <1>3, StatusIs, StatusWillBe
     DEF LifeStep, Advance, InitStates, OCI!Next, OCI!Start, OCI!Stop
<1> QED BY <1>2, <1>3

\* A kill moves one process forward.
LEMMA KillAdvances ==
  ASSUME IInv, NEW g \in Gens, inits' = KillInit(g) \/ inits' = inits, NEW h \in Gens
  PROVE  Advance(h)
BY KillFacts DEF IInv, Advance

\* The steps that leave the directory's creation what it is.
LEMMA QuietSteps ==
  ASSUME IInv, NEW p \in Procs,
         \/ UNCHANGED <<dir, inits>>
         \/ Signal(p) \/ signalPids(p) \/ Destroy(p) \/ createFails(p) \/ Crash(p)
         \/ createExecFifo(p) \/ removeFifo(p) \/ forward(p) \/ terminate(p) \/ startInit(p)
  PROVE  LifeStep
<1>1. dir.state \in 0..MaxGen /\ (dir.state # 0 => dir.state \in Gens)
      /\ dir \in [exists : BOOLEAN, fifo : BOOLEAN, state : 0..MaxGen]
  BY GenFacts DEF IInv, TypeOK
<1>2. CASE UNCHANGED <<dir, inits>>
  BY <1>2, ForwardLife DEF Advance
<1>3. CASE Signal(p) \/ signalPids(p) \/ Destroy(p) \/ createFails(p) \/ Crash(p)
  <2>1. dir' = dir
    BY <1>3 DEF Signal, signalPids, Destroy, createFails, Crash
  <2>2. inits' = inits \/ (proc[p].gen \in Gens /\ inits' = KillInit(proc[p].gen))
    <3>1. proc[p].pc \in {"signal", "sigall", "destroy", "spawn", "save", "proceed"} =>
            proc[p].gen \in Gens
      BY GenFacts DEF IInv
    <3>2. proc[p].gen # 0 => proc[p].gen \in Gens
      BY GenFacts DEF IInv
    <3> QED BY <1>3, <3>1, <3>2 DEF Signal, signalPids, Destroy, createFails, Crash, At
  <2>3. \A h \in Gens : Advance(h)
    BY <2>2, KillAdvances DEF Advance
  <2> QED BY <1>1, <2>1, <2>3, ForwardLife
<1>4. CASE createExecFifo(p) \/ removeFifo(p)
  <2>1. dir'.exists = dir.exists /\ dir'.state = dir.state /\ inits' = inits
    BY <1>1, <1>4 DEF createExecFifo, removeFifo
  <2> QED BY <2>1, ForwardLife DEF Advance
<1>5. CASE forward(p)
  <2>1. dir' = dir /\ proc[p].gen \in Gens
    BY <1>5, GenFacts DEF IInv, forward, At
  <2>2. \A h \in Gens : Advance(h)
    BY <1>5, <2>1 DEF forward, Advance, IInv, TypeOK
  <2> QED BY <1>1, <2>1, <2>2, ForwardLife
<1>6. CASE terminate(p)
  <2>1. /\ dir'.exists = dir.exists /\ dir'.state = dir.state
        /\ proc[p].gen \in Gens /\ proc[p].gen # 0
        /\ inits' = [inits EXCEPT ![proc[p].gen] = "gone"] /\ ~Alive(proc[p].gen)
    BY SMTT(20), <1>1, <1>6, GenFacts, LifecycleAssumption DEF IInv, terminate, At, Gens
  <2>2. \A h \in Gens : inits[h] # "none" => Advance(h)
    BY SMT, <2>1 DEF Advance, Alive, IInv, TypeOK, InitStates
  <2>3. dir.state # 0 => inits[dir.state] # "none"
    BY DEF IInv, DirInv
  <2> QED BY <1>1, <2>1, <2>2, <2>3, ForwardLife
<1>7. CASE startInit(p)
  <2>1. dir' = dir /\ dir.state = 0
    BY <1>7 DEF startInit, IInv, CreateInv, CreateOk, At
  <2> QED BY <2>1, ForwardLife
<1> QED BY <1>2, <1>3, <1>4, <1>5, <1>6, <1>7

\* The steps that make and remove the directory, save the state, and let
\* runc init reach the exec fifo.
LEMMA MarkedSteps ==
  ASSUME IInv, NEW p \in Procs,
         mkdirRoot(p) \/ saveState(p) \/ proceed(p) \/ removeRoot(p) \/ removePath(p)
  PROVE  LifeStep
<1>1. dir.state \in 0..MaxGen /\ (dir.state # 0 => dir.state \in Gens)
      /\ dir \in [exists : BOOLEAN, fifo : BOOLEAN, state : 0..MaxGen]
      /\ (~dir.exists => dir.state = 0)
  BY SMT, GenFacts DEF IInv, TypeOK, DirInv, NoDir
<1>2. CASE mkdirRoot(p)
  <2>1. ~dir.exists /\ dir.state = 0
    BY <1>1, <1>2 DEF mkdirRoot, IInv, CreateInv, CreateOk, At
  <2>2. dir'.exists /\ dir'.state = 0
    BY <1>1, <1>2, <2>1 DEF mkdirRoot
  <2> QED BY <2>1, <2>2, StatusIs, StatusWillBe DEF LifeStep, OCI!Next, OCI!Create
<1>3. CASE saveState(p)
  <2>1. /\ proc[p].gen \in Gens /\ proc[p].gen # 0 /\ inits[proc[p].gen] = "booting"
        /\ inits' = inits /\ dir.state = 0
    BY SMTT(20), <1>3, GenFacts, LifecycleAssumption DEF saveState, IInv, CreateInv, CreateOk, At, Gens
  <2>2. dir'.exists = dir.exists /\ dir'.state = proc[p].gen
    BY <1>1, <1>3 DEF saveState
  <2> QED BY ZenonT(20), <2>1, <2>2, StatusIs, StatusWillBe DEF LifeStep
<1>4. CASE proceed(p)
  <2>1. /\ proc[p].gen \in Gens /\ proc[p].gen # 0 /\ inits[proc[p].gen] = "booting"
        /\ dir.state = proc[p].gen /\ dir' = dir
        /\ inits' = [inits EXCEPT ![proc[p].gen] = "blocked"]
    <3>1. proc[p].pc = "proceed" /\ proc[p].gen \in Gens /\ CreateOk(p)
      BY <1>4, GenFacts DEF proceed, IInv, At, CreateInv
    <3>2. proc[p].gen # 0
      BY SMT, <3>1, LifecycleAssumption DEF Gens
    <3> QED BY <1>4, <3>1, <3>2 DEF proceed, CreateOk, At
  <2>2. inits'[dir.state] = "blocked" /\ dir.exists
    BY <1>1, <2>1 DEF IInv, TypeOK
  <2> QED BY ZenonT(20), <2>1, <2>2, StatusIs, StatusWillBe DEF LifeStep, OCI!Next, OCI!Created
<1>5. CASE removeRoot(p) \/ removePath(p)
  <2>1. ~dir'.exists
    BY SMT, <1>5 DEF removeRoot, removePath, NoDir
  <2>2. CASE ~dir.exists
    BY <2>1, <2>2, StatusIs, StatusWillBe DEF LifeStep
  <2>3. CASE dir.exists /\ dir.state = 0
    BY <2>1, <2>3, StatusIs, StatusWillBe DEF LifeStep, OCI!Next, OCI!Delete
  <2>4. CASE dir.exists /\ dir.state # 0
    <3>1. removeRoot(p)
      BY ZenonT(20), <1>5, <2>4 DEF removePath, IInv, CreateInv, CreateOk, At
    <3>2. proc[p].gen \in Gens /\ proc[p].gen # 0 /\ Using(p) /\ Destroying(p)
      <4>1. proc[p].pc = "rmdir" /\ proc[p].gen \in Gens
        BY <3>1, GenFacts DEF removeRoot, IInv, At
      <4>2. proc[p].gen # 0
        BY SMT, <4>1, LifecycleAssumption DEF Gens
      <4> QED BY <4>1, <4>2 DEF Using, Creating, Destroying
    <3>3. dir.state = proc[p].gen
      BY <2>4, <3>2 DEF IInv, OneInv
    <3>4. Ended(dir.state)
      BY <3>2, <3>3 DEF IInv, UseInv, UseOk, Knows
    <3> QED BY <2>1, <2>4, <3>4, StatusIs, StatusWillBe
            DEF LifeStep, OCI!Next, OCI!Delete, Ended, Over
  <2> QED BY <2>2, <2>3, <2>4
<1> QED BY <1>2, <1>3, <1>4, <1>5

\* The container's own process and its children.
LEMMA HostSteps == ASSUME IInv, Host PROVE LifeStep
<1>1. dir.state # 0 => dir.state \in Gens
  BY SMT DEF IInv, TypeOK, Gens
<1>2. dir' = dir
  BY DEF Host, initOpens, initWrites, initExecs, initExits, initReaped, fork, kidExits, Rest
<1>3. ASSUME NEW h \in Gens PROVE Advance(h)
  <2>1. CASE \E k \in Kids : fork(k) \/ kidExits(k)
    BY <2>1 DEF fork, kidExits, Advance
  <2>2. ASSUME NEW g \in Gens, initOpens(g) \/ initWrites(g) PROVE Advance(h)
    BY <2>2 DEF initOpens, initWrites, Advance, IInv, TypeOK
  <2>3. ASSUME NEW g \in Gens, initExecs(g) \/ initExits(g) \/ initReaped(g) PROVE Advance(h)
    <3>1. CASE initExecs(g)
      BY <3>1 DEF initExecs, Advance, IInv, TypeOK
    <3>2. CASE initExits(g) \/ initReaped(g)
      BY <3>2 DEF initExits, initReaped, Advance, IInv, TypeOK
    <3> QED BY <2>3, <3>1, <3>2
  <2> QED BY <2>1, <2>2, <2>3 DEF Host
<1> QED BY <1>1, <1>2, <1>3, ForwardLife

\* Every step is a step of the abstract life cycle, or leaves it where it is.
LEMMA LifeNext == IInv /\ [Next]_vars => [OCI!Next]_Status
<1> SUFFICES ASSUME IInv, [Next]_vars PROVE LifeStep
  BY DEF LifeStep
<1>1. CASE \E p \in 1..(Slots - 1), cmd \in Commands : Issue(p, cmd)
  <2>1. UNCHANGED <<dir, inits>>
    BY <1>1 DEF Issue
  <2> QED BY <2>1, ForwardLife DEF Advance
<1>2. CASE Cleanup \/ UNCHANGED vars
  <2>1. UNCHANGED <<dir, inits>>
    BY <1>2 DEF Cleanup, vars
  <2> QED BY <2>1, ForwardLife DEF Advance
<1>3. ASSUME NEW p \in Procs, Step(p) \/ createFails(p) \/ Crash(p) PROVE LifeStep
  <2>1. CASE createFails(p) \/ Crash(p)
    BY <2>1, QuietSteps
  <2>2. CASE CreateStep(p)
    <3>1. factoryCreate(p) => UNCHANGED <<dir, inits>>
      BY DEF factoryCreate
    <3> QED BY <2>2, <3>1, QuietSteps, MarkedSteps DEF CreateStep
  <2>3. CASE StartStep(p)
    <3>1. fifoOpen(p) \/ awaitFifoOpen(p) \/ execPoll(p) \/ readByte(p) \/ readFromExecFifo(p)
            => UNCHANGED <<dir, inits>>
      BY DEF fifoOpen, awaitFifoOpen, execPoll, readByte, readFromExecFifo
    <3> QED BY <2>3, <3>1, QuietSteps DEF StartStep
  <2>4. CASE KillStep(p)
    <3>1. signalStatus(p) \/ unfreeze(p) \/ killContainer(p) \/ Pause(p) \/ Resume(p)
            => UNCHANGED <<dir, inits>>
      BY DEF signalStatus, unfreeze, killContainer, Pause, Resume
    <3> QED BY <2>4, <3>1, QuietSteps DEF KillStep
  <2>5. CASE DestroyStep(p)
    <3>1. freezeAll(p) \/ listPids(p) \/ thawAll(p) \/ destroyCgroup(p) => UNCHANGED <<dir, inits>>
      BY DEF freezeAll, listPids, thawAll, destroyCgroup
    <3> QED BY <2>5, <3>1, QuietSteps, MarkedSteps DEF DestroyStep
  <2>6. CASE load(p) \/ currentStatus(p)
    <3>1. UNCHANGED <<dir, inits>>
      BY <2>6 DEF load, currentStatus
    <3> QED BY <3>1, QuietSteps
  <2> QED BY <1>3, <2>1, <2>2, <2>3, <2>4, <2>5, <2>6 DEF Step
<1>4. CASE Host
  BY <1>4, HostSteps
<1> QED BY <1>1, <1>2, <1>3, <1>4 DEF Next

\* Whatever commands interleave, and wherever one is killed, the container goes
\* through the abstract life cycle: it is created before it runs, runs at most
\* once, and its state directory is not removed while its process lives on
\* (state_linux.go's states, delete.go's killContainer).
THEOREM LifecycleImplemented == Spec => ImplementsOCI
<1>1. Init => OCI!Init
  BY SMT DEF Init, Status, NoDir, OCI!Init
<1>2. IInv /\ [Next]_vars => [OCI!Next]_Status
  BY LifeNext
<1> QED BY <1>1, <1>2, LifecycleInvariant, PTL DEF Spec, ImplementsOCI, OCI!Spec
=============================================================================
