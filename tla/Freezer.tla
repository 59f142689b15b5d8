------------------------------ MODULE Freezer -------------------------------
(***************************************************************************)
(* The freezer of one container: FreezerGroup on cgroup v1 (cgroups/fs),    *)
(* setFreezer and getFreezer on v2 (cgroups/fs2), and the freeze around a   *)
(* change of unit properties in legacyManager.Set (cgroups/systemd).        *)
(*                                                                          *)
(* Several runc processes (pause, resume, state, update) work on the same   *)
(* cgroup, each one file access at a time.  The kernel is external: it goes *)
(* from FREEZING to FROZEN on its own, or never when new processes keep     *)
(* appearing in a v1 cgroup.                                                *)
(***************************************************************************)
EXTENDS Integers, FiniteSets

CONSTANTS fzConfs,      \* the configurations to consider: see fzInit
          fzTries,      \* attempts to freeze, and polls of cgroup.events (1000)
          fzThawEvery,  \* an attempt in so many thaws first (50)
          fzFaults      \* bound: failing file accesses and bus calls

VARIABLE fz

ASSUME fzAssumption ==
  \A c \in fzConfs : /\ c.frozen \in BOOLEAN /\ c.freezer \in {"", "THAWED", "FROZEN"}
                     /\ \A a \in DOMAIN c.progs : c.progs[a] \in {"pause", "resume", "state", "update"}

fzOff == [pc |-> "off"]
fzStart(prog) == [pc |-> prog, prog |-> prog, i |-> 0, ret |-> "done", thaw |-> FALSE,
                  seen |-> "none", result |-> "none"]
fzInit ==
  \E conf \in fzConfs :
    fz = [pc |-> "on", conf |-> conf, self |-> conf.frozen,
          state |-> IF conf.frozen \/ conf.parent THEN "FROZEN" ELSE "THAWED",
          act |-> [a \in DOMAIN conf.progs |-> fzStart(conf.progs[a])], faults |-> 0]

----------------------------------------------------------------------------
(* The kernel's freezer.                                                    *)

\* writing the state: an ancestor's freeze keeps the cgroup frozen
Written(s, target) ==
  IF target = "FROZEN"
  THEN [s EXCEPT !.self = TRUE, !.state = IF @ = "THAWED" THEN "FREEZING" ELSE @]
  ELSE [s EXCEPT !.self = FALSE, !.state = IF s.conf.parent THEN "FROZEN" ELSE "THAWED"]

\* all processes have stopped
kernelFreezes ==
  /\ fz.pc = "on" /\ fz.state = "FREEZING" /\ ~fz.conf.stuck
  /\ fz' = [fz EXCEPT !.state = "FROZEN"]

----------------------------------------------------------------------------
(* Steps of the runc process a.                                             *)

fzAt(a, l) == fz.act[a].pc = l
To(s, a, l) == [s EXCEPT !.act[a].pc = l]
Finish(s, a, r) == [s EXCEPT !.act[a].pc = "done", !.act[a].result = r]
fzFault == fz.faults < fzFaults
Faulty(s) == [s EXCEPT !.faults = @ + 1]
\* the freeze has an outcome; an update only logs it
Frozen(s, a, ok) ==
  IF s.act[a].ret = "done" THEN Finish(s, a, IF ok THEN "ok" ELSE "error")
  ELSE To(s, a, s.act[a].ret)

\* FreezerGroup.Set(Frozen): some attempts thaw first
freezeAttempt(a) ==
  /\ fzAt(a, "attempt")
  /\ fz' = IF fz.act[a].i >= fzTries THEN To(fz, a, "giveup")
           ELSE IF fz.act[a].i % fzThawEvery = fzThawEvery - 1
           THEN To(Written(fz, "THAWED"), a, "write") ELSE To(fz, a, "write")

freezeWrite(a) ==
  /\ fzAt(a, "write")
  /\ \/ fzFault /\ fz' = Faulty(To(fz, a, "giveup"))
     \/ fz' = To(Written(fz, "FROZEN"), a, "read")

freezeRead(a) ==
  /\ fzAt(a, "read")
  /\ \/ fzFault /\ fz' = Faulty(To(fz, a, "giveup"))
     \/ /\ fz.state = "FREEZING"
        /\ fz' = [To(fz, a, "attempt") EXCEPT !.act[a].i = @ + 1]
     \/ fz.state = "FROZEN" /\ fz' = Frozen(fz, a, TRUE)
     \/ fz.state = "THAWED" /\ fz' = To(fz, a, "giveup")

\* the deferred thaw of a freeze that failed
freezeGiveUp(a) == fzAt(a, "giveup") /\ fz' = Frozen(Written(fz, "THAWED"), a, FALSE)

\* setFreezer (v2): write, then read the state back; a freeze is waited for in
\* cgroup.events, a timeout leaves it requested
setFreezer2(a, target) ==
  \/ /\ fzFault        \* cgroup.freeze cannot be opened
     /\ fz' = Faulty(Finish(fz, a, IF target = "FROZEN" THEN "error" ELSE "ok"))
  \/ fzFault /\ fz' = Faulty(Finish(fz, a, "error"))
  \/ fz' = [To(Written(fz, target), a, "readback") EXCEPT !.act[a].seen = target]

readFreezer2(a) ==
  /\ fzAt(a, "readback")
  /\ fz' = IF fz.self THEN To(fz, a, "poll")
           ELSE Finish(fz, a, IF fz.act[a].seen \in {"THAWED", "any"} THEN "ok" ELSE "error")

waitFrozen(a) ==
  /\ fzAt(a, "poll")
  /\ fz' = IF fz.act[a].i >= fzTries THEN Finish(fz, a, "error")
           ELSE IF fz.state = "FROZEN"
           THEN Finish(fz, a, IF fz.act[a].seen \in {"FROZEN", "any"} THEN "ok" ELSE "error")
           ELSE [fz EXCEPT !.act[a].i = @ + 1]

----------------------------------------------------------------------------
(* The programs.                                                            *)

\* Freeze(Frozen) and Freeze(Thawed) of the managers
pauseContainer(a) ==
  /\ fzAt(a, "pause")
  /\ IF fz.conf.v = 1 THEN fz' = To(fz, a, "attempt") ELSE setFreezer2(a, "FROZEN")
resumeContainer(a) ==
  /\ fzAt(a, "resume")
  /\ IF fz.conf.v = 1
     THEN \/ fzFault /\ fz' = Faulty(Finish(fz, a, "error"))
          \/ fz' = Finish(Written(fz, "THAWED"), a, "ok")
     ELSE setFreezer2(a, "THAWED")

\* GetState (v1): FREEZING is not an answer, wait for another
GetState(a) ==
  /\ fzAt(a, "query")
  /\ \/ fzFault /\ fz' = Faulty(Finish(fz, a, "error"))
     \/ fz.state = "FROZEN" /\ fz' = To(fz, a, "self")
     \/ /\ fz.state = "THAWED"
        /\ fz' = [To(fz, a, "queried") EXCEPT !.act[a].seen = "THAWED"]

\* an ancestor's freeze is not this container's, if the kernel can tell
selfFreezing(a) ==
  /\ fzAt(a, "self")
  /\ \/ fzFault /\ fz' = Faulty(Finish(fz, a, "error"))
     \/ fz' = [To(fz, a, "queried") EXCEPT
                 !.act[a].seen = IF fz.self \/ fz.conf.old THEN "FROZEN" ELSE "THAWED"]

\* GetFreezerState
getFreezerState(a) ==
  \/ fzAt(a, "state") /\ fz.conf.v = 1 /\ fz' = To(fz, a, "query")
  \/ fzAt(a, "queried") /\ fz.act[a].prog = "state" /\ fz' = Finish(fz, a, "ok")
  \/ /\ fzAt(a, "state") /\ fz.conf.v = 2
     /\ \/ fzFault /\ fz' = Faulty(Finish(fz, a, "error"))
        \/ fz' = [To(fz, a, "readback") EXCEPT !.act[a].seen = "any"]

\* mutant of needsThaw: the thaw does not ask what the state was
needsThawAlways(state, r) == r # "FROZEN"

needsThaw(state, r) == state # "FROZEN" /\ r # "FROZEN"

\* legacyManager.Set begins: freezeBeforeSet asks for the state, unless the
\* devices are left alone and nothing restricts them
freezeBeforeSet(a) ==
  /\ fzAt(a, "update")
  /\ fz' = To(fz, a, IF fz.conf.skipDevices /\ (fz.conf.skipFreeze \/ fz.conf.unitOpen)
                     THEN "props" ELSE "query")

\* a frozen container stays frozen, the others are frozen for the change
freezeForSet(a) ==
  /\ fzAt(a, "queried") /\ fz.act[a].prog = "update"
  /\ fz' = [To(fz, a, IF fz.act[a].seen = "FROZEN" THEN "props" ELSE "attempt") EXCEPT
              !.act[a].ret = "props",
              !.act[a].thaw = needsThaw(fz.act[a].seen, fz.conf.freezer)]

\* setUnitProperties
setUnitProps(a) ==
  /\ fzAt(a, "props")
  /\ \/ fzFault /\ fz' = [Faulty(To(fz, a, "thaw")) EXCEPT !.act[a].result = "error"]
     \/ fz' = To(fz, a, "thaw")

\* the thaw, also after an error
thawAfterSet(a) ==
  /\ fzAt(a, "thaw")
  /\ LET s == IF fz.act[a].thaw THEN Written(fz, "THAWED") ELSE fz
     IN fz' = IF s.act[a].result = "error" THEN Finish(s, a, "error") ELSE To(s, a, "subsystems")

\* the other subsystems, with the freezer among them
setSubsystems(a) ==
  /\ fzAt(a, "subsystems")
  /\ fz' = CASE fz.conf.freezer = "" -> Finish(fz, a, "ok")
             [] fz.conf.freezer = "THAWED" -> Finish(Written(fz, "THAWED"), a, "ok")
             [] OTHER -> [To(fz, a, "attempt") EXCEPT !.act[a].ret = "done", !.act[a].i = 0]

fzStep(a) ==
  \/ freezeAttempt(a) \/ freezeWrite(a) \/ freezeRead(a) \/ freezeGiveUp(a)
  \/ readFreezer2(a) \/ waitFrozen(a) \/ pauseContainer(a) \/ resumeContainer(a)
  \/ GetState(a) \/ selfFreezing(a) \/ getFreezerState(a) \/ freezeBeforeSet(a)
  \/ freezeForSet(a) \/ setUnitProps(a) \/ thawAfterSet(a) \/ setSubsystems(a)

fzNext == kernelFreezes \/ \E a \in 1..2 : fz.pc = "on" /\ a \in DOMAIN fz.act /\ fzStep(a)
fzFairness == /\ WF_fz(kernelFreezes)
              /\ \A a \in 1..2 : WF_fz(fz.pc = "on" /\ a \in DOMAIN fz.act /\ fzStep(a))
fzSpec == fzInit /\ [][fzNext]_fz /\ fzFairness

----------------------------------------------------------------------------
FreezerDone == fz.pc = "on" /\ \A a \in DOMAIN fz.act : fz.act[a].pc = "done"
FreezerWriters == {a \in DOMAIN fz.act : fz.act[a].prog # "state"}

\* Updates leave the container paused or running as they found it, unless they
\* ask for a state themselves; two updates may overlap.  A pause or resume that
\* is alone gets what it asked for, and on v1 a pause that fails leaves the
\* container running (freezeBeforeSet, the deferred thaw of FreezerGroup.Set).
FreezerRestored ==
  FreezerDone =>
    /\ fz.faults = 0 /\ fz.conf.freezer = ""
       /\ (\A a \in FreezerWriters : fz.act[a].prog = "update") => fz.self = fz.conf.frozen
    /\ FreezerWriters = {1} /\ fz.act[1].prog = "update" /\ fz.act[1].result = "ok"
         /\ fz.conf.freezer # "" => fz.self = (fz.conf.freezer = "FROZEN")
    /\ \A a \in FreezerWriters : FreezerWriters = {a} /\ fz.act[a].prog = "pause" =>
         /\ fz.act[a].result = "ok" => fz.self /\ fz.state = "FROZEN"
         /\ fz.act[a].result = "error" /\ fz.conf.v = 1 => ~fz.self
    /\ FreezerWriters = {1} /\ fz.act[1].prog = "resume" /\ fz.faults = 0 => ~fz.self
=============================================================================
