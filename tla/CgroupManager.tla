---------------------------- MODULE CgroupManager ---------------------------
(***************************************************************************)
(* The cgroup of one container through the four managers: `fs' and `sd1'    *)
(* (cgroup v1, plain and through systemd), `fs2' and `sd2' (cgroup v2), from*)
(* the manager's creation over Apply, Set and an update to Destroy.         *)
(*                                                                          *)
(* On v1 a cgroup is a directory per subsystem, on v2 a chain of levels, the*)
(* last of which is the container's.  systemd, its bus and the kernel are   *)
(* external: a call may find its connection closed, be refused, or be       *)
(* accepted and answered late or never; a file access may be refused.       *)
(***************************************************************************)
EXTENDS Integers, Sequences, FiniteSets

CONSTANTS cmConfs,      \* the configurations to consider: see cmInit
          cmSubsystems, \* the v1 subsystems in the managers' order
          cmLevels,     \* levels of a v2 path below the mount point
          cmJoinTries,  \* writes of a pid that the kernel calls invalid (5)
          cmRemoveTries,\* rounds of RemovePaths (5)
          cmFaults      \* bound: refused accesses, failing or closed bus calls

VARIABLE cm

V1(conf) == conf.driver \in {"fs", "sd1"}
Systemd(conf) == conf.driver \in {"sd1", "sd2"}
Leaf == cmLevels
\* the v2 controllers, in the order fs2's Set writes them
V2Order == <<"memory", "devices", "cpuset">>

\* what the managers refuse.  innerPath, defaultDirPath: a path and a name
PathErr(conf) == conf.both
\* initPaths: only a missing devices hierarchy matters, unless devices are skipped
fsPathsErr(conf) == "devices" \notin conf.mounted /\ ~conf.skipDevices
legacyPathsErr(conf) == "devices" \notin conf.mounted
\* ExpandSlice: a parent that is no slice name
SliceErr(conf) == conf.badSlice
NewManagerErr(conf) == conf.unified \/ PathErr(conf) \/ fsPathsErr(conf)
NewLegacyManagerErr(conf) ==
  conf.rootless \/ conf.unified \/ SliceErr(conf) \/ legacyPathsErr(conf)
NewErr(conf) ==
  \/ conf.driver = "fs" /\ NewManagerErr(conf)
  \/ conf.driver = "sd1" /\ NewLegacyManagerErr(conf)
  \/ conf.driver = "fs2" /\ PathErr(conf)
  \/ conf.driver = "sd2" /\ SliceErr(conf)

\* where systemd puts a unit's processes, and the directories that takes
UnitDir(conf) == IF V1(conf) THEN "name=systemd" ELSE Leaf
UnitDirs(conf) == IF V1(conf) THEN {"name=systemd"} ELSE 1..Leaf

\* Every limit belongs to a subsystem; devices are skipped for a cgroup without device
\* rules, the parent of many containers; only a unit of systemd can be there from before.
cmLimits == {"memory", "devices", "cpuset"}
ASSUME cmAssumption ==
  /\ cmLevels \in Nat \ {0} /\ DOMAIN cmSubsystems = 1..Len(cmSubsystems)
  /\ Len(cmSubsystems) \in Nat
  /\ \A i, j \in DOMAIN cmSubsystems : cmSubsystems[i] = cmSubsystems[j] => i = j
  /\ \A sub \in cmLimits : \E i \in DOMAIN cmSubsystems : cmSubsystems[i] = sub
  /\ \A c \in cmConfs :
       /\ c.driver \in {"fs", "sd1", "fs2", "sd2"}
       /\ c.limits \cup c.update \subseteq cmLimits
       /\ c.skipDevices => "devices" \notin c.limits \cup c.update
       /\ c.leftover => Systemd(c)
       /\ c.driver = "sd1" => "name=systemd" \in c.mounted

cmOff == [pc |-> "off"]
cmInit ==
  \E conf \in cmConfs :
    cm = [pc |-> "new", conf |-> conf, i |-> 1, tries |-> 0,
          paths |-> {}, dropped |-> {}, made |-> {}, undone |-> FALSE, todo |-> {},
          dirs |-> (IF V1(conf) THEN {} ELSE 1..(cmLevels - 2))
                   \cup (IF conf.leftover THEN UnitDirs(conf) ELSE {}),
          procs |-> {}, subs |-> {}, alive |-> TRUE,
          written |-> {}, target |-> conf.limits, updated |-> FALSE, back |-> FALSE,
          unit |-> IF conf.leftover THEN "active" ELSE "none", existed |-> FALSE, job |-> "none",
          result |-> "none", stopErr |-> FALSE, destroyed |-> "no", faults |-> 0]

cmAt(l) == cm.pc = l
cmFault == cm.faults < cmFaults
Goto(s, l) == [s EXCEPT !.pc = l]
cmFaulty(s) == [s EXCEPT !.faults = @ + 1]
\* Apply or Set fails: the caller kills the process and destroys the cgroup
Failed(s) == [s EXCEPT !.pc = "failed", !.result = "error"]

\* Apply without systemd's part
Joining(conf) == IF V1(conf) THEN "join" ELSE "create"

newManager ==
  /\ cmAt("new")
  /\ \/ /\ NewErr(cm.conf)
        /\ cm' = [Goto(cm, "done") EXCEPT !.result = "refused"]
     \/ /\ cm.conf.driver = "sd2" /\ cm.conf.rootless /\ cmFault   \* asks for the manager's cgroup
        /\ cm' = cmFaulty([Goto(cm, "done") EXCEPT !.result = "refused"])
     \/ /\ ~NewErr(cm.conf)
        /\ cm' = [Goto(cm, IF Systemd(cm.conf) THEN "startUnit" ELSE Joining(cm.conf))
                    EXCEPT !.paths = IF V1(cm.conf) THEN cm.conf.mounted ELSE {Leaf}]

----------------------------------------------------------------------------
(* systemd over D-Bus: retryOnDisconnect repeats a call on a new connection *)
(* for as long as the old one turns out to be closed.                       *)

\* startUnit: a unit that exists already, be it from the same call on a connection
\* that broke before its answer, is as good as a new one
startUnit ==
  /\ cmAt("startUnit")
  /\ \/ cmFault /\ cm' = cmFaulty(cm)
     \/ cmFault /\ cm.unit = "none" /\ cm' = cmFaulty([cm EXCEPT !.job = "start"])
     \/ cmFault /\ cm' = cmFaulty(Failed(cm))
     \/ /\ cm.unit = "active" \/ cm.job = "start"
        /\ cm' = [Goto(cm, Joining(cm.conf)) EXCEPT !.existed = TRUE]
     \/ /\ cm.unit = "none" /\ cm.job # "start"
        /\ cm' = [Goto(cm, "waitStart") EXCEPT !.job = "start"]

\* systemd carries out a start job: the unit's cgroup, with the process in it
systemdStarts ==
  /\ cm.pc # "off" /\ cm.job = "start"
  /\ \/ cm' = [cm EXCEPT !.job = "failed"]
     \/ /\ cm.alive
        /\ cm' = [cm EXCEPT !.job = "done", !.unit = "active",
                            !.dirs = @ \cup UnitDirs(cm.conf), !.procs = @ \cup {UnitDir(cm.conf)}]

\* the answer, or thirty seconds without one; both failures reset the unit
waitStart ==
  /\ cmAt("waitStart")
  /\ \/ /\ cm.job = "done"
        /\ cm' = [Goto(cm, Joining(cm.conf)) EXCEPT !.job = "none"]
     \/ cm.job = "failed" /\ cm' = [Failed(cm) EXCEPT !.job = "none"]
     \/ cm.job = "start" /\ cmFault /\ cm' = cmFaulty(Failed(cm))

----------------------------------------------------------------------------
(* Apply on v1: one subsystem after another.                                *)

NextJoin(s) == [Goto(s, "join") EXCEPT !.i = @ + 1, !.tries = 0]
\* isIgnorableError: without privileges and without an explicit path a
\* subsystem that refuses is given up
Ignorable(conf) == conf.driver = "fs" /\ conf.rootless /\ ~conf.hasPath

\* mutant of JoinErr: the error is ignored, the path is kept
JoinErrKept(s, sub) == IF Ignorable(s.conf) THEN NextJoin(s) ELSE Failed(s)
\* the named hierarchy is joined if it can be
JoinErr(s, sub) ==
  IF s.conf.driver = "fs" /\ sub = "name=systemd" THEN NextJoin(s)
  ELSE IF Ignorable(s.conf)
  THEN NextJoin([s EXCEPT !.paths = @ \ {sub}, !.dropped = @ \cup {sub}])
  ELSE Failed(s)

\* what the managers skip: no path, the systemd hierarchy which systemd joins
\* itself, and the devices when they are left alone
Skips(s, sub) ==
  \/ sub \notin s.paths
  \/ s.conf.driver = "sd1" /\ sub = "name=systemd"
  \/ s.conf.driver = "fs" /\ sub = "devices" /\ s.conf.skipDevices

\* the directory; a cpuset also gets its cpus and memory nodes, as requested or
\* copied from its parent, before the first process comes
joinMkdir ==
  /\ cmAt("join")
  /\ IF cm.i > Len(cmSubsystems) THEN cm' = Goto(cm, "setProps")
     ELSE LET sub == cmSubsystems[cm.i]
              s == [cm EXCEPT !.dirs = @ \cup {sub}]
          IN IF Skips(cm, sub) THEN cm' = NextJoin(cm)
             ELSE \/ cmFault /\ cm' = cmFaulty(JoinErr(cm, sub))
                  \/ cmFault /\ sub = "cpuset" /\ cm' = cmFaulty(JoinErr(s, sub))
                  \/ cm' = Goto(s, "joinWrite")

\* WriteCgroupProc: a pid that is too young for the kernel is tried again
joinWrite ==
  LET sub == IF V1(cm.conf) THEN cmSubsystems[cm.i] ELSE Leaf IN
  /\ cmAt("joinWrite")
  /\ \/ cmFault /\ cm' = cmFaulty(JoinErr(cm, sub))
     \/ /\ cmFault
        /\ cm' = cmFaulty(IF cm.tries + 1 >= cmJoinTries THEN JoinErr(cm, sub)
                          ELSE [cm EXCEPT !.tries = @ + 1])
     \/ LET s == [cm EXCEPT !.procs = @ \cup {sub}]
        IN cm' = IF V1(cm.conf) THEN NextJoin(s) ELSE Goto(s, "setProps")

----------------------------------------------------------------------------
(* Apply on v2: CreateCgroupPath, a level at a time.                        *)

\* no process enters a threaded or invalid level with domain controllers
TypeErr(conf, level) == level \in conf.threaded /\ "memory" \in conf.limits

\* mutant of undoCreate: the directories made so far stay
undoCreateNever(s) == [s EXCEPT !.undone = TRUE]
\* the deferred removals, deepest first; in vain if systemd came to use the path
undoCreate(s) == [s EXCEPT !.dirs = IF s.procs = {} THEN @ \ s.made ELSE @, !.undone = TRUE]

\* fs2's Apply: without privileges, path and limits no cgroup is needed
CreateErr(s) ==
  IF /\ s.conf.driver = "fs2" /\ s.conf.rootless /\ ~s.conf.hasPath
     /\ (s.conf.limits \cap s.conf.controllers) \ {"devices"} = {}
  THEN Goto(undoCreate(s), "setProps") ELSE Failed(undoCreate(s))

CreateCgroupPath ==
  /\ cmAt("create")
  /\ IF cm.i > Leaf
     THEN cm' = Goto(cm, IF cm.conf.driver = "fs2" THEN "joinWrite" ELSE "chown")
     ELSE LET made == {cm.i} \ cm.dirs
              s == [cm EXCEPT !.dirs = @ \cup made, !.made = @ \cup made]
          IN \/ made # {} /\ cmFault /\ cm' = cmFaulty(CreateErr(cm))
             \/ cm' = IF TypeErr(cm.conf, cm.i) THEN CreateErr(s) ELSE [s EXCEPT !.i = @ + 1]

\* systemd's manager leaves the joining to systemd and hands over the files
chownCgroup ==
  /\ cmAt("chown")
  /\ \/ cm.conf.owner /\ cmFault /\ cm' = cmFaulty(Failed(cm))
     \/ cm' = Goto(cm, "setProps")

----------------------------------------------------------------------------
(* Set: at creation, and from an update.                                    *)

SetOrder(conf) == IF V1(conf) THEN cmSubsystems ELSE V2Order
\* a limit can be written where its cgroup is
Writable(s, sub) == IF V1(s.conf) THEN sub \in s.paths
                    ELSE Leaf \in s.dirs /\ (sub = "devices" \/ sub \in s.conf.controllers)
\* Set fails.  The update then sets the container's own resources, which are the
\* ones it has just changed: the configuration it was given shares them
SetErr(s) == IF ~s.updated THEN Failed(s)
             ELSE IF s.back THEN [Goto(s, "run") EXCEPT !.result = "updateError"]
             ELSE [Goto(s, "setProps") EXCEPT !.back = TRUE]

\* systemd's v1 manager passes over subsystems that are not there; rootless
\* containers do without device rules
PassedOver(s, sub) == \/ s.conf.driver = "sd1" /\ sub \notin s.paths
                      \/ s.conf.rootless /\ sub = "devices"

\* systemd's managers set the unit's properties first
setProps ==
  /\ cmAt("setProps")
  /\ \/ Systemd(cm.conf) /\ cmFault /\ cm' = cmFaulty(SetErr(cm))
     \/ cm' = [Goto(cm, "set") EXCEPT !.i = 1, !.written = {}]

setLimits ==
  /\ cmAt("set")
  /\ IF cm.i > Len(SetOrder(cm.conf))
     THEN cm' = [Goto(cm, "run") EXCEPT !.result = IF cm.back THEN "updateError" ELSE "ok"]
     ELSE LET sub == SetOrder(cm.conf)[cm.i]
              on == [cm EXCEPT !.i = @ + 1]
              refused == IF PassedOver(cm, sub) THEN on ELSE SetErr(cm)
          IN IF sub \notin cm.target THEN cm' = on
             ELSE IF Writable(cm, sub)
             THEN \/ cmFault /\ cm' = cmFaulty(refused)
                  \/ cm' = [on EXCEPT !.written = @ \cup {sub}]
             ELSE cm' = refused

\* linuxContainer.Set with more limits, on a container that runs
updateContainer ==
  /\ cmAt("run") /\ cm.alive /\ ~cm.updated /\ cm.conf.update # {}
  /\ cm' = [Goto(cm, "setProps") EXCEPT !.updated = TRUE, !.target = @ \cup cm.conf.update]

\* the container makes cgroups of its own below its cgroup
containerNests ==
  /\ cmAt("run") /\ cm.subs = {} /\ cm.procs # {}
  /\ cm' = [cm EXCEPT !.subs = cm.procs]

----------------------------------------------------------------------------
(* Destroy.                                                                 *)

\* the process is killed; it leaves its cgroups some time later
killProcess ==
  /\ cm.pc \in {"run", "failed"} /\ cm.alive
  /\ cm' = [cm EXCEPT !.alive = FALSE,
                      !.pc = IF Systemd(cm.conf) THEN "stopUnit" ELSE "remove",
                      !.todo = cm.paths, !.tries = 0]
processGone == cm.pc # "off" /\ ~cm.alive /\ cm.procs # {} /\ cm' = [cm EXCEPT !.procs = {}]

\* stopUnit: a call that fails is no error, and it fails when there is no such
\* unit; the job replaces a start job
stopUnit ==
  /\ cmAt("stopUnit")
  /\ \/ cmFault /\ cm' = cmFaulty(Goto(cm, "remove"))
     \/ /\ cm.unit = "none" /\ cm.job # "start"
        /\ cm' = Goto(cm, "remove")
     \/ /\ cm.unit = "active" \/ cm.job = "start"
        /\ cm' = [Goto(cm, "waitStop") EXCEPT !.job = "stop"]
\* systemd removes the unit's cgroup, but no sub-cgroups; a job that ends in
\* another way is as good to the manager
systemdStops ==
  /\ cm.pc # "off" /\ cm.job = "stop"
  /\ \/ /\ cm.procs = {}
        /\ cm' = [cm EXCEPT !.job = "stopped", !.unit = "none",
                            !.dirs = IF UnitDir(cm.conf) \in cm.subs THEN @
                                     ELSE @ \ {UnitDir(cm.conf)}]
     \/ cmFault /\ cm' = cmFaulty([cm EXCEPT !.job = "stopped"])

\* after thirty seconds v1 still removes its directories, v2 leaves its own
stopTimedOut(s) == IF V1(s.conf) THEN [Goto(s, "remove") EXCEPT !.stopErr = TRUE]
                   ELSE [Goto(s, "done") EXCEPT !.destroyed = "error"]
waitStop ==
  /\ cmAt("waitStop")
  /\ \/ cm.job = "stopped" /\ cm' = [Goto(cm, "remove") EXCEPT !.job = "none"]
     \/ cm.job = "stop" /\ cmFault /\ cm' = cmFaulty(stopTimedOut(cm))

\* RemovePath and RemovePaths: sub-cgroups go first, a directory with a process
\* stays; a path that is gone is forgotten, the others are tried again.  v2 has
\* one path and one try
removePaths ==
  LET again == V1(cm.conf) /\ cm.paths # {} /\ cm.tries + 1 < cmRemoveTries IN
  /\ cmAt("remove")
  /\ \/ \E d \in cm.todo :
          cm' = [cm EXCEPT !.todo = @ \ {d},
                           !.dirs = @ \ ({d} \ cm.procs), !.subs = @ \ ({d} \ cm.procs),
                           !.paths = @ \ ({d} \ cm.procs)]
     \/ /\ cm.todo = {} /\ again
        /\ cm' = [cm EXCEPT !.todo = cm.paths, !.tries = @ + 1]
     \/ /\ cm.todo = {} /\ ~again
        /\ cm' = [Goto(cm, "done") EXCEPT
                    !.destroyed = IF cm.paths = {} /\ ~cm.stopErr THEN "ok" ELSE "error"]

cmNext == \/ newManager \/ startUnit \/ systemdStarts \/ waitStart \/ joinMkdir \/ joinWrite
          \/ CreateCgroupPath \/ chownCgroup \/ setProps \/ setLimits \/ updateContainer
          \/ containerNests \/ killProcess \/ processGone \/ stopUnit \/ systemdStops
          \/ waitStop \/ removePaths

cmSpec == cmInit /\ [][cmNext]_cm

----------------------------------------------------------------------------
\* A Destroy that reports success leaves nothing of the container's cgroup
\* behind, its sub-cgroups included, except for v1 directories that a rootless
\* Apply gave up; and a CreateCgroupPath that fails leaves no level it made (unless systemd
\* starts the same unit meanwhile).
CgroupNoStray ==
  /\ cm.pc = "done" /\ cm.destroyed = "ok" =>
       /\ cm.dirs \cap (IF V1(cm.conf) THEN cm.conf.mounted ELSE {Leaf}) \subseteq cm.dropped
       /\ cm.subs = {}
  /\ cm.pc # "off" /\ cm.undone /\ cm.conf.driver = "fs2" => cm.made \cap cm.dirs = {}

\* When a create or an update reports success, every limit it was asked for has
\* been written, to a cgroup the process is in: no manager writes limits where
\* it failed to put the process.  Exempt are what the managers pass over (v1
\* subsystems systemd's manager does not find, devices of rootless containers)
\* and a unit that was there before, which the process does not join.
LimitsJoined ==
  cm.pc = "run" /\ cm.result = "ok" =>
    \A sub \in {l \in cm.target : ~PassedOver(cm, l)} :
      /\ sub \in cm.written
      /\ (IF V1(cm.conf) THEN sub ELSE Leaf) \in cm.procs \/ cm.existed
=============================================================================
