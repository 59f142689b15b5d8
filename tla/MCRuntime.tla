----------------------------- MODULE MCRuntime ------------------------------
(***************************************************************************)
(* Model checking of the runtime's other components.  They share no state:  *)
(* Init picks one of them and a configuration of it, the others are off, so *)
(* the states of this run are the sum and not the product of theirs.        *)
(***************************************************************************)
EXTENDS Integers, Sequences, FiniteSets, Criu, Devices, Freezer, CgroupManager, Resources,
        Rootfs, RwLayer, ClonedBinary, Seccomp

vars == <<cr, dv, fz, cm, rs, rt, rw, cb, sc>>

----------------------------------------------------------------------------
(* Criu: checkpoint and restore.                                            *)

Bind(d) == [device |-> "bind", dest |-> d]
Tmpfs(d) == [device |-> "tmpfs", dest |-> d]
CriuConfs ==
  LET Conf(cmd, v, paths, leave, lazy, mounts) ==
        [cmd |-> cmd, version |-> v, paths |-> paths, leave |-> leave, lazy |-> lazy,
         mounts |-> mounts, pipes |-> 2, order |-> <<"pid", "net", "ipc">>,
         hierarchies |-> IF "pid" \in paths THEN {} ELSE {"cpu", "memory"},
         masks |-> IF paths = {} THEN {} ELSE {"file", "dir"},
         devices |-> {<<"dev", "fuse">>}]
      RestoreMounts == <<Tmpfs(<<"run">>), Bind(<<"run", "a">>), Bind(<<"data">>),
                         Bind(<<"data", "b">>),
                         [device |-> "cgroup", dest |-> <<"sys", "fs", "cgroup">>]>>
  IN {Conf(cmd, v, paths, leave, lazy, <<>>) :
        cmd \in {"dump", "predump"}, v \in {29000, 31500},
        paths \in {{"net", "pid"}}, leave \in BOOLEAN, lazy \in BOOLEAN}
     \cup {Conf("restore", v, paths, FALSE, FALSE, RestoreMounts) :
        v \in {29000, 30000, 31100, 31500},
        paths \in {{}, {"net"}, {"net", "pid"}, {"pid", "ipc"}, {"cgroup"}}}

\* Every descriptor a restore names to criu is the file its key stands for in
\* the criu process, and the namespaces it names are exactly those a checkpoint
\* of the same container left out (the fixed offset of four in
\* handleRestoringExternalNamespaces, criuNsToKey's keys).  Every mount such a
\* checkpoint names as external has a source in the restore, masked paths and
\* cgroup v1 binds included.
ExternalsMatch ==
  cr.pc \in {"mounts", "request"} /\ cr.conf.cmd = "restore" =>
    LET inherit == cr.opts.inherit IN
    /\ \A k \in DOMAIN inherit : CriuFds(cr.conf)[inherit[k].fd + 1] = inherit[k].key
    /\ {inherit[k].key : k \in DOMAIN inherit} \cap {"net", "pid", "ipc"}
         = checkpointExternal(cr.conf)
    /\ dumpExtMnt(cr.conf) \subseteq cr.opts.extMnt

----------------------------------------------------------------------------
(* Devices: the controller on both cgroup versions.                         *)

DeviceMetas == [node : {"b", "c"}, major : {Wildcard, 1, 2}, minor : {Wildcard, 3}]
DeviceNodes == [node : {"b", "c"}, major : {1, 2}, minor : {3}]
DeviceConfs ==
  LET Rule(allow, n, maj, min, p) ==
        [allow |-> allow, node |-> n, major |-> maj, minor |-> min, perms |-> p]
      Lists == {<<Rule(TRUE, "c", 1, 3, Perms), Rule(TRUE, "c", 1, Wildcard, {"m"})>>,
                <<Rule(TRUE, "c", 1, Wildcard, {"r", "w"}), Rule(FALSE, "c", 1, 3, {"w"})>>,
                <<Rule(TRUE, "a", Wildcard, Wildcard, Perms), Rule(FALSE, "c", 1, 3, {"w"})>>,
                <<Rule(TRUE, "c", 1, 3, {"r"}), Rule(FALSE, "c", Wildcard, Wildcard, {"r"}),
                  Rule(TRUE, "b", Wildcard, Wildcard, {"m"})>>,
                <<Rule(FALSE, "a", Wildcard, Wildcard, Perms), Rule(TRUE, "c", 1, 3, Perms),
                  Rule(FALSE, "c", 1, 3, {"w"})>>,
                <<Rule(TRUE, "c", 1, 3, Perms)>>,
                <<Rule(TRUE, "c", 1, 3, {"r"}), Rule(FALSE, "c", 1, 3, {"r"})>>,
                <<Rule(TRUE, "p", 0, 0, Perms)>>}
      Any == [allow |-> TRUE, rules |-> NoRules]
      Kernels == {Any, [allow |-> FALSE, rules |-> NoRules],
                  [allow |-> TRUE, rules |-> [m \in dvMetas |->
                     IF m = [node |-> "c", major |-> 1, minor |-> 3] THEN {"r"} ELSE {}]]}
      Prog(id, owner, allow) == [id |-> id, owner |-> owner, allow |-> allow,
        blocks |-> <<[type |-> "c", access |-> {}, major |-> 1, minor |-> 3, allow |-> ~allow]>>]
      Conf(v, sets, k, progs, foreign, userns, skip, canReplace) ==
        [v |-> v, sets |-> sets, kernel |-> k, progs |-> progs, foreign |-> foreign,
         userns |-> userns, skip |-> skip, canReplace |-> canReplace, systemd |-> FALSE,
         nodes |-> {[node |-> "c", major |-> 1, minor |-> 3]},
         proc |-> <<[node |-> "b", major |-> 1, name |-> "mem"],
                    [node |-> "c", major |-> 1, name |-> "mem"],
                    [node |-> "c", major |-> 1, name |-> "ram"],
                    [node |-> "c", major |-> 2, name |-> "mem"]>>]
  IN {Conf(1, <<a, b>>, k, <<>>, <<>>, FALSE, FALSE, FALSE) : a, b \in Lists, k \in Kernels}
     \cup {[Conf(v, <<a, b>>, Any, <<>>, <<>>, FALSE, FALSE, FALSE) EXCEPT
              !.systemd = TRUE, !.nodes = nodes] :
             v \in {1, 2}, a, b \in Lists,
             nodes \in {{}, {[node |-> "c", major |-> 1, minor |-> 3]}}}
     \cup {[Conf(v, <<a>>, Any, <<>>, <<>>, userns, ~userns, FALSE) EXCEPT !.systemd = systemd] :
             v \in {1, 2}, a \in Lists, userns, systemd \in BOOLEAN}
     \cup {Conf(2, <<a, b>>, Any, progs, foreign, FALSE, FALSE, canReplace) :
             a \in {l \in Lists : Len(l) = 1}, b \in Lists, canReplace \in BOOLEAN,
             foreign \in {<<>>, <<Prog(10, "systemd", TRUE), Prog(11, "systemd", TRUE)>>},
             progs \in {<<>>, <<Prog(12, "systemd", FALSE)>>,
                        <<Prog(13, "hidden", TRUE), Prog(12, "systemd", FALSE)>>}}

----------------------------------------------------------------------------
(* Freezer: pause, resume, state and update on one cgroup.                  *)

FreezerConfs ==
  LET Conf(v, progs, frozen, parent, stuck, freezer, skip) ==
        [v |-> v, progs |-> progs, frozen |-> frozen, parent |-> parent, stuck |-> stuck,
         freezer |-> freezer, skipDevices |-> skip # "no", skipFreeze |-> skip = "freeze",
         unitOpen |-> skip = "open", old |-> skip = "old"]
  IN {Conf(v, progs, frozen, parent, stuck, "", "no") :
        v \in {1, 2}, frozen \in BOOLEAN, parent \in BOOLEAN, stuck \in BOOLEAN,
        progs \in {<<"pause">>, <<"resume">>, <<"state", "pause">>, <<"pause", "resume">>}}
     \cup {Conf(1, progs, frozen, FALSE, stuck, freezer, "no") :
        frozen \in BOOLEAN, stuck \in BOOLEAN, freezer \in {"", "THAWED", "FROZEN"},
        progs \in {<<"update">>, <<"update", "update">>, <<"update", "state">>,
                   <<"update", "pause">>}}
     \cup {Conf(1, <<"update">>, frozen, FALSE, FALSE, "", skip) :
        frozen \in BOOLEAN, skip \in {"freeze", "open", "old"}}

\* Calls that wait for another process return.  Every pause, resume, update and
\* query of the state does so even when the kernel never finishes freezing:
\* whoever waits for the state to settle relies on the thaw of the process that
\* gives up (GetState's unbounded loop).  criuSwrk does so even when criu
\* crashes, fails or a hook in a notification fails (the closing of criuServer),
\* and InitSeccomp, with its goroutine, whatever the size of the filter that
\* goes through a pipe (disassembleFilter).
CallsReturn == /\ fz.pc = "on" ~> FreezerDone
               /\ cr.pc # "off" ~> cr.pc = "done"
               /\ sc.pc # "off" ~> sc.pc \in {"disabled", "error", "loaded"} /\ sc.copy # "running"

----------------------------------------------------------------------------
(* CgroupManager: the four cgroup managers.                                 *)

Subsystems == <<"cpuset", "devices", "memory", "name=systemd">>
CgroupConfs ==
  LET All == {"cpuset", "devices", "memory", "name=systemd"}
      Base == [driver |-> "fs", rootless |-> FALSE, hasPath |-> FALSE, unified |-> FALSE,
               both |-> FALSE, badSlice |-> FALSE, skipDevices |-> FALSE, owner |-> FALSE,
               leftover |-> FALSE, mounted |-> All, controllers |-> {"memory", "cpuset"},
               threaded |-> {}, limits |-> {"devices", "memory"}, update |-> {"cpuset"}]
      Of(d) == [Base EXCEPT !.driver = d]
      Bare == [Base EXCEPT !.limits = {"devices"}, !.update = {}]
      Refused == {[Of("fs") EXCEPT !.unified = TRUE], [Of("fs2") EXCEPT !.both = TRUE],
                  [Of("sd2") EXCEPT !.badSlice = TRUE], [Of("sd1") EXCEPT !.rootless = TRUE],
                  [Of("fs") EXCEPT !.mounted = All \ {"devices"}]}
  IN {Of(d) : d \in {"fs", "fs2", "sd1", "sd2"}} \cup Refused
     \cup {[Of(d) EXCEPT !.leftover = TRUE] : d \in {"sd1", "sd2"}}
     \cup {[c EXCEPT !.driver = d, !.rootless = TRUE, !.hasPath = p] :
              c \in {Base, Bare}, d \in {"fs", "fs2"}, p \in BOOLEAN}
     \cup {[Of("sd2") EXCEPT !.rootless = TRUE, !.owner = TRUE],
           [Of("sd1") EXCEPT !.mounted = @ \ {"memory"}],
           [Of("fs") EXCEPT !.mounted = @ \ {"cpuset"}],
           [Of("fs") EXCEPT !.mounted = @ \ {"devices"}, !.skipDevices = TRUE, !.limits = {"memory"}],
           [Of("fs") EXCEPT !.skipDevices = TRUE, !.limits = {"memory"}],
           [Of("fs2") EXCEPT !.controllers = {"memory"}]}
     \cup {[Of(d) EXCEPT !.threaded = {l}] : d \in {"fs2", "sd2"}, l \in {2, 3}}
     \cup {[Bare EXCEPT !.driver = "fs2", !.threaded = {3}]}

----------------------------------------------------------------------------
(* Resources: limits, their conversions and updates.                        *)

ResourceConfs ==
  LET Conf(d, v, create) == [driver |-> d, version |-> v, usage |-> 3, parent |-> 25,
                             create |-> create]
      Memory == [None EXCEPT !.mem = 4, !.swap = 6]
      Cpu == [None EXCEPT !.quota = 7, !.period = 33]
  IN {Conf(d, 250, create) : d \in {"fs", "fs2", "sd1", "sd2"}, create \in {Memory, Cpu}}
     \cup {Conf("sd2", 241, Cpu), Conf("sd1", 243, None),
           Conf("fs", 250, [None EXCEPT !.mem = 6, !.swap = 4])}
ResourceUpdates ==
  {[None EXCEPT !.mem = m, !.swap = t] : m \in {0, -1, 2, 4}, t \in {0, -1, 4, 6}}
  \cup {[None EXCEPT !.quota = q, !.period = p] : q \in {0, -1, 1, 7}, p \in {0, 33, 100}}
  \cup {[None EXCEPT !.pids = n] : n \in {-1, 5}}
  \cup {[None EXCEPT !.cpus = c] : c \in {<<<<0, 1>>>>, <<<<2, 1>>>>, <<<<0, 0>>, <<3, 5>>>>}}
  \cup {[None EXCEPT !.unified = <<u>>] :
           u \in {[mem |-> 5], [total |-> 2], [quota |-> 7, period |-> 100],
                  [quota |-> -1, period |-> 33]}}

\* What the files hold after a request that is carried out in full: its values,
\* and what they held before for all that it does not name.
Outcome(s) ==
  LET q == s.asked
      swap == IF OnV1(s) THEN SwapAlso(q) ELSE ConvertSwap(q)
      f == [mem |-> Lim(Or(q.mem, s.before.mem)),
            total |-> IF ~OnV1(s) /\ q.swap > 0 THEN swap ELSE Lim(Or(swap, s.before.total)),
            quota |-> Or(q.quota, s.before.quota), period |-> Or(q.period, s.before.period),
            pids |-> Lim(Or(q.pids, s.before.pids)),
            cpus |-> IF q.cpus = <<>> THEN s.before.cpus ELSE Cpus(q.cpus)]
  IN [x \in DOMAIN f |-> IF q.unified # <<>> /\ x \in DOMAIN q.unified[1]
                         THEN q.unified[1][x] ELSE f[x]]
Possible(s) ==
  /\ ~RangeErr(s.asked.cpus)
  /\ IF OnV1(s) THEN s.asked.unified = <<>> /\ Accepts([s EXCEPT !.file = s.before], Outcome(s))
     ELSE ~SwapErr(s.asked)

\* A create or update succeeds exactly if the kernel can have the limits it asks
\* for, and then the files hold those and, for all it does not name, what they
\* held before: the order of the writes, and systemd's own writes before them,
\* neither make a possible update fail nor change another limit.  Exempt are
\* failing calls, updates of only one of quota and period after one that named
\* neither and so made runc forget both, and updates after swap was set to 0,
\* which systemd is not told and resets with its next write.
NoSwapUntold(s) == s.driver = "sd2" /\ s.before.total = 0
UpdateExact ==
  rs.pc \in {"idle", "gone"} /\ rs.faults = 0 /\ rs.known /\ ~NoSwapUntold(rs) =>
    /\ (rs.result = "ok") = Possible(rs)
    /\ rs.result = "ok" => rs.file = Outcome(rs)

\* The unit systemd holds is never tighter than the cgroup's files, so that
\* systemd applying its unit again does not throttle a container: the comment in
\* addCpuQuota on rounding up.  Less than a microsecond per second is tolerated,
\* updates that failed are not followed, and masks are compared when they take
\* a single byte.
UnitNotTighter ==
  rs.pc = "idle" /\ rs.result = "ok" /\ rs.clean /\ rs.known /\ WithSystemd(rs) =>
    /\ rs.unit.mem >= rs.file.mem /\ rs.unit.pids >= rs.file.pids
    /\ ~OnV1(rs) => rs.unit.swap >= rs.file.total
    /\ IF rs.file.quota = -1 THEN rs.unit.perSec = rsMax * rsSecond
       ELSE (rs.unit.perSec + 1) * rs.file.period > rs.file.quota * rsSecond
    /\ (\A c \in rs.file.cpus : c < rsByte) =>
         rs.unit.cpus = {} \/ rs.file.cpus \subseteq rs.unit.cpus

----------------------------------------------------------------------------
(* Rootfs: the mounts of a container.                                       *)

RootfsConfs ==
  LET M(dev, at, ro) == [dev |-> dev, at |-> at, ro |-> ro, opts |-> TRUE, copyup |-> FALSE,
                         srcRo |-> FALSE, srcProc |-> FALSE, dir |-> TRUE, recRo |-> FALSE,
                         hasNull |-> FALSE]
      Sys == <<"sys">>
      Cgroup == <<"sys", "fs", "cgroup">>
      Data == <<"data">>
      Run == <<"run">>
      File == <<"etc", "hosts">>
      TmpfsAt(at, ro, copyup) == [M("tmpfs", at, ro) EXCEPT !.copyup = copyup]
      BindAt(at, ro) == M("bind", at, ro)
      Base == <<M("proc", Proc, FALSE), TmpfsAt(Dev, TRUE, FALSE),
                M("devpts", <<"dev", "pts">>, FALSE), M("sysfs", Sys, TRUE)>>
      Base1(m) == Append(Base, m)
      Lists == {Base \o <<M("cgroup", Cgroup, TRUE), TmpfsAt(Run, TRUE, TRUE), BindAt(Data, TRUE)>>,
                Base \o <<M("mqueue", <<"dev", "mqueue">>, FALSE), TmpfsAt(Data, FALSE, FALSE),
                          [BindAt(<<"data", "sub">>, FALSE) EXCEPT !.srcRo = TRUE],
                          [BindAt(File, TRUE) EXCEPT !.dir = FALSE]>>,
                <<M("proc", Proc, FALSE), [BindAt(Dev, TRUE) EXCEPT !.hasNull = TRUE]>>}
      Conf(mounts) == [mounts |-> mounts, parent |-> <<"var">>, hostShared |-> TRUE,
        propagation |-> "", rec |-> TRUE, image |-> {Proc, Run, File}, imageFiles |-> {File},
        unified |-> TRUE, cgroupns |-> TRUE, hierarchies |-> <<"cpu,cpuacct">>, links |-> <<"cpu">>,
        denied |-> FALSE, noOwnCgroup |-> FALSE, rootless |-> FALSE, userns |-> FALSE,
        devices |-> {Null}, noPivot |-> FALSE, newns |-> TRUE, readonlyfs |-> TRUE,
        protect |-> <<[dev |-> "readonly", at |-> <<"proc", "sys">>],
                      [dev |-> "mask", at |-> <<"proc", "kcore">>], [dev |-> "mask", at |-> Run]>>]
  IN {[Conf(l) EXCEPT !.parent = parent, !.propagation = prop[1], !.rec = prop[2],
                      !.hostShared = shared, !.userns = userns] :
        l \in Lists, parent \in {<<>>, <<"var">>}, shared, userns \in BOOLEAN,
        prop \in {<<"", TRUE>>, <<"shared", TRUE>>, <<"private", FALSE>>, <<"slave", FALSE>>}}
     \cup {[Conf(l) EXCEPT !.noPivot = TRUE, !.propagation = prop, !.userns = userns] :
             l \in Lists, prop \in {"", "shared"}, userns \in BOOLEAN}
     \cup {[Conf(Base1(M("cgroup", Cgroup, TRUE))) EXCEPT !.unified = u, !.cgroupns = cg,
              !.denied = ~cg, !.noOwnCgroup = own, !.rootless = r] : u, cg, own, r \in BOOLEAN}
     \cup {Conf(Base1(m)) : m \in {[BindAt(Data, FALSE) EXCEPT !.recRo = TRUE],
             [BindAt(Data, FALSE) EXCEPT !.opts = FALSE, !.srcRo = TRUE],
             BindAt(<<"proc", "cpuinfo">>, FALSE), BindAt(<<"proc", "stat">>, FALSE), BindAt(Proc, FALSE),
             BindAt(File, FALSE), M("tmpfs", File, FALSE)}}
     \cup {Conf(<<[BindAt(Proc, FALSE) EXCEPT !.srcProc = TRUE], TmpfsAt(Dev, TRUE, FALSE)>>),
           [Conf(Base) EXCEPT !.devices = {}], [Conf(Base) EXCEPT !.newns = FALSE],
           [Conf(<<M("proc", Proc, FALSE)>>) EXCEPT !.image = @ \cup {Dev, Null, <<"dev", "fd">>},
                                                    !.imageFiles = @ \cup {Null}],
           [Conf(Base1(M("cgroup", Cgroup, TRUE))) EXCEPT !.unified = FALSE,
              !.links = <<"cpu", "cpu,cpuacct">>]}

\* What cannot be set up: a mount inside /proc, a directory on a file, no
\* /dev/null, and a cgroup that is not there.
Refusable(c) ==
  \/ needsSetupDev(c) /\ Null \notin c.devices
  \/ \E i \in DOMAIN c.mounts :
       LET m == c.mounts[i] IN
       \/ ProcErr(m)
       \/ m.at \in c.imageFiles /\ m.dir
       \/ m.dev = "cgroup" /\ c.unified /\ c.denied /\ c.noOwnCgroup /\ ~c.rootless
\* read-only where it was asked for, or where the source allows nothing else
WantsRo(c, m) ==
  m.ro \/ m.recRo \/ (m.dev = "bind" /\ m.srcRo /\ (c.userns \/ ~m.opts))

\* A container starts with the root that was configured: every mount is there
\* and read-only exactly if asked for, although /dev and every tmpfs are written
\* to after they are mounted; the root and the paths to protect are as asked;
\* no mount of the host is left.  Only a configuration that cannot be set up, or
\* a failing call, makes it fail.  Either way the host's own mounts are what
\* they were.  Not claimed: the options of cgroup mounts; the host's mounts
\* when the root is moved onto a shared one, and when making the scratch mount
\* private fails, which leaves it behind.
RootfsAsConfigured ==
  rt.pc \in {"done", "failed"} /\ rt.conf.newns =>
    /\ rt.pc = "failed" /\ rt.faults = 0 => Refusable(rt.conf)
    /\ \/ rt.leak
       \/ rt.conf.noPivot /\ rt.conf.propagation = "shared"
       \/ rt.host = DOMAIN Outer(rt.conf)
    /\ rt.pc = "done" =>
         /\ rt.jailed /\ Proc \notin DOMAIN rt.outer
         /\ rt.rootRo = rt.conf.readonlyfs
         /\ \A i \in DOMAIN rt.conf.mounts :
              LET m == rt.conf.mounts[i]
                  e == rt.mounts[Innermost(rt, m.at)]
              IN m.dev # "cgroup" =>
                   /\ Mounted(rt, m.at)
                   /\ e.fs # "mask" => e.fs \in {m.dev, "proc"} /\ e.ro = WantsRo(rt.conf, m)
         /\ \A i \in DOMAIN rt.conf.protect :
              LET p == rt.conf.protect[i].at
              IN Exists(rt, p) /\ Exists(rt, Null) =>
                   Mounted(rt, p) /\ rt.mounts[Innermost(rt, p)].ro

----------------------------------------------------------------------------
(* RwLayer: persistent root file systems.                                   *)

RwConfs ==
  LET RwEntry(name, vol, path, persist, special) ==
        [name |-> name, vol |-> vol, path |-> path, persist |-> persist, special |-> special]
      Layer == RwEntry("app", "root", RelPath(<<"a", ".", "b">>), FALSE, <<>>)
      Special == RwEntry("app", "root", RelPath(<<>>), TRUE, <<AbsPath(<<"srv", "..", "data">>)>>)
      Cont(name) == [name |-> name, mounts |-> <<>>]
      Pod(es) == [runtime |-> "sysbox-runc-lite", volumeInit |-> TRUE,
                  annot |-> [kind |-> "entries", entries |-> es],
                  containers |-> <<Cont("app"), Cont("other")>>,
                  volumes |-> [root |-> "claimR", data |-> "claimD", tmp |-> NoVolume,
                               nil |-> ""]]
      Plain == [Pod(<<>>) EXCEPT !.annot.kind = "absent"]
      Csi == "kubernetes.io~csi"
      Vol(src, dest, loc) == [type |-> "bind", ro |-> FALSE, source |-> src, dest |-> dest,
                                loc |-> loc, dir |-> TRUE]
      Base(pod) == [static |-> FALSE, request |-> "pods", pod |-> pod, reinvoke |-> FALSE,
                    restarts |-> FALSE, name |-> "app", labels |-> "both", l1 |-> FALSE,
                    nested |-> FALSE, layer |-> "ok", mounts |-> [u \in rwPods |-> <<>>],
                    image |-> {}, namePrefixes |-> {"ap"}, pvcNames |-> {"pvc-1"},
                    kubeletDirs |-> {}, files |-> {}, erase |-> FALSE, sideFirst |-> FALSE,
                    starts |-> [u \in rwPods |-> IF u = "u1" THEN 2 ELSE 0]]
      \* what admission refuses
      Refused ==
        {[Base(Pod(<<Layer>>)) EXCEPT !.pod.runtime = "runc"],
         [Base(Pod(<<Layer>>)) EXCEPT !.request = "deployments"],
         [Base(Pod(<<Layer>>)) EXCEPT !.pod.annot.kind = "malformed"], Base(Pod(<<>>)),
         Base(Pod(<<Layer, Special>>))}
        \cup {Base(Pod(<<e>>)) : e \in
               {[Layer EXCEPT !.name = "nobody"], [Layer EXCEPT !.name = ""],
                [Layer EXCEPT !.vol = "tmp"], [Layer EXCEPT !.vol = "nil"],
                [Layer EXCEPT !.vol = ""],
                [Layer EXCEPT !.path = AbsPath(<<"a">>)],
                [Layer EXCEPT !.path = RelPath(<<"a", "..", "..">>)],
                [Special EXCEPT !.persist = FALSE],
                [Special EXCEPT !.special = <<RelPath(<<"data">>)>>],
                [Special EXCEPT !.special = <<AbsPath(<<".">>)>>],
                [Special EXCEPT !.special = <<AbsPath(<<"var", "lib">>)>>],
                [Special EXCEPT !.special = <<AbsPath(<<"d">>), AbsPath(<<"d", "e">>)>>]}}
      \* Pods that did not pass admission, containers without a layer
      Sidecar(vols) == [name |-> SidecarContainerName,
                        mounts |-> [i \in DOMAIN vols |->
                          [vol |-> vols[i], at |-> <<"rootfs-rw-volume", vols[i]>>]]]
      With(pod, c) == [pod EXCEPT !.containers = Append(@, c)]
      Static(pod) == [Base(pod) EXCEPT !.static = TRUE]
      Others ==
        {Static(Pod(<<Layer>>)), Static(With(Pod(<<Layer>>), Sidecar(<<"data">>))),
         Static(With(Pod(<<[Layer EXCEPT !.path = RelPath(<<"..", "a">>)]>>), Sidecar(<<"root">>))),
         Static(With(Pod(<<Special, [Special EXCEPT !.vol = "data"]>>), Sidecar(<<"root">>))),
         Static([Pod(<<>>) EXCEPT !.annot.kind = "malformed"]),
         [Static([Pod(<<>>) EXCEPT !.annot.kind = "malformed"]) EXCEPT !.labels = "noName",
                                                                      !.name = ""],
         [Base(Pod(<<Layer>>)) EXCEPT !.name = "other"],
         [Base(Pod(<<Layer>>)) EXCEPT !.labels = "noUid"],
         [Base(Pod(<<Layer>>)) EXCEPT !.labels = "noName", !.name = ""],
         [Base(Pod(<<Layer>>)) EXCEPT !.layer = "symlink"],
         [Base(Pod(<<Layer>>)) EXCEPT !.layer = "file"],
         [Base(Pod(<<Layer>>)) EXCEPT !.restarts = TRUE, !.reinvoke = TRUE],
         [Base(With(Pod(<<[Special EXCEPT !.name = SidecarContainerName]>>), Sidecar(<<>>)))
            EXCEPT !.name = SidecarContainerName],
         [Base(Plain) EXCEPT !.nested = TRUE], [Base(Plain) EXCEPT !.pod.runtime = "runc"]}
      \* the copies: the root file system, volumes and special directories
      Csi1(u) == <<Vol(<<u, "volumes", Csi, "data", "mount">>, <<"data">>, <<"vol", "claimD">>)>>
      Lost == {[loc |-> <<"vol", "claimD">>, f |-> "lost+found", body |-> "app"]}
      More(u) ==
        <<Vol(<<u, "volumes", "kubernetes.io~empty-dir", "tmp">>, <<"data">>, <<"tmp", u>>),
          [Csi1(u)[1] EXCEPT !.ro = TRUE, !.loc = <<"vol", "ro">>],
          [Csi1(u)[1] EXCEPT !.dest = <<"none">>, !.loc = <<"vol", "none">>],
          Vol(<<u, "volume-subpaths", "data", "ap", "0">>, <<"data">>, <<"vol", "sub">>),
          Vol(<<u, "volume-subpaths", "tmp", "app", "0">>, <<"data">>, <<"tmp", u, "sub">>)>>
      Both(c, n) == [c EXCEPT !.sideFirst = c.pod.annot.kind # "absent",
                              !.starts = [u \in rwPods |-> IF u = "u1" THEN n ELSE 1]]
      Copies ==
        {[Both(Base(Pod(<<Layer>>)), 2) EXCEPT !.nested = TRUE, !.l1 = TRUE],
         [Both(Base(Pod(<<Special>>)), 2) EXCEPT !.image = {<<"data">>}],
         [Both(Base(Plain), 2) EXCEPT !.erase = TRUE, !.mounts = [u \in rwPods |-> Csi1(u)], !.image = {<<"data">>},
                             !.files = Lost],
         [Base(Plain) EXCEPT !.mounts = [u \in rwPods |-> More(u)],
                             !.image = {<<"data">>},
                             !.kubeletDirs = {<<"u1", "volumes", Csi, "data">>}]}
  IN Refused \cup Others \cup Copies

----------------------------------------------------------------------------
(* ClonedBinary: the copy runc init runs from.                              *)

ClonedConfs ==
  [exe : {[seals |-> se, ro |-> ro, links |-> 1, size |-> cbSize] :
            se \in {"no", "all"}, ro \in BOOLEAN},
   env : BOOLEAN, priv : BOOLEAN, memfd : BOOLEAN, tmpfile : BOOLEAN]

----------------------------------------------------------------------------
(* Seccomp: the filter and its stub.                                        *)

SeccompNumbers ==
  LET Calls(r, w, c, n) == [read |-> r, write |-> w, close |-> c, clone3 |-> n]
  IN [amd64 |-> Calls(0, 1, 3, 7), x32 |-> Calls(16, 17, 19, 21), x86 |-> Calls(3, 4, 6, 9),
      s390x |-> Calls(3, 4, 6, -10), arm64 |-> Calls(5, 6, 2, 8)]
SeccompConfs ==
  LET CallIf(n, a, args) == [name |-> n, act |-> a, errnoRet |-> "nil", args |-> args]
      Call(n, a) == CallIf(n, a, <<>>)
      Arg(i, v) == [index |-> i, value |-> v]
  IN [default : {"errno", "allow", "kill"}, errnoRet : {"nil", "ENOSYS"}, flags : {FALSE}, api : {6},
      archs : {<<>>, <<"amd64">>, <<"x32">>, <<"x86", "x32", "amd64">>,
               <<"s390x", "arm64", "amd64", "x32">>},
      calls : {<<Call("read", "allow")>>,
               <<CallIf("read", "allow", <<Arg(1, 0), Arg(1, 1)>>), Call("write", "errno"),
                 CallIf("close", "allow", <<Arg(1, 0), Arg(2, 1)>>)>>,
               <<Call("close", "notify"), Call("clone3", "allow"), Call("unknown", "allow")>>}]
     \cup {[default |-> d, errnoRet |-> "nil", flags |-> f, api |-> a, archs |-> <<>>, calls |-> c] :
             d \in {"", "notify", "allow"}, f \in BOOLEAN, a \in {5, 6},
             c \in {<<>>, <<Call("close", "notify")>>, <<Call("write", "notify")>>}}

\* The loaded filter does what the profile says, with every order of Go's maps
\* and every length of jump: a call that the profile names gets its action on
\* every architecture listed, an older one the default, and one that is newer
\* than all the profile names there gets ENOSYS (as does setup on s390x, behind
\* which the kernel hides numbers it does not know).  Conditions on arguments
\* must all hold, unless two are about the same argument.  write is never sent to an
\* agent, and whatever is sent to one has a listener.
FilterAsProfiled ==
  sc.pc = "loaded" =>
    LET conf == sc.conf
        NrOf(arch, i) == IF conf.calls[i].name \in DOMAIN scNumbers[arch]
                           THEN scNumbers[arch][conf.calls[i].name] ELSE -1
        Listed(arch) == arch \in {conf.archs[i] : i \in DOMAIN conf.archs}
        Newer(arch, nr) == /\ \A i \in DOMAIN conf.calls : nr > NrOf(arch, i)
                           /\ \E i \in DOMAIN conf.calls : NrOf(arch, i) > 0
        Setup(arch, nr) == arch = "s390x" /\ nr = 0 /\ \E i \in DOMAIN conf.calls : NrOf(arch, i) > 0
        Matches(args, given) ==
          IF Cardinality({args[k].index : k \in DOMAIN args}) < Len(args)
          THEN \E k \in DOMAIN args : given[args[k].index] = args[k].value
          ELSE \A k \in DOMAIN args : given[args[k].index] = args[k].value
        CallsAt(arch, nr, given) == {i \in DOMAIN conf.calls : /\ NrOf(arch, i) = nr
                                                               /\ Matches(conf.calls[i].args, given)}
    IN \A arch \in DOMAIN scNumbers, given \in [{1, 2} -> {0, 1}] :
         \A nr \in {n + (IF arch = "x32" THEN scBit ELSE 0) : n \in 0..10} :
           LET does == loadedDoes(arch, nr, given) IN
           /\ does = IF Listed(arch) /\ conf.default # "allow" /\ (Newer(arch, nr) \/ Setup(arch, nr))
                     THEN <<"errno", "ENOSYS">>
                     ELSE IF ~Listed(arch) /\ arch # scNative THEN <<"badArch">>
                     ELSE IF CallsAt(arch, nr, given) = {} THEN DefaultAction(conf)
                     ELSE LET c == conf.calls[CHOOSE i \in CallsAt(arch, nr, given) : TRUE]
                          IN getAction(c.act, c.errnoRet)
           /\ does = <<"notify">> => sc.fd /\ nr # scNumbers[arch]["write"]

----------------------------------------------------------------------------
Off(on) == /\ on # "cr" => cr = crOff
           /\ on # "dv" => dv = dvOff
           /\ on # "fz" => fz = fzOff
           /\ on # "cm" => cm = cmOff
           /\ on # "rs" => rs = rsOff
           /\ on # "rt" => rt = rtOff
           /\ on # "rw" => rw = rwOff
           /\ on # "cb" => cb = cbOff
           /\ on # "sc" => sc = scOff
Init == \/ crInit /\ Off("cr")
        \/ dvInit /\ Off("dv")
        \/ fzInit /\ Off("fz")
        \/ cmInit /\ Off("cm")
        \/ rsInit /\ Off("rs")
        \/ rtInit /\ Off("rt")
        \/ rwInit /\ Off("rw")
        \/ cbInit /\ Off("cb")
        \/ scInit /\ Off("sc")
Next == \/ crNext /\ UNCHANGED <<dv, fz, cm, rs, rt, rw, cb, sc>>
        \/ dvNext /\ UNCHANGED <<cr, fz, cm, rs, rt, rw, cb, sc>>
        \/ fzNext /\ UNCHANGED <<cr, dv, cm, rs, rt, rw, cb, sc>>
        \/ cmNext /\ UNCHANGED <<cr, dv, fz, rs, rt, rw, cb, sc>>
        \/ rsNext /\ UNCHANGED <<cr, dv, fz, cm, rt, rw, cb, sc>>
        \/ rtNext /\ UNCHANGED <<cr, dv, fz, cm, rs, rw, cb, sc>>
        \/ rwNext /\ UNCHANGED <<cr, dv, fz, cm, rs, rt, cb, sc>>
        \/ cbNext /\ UNCHANGED <<cr, dv, fz, cm, rs, rt, rw, sc>>
        \/ scNext /\ UNCHANGED <<cr, dv, fz, cm, rs, rt, rw, cb>>
Spec == Init /\ [][Next]_vars /\ crFairness /\ fzFairness /\ scFairness
=============================================================================
