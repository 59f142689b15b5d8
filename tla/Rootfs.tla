-------------------------------- MODULE Rootfs ------------------------------
(***************************************************************************)
(* The root file system of a container (rootfs_linux.go): init prepares the *)
(* root, makes the configured mounts below it, sets up /dev, changes root,  *)
(* and at the end makes read-only what was left writable to get there.      *)
(*                                                                          *)
(* A place is the sequence of names of a path.  `mounts' are the mounts     *)
(* inside the new root in the order they were made, `outer' are the others  *)
(* of init's mount namespace by their place, each with its propagation:     *)
(* "host" is shared with the mount namespace of the host, "own" shared with *)
(* no one, "none" not shared.  `host' are the mounts of the host.           *)
(***************************************************************************)
EXTENDS Integers, Sequences, FiniteSets

CONSTANTS rtConfs,  \* the configurations to consider: see rtInit
          rtTries,  \* remounts of a busy mount before giving up (5)
          rtFaults  \* bound: failing calls

VARIABLE rt

Dev == <<"dev">>
Null == <<"dev", "null">>
Proc == <<"proc">>
Scratch == <<"tmp", "runctop">>
Below(p, d) == Len(p) <= Len(d) /\ SubSeq(d, 1, Len(p)) = p

rtOff == [pc |-> "off"]
\* outer mounts: the host's root, its proc, and the mount the rootfs is on
Outer(c) == [p \in {<<>>, Proc, c.parent} |-> IF c.hostShared THEN "host" ELSE "none"]
rtInit == \E c \in rtConfs :
  rt = [pc |-> "prepareRoot", conf |-> c, outer |-> Outer(c), host |-> DOMAIN Outer(c),
        mounts |-> <<>>, rootRo |-> FALSE, jailed |-> FALSE,
        files |-> {[m |-> 0, at |-> p, dir |-> p \notin c.imageFiles] : p \in c.image},
        todo |-> c.mounts, scratch |-> "none", leak |-> FALSE, tries |-> 0, faults |-> 0]

rtAt(l) == rt.pc = l
rtGo(s, l) == [s EXCEPT !.pc = l]
rtFail == /\ rt.faults < rtFaults
          /\ rt' = [rt EXCEPT !.pc = "failed", !.faults = @ + 1]
rtError == rt' = rtGo(rt, "failed")
rtIf(cond, s) == rt' = IF cond THEN s ELSE rtGo(rt, "failed")

----------------------------------------------------------------------------
(* The kernel (external): paths, files and propagation.                     *)

\* the mount a path leads to: the last one made on the way, 0 is the rootfs
Innermost(s, d) ==
  LET on == {i \in DOMAIN s.mounts : Below(s.mounts[i].at, d)}
  IN IF on = {} THEN 0 ELSE CHOOSE i \in on : \A j \in on : j <= i
Mounted(s, d) == LET i == Innermost(s, d) IN i > 0 /\ s.mounts[i].at = d
Full(s, d) == LET i == Innermost(s, d) IN i > 0 /\ s.mounts[i].fs \in {"proc", "sysfs"}
Known(s, d) == {f \in s.files : f.m = Innermost(s, d) /\ f.at = d}
Exists(s, d) == Mounted(s, d) \/ Full(s, d) \/ Known(s, d) # {}
IsDir(s, d) == IF Mounted(s, d) THEN s.mounts[Innermost(s, d)].dir
               ELSE Full(s, d) \/ \E f \in Known(s, d) : f.dir
CanWrite(s, d) == LET i == Innermost(s, d)
                  IN IF i = 0 THEN ~s.rootRo ELSE ~s.mounts[i].ro /\ ~Full(s, d)
Create(s, d, dir) ==
  [s EXCEPT !.files = @ \cup {[m |-> Innermost(s, d), at |-> d, dir |-> dir]}]

\* a mount or an unmount on a mount shared with the host happens there as well
Parent(s, p) == IF p = <<>> THEN "none"
                ELSE IF p # s.conf.parent /\ Below(s.conf.parent, p) THEN s.outer[s.conf.parent]
                ELSE s.outer[<<>>]
Attach(s, p) == [s EXCEPT !.host = IF Parent(s, p) = "host" THEN @ \cup {p} ELSE @]
Detach(s, ps) == [s EXCEPT !.host = @ \ {p \in ps : Parent(s, p) = "host"}]
\* the propagation flags of mount(2), on one mount or recursively
Propagation(s, kind, ps) ==
  [s EXCEPT !.outer = [p \in DOMAIN @ |->
     IF p \notin ps THEN @[p] ELSE IF kind # "shared" THEN "none"
     ELSE IF @[p] = "none" THEN "own" ELSE @[p]]]

----------------------------------------------------------------------------
(* prepareRoot.                                                             *)

prepareRoot ==
  /\ rtAt("prepareRoot")
  /\ \/ rtFail
     \/ LET flag == IF rt.conf.propagation = "" THEN [kind |-> "slave", rec |-> TRUE]
                    ELSE [kind |-> rt.conf.propagation, rec |-> rt.conf.rec]
        IN rt' = rtGo(Propagation(rt, flag.kind, IF flag.rec THEN DOMAIN rt.outer ELSE {<<>>}),
                      "parent")
\* the parent of the rootfs must not be shared, for the bind mount and for
\* pivot_root
rootfsParentMountPrivate ==
  /\ rtAt("parent")
  /\ \/ rtFail
     \/ rt' = rtGo(IF rt.outer[rt.conf.parent] # "none"
                   THEN Propagation(rt, "private", {rt.conf.parent}) ELSE rt, "bindRoot")
bindRoot ==
  /\ rtAt("bindRoot")
  /\ rtFail \/ rt' = rtGo(Attach(rt, Append(rt.conf.parent, "rootfs")), "next")

----------------------------------------------------------------------------
(* The mounts.                                                              *)

needsSetupDev(c) ==
  \A i \in DOMAIN c.mounts : ~(c.mounts[i].dev = "bind" /\ c.mounts[i].at = Dev)

\* mountPropagate: what has to be written to first is made read-only later
delayed(m) == m.dev = "tmpfs" \/ m.at = Dev

\* checkProcMount
validProcMounts == {<<"proc", "cpuinfo">>}
ProcErr(m) == /\ m.dev \notin {"proc", "sysfs", "tmpfs", "mqueue", "cgroup", "cgroup1"}
              /\ Below(Proc, m.at) /\ m.at \notin validProcMounts
              /\ ~(m.at = Proc /\ m.srcProc)
\* the mount point: of the kind of the source, made if it is missing
DirErr(s, m) == IF Exists(s, m.at) THEN IsDir(s, m.at) # m.dir ELSE ~CanWrite(s, m.at)
PrepareErr(s, m) == ProcErr(m) \/ DirErr(s, m)
Prepared(s, m) == IF Exists(s, m.at) THEN s ELSE Create(s, m.at, m.dir)

\* what is left of a cgroup mount on v1: a tmpfs and a mount for each hierarchy,
\* a bind mount unless there is a cgroup namespace, and links
cgroupMounts(c, m) ==
  LET base == [m EXCEPT !.dev = "tmpfs", !.ro = FALSE]
      hier(h) == [m EXCEPT !.dev = IF c.cgroupns THEN "cgroup1" ELSE "bind",
                           !.at = Append(m.at, h)]
      link(l) == [m EXCEPT !.dev = "link", !.at = Append(m.at, l)]
  IN <<base>> \o [i \in DOMAIN c.hierarchies |-> hier(c.hierarchies[i])]
              \o [i \in DOMAIN c.links |-> link(c.links[i])]

\* mount(2) inside the rootfs: a bind mount keeps the flags of its source
Mount(s, m, fs, ro) ==
  [s EXCEPT !.mounts = Append(@, [at |-> m.at, fs |-> fs, ro |-> ro, dir |-> m.dir]),
            !.files = IF ~m.hasNull THEN @
                      ELSE @ \cup {[m |-> Len(s.mounts) + 1, at |-> Null, dir |-> FALSE]}]
Done(s) == [s EXCEPT !.pc = "next", !.todo = Tail(@)]

nextMount ==
  /\ rtAt("next")
  /\ rt' = IF rt.todo = <<>>
           THEN rtGo(rt, IF needsSetupDev(rt.conf) THEN "devices" ELSE "hooks")
           ELSE IF Head(rt.todo).dev = "cgroup" /\ ~rt.conf.unified
           THEN [rt EXCEPT !.todo = cgroupMounts(rt.conf, Head(@)) \o Tail(@)]
           ELSE rtGo(rt, "mount")

\* a tmpfs over a directory gets the mode of the directory
ChmodErr(s, m) == m.dev = "tmpfs" /\ Exists(s, m.at) /\ m.ro /\ ~delayed(m)
mountToRootfs ==
  LET m == Head(rt.todo) IN
  /\ rtAt("mount")
  /\ \/ rtFail
     \/ PrepareErr(rt, m) /\ m.dev # "link" /\ rtError
     \/ /\ m.dev = "link"  \* an existing link is left as it is
        /\ rtIf(Exists(rt, m.at) \/ CanWrite(rt, m.at),
                Done(IF Exists(rt, m.at) THEN rt ELSE Create(rt, m.at, FALSE)))
     \/ /\ m.dev \in {"proc", "sysfs", "mqueue", "devpts", "cgroup1"}
           \/ (m.dev = "tmpfs" /\ ~m.copyup)
        /\ ~PrepareErr(rt, m)
        /\ rtIf(~ChmodErr(rt, m),
                Done(Mount(Prepared(rt, m), m, m.dev, m.ro /\ ~delayed(m))))
     \/ /\ m.dev = "tmpfs" /\ m.copyup /\ ~PrepareErr(rt, m)
        /\ rt' = rtGo(Prepared(rt, m), "scratch")
     \/ /\ m.dev = "bind" /\ ~PrepareErr(rt, m)
        /\ rt' = rtGo(Mount(Prepared(rt, m), m, IF m.srcProc THEN "proc" ELSE "bind", m.srcRo),
                      "remount")

\* mountCgroupV2: without permission the host's mount is bound instead, which
\* takes no option
mountCgroupV2 ==
  LET m == Head(rt.todo) IN
  /\ rtAt("mount") /\ m.dev = "cgroup" /\ ~PrepareErr(rt, m)
  /\ rt' = IF ~rt.conf.denied THEN Done(Mount(Prepared(rt, m), m, "cgroup2", m.ro))
           ELSE IF rt.conf.noOwnCgroup
           THEN IF rt.conf.rootless THEN Done(Prepared(rt, m)) ELSE rtGo(rt, "failed")
           ELSE Done(Mount(Prepared(rt, m), m, "cgroup2", FALSE))

\* remount: a bind mount takes its options; those of a locked read-only source
\* can only be had read-only.  setRecAttr follows.
SetRo(s, i, ro) == [s EXCEPT !.mounts[i].ro = ro]
setRecAttr(s, m) ==
  IF ~m.recRo THEN s
  ELSE [s EXCEPT !.mounts = [i \in DOMAIN @ |-> IF Below(m.at, @[i].at)
                                               THEN [@[i] EXCEPT !.ro = TRUE] ELSE @[i]]]
remount ==
  LET m == Head(rt.todo)
      i == Innermost(rt, m.at)
  IN
  /\ rtAt("remount")
  /\ \/ rtFail
     \/ rt' = Done(setRecAttr(IF m.ro \/ m.opts
                              THEN SetRo(rt, i, m.ro \/ (m.srcRo /\ rt.conf.userns)) ELSE rt, m))

\* doTmpfsCopyUp: a private scratch mount on the host's /tmp, a tmpfs on it
\* that gets the contents, moved to where it belongs
prepareTmp ==
  /\ rtAt("scratch")
  /\ \/ rtFail
     \/ rt' = [rtGo(Attach(rt, Scratch), "private") EXCEPT !.scratch = rt.outer[<<>>]]
privateTmp ==
  /\ rtAt("private")
  /\ \/ rt.faults < rtFaults  \* the scratch mount stays behind
        /\ rt' = [rt EXCEPT !.pc = "failed", !.faults = @ + 1, !.leak = TRUE]
     \/ rt' = [rtGo(rt, "copyup") EXCEPT !.scratch = "private"]
cleanupTmp(s) == [Detach(s, {Scratch}) EXCEPT !.scratch = "none"]
copyUp ==
  LET m == Head(rt.todo) IN
  /\ rtAt("copyup")
  /\ \/ rt.faults < rtFaults
        /\ rt' = [rtGo(cleanupTmp(rt), "failed") EXCEPT !.faults = @ + 1]
     \/ rt' = IF rt.scratch # "private" \/ (m.ro /\ ~delayed(m))
              THEN rtGo(cleanupTmp(rt), "failed")
              ELSE cleanupTmp(Done(Mount(rt, m, "tmpfs", FALSE)))

----------------------------------------------------------------------------
(* /dev.                                                                    *)

\* createDevices: mknod, or a bind mount of the host's node where mknod is not
\* allowed; a node that is there is left alone
createDevices ==
  LET s == IF Exists(rt, Dev) THEN rt ELSE Create(rt, Dev, TRUE)
      made == Create(s, Null, FALSE)
      node == [at |-> Null, fs |-> "bind", ro |-> FALSE, dir |-> FALSE]
  IN
  /\ rtAt("devices")
  /\ \/ rtFail
     \/ Null \notin rt.conf.devices /\ rt' = rtGo(rt, "ptmx")
     \/ /\ Null \in rt.conf.devices /\ ~rt.conf.userns
        /\ rtIf(Exists(s, Null) \/ CanWrite(s, Null), rtGo(IF Exists(s, Null) THEN s ELSE made, "ptmx"))
     \/ /\ Null \in rt.conf.devices /\ (rt.conf.userns \/ ~Exists(s, Null))
        /\ rtIf(CanWrite(s, Null), rtGo([made EXCEPT !.mounts = Append(@, node)], "ptmx"))
\* a link that is there is kept
setupDevSymlinks(s) ==
  LET fd == <<"dev", "fd">> IN IF Exists(s, fd) THEN s ELSE Create(s, fd, FALSE)
\* setupPtmx replaces what is there
setupPtmx ==
  LET ptmx == <<"dev", "ptmx">> IN
  /\ rtAt("ptmx")
  /\ \/ rtFail
     \/ rtIf(Exists(rt, Dev) /\ CanWrite(rt, ptmx),
             rtGo(setupDevSymlinks(Create(rt, ptmx, FALSE)), "hooks"))

----------------------------------------------------------------------------
(* The change of root.                                                      *)

\* the hooks run by runc and by init, then one of three ways
runHooks ==
  /\ rtAt("hooks")
  /\ \/ rtFail
     \/ rt' = rtGo(rt, IF rt.conf.noPivot THEN "msMove" ELSE IF rt.conf.newns THEN "pivot" ELSE "chroot")

\* the kernel refuses to pivot below a shared mount
pivotRoot ==
  /\ rtAt("pivot")
  /\ \/ rtFail
     \/ rtIf(rt.outer[rt.conf.parent] = "none", rtGo(rt, "slave"))
\* mutant of oldrootSlave: the old root keeps its propagation
oldrootSlaveNever(s) == s
\* unmounting the old root must not reach the host
oldrootSlave(s) == Propagation(s, "slave", DOMAIN s.outer)
detachOldroot ==
  /\ rtAt("slave")
  /\ \/ rtFail
     \/ LET s == oldrootSlave(rt)
        IN rt' = [rtGo(Detach(s, DOMAIN s.outer), "reopen") EXCEPT
                    !.outer = [p \in {} |-> "none"], !.jailed = TRUE]

\* msMoveRoot: the host's full proc is unmounted, or covered where that is not
\* allowed; then the rootfs is moved over the root
msMoveRoot ==
  /\ rtAt("msMove")
  /\ \/ rtFail
     \/ LET s == Propagation(rt, "slave", {Proc}) IN
        rt' = [rtGo(IF rt.conf.userns THEN s ELSE Detach(s, {Proc}), "move") EXCEPT
                 !.outer = [p \in DOMAIN @ \ {Proc} |-> @[p]]]
moveRoot ==
  /\ rtAt("move")
  /\ \/ rtFail
     \/ rtIf(rt.outer[rt.conf.parent] = "none",
             rtGo([rt EXCEPT !.host = IF rt.outer[<<>>] = "host" THEN @ \cup {<<"/">>} ELSE @],
                  "chroot"))
chroot == rtAt("chroot") /\ (rtFail \/ rt' = [rtGo(rt, "reopen") EXCEPT !.jailed = TRUE])

\* finalizeRootfs: the mounts left writable until now
finalizeRootfs(c) == SelectSeq(c.mounts, LAMBDA m : m.ro /\ delayed(m))
\* reOpenDevNull, and the working directory
reOpenDevNull ==
  /\ rtAt("reopen")
  /\ \/ rtFail
     \/ rtIf(needsSetupDev(rt.conf) => Exists(rt, Null),
             IF rt.conf.newns
             THEN [rtGo(rt, "finalize") EXCEPT !.todo = finalizeRootfs(rt.conf)]
             ELSE [rtGo(rt, "protect") EXCEPT !.todo = rt.conf.protect])

----------------------------------------------------------------------------
(* finalizeRootfs and the paths to protect.                                 *)

\* remountReadonly, with some patience for a mount that is busy
remountReadonly ==
  LET m == Head(rt.todo) IN
  /\ rtAt("finalize") /\ rt.todo # <<>>
  /\ \/ rtFail
     \/ rt.tries = rtTries /\ rtError
     \/ rt.tries < rtTries /\ (rt.tries > 0 \/ rt.faults < rtFaults)
        /\ rt' = [rt EXCEPT !.tries = @ + 1, !.faults = IF rt.tries = 0 THEN @ + 1 ELSE @]
     \/ rt.tries < rtTries
        /\ rtIf(Mounted(rt, m.at),
                [SetRo(rt, Innermost(rt, m.at), TRUE) EXCEPT !.todo = Tail(@), !.tries = 0])
setReadonly ==
  /\ rtAt("finalize") /\ rt.todo = <<>>
  /\ rtFail \/ rt' = [rtGo(rt, "protect") EXCEPT !.rootRo = rt.conf.readonlyfs, !.todo = rt.conf.protect]

\* readonlyPath and maskPath: what does not exist needs no protection; a file
\* is masked by a bind mount of /dev/null, a directory by a read-only tmpfs
Protect(s, p, fs, ro) ==
  [s EXCEPT !.mounts = Append(@, [at |-> p, fs |-> fs, ro |-> ro, dir |-> IsDir(s, p)])]
readonlyPath ==
  LET p == Head(rt.todo).at IN
  /\ rtAt("protect") /\ rt.todo # <<>> /\ Head(rt.todo).dev = "readonly"
  /\ rtFail \/ rt' = [IF Exists(rt, p) THEN Protect(rt, p, "readonly", TRUE) ELSE rt EXCEPT !.todo = Tail(@)]
maskPath ==
  LET p == Head(rt.todo).at IN
  /\ rtAt("protect") /\ rt.todo # <<>> /\ Head(rt.todo).dev = "mask"
  /\ rtFail \/ rt' = [IF Exists(rt, p) /\ Exists(rt, Null) THEN Protect(rt, p, "mask", IsDir(rt, p)) ELSE rt
                      EXCEPT !.todo = Tail(@)]
protected == rtAt("protect") /\ rt.todo = <<>> /\ rt' = rtGo(rt, "done")

rtNext == \/ prepareRoot \/ rootfsParentMountPrivate \/ bindRoot \/ nextMount \/ mountToRootfs
          \/ mountCgroupV2 \/ remount \/ prepareTmp \/ privateTmp \/ copyUp \/ createDevices
          \/ setupPtmx \/ runHooks \/ pivotRoot \/ detachOldroot \/ msMoveRoot \/ moveRoot
          \/ chroot \/ reOpenDevNull \/ remountReadonly \/ setReadonly \/ readonlyPath
          \/ maskPath \/ protected
=============================================================================
