---------------------------- MODULE RwLayerProofs ---------------------------
(***************************************************************************)
(* Proofs about persistent root file systems: what an application has      *)
(* written is kept, a directory that is filled from the image is whole     *)
(* before anybody relies on it, and a container runs on the directory its  *)
(* entry names.  They hold for every set of templates that the assumption  *)
(* allows, any number of look-ups of the sidecar and of failing calls.     *)
(***************************************************************************)
EXTENDS RwLayer, TLAPS

USE ZenonT(3), SMT

-----------------------------------------------------------------------------
(* Files.                                                                  *)

Has(fs, l, g) == \E y \in fs : y.loc = l /\ y.f = g
\* The image, or what the application made of it.
Filled(fs, l) ==
  /\ Has(fs, l, "d") /\ Has(fs, l, "f")
  /\ \A y \in fs : y.loc = l /\ y.f = "f" => y.body \in {"image", "app"}
Bodies == {"image", "app", "part", "void"}
Sound(fs) == \A y \in fs : y.f \in {"d", "f", "lost+found"} /\ y.body \in Bodies

\* Root file systems, as opposed to volumes and special directories.
Layers == {"native", "upper"}

-----------------------------------------------------------------------------
(* The inductive invariant.                                                *)

rwFields == {"pc", "conf", "files", "markers", "handoffs", "cut", "raced", "faults", "p"}
podFields == {"at", "pod", "reviews", "side", "rec", "start", "call", "tries", "pvc", "upper",
              "dst", "todo", "idx", "binds"}
DirCopying == {"volCopy", "specialCopy"}
\* The mounts have been returned to start the container.
Late == {"vols", "volCopy", "special", "specialCopy", "running"}
Todos == {<<>>, <<"f">>, <<"d", "f">>}
\* Runc-lite is past the volumes.
Specials == {"special", "specialCopy", "running"}

Fields ==
  /\ DOMAIN rw = rwFields /\ DOMAIN rw.p = rwPods
  /\ \A u \in rwPods : DOMAIN rw.p[u] = podFields
Indexed == \A u \in rwPods : /\ rw.p[u].side \in Nat
                             /\ rw.p[u].at \in Specials \/ rw.p[u].idx \in Nat \ {0}
Bound == \A u \in rwPods : \A i \in DOMAIN rw.p[u].binds :
           rw.p[u].binds[i].source[1] \notin Layers
Shape == Fields /\ Indexed /\ Bound /\ rw.pc = "on" /\ rw.conf \in rwConfs /\ Sound(rw.files)

OwnUpper(u) == rw.p[u].upper = Native(u) \/ rw.p[u].upper[1] = "upper"
Filling(u, l) == rw.p[u].at = "matCopy" /\ rw.p[u].dst = l

Copies == \A u \in rwPods :
  /\ rw.p[u].at \in {"handoff", "mounts", "matCopy"} \cup Late => OwnUpper(u)
  /\ rw.p[u].at = "matCopy" => rw.conf.nested /\ rw.p[u].dst = rw.p[u].upper
  /\ rw.p[u].at \in DirCopying => rw.p[u].dst[1] \notin Layers
  /\ rw.p[u].at \in DirCopying \cup {"matCopy"} => rw.p[u].todo \in Todos

\* A marker says that a root file system was copied, and is there before the
\* application runs.  Without a race only one start copies, and only where no
\* marker is.
Marked ==
  /\ \A l \in rw.markers : l[1] \in Layers
  /\ \A u \in rwPods : rw.conf.nested /\ rw.p[u].at \in Late => rw.p[u].upper \in rw.markers
  /\ \A u \in rwPods : \A l :
       Filling(u, l) /\ l \notin rw.raced =>
         l \notin rw.markers /\ \A v \in rwPods \ {u} : ~Filling(v, l)
  /\ \A y \in rw.files : y.loc[1] = "upper" /\ y.f = "f" /\ y.body = "app" => y.loc \in rw.markers

\* What a root file system holds while it is copied, and before and after.
Progress(u, l) ==
  /\ rw.p[u].todo = <<"d", "f">> => ~Has(rw.files, l, "d") /\ ~Has(rw.files, l, "f")
  /\ rw.p[u].todo = <<"f">> => Has(rw.files, l, "d") /\ ~Has(rw.files, l, "f")
  /\ rw.p[u].todo = <<>> => Filled(rw.files, l)
MarkersWhole == \A l \in rw.markers \ (rw.cut \cup rw.raced) : Filled(rw.files, l)
CopiesWhole == \A u \in rwPods : \A l : Filling(u, l) /\ l \notin rw.cut \cup rw.raced => Progress(u, l)
Begun == \A y \in rw.files :
  y.loc[1] \in Layers /\ y.loc \notin rw.cut \cup rw.raced \cup rw.markers =>
    \E u \in rwPods : Filling(u, y.loc)
LayersWhole == MarkersWhole /\ CopiesWhole /\ Begun

\* Whoever has made the directory in a volume is about to make the file.
Half(u, l) == rw.p[u].at \in DirCopying /\ rw.p[u].dst = l /\ rw.p[u].todo = <<"f">>
DirsWhole ==
  \A y \in rw.files :
    y.loc[1] \notin Layers /\ y.loc \notin rw.cut /\ y.f # "lost+found" =>
      \/ Filled(rw.files, y.loc)
      \/ /\ Has(rw.files, y.loc, "d") /\ ~Has(rw.files, y.loc, "f")
         /\ \E u \in rwPods : Half(u, y.loc)

rwInv == Shape /\ Copies /\ Marked /\ LayersWhole /\ DirsWhole

-----------------------------------------------------------------------------
(* What the steps do.                                                      *)

Store(F) == DOMAIN rw' = rwFields /\ \A f \in rwFields \ F : rw'[f] = rw[f]
PodOnly(u, F) ==
  /\ DOMAIN rw'.p = rwPods /\ \A v \in rwPods \ {u} : rw'.p[v] = rw.p[v]
  /\ DOMAIN rw'.p[u] = podFields /\ \A f \in podFields \ F : rw'.p[u][f] = rw.p[u][f]

\* The fields a failed start resets.
Start == podFields \ {"pod", "reviews", "side", "start"}

LEMMA FailedDoes ==
  ASSUME Fields, NEW u \in rwPods, rwError(u)
  PROVE  Store({"p", "handoffs"}) /\ PodOnly(u, Start) /\ rw'.p[u].at = "idle"
         /\ ~rw'.p[u].rec /\ rw'.p[u].call = "none" /\ rw'.p[u].idx = 1
         /\ rw'.p[u].binds = <<>>
  <1> DEFINE c == [rw.p[u] EXCEPT !.at = "idle", !.rec = FALSE, !.call = "none",
                     !.tries = 0, !.pvc = <<>>, !.upper = <<>>, !.dst = <<>>,
                     !.todo = <<>>, !.idx = 1, !.binds = <<>>]
             hs == removeHandoff(rw.handoffs, <<u, rw.p[u].start>>)
  <1>1. rw' = [rw EXCEPT !.p[u] = c, !.handoffs = hs]
    BY DEF rwError, rwFailed
  <1>2. /\ DOMAIN c = podFields /\ c.at = "idle" /\ c.rec = FALSE /\ c.call = "none"
        /\ c.idx = 1 /\ c.binds = <<>> /\ \A f \in podFields \ Start : c[f] = rw.p[u][f]
    BY DEF Fields, Start, podFields
  <1> HIDE DEF c, hs
  <1>3. Store({"p", "handoffs"}) /\ rw'.p = [rw.p EXCEPT ![u] = c]
    BY <1>1 DEF Fields, Store, rwFields
  <1> QED BY <1>2, <1>3 DEF Fields, PodOnly

LEMMA ToDoes ==
  ASSUME Fields, NEW u \in rwPods, NEW l, rwTo(u, l)
  PROVE  Store({"p"}) /\ PodOnly(u, {"at"}) /\ rw'.p[u].at = l
  BY DEF Fields, rwTo, Store, PodOnly, rwFields, podFields

LEMMA MountsDoes ==
  ASSUME Fields, NEW u \in rwPods, NEW l, rw' = rwMounts(u, l)
  PROVE  Store({"p"}) /\ PodOnly(u, {"at", "upper"}) /\ rw'.p[u].at = "mounts"
         /\ rw'.p[u].upper = l
  BY DEF Fields, rwMounts, Store, PodOnly, rwFields, podFields

LEMMA AdmitDoes ==
  ASSUME Fields, NEW u \in rwPods, Admit(u)
  PROVE  /\ Store({"p", "faults"}) /\ PodOnly(u, {"at", "pod", "reviews"})
         /\ rw.p[u].at = "new" /\ rw'.p[u].at \in {"rejected", "idle", "new"}
  <1>1. PICK expired, r, pod :
          IF ~r.allowed
          THEN rw' = [rw EXCEPT !.p[u].at = "rejected",
                                !.faults = IF expired THEN @ + 1 ELSE @]
          ELSE \/ rw' = [rw EXCEPT !.p[u].pod = pod, !.p[u].at = "idle"]
               \/ rw' = [rw EXCEPT !.p[u].reviews = 1,
                     !.p[u].pod = [pod EXCEPT !.containers =
                        Append(@, [name |-> "mesh", mounts |-> <<>>])]]
    BY Zenon DEF Admit
  <1>2. rw.p[u].at = "new" BY DEF Admit, rwAt
  <1>3. CASE rw' = [rw EXCEPT !.p[u].at = "rejected", !.faults = IF expired THEN @ + 1 ELSE @]
    BY <1>2, <1>3 DEF Fields, Store, PodOnly, rwFields, podFields
  <1>4. CASE rw' = [rw EXCEPT !.p[u].pod = pod, !.p[u].at = "idle"]
    BY <1>2, <1>4 DEF Fields, Store, PodOnly, rwFields, podFields
  <1>5. ASSUME NEW x, rw' = [rw EXCEPT !.p[u].reviews = 1, !.p[u].pod = x]
        PROVE  Store({"p"}) /\ PodOnly(u, {"pod", "reviews"}) /\ rw'.p[u].at = "new"
    BY <1>2, <1>5 DEF Fields, Store, PodOnly, rwFields, podFields
  <1> QED BY <1>1, <1>2, <1>3, <1>4, <1>5, Zenon DEF Store, PodOnly

LEMMA SidecarDoes ==
  ASSUME Fields, Indexed, NEW u \in rwPods, StartSidecar(u)
  PROVE  Store({"p"}) /\ PodOnly(u, {"side"}) /\ rw'.p[u].side \in Nat
  <1>1. /\ Store({"p"}) /\ PodOnly(u, {"side"}) /\ rw'.p[u].side = rw.p[u].side + 1
    BY DEF Fields, StartSidecar, Store, PodOnly, rwFields, podFields
  <1>2. rw.p[u].side + 1 \in Nat BY SMT DEF Indexed
  <1> QED BY <1>1, <1>2

LEMMA CreateDoes ==
  ASSUME Fields, NEW u \in rwPods, CreateContainer(u)
  PROVE  /\ Store({"p", "files", "markers", "cut"}) /\ PodOnly(u, {"at", "call", "start"})
         /\ rw.p[u].at = "idle" /\ rw'.p[u].at = "hook" /\ rw'.p[u].call = "prepare"
         /\ rw'.files = {y \in rw.files : y.loc # Native(u)}
         /\ rw'.markers = rw.markers \ {Native(u)} /\ rw'.cut = rw.cut \ {Native(u)}
  <1> DEFINE fs == {y \in rw.files : y.loc # Native(u)}
             ms == rw.markers \ {Native(u)}
             cs == rw.cut \ {Native(u)}
             n  == rw.p[u].start + 1
  <1>1. rw' = [rw EXCEPT !.p[u].at = "hook", !.p[u].call = "prepare", !.p[u].start = n,
                         !.files = fs, !.markers = ms, !.cut = cs]
    BY DEF CreateContainer, Fields, rwFields, podFields
  <1> HIDE DEF fs, ms, cs, n
  <1>2. /\ Store({"p", "files", "markers", "cut"})
        /\ rw'.files = fs /\ rw'.markers = ms /\ rw'.cut = cs
    BY <1>1 DEF Fields, Store, rwFields
  <1>3. rw'.p = [rw.p EXCEPT ![u].at = "hook", ![u].call = "prepare", ![u].start = n]
    BY <1>1 DEF Fields, rwFields
  <1>5. /\ DOMAIN rw'.p = rwPods /\ \A v \in rwPods \ {u} : rw'.p[v] = rw.p[v]
        /\ rw'.p[u] = [rw.p[u] EXCEPT !.at = "hook", !.call = "prepare", !.start = n]
    BY <1>3 DEF Fields
  <1>6. PodOnly(u, {"at", "call", "start"}) /\ rw'.p[u].at = "hook" /\ rw'.p[u].call = "prepare"
    BY <1>5 DEF Fields, PodOnly, podFields
  <1>4. rw.p[u].at = "idle" BY DEF CreateContainer, rwAt
  <1> QED BY <1>2, <1>6, <1>4 DEF fs, ms, cs

LEMMA StartDoes ==
  ASSUME Fields, NEW u \in rwPods, StartContainer(u)
  PROVE  /\ Store({"p"}) /\ PodOnly(u, {"at", "call", "rec"})
         /\ rw.p[u].at = "prepared" /\ rw'.p[u].at = "hook" /\ rw'.p[u].call = "mounts"
         /\ rw'.p[u].rec
  <1>1. Store({"p"}) /\ rw'.p = [rw.p EXCEPT ![u].at = "hook", ![u].call = "mounts", ![u].rec = TRUE]
    BY DEF StartContainer, Fields, Store, rwFields
  <1>2. /\ DOMAIN rw'.p = rwPods /\ \A v \in rwPods \ {u} : rw'.p[v] = rw.p[v]
        /\ rw'.p[u] = [rw.p[u] EXCEPT !.at = "hook", !.call = "mounts", !.rec = TRUE]
    BY <1>1 DEF Fields
  <1>3. rw.p[u].at = "prepared" BY DEF StartContainer, rwAt
  <1> QED BY <1>1, <1>2, <1>3 DEF Fields, PodOnly, podFields

\* A step of the hook gives up, goes on at a label, or returns mounts on l.
Fails(u) == Store({"p", "handoffs"}) /\ PodOnly(u, Start) /\ rw'.p[u].at = "idle"
            /\ ~rw'.p[u].rec /\ rw'.p[u].call = "none" /\ rw'.p[u].idx = 1
            /\ rw'.p[u].binds = <<>>
Goes(u, l) == Store({"p"}) /\ PodOnly(u, {"at", "tries"}) /\ rw'.p[u].at = l
Mounts(u, l) == Store({"p"}) /\ PodOnly(u, {"at", "upper"}) /\ rw'.p[u].at = "mounts"
                /\ rw'.p[u].upper = l

LEMMA IdentityDoes ==
  ASSUME Fields, NEW u \in rwPods, ResolveIdentity(u)
  PROVE  /\ rw.p[u].at = "hook"
         /\ \/ Fails(u)
            \/ ~rw.p[u].rec /\ Mounts(u, Native(u))
            \/ rw.conf.labels = "noName" /\ Mounts(u, Native(u))
            \/ rw.p[u].rec /\ rw.conf.labels # "noName" /\ Goes(u, "resolve")
  <1>1. rw.p[u].at = "hook" BY DEF ResolveIdentity, rwAt
  <1>2. \/ ~rw.p[u].rec /\ rw' = rwMounts(u, Native(u))
        \/ rwError(u)
        \/ rw.conf.labels = "noName" /\ rw' = rwMounts(u, Native(u))
        \/ rw.p[u].rec /\ rw.conf.labels # "noName" /\ rwTo(u, "resolve")
    BY DEF ResolveIdentity
  <1>3. rwTo(u, "resolve") => Goes(u, "resolve") BY ToDoes DEF Goes, PodOnly
  <1>4. rw' = rwMounts(u, Native(u)) => Mounts(u, Native(u)) BY MountsDoes DEF Mounts
  <1>5. rwError(u) => Fails(u) BY FailedDoes DEF Fails
  <1> QED BY <1>1, <1>2, <1>3, <1>4, <1>5

\* Whether the entry of the container is looked for, and found.
HasEntry(u) ==
  /\ rw.p[u].pod.annot.kind \notin {"absent", "empty"}
  /\ rw.conf.name # SidecarContainerName /\ EntriesFor(rw.p[u].pod, rw.conf.name) # <<>>

LEMMA ResolveDoes ==
  ASSUME Fields, NEW u \in rwPods, ResolveRootfsRwLayer(u)
  PROVE  /\ rw.p[u].at = "resolve"
         /\ \/ Fails(u)
            \/ ~HasEntry(u) /\ Mounts(u, Native(u))
            \/ HasEntry(u) /\ Goes(u, "sidecar")
  <1>1. rw.p[u].at = "resolve" BY DEF ResolveRootfsRwLayer, rwAt
  <1>2. \/ rwError(u)
        \/ ~HasEntry(u) /\ rw' = rwMounts(u, Native(u))
        \/ HasEntry(u) /\ rw' = [rw EXCEPT !.p[u].at = "sidecar", !.p[u].tries = 0]
    BY DEF ResolveRootfsRwLayer, HasEntry
  <1>3. ASSUME rw' = [rw EXCEPT !.p[u].at = "sidecar", !.p[u].tries = 0]
        PROVE  Goes(u, "sidecar")
    BY <1>3 DEF Fields, Goes, Store, PodOnly, rwFields, podFields
  <1>4. rw' = rwMounts(u, Native(u)) => Mounts(u, Native(u)) BY MountsDoes DEF Mounts
  <1>5. rwError(u) => Fails(u) BY FailedDoes DEF Fails
  <1> QED BY <1>1, <1>2, <1>3, <1>4, <1>5

LEMMA SpecDoes ==
  ASSUME Fields, Indexed, NEW u \in rwPods, LoadSidecarSpec(u)
  PROVE  rw.p[u].at = "sidecar" /\ (Fails(u) \/ Goes(u, "pvc") \/ Goes(u, "sidecar"))
  <1>1. rw.p[u].at = "sidecar" BY DEF LoadSidecarSpec, rwAt
  <1>2. \/ rwError(u) \/ rwTo(u, "pvc")
        \/ rw' = [rw EXCEPT !.p[u].tries = @ + 1]
    <2>1. rw.p[u].side = 0 \/ rw.p[u].side = 1 \/ rw.p[u].side > 1 BY SMT DEF Indexed
    <2> QED BY <2>1, Zenon DEF LoadSidecarSpec
  <1>3. rw' = [rw EXCEPT !.p[u].tries = @ + 1] => Goes(u, "sidecar")
    BY <1>1 DEF Fields, Goes, Store, PodOnly, rwFields, podFields
  <1>4. rwTo(u, "pvc") => Goes(u, "pvc") BY ToDoes DEF Goes, PodOnly
  <1>5. rwError(u) => Fails(u) BY FailedDoes DEF Fails
  <1> QED BY <1>1, <1>2, <1>3, <1>4, <1>5

LEMMA PrepareDoes ==
  ASSUME Fields, NEW u \in rwPods, PrepareRootfsRwLayer(u)
  PROVE  LET e == EntriesFor(rw.p[u].pod, rw.conf.name)[1]
             path == ResolvePVCMountPath(u, e)
         IN /\ rw.p[u].at = "pvc"
            /\ \/ Fails(u)
               \/ /\ path # <<>>
                  /\ Store({"p"}) /\ PodOnly(u, {"at", "pvc", "upper"})
                  /\ rw'.p[u].at \in {"handoff", "mounts"}
                  /\ rw'.p[u].upper = LayerDir(u, e, path, "upper")
  <1> DEFINE e == EntriesFor(rw.p[u].pod, rw.conf.name)[1]
             path == ResolvePVCMountPath(u, e)
             next == IF e.persist THEN "handoff" ELSE "mounts"
             dir == LayerDir(u, e, path, "upper")
             to == [rw EXCEPT !.p[u].pvc = path, !.p[u].at = next]
  <1>1. rw.p[u].at = "pvc" BY DEF PrepareRootfsRwLayer, rwAt
  <1>2. rwError(u) \/ (path # <<>> /\ rw' = [to EXCEPT !.p[u].upper = dir])
    BY DEF PrepareRootfsRwLayer, rewriteFuseOverlayMounts
  <1>3. next \in {"handoff", "mounts"} OBVIOUS
  <1> HIDE DEF path, next, dir
  <1>4. /\ DOMAIN to = rwFields /\ \A f \in rwFields \ {"p"} : to[f] = rw[f]
        /\ to.p = [rw.p EXCEPT ![u].pvc = path, ![u].at = next]
    BY DEF Fields, rwFields
  <1>5. /\ DOMAIN to.p = rwPods /\ \A v \in rwPods \ {u} : to.p[v] = rw.p[v]
        /\ DOMAIN to.p[u] = podFields /\ to.p[u].at = next
        /\ \A f \in podFields \ {"at", "pvc"} : to.p[u][f] = rw.p[u][f]
    BY <1>4 DEF Fields, podFields
  <1> HIDE DEF to
  <1>6. ASSUME rw' = [to EXCEPT !.p[u].upper = dir]
        PROVE  /\ Store({"p"}) /\ PodOnly(u, {"at", "pvc", "upper"})
               /\ rw'.p[u].at = next /\ rw'.p[u].upper = dir
    <2>1. Store({"p"}) /\ rw'.p = [to.p EXCEPT ![u].upper = dir]
      BY <1>4, <1>6 DEF Store, rwFields
    <2> QED BY <2>1, <1>5 DEF PodOnly, podFields
  <1>7. rwError(u) => Fails(u) BY FailedDoes DEF Fails
  <1> QED BY <1>1, <1>2, <1>3, <1>6, <1>7 DEF path, dir

LEMMA HandoffDoes ==
  ASSUME Fields, NEW u \in rwPods, WriteHandoff(u)
  PROVE  /\ rw.p[u].at = "handoff" /\ rw'.p[u].at = "mounts"
         /\ Store({"p", "handoffs"}) /\ PodOnly(u, {"at"})
  <1>1. PICK hs : rw' = [rw EXCEPT !.p[u].at = "mounts", !.handoffs = hs]
    BY Zenon DEF WriteHandoff
  <1>2. rw.p[u].at = "handoff" BY DEF WriteHandoff, rwAt
  <1> QED BY <1>1, <1>2 DEF Fields, Store, PodOnly, rwFields, podFields

\* The mounts are returned.
Returns(u) == rw'.p[u].at = IF rw.p[u].call = "prepare" THEN "prepared" ELSE "vols"

LEMMA MaterializeDoes ==
  ASSUME Fields, NEW u \in rwPods, materializeActiveSnapshot(u)
  PROVE  /\ rw.p[u].at = "mounts"
         /\ \/ /\ ~rw.conf.nested \/ rw.p[u].upper \in rw.markers
               /\ Store({"p"}) /\ PodOnly(u, {"at"}) /\ Returns(u)
            \/ /\ rw.conf.nested /\ rw.p[u].upper \notin rw.markers
               /\ Store({"p", "raced"}) /\ PodOnly(u, {"at", "dst", "todo"})
               /\ rw'.p[u].at = "matCopy" /\ rw'.p[u].dst = rw.p[u].upper
               /\ rw'.p[u].todo = <<"d", "f">>
               /\ rw'.raced = rw.raced \cup {l \in {rw.p[u].upper} : rwCopying(l) # {}}
  <1> DEFINE up == rw.p[u].upper
             rs == rw.raced \cup {l \in {up} : rwCopying(l) # {}}
  <1>1. rw.p[u].at = "mounts" BY DEF materializeActiveSnapshot, rwAt
  <1>2. CASE ~rw.conf.nested \/ up \in rw.markers
    <2>1. rwTo(u, rwReturn(u)) BY <1>2 DEF materializeActiveSnapshot
    <2> QED BY <1>1, <1>2, <2>1, ToDoes DEF Returns, rwReturn
  <1>3. CASE ~(~rw.conf.nested \/ up \in rw.markers)
    <2>1. rw' = [rw EXCEPT !.p[u].at = "matCopy", !.p[u].dst = up, !.p[u].todo = ImageFiles,
                           !.raced = rs]
      BY <1>3 DEF materializeActiveSnapshot, Fields, rwFields
    <2> HIDE DEF up, rs
    <2>2. /\ Store({"p", "raced"}) /\ rw'.raced = rs
          /\ rw'.p = [rw.p EXCEPT ![u].at = "matCopy", ![u].dst = up, ![u].todo = ImageFiles]
      BY <2>1 DEF Fields, Store, rwFields
    <2>3. /\ DOMAIN rw'.p = rwPods /\ \A v \in rwPods \ {u} : rw'.p[v] = rw.p[v]
          /\ rw'.p[u] = [rw.p[u] EXCEPT !.at = "matCopy", !.dst = up, !.todo = ImageFiles]
      BY <2>2 DEF Fields
    <2>4. /\ PodOnly(u, {"at", "dst", "todo"}) /\ rw'.p[u].at = "matCopy"
          /\ rw'.p[u].dst = up /\ rw'.p[u].todo = ImageFiles
      BY <2>3 DEF Fields, PodOnly, podFields
    <2> QED BY <1>1, <1>3, <2>2, <2>4 DEF ImageFiles, up, rs
  <1> QED BY <1>2, <1>3

LEMMA CopyDoes ==
  ASSUME Fields, NEW u \in rwPods, materializeCopy(u)
  PROVE  LET c == rw.p[u]
             f == c.todo[1]
             old == rwBody(rw.files, c.dst, f)
         IN /\ c.at = "matCopy" /\ c.todo # <<>>
            /\ Store({"p", "files"}) /\ PodOnly(u, {"todo"}) /\ rw'.p[u].todo = Tail(c.todo)
            /\ \E body : /\ old = "none" => body = "image"
                         /\ old # "none" => body = old \/ (body = "void" /\ f = "f")
                         /\ rw'.files = rwPut(rw.files, c.dst, f, body)
  <1> DEFINE c == rw.p[u]
             f == c.todo[1]
             old == rwBody(rw.files, c.dst, f)
  <1>1. c.at = "matCopy" /\ c.todo # <<>> BY DEF materializeCopy, rwAt
  <1>2. PICK body \in IF old = "none" THEN {"image"} ELSE {old} \cup {x \in {"void"} : f = "f"} :
          rw' = [rw EXCEPT !.p[u].todo = Tail(@), !.files = rwPut(@, c.dst, f, body)]
    BY Zenon DEF materializeCopy
  <1> DEFINE fs == rwPut(rw.files, c.dst, f, body)
             td == Tail(c.todo)
  <1>3. rw' = [rw EXCEPT !.p[u].todo = td, !.files = fs]
    BY <1>2 DEF Fields, rwFields, podFields
  <1>4. /\ old = "none" => body = "image"
        /\ old # "none" => body = old \/ (body = "void" /\ f = "f")
    <2> HIDE DEF old, f
    <2> QED OBVIOUS
  <1> HIDE DEF fs, td
  <1>5. Store({"p", "files"}) /\ rw'.files = fs /\ rw'.p = [rw.p EXCEPT ![u].todo = td]
    BY <1>3 DEF Fields, Store, rwFields
  <1>6. PodOnly(u, {"todo"}) /\ rw'.p[u].todo = td
    BY <1>5 DEF Fields, PodOnly, podFields
  <1> QED BY <1>1, <1>4, <1>5, <1>6, Zenon DEF fs, td

LEMMA MarkDoes ==
  ASSUME Fields, NEW u \in rwPods, materializeMark(u)
  PROVE  /\ rw.p[u].at = "matCopy" /\ rw.p[u].todo = <<>>
         /\ Store({"p", "markers"}) /\ PodOnly(u, {"at", "dst"}) /\ Returns(u)
         /\ rw'.markers = rw.markers \cup {rw.p[u].upper}
  <1> DEFINE ms == rw.markers \cup {rw.p[u].upper}
             next == rwReturn(u)
  <1>1. rw.p[u].at = "matCopy" /\ rw.p[u].todo = <<>> BY DEF materializeMark, rwAt
  <1>2. rw' = [rw EXCEPT !.p[u].at = next, !.p[u].dst = <<>>, !.markers = ms]
    BY DEF materializeMark, Fields, rwFields
  <1>3. Returns(u) = (rw'.p[u].at = next) BY DEF Returns, rwReturn
  <1> HIDE DEF ms, next
  <1>4. Store({"p", "markers"}) /\ rw'.markers = ms
        /\ rw'.p = [rw.p EXCEPT ![u].at = next, ![u].dst = <<>>]
    BY <1>2 DEF Fields, Store, rwFields
  <1>5. PodOnly(u, {"at", "dst"}) /\ rw'.p[u].at = next
    BY <1>4 DEF Fields, PodOnly, podFields
  <1> QED BY <1>1, <1>3, <1>4, <1>5 DEF ms

\* A start begins to fill the directory l.
Begins(u, l) ==
  /\ Store({"p"}) /\ PodOnly(u, {"at", "dst", "todo", "idx"})
  /\ rw'.p[u].at \in DirCopying /\ rw'.p[u].dst = l /\ rw'.p[u].todo = <<"d", "f">>
  /\ rw'.p[u].at \in Specials \/ rw'.p[u].idx \in Nat \ {0}

\* The volumes of a Pod are not root file systems.
LEMMA LiteLocs ==
  ASSUME rw.conf \in rwConfs, NEW u \in rwPods
  PROVE  LET ms == liteSpec(u) IN
         /\ Len(ms) \in Nat /\ DOMAIN ms = 1 .. Len(ms)
         /\ \A k \in DOMAIN ms : ms[k].loc[1] \notin Layers
  <1> DEFINE ms == liteSpec(u)
             cm == rw.conf.mounts[u]
  <1>1. /\ Len(cm) \in Nat /\ DOMAIN cm = 1 .. Len(cm)
        /\ \A k \in DOMAIN cm : cm[k].loc[1] \notin Layers
    BY rwAssumption, Zenon DEF Layers
  <1>2. ms = cm \/ ms = <<>> BY Zenon DEF liteSpec
  <1> HIDE DEF cm, ms
  <1>3. Len(ms) \in Nat /\ DOMAIN ms = 1 .. Len(ms)
    BY <1>1, <1>2, SMT
  <1>4. \A k \in DOMAIN ms : ms[k].loc[1] \notin Layers
    BY <1>1, <1>2, SMT
  <1> QED BY <1>3, <1>4 DEF ms

LEMMA VolumesDoes ==
  ASSUME Fields, Indexed, rw.conf \in rwConfs, NEW u \in rwPods, initLiteVolumes(u)
  PROVE  /\ rw.p[u].at = "vols"
         /\ \/ /\ Store({"p"}) /\ PodOnly(u, {"at", "idx"})
               /\ rw'.p[u].at \in {"vols", "special"} /\ rw'.p[u].idx \in Nat \ {0}
            \/ \E l : l[1] \notin Layers /\ Begins(u, l)
  <1> DEFINE i  == rw.p[u].idx
             ms == liteSpec(u)
  <1>1. rw.p[u].at = "vols" BY DEF initLiteVolumes, rwAt
  <1>2. \/ rw' = [rw EXCEPT !.p[u].at = "special", !.p[u].idx = 1]
        \/ rw' = [rw EXCEPT !.p[u].idx = @ + 1]
        \/ ~(i > Len(ms)) /\ rw' = [rw EXCEPT !.p[u].at = "volCopy", !.p[u].dst = ms[i].loc,
                                              !.p[u].todo = ImageFiles]
    BY Zenon DEF initLiteVolumes
  <1>3. ASSUME rw' = [rw EXCEPT !.p[u].at = "special", !.p[u].idx = 1]
        PROVE  /\ Store({"p"}) /\ PodOnly(u, {"at", "idx"}) /\ rw'.p[u].at = "special"
               /\ rw'.p[u].idx = 1
    BY <1>3 DEF Fields, Store, PodOnly, rwFields, podFields
  <1>4. ASSUME rw' = [rw EXCEPT !.p[u].idx = @ + 1]
        PROVE  /\ Store({"p"}) /\ PodOnly(u, {"at", "idx"}) /\ rw'.p[u].at = "vols"
               /\ rw'.p[u].idx = rw.p[u].idx + 1
    BY <1>1, <1>4 DEF Fields, Store, PodOnly, rwFields, podFields
  <1>5. ASSUME NEW l, rw' = [rw EXCEPT !.p[u].at = "volCopy", !.p[u].dst = l,
                                       !.p[u].todo = ImageFiles]
        PROVE  Begins(u, l)
    <2>1. /\ Store({"p"})
          /\ rw'.p = [rw.p EXCEPT ![u].at = "volCopy", ![u].dst = l, ![u].todo = ImageFiles]
      BY <1>5 DEF Fields, Store, rwFields
    <2>2. /\ DOMAIN rw'.p = rwPods /\ \A v \in rwPods \ {u} : rw'.p[v] = rw.p[v]
          /\ rw'.p[u] = [rw.p[u] EXCEPT !.at = "volCopy", !.dst = l, !.todo = ImageFiles]
      BY <2>1 DEF Fields
    <2>3. /\ PodOnly(u, {"at", "dst", "todo", "idx"}) /\ rw'.p[u].at = "volCopy"
          /\ rw'.p[u].dst = l /\ rw'.p[u].todo = ImageFiles /\ rw'.p[u].idx = rw.p[u].idx
      BY <2>2 DEF Fields, PodOnly, podFields
    <2> QED BY <1>1, <2>1, <2>3 DEF Begins, DirCopying, ImageFiles, Indexed, Specials
  <1>6. ~(i > Len(ms)) => ms[i].loc[1] \notin Layers
    <2>1. /\ Len(ms) \in Nat /\ DOMAIN ms = 1 .. Len(ms)
          /\ \A k \in DOMAIN ms : ms[k].loc[1] \notin Layers
      BY LiteLocs, Zenon
    <2> HIDE DEF ms
    <2>2. ~(i > Len(ms)) => i \in DOMAIN ms BY SMT, <1>1, <2>1 DEF Indexed, Specials
    <2> QED BY <2>1, <2>2, Zenon
  <1>7. rw.p[u].idx + 1 \in Nat \ {0} /\ 1 \in Nat \ {0} BY SMT, <1>1 DEF Indexed, Specials
  <1> QED BY <1>1, <1>2, <1>3, <1>4, <1>5, <1>6, <1>7, Zenon

\* One step of copyDir, which goes on at `back' when it is done.
LEMMA DirDoes ==
  ASSUME Fields, NEW u \in rwPods, NEW back, copyDir(u, back)
  PROVE  LET c == rw.p[u]
             f == c.todo[1]
         IN \/ /\ c.todo = <<>> /\ Store({"p"}) /\ PodOnly(u, {"at", "idx", "dst"})
               /\ rw'.p[u].at = back /\ rw'.p[u].idx = c.idx + 1
            \/ c.todo # <<>> /\ ~copyEntry(c.dst, f) /\ Fails(u)
            \/ /\ c.todo # <<>> /\ copyEntry(c.dst, f)
               /\ Store({"p", "files"}) /\ PodOnly(u, {"todo"}) /\ rw'.p[u].todo = Tail(c.todo)
               /\ rw'.files = IF f = "d" /\ rwBody(rw.files, c.dst, "d") # "none" THEN rw.files
                              ELSE rwPut(rw.files, c.dst, f, "image")
  <1> DEFINE c == rw.p[u]
             f == c.todo[1]
             fs == IF f = "d" /\ rwBody(rw.files, c.dst, "d") # "none" THEN rw.files
                   ELSE rwPut(rw.files, c.dst, f, "image")
             td == Tail(c.todo)
             n  == c.idx + 1
  <1>1. CASE c.todo = <<>>
    <2>1. rw' = [rw EXCEPT !.p[u].at = back, !.p[u].idx = n, !.p[u].dst = <<>>]
      BY <1>1 DEF copyDir, Fields, rwFields, podFields
    <2> HIDE DEF n
    <2>3. Store({"p"}) /\ rw'.p = [rw.p EXCEPT ![u].at = back, ![u].idx = n, ![u].dst = <<>>]
      BY <2>1 DEF Fields, Store, rwFields
    <2>4. /\ DOMAIN rw'.p = rwPods /\ \A v \in rwPods \ {u} : rw'.p[v] = rw.p[v]
          /\ rw'.p[u] = [rw.p[u] EXCEPT !.at = back, !.idx = n, !.dst = <<>>]
      BY <2>3 DEF Fields
    <2>5. PodOnly(u, {"at", "idx", "dst"}) /\ rw'.p[u].at = back /\ rw'.p[u].idx = n
      BY <2>4 DEF Fields, PodOnly, podFields
    <2> QED BY <1>1, <2>3, <2>5 DEF n
  <1>2. CASE c.todo # <<>> /\ ~copyEntry(c.dst, f)
    <2>1. rwError(u) BY <1>2 DEF copyDir
    <2> QED BY <1>2, <2>1, FailedDoes DEF Fails
  <1>3. CASE c.todo # <<>> /\ copyEntry(c.dst, f)
    <2>1. rw' = [rw EXCEPT !.p[u].todo = td, !.files = fs]
      BY <1>3 DEF copyDir, Fields, rwFields, podFields
    <2> HIDE DEF td, fs
    <2>2. Store({"p", "files"}) /\ rw'.files = fs /\ rw'.p = [rw.p EXCEPT ![u].todo = td]
      BY <2>1 DEF Fields, Store, rwFields
    <2>3. PodOnly(u, {"todo"}) /\ rw'.p[u].todo = td
      BY <2>2 DEF Fields, PodOnly, podFields
    <2> QED BY <1>3, <2>2, <2>3, Zenon DEF td, fs
  <1> QED BY <1>1, <1>2, <1>3, Zenon

LEMMA SpecialsDoes ==
  ASSUME Fields, NEW u \in rwPods, addLiteSpecialMounts(u)
  PROVE  /\ rw.p[u].at = "special"
         /\ \/ Fails(u)
            \/ /\ Store({"p"}) /\ PodOnly(u, {"at", "binds"}) /\ rw'.p[u].at = "running"
               /\ \/ rw'.p[u].binds = rw.p[u].binds
                  \/ \A i \in DOMAIN rw'.p[u].binds : rw'.p[u].binds[i].source[1] = "special"
            \/ \E l : l[1] = "special" /\ Begins(u, l)
  <1>1. rw.p[u].at = "special" BY DEF addLiteSpecialMounts, rwAt
  <1> DEFINE bs == liteSpecials(u)
             hs == loadLiteHandoff(<<u, rw.p[u].start>>)
             h  == CHOOSE x \in hs : TRUE
             Bind(b) == [source |-> Append(LayerDir(u, b.e, h.path, "special"), b.dest),
                         dest |-> b.dest]
             Wrong(i) == ~handoffMatches(h, u, bs[i].e)
             due == {i \in rw.p[u].idx .. Len(bs) :
                       Wrong(i) \/ (bs[i].dest \in rw.conf.image /\ dirEmpty(Bind(bs[i]).source))}
             next == IF due = {} THEN Len(bs) + 1 ELSE CHOOSE i \in due : \A j \in due : i <= j
             made == [i \in 1 .. Len(bs) |-> Bind(bs[i])]
             src == Bind(bs[next]).source
  <1>2. \/ rwError(u) \/ rwTo(u, "running")
        \/ rw' = [rw EXCEPT !.p[u].at = "running", !.p[u].binds = made]
        \/ rw' = [rw EXCEPT !.p[u].at = "specialCopy", !.p[u].idx = next, !.p[u].dst = src,
                            !.p[u].todo = ImageFiles]
    BY Zenon DEF addLiteSpecialMounts
  <1>6. /\ src[1] = "special"
        /\ \A i \in DOMAIN made : made[i].source[1] = "special"
    <2>1. \A x, y, d : Append(<<"special", x, y>>, d)[1] = "special" BY SMT
    <2>2. \A b : Bind(b).source = Append(LayerDir(u, b.e, h.path, "special"), b.dest) BY Zenon
    <2>3. \A b : Bind(b).source[1] = "special"
      <3> HIDE DEF h, Bind
      <3> TAKE b
      <3>1. Append(LayerDir(u, b.e, h.path, "special"), b.dest)[1] = "special"
        <4> DEFINE x == rwBacking(u, b.e.vol, h.path)
                   y == CleanPath(b.e.path)
        <4>1. LayerDir(u, b.e, h.path, "special") = <<"special", x, y>> BY DEF LayerDir
        <4> HIDE DEF x, y
        <4>2. Append(<<"special", x, y>>, b.dest)[1] = "special" BY <2>1
        <4> QED BY <4>1, <4>2, Zenon
      <3> QED BY <2>2, <3>1, Zenon
    <2> HIDE DEF bs, next, h, Bind
    <2>4. src[1] = "special" BY <2>3, Zenon
    <2>5. ASSUME NEW i \in DOMAIN made PROVE made[i].source[1] = "special"
      <3>1. made[i] = Bind(bs[i]) BY <2>5
      <3> QED BY <2>3, <3>1, Zenon
    <2> QED BY <2>4, <2>5
  <1> HIDE DEF made, next, src
  <1>3. rwTo(u, "running") => /\ Store({"p"}) /\ PodOnly(u, {"at", "binds"})
                              /\ rw'.p[u].at = "running" /\ rw'.p[u].binds = rw.p[u].binds
    BY ToDoes DEF PodOnly, podFields
  <1>4. ASSUME rw' = [rw EXCEPT !.p[u].at = "running", !.p[u].binds = made]
        PROVE  /\ Store({"p"}) /\ PodOnly(u, {"at", "binds"}) /\ rw'.p[u].at = "running"
               /\ rw'.p[u].binds = made
    BY <1>4 DEF Fields, Store, PodOnly, rwFields, podFields
  <1>5. ASSUME NEW l, NEW m, rw' = [rw EXCEPT !.p[u].at = "specialCopy", !.p[u].idx = m,
                                      !.p[u].dst = l, !.p[u].todo = ImageFiles]
        PROVE  Begins(u, l)
    <2>1. /\ Store({"p"})
          /\ rw'.p = [rw.p EXCEPT ![u].at = "specialCopy", ![u].idx = m, ![u].dst = l,
                                  ![u].todo = ImageFiles]
      BY <1>5 DEF Fields, Store, rwFields
    <2>2. /\ DOMAIN rw'.p = rwPods /\ \A v \in rwPods \ {u} : rw'.p[v] = rw.p[v]
          /\ rw'.p[u] = [rw.p[u] EXCEPT !.at = "specialCopy", !.idx = m, !.dst = l,
                                        !.todo = ImageFiles]
      BY <2>1 DEF Fields
    <2>3. /\ PodOnly(u, {"at", "dst", "todo", "idx"}) /\ rw'.p[u].at = "specialCopy"
          /\ rw'.p[u].dst = l /\ rw'.p[u].todo = ImageFiles
      BY <2>2 DEF Fields, PodOnly, podFields
    <2> QED BY <2>1, <2>3 DEF Begins, DirCopying, ImageFiles, Specials
  <1>8. rwError(u) => Fails(u) BY FailedDoes DEF Fails
  <1> QED BY <1>1, <1>2, <1>3, <1>4, <1>5, <1>6, <1>8, ZenonT(40)

\* Where an application writes: its root file system, or not one.
LEMMA DirsOf ==
  ASSUME rw.conf \in rwConfs, Bound, NEW u \in rwPods, NEW l \in rwDirs(u)
  PROVE  (rw.conf.nested /\ l = rw.p[u].upper) \/ l[1] \notin Layers
  <1>1. \/ rw.conf.nested /\ l = rw.p[u].upper
        \/ \E i \in DOMAIN rw.p[u].binds : l = rw.p[u].binds[i].source
        \/ \E i \in DOMAIN liteSpec(u) : l = liteSpec(u)[i].loc
    BY Zenon DEF rwDirs
  <1>2. \A i \in DOMAIN liteSpec(u) : liteSpec(u)[i].loc[1] \notin Layers
    BY LiteLocs, Zenon
  <1> QED BY <1>1, <1>2, Zenon DEF Bound

LEMMA WriteDoes ==
  ASSUME Fields, NEW u \in rwPods, appWrite(u)
  PROVE  /\ rw.p[u].at = "running" /\ Store({"files"})
         /\ \E l \in rwDirs(u) : \E d :
              /\ d = rw.files \/ d = rwPut(rw.files, l, "d", "app")
              /\ rwBody(rw.files, l, "d") = "none" => d = rwPut(rw.files, l, "d", "app")
              /\ rw'.files = rwPut(d, l, "f", "app")
  <1>1. rw.p[u].at = "running" BY DEF appWrite, rwAt
  <1>2. PICK l \in rwDirs(u) :
          rw' = [rw EXCEPT !.files = rwPut(IF rwBody(rw.files, l, "d") = "none"
                                           THEN rwPut(rw.files, l, "d", "app") ELSE rw.files,
                                           l, "f", "app")]
    BY Zenon DEF appWrite
  <1> DEFINE d == IF rwBody(rw.files, l, "d") = "none" THEN rwPut(rw.files, l, "d", "app")
                  ELSE rw.files
  <1>3. /\ d = rw.files \/ d = rwPut(rw.files, l, "d", "app")
        /\ rwBody(rw.files, l, "d") = "none" => d = rwPut(rw.files, l, "d", "app")
    BY Zenon
  <1> HIDE DEF d
  <1>4. Store({"files"}) /\ rw'.files = rwPut(d, l, "f", "app")
    BY <1>2 DEF Fields, Store, rwFields, d
  <1> QED BY <1>1, <1>3, <1>4, Zenon

LEMMA EraseDoes ==
  ASSUME Fields, NEW u \in rwPods, appErase(u)
  PROVE  /\ rw.p[u].at = "running" /\ Store({"files"})
         /\ \E l \in rwDirs(u) \ {rw.p[u].upper} :
              rw'.files = {y \in rw.files : y.loc # l \/ y.f = "lost+found"}
  <1>1. rw.p[u].at = "running" BY DEF appErase, rwAt
  <1>2. PICK l \in rwDirs(u) \ {rw.p[u].upper} :
          rw' = [rw EXCEPT !.files = {y \in rw.files : y.loc # l \/ y.f = "lost+found"}]
    BY Zenon DEF appErase
  <1>3. Store({"files"}) /\ rw'.files = {y \in rw.files : y.loc # l \/ y.f = "lost+found"}
    BY <1>2 DEF Fields, Store, rwFields
  <1> QED BY <1>1, <1>2, <1>3, Zenon

\* A start is cut short.
LEMMA InterruptDoes ==
  ASSUME Fields, NEW u \in rwPods, rwInterrupt(u)
  PROVE  LET c == rw.p[u]
             half == rwPut(rw.files, c.dst, "f", "part")
         IN /\ c.at \notin {"new", "rejected", "idle", "running"}
            /\ PodOnly(u, Start) /\ rw'.p[u].at = "idle" /\ ~rw'.p[u].rec
            /\ rw'.p[u].call = "none" /\ rw'.p[u].idx = 1 /\ rw'.p[u].binds = <<>>
            /\ \/ c.at \notin DirCopying \cup {"matCopy"} /\ Store({"p", "handoffs", "faults"})
               \/ /\ c.at \in DirCopying \cup {"matCopy"}
                  /\ Store({"p", "handoffs", "faults", "files", "cut"})
                  /\ rw'.cut = rw.cut \cup {c.dst}
                  /\ \/ rw'.files = rw.files
                     \/ /\ c.at = "matCopy" \/ copyEntry(c.dst, "f")
                        /\ rw'.files = half
  <1> DEFINE c == rw.p[u]
             half == rwPut(rw.files, c.dst, "f", "part")
             q == [c EXCEPT !.at = "idle", !.rec = FALSE, !.call = "none",
                     !.tries = 0, !.pvc = <<>>, !.upper = <<>>, !.dst = <<>>,
                     !.todo = <<>>, !.idx = 1, !.binds = <<>>]
             hs == removeHandoff(rw.handoffs, <<u, c.start>>)
             z == [rw EXCEPT !.p[u] = q, !.handoffs = hs]
  <1>1. c.at \notin {"new", "rejected", "idle", "running"} BY DEF rwInterrupt
  <1>2. \/ /\ c.at \notin DirCopying \cup {"matCopy"}
           /\ rw' = [z EXCEPT !.faults = @ + 1]
        \/ /\ c.at \in DirCopying \cup {"matCopy"}
           /\ \E fs : /\ fs = rw.files \/ (fs = half /\ (c.at = "matCopy" \/ copyEntry(c.dst, "f")))
                      /\ rw' = [z EXCEPT !.files = fs, !.cut = @ \cup {c.dst}, !.faults = @ + 1]
    <2>1. rwFailed(u) = z BY DEF rwFailed
    <2>2. CASE c.at \notin {"matCopy", "volCopy", "specialCopy"}
      BY <2>1, <2>2, Zenon DEF rwInterrupt, DirCopying
    <2>3. CASE c.at \in {"matCopy", "volCopy", "specialCopy"}
      <3>1. PICK fs \in {rw.files} \cup {x \in {half} : /\ c.todo # <<>> /\ c.todo[1] = "f"
                            /\ \/ c.at = "matCopy" \/ copyEntry(c.dst, "f")} :
               rw' = [rwFailed(u) EXCEPT !.files = fs, !.cut = @ \cup {c.dst}, !.faults = @ + 1]
        BY <2>3, Zenon DEF rwInterrupt
      <3> QED BY <2>1, <2>3, <3>1, Zenon DEF DirCopying
    <2> QED BY <2>2, <2>3
  <1>3. /\ DOMAIN q = podFields /\ q.at = "idle" /\ q.rec = FALSE /\ q.call = "none"
        /\ q.idx = 1 /\ q.binds = <<>> /\ \A f \in podFields \ Start : q[f] = rw.p[u][f]
    BY DEF Fields, Start, podFields
  <1> HIDE DEF q, hs
  <1>4. /\ DOMAIN z = rwFields /\ \A f \in rwFields \ {"p", "handoffs"} : z[f] = rw[f]
        /\ z.p = [rw.p EXCEPT ![u] = q]
    BY DEF Fields, rwFields
  <1> HIDE DEF z, half
  <1>5. ASSUME rw'.p = z.p
        PROVE  /\ PodOnly(u, Start) /\ rw'.p[u].at = "idle" /\ ~rw'.p[u].rec
               /\ rw'.p[u].call = "none" /\ rw'.p[u].idx = 1 /\ rw'.p[u].binds = <<>>
    BY <1>3, <1>4, <1>5 DEF Fields, PodOnly
  <1>6. ASSUME rw' = [z EXCEPT !.faults = @ + 1]
        PROVE  Store({"p", "handoffs", "faults"}) /\ rw'.p = z.p
    BY <1>4, <1>6 DEF Store, rwFields
  <1>7. ASSUME NEW fs, rw' = [z EXCEPT !.files = fs, !.cut = @ \cup {c.dst}, !.faults = @ + 1]
        PROVE  /\ Store({"p", "handoffs", "faults", "files", "cut"}) /\ rw'.p = z.p
               /\ rw'.files = fs /\ rw'.cut = rw.cut \cup {c.dst}
    BY <1>4, <1>7 DEF Store, rwFields
  <1> QED BY <1>1, <1>2, <1>5, <1>6, <1>7, ZenonT(40) DEF half

-----------------------------------------------------------------------------
(* What the steps leave alone.                                             *)

LEMMA BodyNone ==
  ASSUME NEW fs, Sound(fs), NEW l, NEW g
  PROVE  rwBody(fs, l, g) = "none" <=> ~Has(fs, l, g)
  <1> DEFINE x == {y \in fs : y.loc = l /\ y.f = g}
  <1>1. CASE x = {} BY <1>1, Zenon DEF rwBody, Has
  <1>2. CASE x # {}
    <2>1. (CHOOSE y \in x : TRUE) \in x BY <1>2, Zenon
    <2>2. (CHOOSE y \in x : TRUE).body \in Bodies BY <2>1, Zenon DEF Sound
    <2>3. rwBody(fs, l, g) = (CHOOSE y \in x : TRUE).body BY <1>2, Zenon DEF rwBody
    <2>4. rwBody(fs, l, g) # "none" BY <2>2, <2>3 DEF Bodies
    <2> QED BY <2>1, <2>4, Zenon DEF Has
  <1> QED BY <1>1, <1>2

LEMMA BodyIn ==
  ASSUME NEW fs, NEW l, NEW g, rwBody(fs, l, g) # "none"
  PROVE  \E y \in fs : y.loc = l /\ y.f = g /\ y.body = rwBody(fs, l, g)
  <1> DEFINE x == {y \in fs : y.loc = l /\ y.f = g}
  <1>1. x # {} BY Zenon DEF rwBody
  <1>2. (CHOOSE y \in x : TRUE) \in x BY <1>1, Zenon
  <1>3. rwBody(fs, l, g) = (CHOOSE y \in x : TRUE).body BY <1>1, Zenon DEF rwBody
  <1> QED BY <1>2, <1>3, Zenon

\* Only files at l differ.
Beyond(l, gs, fs) == \A y : y.loc # l => (y \in gs <=> y \in fs)

LEMMA PutDoes ==
  ASSUME NEW fs, NEW l, NEW g, NEW b
  PROVE  /\ Beyond(l, rwPut(fs, l, g, b), fs)
         /\ \A y \in rwPut(fs, l, g, b) :
              y \in fs \/ (y.loc = l /\ y.f = g /\ y.body = b)
         /\ \A y \in rwPut(fs, l, g, b) : y.loc = l /\ y.f = g => y.body = b
         /\ Has(rwPut(fs, l, g, b), l, g)
         /\ \A h : h # g => (Has(rwPut(fs, l, g, b), l, h) <=> Has(fs, l, h))
         /\ \A y \in fs : (y.loc = l /\ y.f = g) \/ y \in rwPut(fs, l, g, b)
  <1> DEFINE n == [loc |-> l, f |-> g, body |-> b]
  <1>1. n.loc = l /\ n.f = g /\ n.body = b BY Zenon
  <1>2. \A y : y \in rwPut(fs, l, g, b) <=> (y = n \/ (y \in fs /\ ~(y.loc = l /\ y.f = g)))
    BY Zenon DEF rwPut
  <1> HIDE DEF n
  <1>3. Beyond(l, rwPut(fs, l, g, b), fs) BY <1>1, <1>2, Zenon DEF Beyond
  <1>4. Has(rwPut(fs, l, g, b), l, g) BY <1>1, <1>2, Zenon DEF Has
  <1>5. \A h : h # g => (Has(rwPut(fs, l, g, b), l, h) <=> Has(fs, l, h))
    BY <1>1, <1>2, Zenon DEF Has
  <1>6. \A y \in rwPut(fs, l, g, b) : y \in fs \/ (y.loc = l /\ y.f = g /\ y.body = b)
    BY <1>1, <1>2, Zenon
  <1>7. \A y \in rwPut(fs, l, g, b) : y.loc = l /\ y.f = g => y.body = b
    BY <1>1, <1>2, Zenon
  <1>8. \A y \in fs : (y.loc = l /\ y.f = g) \/ y \in rwPut(fs, l, g, b)
    BY <1>2, Zenon
  <1> QED BY <1>3, <1>4, <1>5, <1>6, <1>7, <1>8, Zenon

LEMMA BeyondSame ==
  ASSUME NEW gs, NEW fs, NEW l, Beyond(l, gs, fs), NEW m, m # l
  PROVE  /\ \A g : Has(gs, m, g) <=> Has(fs, m, g)
         /\ Filled(gs, m) <=> Filled(fs, m)
  <1>1. \A g : Has(gs, m, g) <=> Has(fs, m, g) BY Zenon DEF Beyond, Has
  <1>2. (\A y \in gs : y.loc = m /\ y.f = "f" => y.body \in {"image", "app"})
        <=> (\A y \in fs : y.loc = m /\ y.f = "f" => y.body \in {"image", "app"})
    BY Zenon DEF Beyond
  <1> QED BY <1>1, <1>2, Zenon DEF Filled

\* One Pod moves, and where it is now is in order.
Ordered(u) ==
  /\ rw.p[u].side \in Nat /\ (rw.p[u].at \in Specials \/ rw.p[u].idx \in Nat \ {0})
  /\ \A i \in DOMAIN rw.p[u].binds : rw.p[u].binds[i].source[1] \notin Layers
CopiesOf(u) ==
  /\ rw.p[u].at \in {"handoff", "mounts", "matCopy"} \cup Late => OwnUpper(u)
  /\ rw.p[u].at = "matCopy" => rw.conf.nested /\ rw.p[u].dst = rw.p[u].upper
  /\ rw.p[u].at \in DirCopying => rw.p[u].dst[1] \notin Layers
  /\ rw.p[u].at \in DirCopying \cup {"matCopy"} => rw.p[u].todo \in Todos

LEMMA ShapeStep ==
  ASSUME Shape, Copies, NEW u \in rwPods, rw'.pc = rw.pc, rw'.conf = rw.conf,
         DOMAIN rw' = rwFields, PodOnly(u, podFields), Sound(rw'.files),
         Ordered(u)', CopiesOf(u)'
  PROVE  Shape' /\ Copies'
  <1>1. Fields' BY DEF Shape, Fields, PodOnly
  <1>2. Indexed' /\ Bound'
    <2> SUFFICES ASSUME NEW v \in rwPods PROVE Ordered(v)' BY Zenon DEF Indexed, Bound, Ordered
    <2>1. CASE v = u BY <2>1
    <2>2. CASE v # u
      <3>1. rw'.p[v] = rw.p[v] BY <2>2, Zenon DEF PodOnly
      <3> QED BY <3>1, Zenon DEF Shape, Indexed, Bound, Ordered
    <2> QED BY <2>1, <2>2
  <1>3. Copies'
    <2> SUFFICES ASSUME NEW v \in rwPods PROVE CopiesOf(v)' BY Zenon DEF Copies, CopiesOf
    <2>1. CASE v = u BY <2>1
    <2>2. CASE v # u
      <3>1. rw'.p[v] = rw.p[v] BY <2>2, Zenon DEF PodOnly
      <3> QED BY <3>1, Zenon DEF Copies, CopiesOf, OwnUpper
    <2> QED BY <2>1, <2>2
  <1> QED BY <1>1, <1>2, <1>3 DEF Shape

\* A step that changes no file and copies nothing.
Calm(u) ==
  /\ rw.p[u].at # "matCopy" /\ rw'.p[u].at # "matCopy"
  /\ \A l : Half(u, l) => ~Has(rw.files, l, "d") \/ Has(rw.files, l, "f")
  /\ rw.conf.nested /\ rw'.p[u].at \in Late => rw'.p[u].upper \in rw.markers

LEMMA CalmStep ==
  ASSUME rwInv, NEW u \in rwPods, Store({"p", "handoffs", "faults"}), PodOnly(u, podFields),
         Calm(u), Ordered(u)', CopiesOf(u)'
  PROVE  rwInv'
  <1>0. /\ rw'.pc = rw.pc /\ rw'.conf = rw.conf /\ rw'.files = rw.files /\ DOMAIN rw' = rwFields
        /\ rw'.markers = rw.markers /\ rw'.cut = rw.cut /\ rw'.raced = rw.raced
    BY DEF Store, rwFields
  <1>1. Shape' /\ Copies'
    BY <1>0, ShapeStep DEF rwInv, Shape
  <1>2. \A v \in rwPods : v # u => rw'.p[v] = rw.p[v] BY Zenon DEF PodOnly
  <1>3. \A v \in rwPods : \A l : Filling(v, l)' <=> Filling(v, l)
    <2> TAKE v \in rwPods
    <2> TAKE l
    <2>1. CASE v = u BY <2>1, Zenon DEF Calm, Filling
    <2>2. CASE v # u BY <1>2, <2>2, Zenon DEF Filling
    <2> QED BY <2>1, <2>2
  <1>4. \A v \in rwPods : \A l : Filling(v, l) =>
          v # u /\ rw'.p[v].dst = rw.p[v].dst /\ rw'.p[v].todo = rw.p[v].todo
    BY <1>2, Zenon DEF Calm, Filling
  <1>5. Marked'
    <2>1. \A v \in rwPods : rw'.conf.nested /\ rw'.p[v].at \in Late => rw'.p[v].upper \in rw'.markers
      <3> TAKE v \in rwPods
      <3>1. CASE v = u BY <1>0, <3>1, Zenon DEF Calm
      <3>2. CASE v # u BY <1>0, <1>2, <3>2, Zenon DEF rwInv, Marked
      <3> QED BY <3>1, <3>2
    <2>2. \A v \in rwPods : \A l :
            Filling(v, l)' /\ l \notin rw'.raced =>
              l \notin rw'.markers /\ \A w \in rwPods \ {v} : ~Filling(w, l)'
      BY <1>0, <1>3, <1>4, Zenon DEF rwInv, Marked
    <2> QED BY <1>0, <2>1, <2>2, Zenon DEF rwInv, Marked
  <1>6. LayersWhole'
    <2>1. MarkersWhole' BY <1>0, Zenon DEF rwInv, LayersWhole, MarkersWhole
    <2>2. \A v \in rwPods : \A l : Filling(v, l) => (Progress(v, l)' <=> Progress(v, l))
      BY <1>0, <1>4, Zenon DEF Progress
    <2>3. CopiesWhole' BY <1>0, <1>3, <2>2, Zenon DEF rwInv, LayersWhole, CopiesWhole
    <2>4. Begun' BY <1>0, <1>3, Zenon DEF rwInv, LayersWhole, Begun
    <2> QED BY <2>1, <2>3, <2>4 DEF LayersWhole
  <1>7. DirsWhole'
    <2> SUFFICES ASSUME NEW y \in rw.files,
                        y.loc[1] \notin Layers, y.loc \notin rw.cut, y.f # "lost+found"
                 PROVE  \/ Filled(rw.files, y.loc)
                        \/ /\ Has(rw.files, y.loc, "d") /\ ~Has(rw.files, y.loc, "f")
                           /\ \E v \in rwPods : Half(v, y.loc)'
      BY <1>0, Zenon DEF DirsWhole
    <2>1. CASE Filled(rw.files, y.loc) BY <2>1
    <2>2. CASE ~Filled(rw.files, y.loc)
      <3>1. /\ Has(rw.files, y.loc, "d") /\ ~Has(rw.files, y.loc, "f")
            /\ \E v \in rwPods : Half(v, y.loc)
        BY <2>2, Zenon DEF rwInv, DirsWhole
      <3>2. PICK v \in rwPods : Half(v, y.loc) BY <3>1
      <3>3. v # u BY <3>1, <3>2, Zenon DEF Calm
      <3>4. Half(v, y.loc)' BY <1>2, <3>2, <3>3, Zenon DEF Half
      <3> QED BY <3>1, <3>4
    <2> QED BY <2>1, <2>2
  <1> QED BY <1>1, <1>5, <1>6, <1>7 DEF rwInv

\* The sidecar is nobody's start.
LEMMA SideStep ==
  ASSUME rwInv, NEW u \in rwPods, StartSidecar(u)
  PROVE  rwInv'
  <1>1. Store({"p"}) /\ PodOnly(u, {"side"}) /\ rw'.p[u].side \in Nat
    BY SidecarDoes DEF rwInv, Shape
  <1>2. /\ rw'.pc = rw.pc /\ rw'.conf = rw.conf /\ rw'.files = rw.files /\ DOMAIN rw' = rwFields
        /\ rw'.markers = rw.markers /\ rw'.cut = rw.cut /\ rw'.raced = rw.raced
    BY <1>1 DEF Store, rwFields
  <1>3. \A v \in rwPods : /\ rw'.p[v].at = rw.p[v].at /\ rw'.p[v].dst = rw.p[v].dst
                          /\ rw'.p[v].todo = rw.p[v].todo /\ rw'.p[v].upper = rw.p[v].upper
                          /\ rw'.p[v].idx = rw.p[v].idx /\ rw'.p[v].binds = rw.p[v].binds
    <2> TAKE v \in rwPods
    <2>1. CASE v = u BY <1>1, <2>1 DEF PodOnly, podFields
    <2>2. CASE v # u BY <1>1, <2>2, Zenon DEF PodOnly
    <2> QED BY <2>1, <2>2
  <1>4. Ordered(u)' BY <1>1, <1>3, Zenon DEF Ordered, rwInv, Shape, Indexed, Bound
  <1>5. CopiesOf(u)' BY <1>2, <1>3, Zenon DEF CopiesOf, OwnUpper, rwInv, Copies
  <1>6. PodOnly(u, podFields) BY <1>1, Zenon DEF PodOnly
  <1>7. Shape' /\ Copies' BY <1>2, <1>4, <1>5, <1>6, ShapeStep DEF rwInv, Shape
  <1>8. \A v \in rwPods : \A l : (Filling(v, l)' <=> Filling(v, l)) /\ (Half(v, l)' <=> Half(v, l))
    BY <1>3, Zenon DEF Filling, Half
  <1>9. Marked' BY <1>2, <1>3, <1>8, Zenon DEF rwInv, Marked
  <1>10. LayersWhole'
    <2>1. MarkersWhole' BY <1>2, Zenon DEF rwInv, LayersWhole, MarkersWhole
    <2>2. \A v \in rwPods : \A l : Progress(v, l)' <=> Progress(v, l)
      BY <1>2, <1>3, Zenon DEF Progress
    <2>3. CopiesWhole' BY <1>2, <1>8, <2>2, Zenon DEF rwInv, LayersWhole, CopiesWhole
    <2>4. Begun' BY <1>2, <1>8, Zenon DEF rwInv, LayersWhole, Begun
    <2> QED BY <2>1, <2>3, <2>4 DEF LayersWhole
  <1>11. DirsWhole' BY <1>2, <1>8, Zenon DEF rwInv, DirsWhole
  <1> QED BY <1>7, <1>9, <1>10, <1>11 DEF rwInv

LEMMA Others ==
  ASSUME NEW u \in rwPods, PodOnly(u, podFields), NEW v \in rwPods, v # u
  PROVE  /\ rw'.p[v] = rw.p[v]
         /\ \A l : (Filling(v, l)' <=> Filling(v, l)) /\ (Half(v, l)' <=> Half(v, l))
  <1>1. rw'.p[v] = rw.p[v] BY Zenon DEF PodOnly
  <1> QED BY <1>1, Zenon DEF Filling, Half

\* Where files of layers are copied to.
LEMMA FillingLayer ==
  ASSUME Copies, NEW u \in rwPods, NEW l, Filling(u, l)
  PROVE  l = rw.p[u].upper /\ l[1] \in Layers /\ (l = Native(u) \/ l[1] = "upper")
  <1>1. l = rw.p[u].upper /\ OwnUpper(u) BY Zenon DEF Copies, Filling
  <1>2. Native(u)[1] = "native" BY DEF Native
  <1> QED BY <1>1, <1>2, Zenon DEF OwnUpper, Layers

\* A start begins to copy the image.
LEMMA FillStep ==
  ASSUME rwInv, NEW u \in rwPods, rw.p[u].at = "mounts", rw.conf.nested,
         rw.p[u].upper \notin rw.markers,
         Store({"p", "raced"}), PodOnly(u, {"at", "dst", "todo"}),
         rw'.p[u].at = "matCopy", rw'.p[u].dst = rw.p[u].upper, rw'.p[u].todo = <<"d", "f">>,
         rw'.raced = rw.raced \cup {l \in {rw.p[u].upper} : rwCopying(l) # {}}
  PROVE  rwInv'
  <1> DEFINE t == rw.p[u].upper
  <1>0. /\ rw'.pc = rw.pc /\ rw'.conf = rw.conf /\ rw'.files = rw.files /\ DOMAIN rw' = rwFields
        /\ rw'.markers = rw.markers /\ rw'.cut = rw.cut
    BY DEF Store, rwFields
  <1>1. PodOnly(u, podFields) BY Zenon DEF PodOnly
  <1>2. /\ rw'.p[u].side = rw.p[u].side /\ rw'.p[u].idx = rw.p[u].idx
        /\ rw'.p[u].binds = rw.p[u].binds /\ rw'.p[u].upper = t
    BY DEF PodOnly, podFields
  <1>3. Ordered(u)' BY <1>2 DEF Ordered, rwInv, Shape, Indexed, Bound, Specials
  <1>4. OwnUpper(u) BY DEF rwInv, Copies
  <1>5. t[1] \in Layers BY <1>4 DEF OwnUpper, Native, Layers
  <1>6. CopiesOf(u)' BY <1>0, <1>2, <1>4 DEF CopiesOf, OwnUpper, Todos, DirCopying, Late
  <1>7. Shape' /\ Copies' BY <1>0, <1>1, <1>3, <1>6, ShapeStep DEF rwInv, Shape
  <1>8. \A l : Filling(u, l)' <=> l = t BY Zenon DEF Filling
  <1>9. \A v \in rwPods \ {u} : \A l : Filling(v, l)' <=> Filling(v, l)
    BY <1>1, Others, Zenon
  <1>10. \A v \in rwPods \ {u} : Filling(v, t) => t \in rw'.raced
    BY Zenon DEF Filling, rwCopying
  <1>11. rw.raced \subseteq rw'.raced BY Zenon
  <1>12. \A l : ~Filling(u, l) /\ ~Half(u, l)
    BY DEF Filling, Half, DirCopying
  <1>13. Marked'
    <2>1. \A v \in rwPods : rw'.conf.nested /\ rw'.p[v].at \in Late => rw'.p[v].upper \in rw'.markers
      <3>1. rw'.p[u].at \notin Late BY DEF Late
      <3> QED BY <1>0, <1>1, <3>1, Others, Zenon DEF rwInv, Marked
    <2>2. \A v \in rwPods : \A l :
            Filling(v, l)' /\ l \notin rw'.raced =>
              l \notin rw'.markers /\ \A w \in rwPods \ {v} : ~Filling(w, l)'
      <3> TAKE v \in rwPods
      <3> TAKE l
      <3> HAVE Filling(v, l)' /\ l \notin rw'.raced
      <3>1. CASE v = u BY <1>0, <1>8, <1>9, <1>10, <3>1, Zenon
      <3>2. CASE v # u
        <4>4. Filling(v, l) BY <1>9, <3>2, Zenon
        <4>1. Filling(v, l) /\ l # t
          <5> HIDE DEF t
          <5> QED BY <1>10, <3>2, <4>4, Zenon
        <4>2. l \notin rw.raced BY <1>11, Zenon
        <4>3. l \notin rw.markers /\ \A w \in rwPods \ {v} : ~Filling(w, l)
          BY <4>1, <4>2, Zenon DEF rwInv, Marked
        <4> QED BY <1>0, <1>8, <1>9, <4>1, <4>3, Zenon
      <3> QED BY <3>1, <3>2
    <2> QED BY <1>0, <2>1, <2>2, Zenon DEF rwInv, Marked
  <1>14. LayersWhole'
    <2>1. MarkersWhole' BY <1>0, <1>11, Zenon DEF rwInv, LayersWhole, MarkersWhole
    <2>2. ASSUME NEW v \in rwPods, NEW l, Filling(v, l)', l \notin rw'.cut \cup rw'.raced
          PROVE  Progress(v, l)'
      <3>1. CASE v = u
        <4>1. l = t BY <1>8, <2>2, <3>1
        <4>2. \A w \in rwPods : ~Filling(w, t)
          <5> HIDE DEF t
          <5>1. t \notin rw'.raced BY <2>2, <4>1, Zenon
          <5> QED BY <1>10, <1>12, <5>1, Zenon
        <4>3. \A y \in rw.files : y.loc # t
          BY <1>0, <1>5, <1>11, <2>2, <4>1, <4>2, Zenon DEF rwInv, LayersWhole, Begun
        <4>4. ~Has(rw.files, t, "d") /\ ~Has(rw.files, t, "f") BY <4>3, Zenon DEF Has
        <4>5. <<"d", "f">> # <<"f">> /\ <<"d", "f">> # <<>> BY SMT
        <4> HIDE DEF t
        <4> QED BY <1>0, <3>1, <4>1, <4>4, <4>5, Zenon DEF Progress
      <3>2. CASE v # u
        <4>1. Filling(v, l) BY <1>9, <2>2, <3>2, Zenon
        <4>2. Progress(v, l) BY <1>0, <1>11, <2>2, <4>1, Zenon DEF rwInv, LayersWhole, CopiesWhole
        <4>3. rw'.p[v] = rw.p[v] BY <1>1, <3>2, Others
        <4> QED BY <1>0, <4>2, <4>3, Zenon DEF Progress
      <3> QED BY <3>1, <3>2
    <2>3. Begun'
      BY <1>0, <1>9, <1>11, <1>12, Zenon DEF rwInv, LayersWhole, Begun
    <2> QED BY <2>1, <2>2, <2>3, Zenon DEF LayersWhole, CopiesWhole
  <1>15. DirsWhole'
    <2>1. \A v \in rwPods : \A l : Half(v, l) => Half(v, l)' BY <1>1, <1>12, Others, Zenon
    <2> QED BY <1>0, <2>1, Zenon DEF rwInv, DirsWhole
  <1> QED BY <1>7, <1>13, <1>14, <1>15 DEF rwInv

\* What is left to copy.
LEMMA Tails ==
  /\ <<"d", "f">>[1] = "d" /\ Tail(<<"d", "f">>) = <<"f">>
  /\ <<"f">>[1] = "f" /\ Tail(<<"f">>) = <<>>
  BY SMT

\* An entry of the image is copied to a root file system.
LEMMA CopyStep ==
  ASSUME rwInv, NEW u \in rwPods, materializeCopy(u)
  PROVE  rwInv'
  <1> DEFINE t == rw.p[u].dst
             f == rw.p[u].todo[1]
             old == rwBody(rw.files, t, f)
  <1>1. /\ rw.p[u].at = "matCopy" /\ rw.p[u].todo # <<>>
        /\ Store({"p", "files"}) /\ PodOnly(u, {"todo"}) /\ rw'.p[u].todo = Tail(rw.p[u].todo)
        /\ \E body : /\ old = "none" => body = "image"
                     /\ old # "none" => body = old \/ (body = "void" /\ f = "f")
                     /\ rw'.files = rwPut(rw.files, t, f, body)
    BY CopyDoes DEF rwInv, Shape
  <1>2. PICK body : /\ old = "none" => body = "image"
                    /\ old # "none" => body = old \/ (body = "void" /\ f = "f")
                    /\ rw'.files = rwPut(rw.files, t, f, body)
    BY <1>1
  <1>3. /\ rw'.pc = rw.pc /\ rw'.conf = rw.conf /\ DOMAIN rw' = rwFields
        /\ rw'.markers = rw.markers /\ rw'.cut = rw.cut /\ rw'.raced = rw.raced
    BY <1>1 DEF Store, rwFields
  <1>4. /\ PodOnly(u, podFields)
        /\ rw'.p[u].at = "matCopy" /\ rw'.p[u].dst = t /\ rw'.p[u].upper = rw.p[u].upper
        /\ rw'.p[u].side = rw.p[u].side /\ rw'.p[u].idx = rw.p[u].idx
        /\ rw'.p[u].binds = rw.p[u].binds
    BY <1>1 DEF PodOnly, podFields
  <1>5. \/ rw.p[u].todo = <<"d", "f">> /\ rw'.p[u].todo = <<"f">> /\ f = "d"
        \/ rw.p[u].todo = <<"f">> /\ rw'.p[u].todo = <<>> /\ f = "f"
    <2>1. rw.p[u].todo \in Todos BY <1>1 DEF rwInv, Copies
    <2> QED BY <1>1, <2>1, Tails, Zenon DEF Todos
  <1>6. Filling(u, t) /\ Filling(u, t)' BY <1>1, <1>4 DEF Filling
  <1>7. t = rw.p[u].upper /\ t[1] \in Layers BY <1>6, FillingLayer DEF rwInv
  <1> HIDE DEF t, f, old
  <1>8. body \in Bodies /\ f \in {"d", "f"}
    <2>1. old = "none" \/ old \in Bodies
      <3> SUFFICES ASSUME old # "none" PROVE old \in Bodies BY Zenon
      <3>1. PICK y \in rw.files : y.body = old BY BodyIn DEF old
      <3> QED BY <3>1, Zenon DEF rwInv, Shape, Sound
    <2> QED BY <1>2, <1>5, <2>1, Zenon DEF Bodies
  <1>9. /\ Beyond(t, rw'.files, rw.files)
        /\ \A y \in rw'.files : y \in rw.files \/ (y.loc = t /\ y.f = f /\ y.body = body)
        /\ Has(rw'.files, t, f) /\ \A y \in rw'.files : y.loc = t /\ y.f = f => y.body = body
        /\ \A h : h # f => (Has(rw'.files, t, h) <=> Has(rw.files, t, h))
    BY <1>2, PutDoes
  <1>10. \A v \in rwPods : \A l : Filling(v, l)' <=> Filling(v, l)
    <2>1. \A l : Filling(u, l)' <=> Filling(u, l) BY <1>1, <1>4 DEF Filling, t
    <2> QED BY <1>4, <2>1, Others, Zenon
  <1>11. Shape' /\ Copies'
    <2>1. Sound(rw'.files) BY <1>8, <1>9, Zenon DEF rwInv, Shape, Sound
    <2>2. Ordered(u)' BY <1>1, <1>4 DEF Ordered, rwInv, Shape, Indexed, Bound, Specials
    <2>3. CopiesOf(u)'
      <3>1. OwnUpper(u)' BY <1>1, <1>4 DEF rwInv, Copies, OwnUpper
      <3>2. rw'.p[u].todo \in Todos BY <1>5 DEF Todos
      <3>3. rw.conf.nested BY <1>1 DEF rwInv, Copies
      <3> QED BY <1>3, <1>4, <1>7, <3>1, <3>2, <3>3 DEF CopiesOf, DirCopying
    <2> QED BY <1>3, <1>4, <2>1, <2>2, <2>3, ShapeStep DEF rwInv
  <1>12. t \notin rw.raced => t \notin rw.markers /\ \A w \in rwPods \ {u} : ~Filling(w, t)
    BY <1>6, Zenon DEF rwInv, Marked
  <1>13. Marked'
    <2>1. \A v \in rwPods : rw'.conf.nested /\ rw'.p[v].at \in Late => rw'.p[v].upper \in rw'.markers
      <3>1. rw'.p[u].at \notin Late BY <1>4 DEF Late
      <3> QED BY <1>3, <1>4, <3>1, Others, Zenon DEF rwInv, Marked
    <2>2. \A v \in rwPods : \A l :
            Filling(v, l)' /\ l \notin rw'.raced =>
              l \notin rw'.markers /\ \A w \in rwPods \ {v} : ~Filling(w, l)'
      BY <1>3, <1>10, Zenon DEF rwInv, Marked
    <2>3. ASSUME NEW y \in rw'.files, y.loc[1] = "upper", y.f = "f", y.body = "app"
          PROVE  y.loc \in rw'.markers
      <3>1. CASE y \in rw.files BY <1>3, <2>3, <3>1, Zenon DEF rwInv, Marked
      <3>2. CASE y \notin rw.files
        <4>1. y.loc = t /\ f = "f" /\ body = "app" BY <1>9, <2>3, <3>2, Zenon
        <4>2. old = "app" BY <1>2, <4>1
        <4>3. PICK z \in rw.files : z.loc = t /\ z.f = f /\ z.body = "app"
          BY <4>2, BodyIn DEF old
        <4> QED BY <1>3, <2>3, <4>1, <4>3, Zenon DEF rwInv, Marked
      <3> QED BY <3>1, <3>2
    <2> QED BY <1>3, <2>1, <2>2, <2>3, Zenon DEF rwInv, Marked
  <1>14. LayersWhole'
    <2>1. ASSUME NEW l \in rw'.markers \ (rw'.cut \cup rw'.raced) PROVE Filled(rw'.files, l)
      <3>1. l # t BY <1>3, <1>12, Zenon
      <3>2. Filled(rw.files, l) BY <1>3, Zenon DEF rwInv, LayersWhole, MarkersWhole
      <3> QED BY <1>9, <3>1, <3>2, BeyondSame
    <2>2. ASSUME NEW v \in rwPods, NEW l, Filling(v, l)', l \notin rw'.cut \cup rw'.raced
          PROVE  Progress(v, l)'
      <3>1. Filling(v, l) /\ Progress(v, l)
        BY <1>3, <1>10, <2>2, Zenon DEF rwInv, LayersWhole, CopiesWhole
      <3>2. CASE v = u
        <4>1. l = t /\ Progress(u, t) BY <3>1, <3>2, Zenon DEF Filling, t
        <4>2. ~Has(rw.files, t, f) /\ (f = "f" => Has(rw.files, t, "d"))
          BY <1>5, <4>1, Zenon DEF Progress
        <4>3. old = "none" BY <4>2, BodyNone DEF old, rwInv, Shape
        <4>4. body = "image" BY <1>2, <4>3
        <4>5. CASE f = "d"
          <5>1. Has(rw'.files, t, "d") /\ ~Has(rw'.files, t, "f")
            BY <1>5, <1>9, <4>1, <4>5, Zenon DEF Progress
          <5>2. rw'.p[u].todo = <<"f">> BY <1>5, <4>5
          <5>3. <<"f">> # <<"d", "f">> /\ <<"f">> # <<>> BY SMT
          <5> QED BY <3>2, <4>1, <5>1, <5>2, <5>3, Zenon DEF Progress
        <4>6. CASE f = "f"
          <5>1. Has(rw'.files, t, "f") /\ Has(rw'.files, t, "d") BY <1>9, <4>2, <4>6, Zenon
          <5>2. Filled(rw'.files, t) BY <1>9, <4>4, <4>6, <5>1, Zenon DEF Filled
          <5>3. rw'.p[u].todo = <<>> BY <1>5, <4>6
          <5>4. <<>> # <<"d", "f">> /\ <<>> # <<"f">> BY SMT
          <5> QED BY <3>2, <4>1, <5>2, <5>3, <5>4, Zenon DEF Progress
        <4> QED BY <1>5, <4>5, <4>6
      <3>3. CASE v # u
        <4>1. l # t BY <1>3, <1>12, <2>2, <3>1, <3>3, Zenon
        <4>2. rw'.p[v] = rw.p[v] BY <1>4, <3>3, Others
        <4>3. /\ \A g : Has(rw'.files, l, g) <=> Has(rw.files, l, g)
              /\ Filled(rw'.files, l) <=> Filled(rw.files, l)
          BY <1>9, <4>1, BeyondSame
        <4> QED BY <3>1, <4>2, <4>3, Zenon DEF Progress
      <3> QED BY <3>2, <3>3
    <2>3. Begun'
      BY <1>3, <1>6, <1>9, <1>10, Zenon DEF rwInv, LayersWhole, Begun
    <2> QED BY <2>1, <2>2, <2>3, Zenon DEF LayersWhole, MarkersWhole, CopiesWhole
  <1>15. DirsWhole'
    <2>1. \A v \in rwPods : \A l : Half(v, l) => Half(v, l)'
      <3>1. \A l : ~Half(u, l) BY <1>1 DEF Half, DirCopying
      <3> QED BY <1>4, <3>1, Others, Zenon
    <2> SUFFICES ASSUME NEW y \in rw'.files,
                        y.loc[1] \notin Layers, y.loc \notin rw'.cut, y.f # "lost+found"
                 PROVE  \/ Filled(rw'.files, y.loc)
                        \/ /\ Has(rw'.files, y.loc, "d") /\ ~Has(rw'.files, y.loc, "f")
                           /\ \E v \in rwPods : Half(v, y.loc)'
      BY Zenon DEF DirsWhole
    <2>2. y.loc # t BY <1>7, Zenon
    <2>3. y \in rw.files BY <1>9, <2>2, Zenon DEF Beyond
    <2>4. /\ \A g : Has(rw'.files, y.loc, g) <=> Has(rw.files, y.loc, g)
          /\ Filled(rw'.files, y.loc) <=> Filled(rw.files, y.loc)
      BY <1>9, <2>2, BeyondSame
    <2> QED BY <1>3, <2>1, <2>3, <2>4, Zenon DEF rwInv, DirsWhole
  <1> QED BY <1>11, <1>13, <1>14, <1>15 DEF rwInv

\* Only files at l change, and l is no root file system that is copied or whose
\* copy could still be relied upon.
FilesAt(u, l) ==
  /\ rw'.pc = rw.pc /\ rw'.conf = rw.conf /\ DOMAIN rw' = rwFields
  /\ rw'.markers = rw.markers /\ rw'.raced = rw.raced
  /\ \A m : m # l => (m \in rw'.cut <=> m \in rw.cut)
  /\ rw.cut \subseteq rw'.cut
  /\ Beyond(l, rw'.files, rw.files)
  /\ rw.conf.nested /\ rw'.p[u].at \in Late => rw'.p[u].upper \in rw.markers
  /\ \A m : m # l \/ l \notin rw'.cut =>
       /\ Filling(u, m)' <=> Filling(u, m)
       /\ Filling(u, m)' => rw'.p[u].todo = rw.p[u].todo
  /\ \A m : Filling(u, m)' => Filling(u, m)
  /\ \A m : m # l /\ Half(u, m) => Half(u, m)'
  /\ \A y \in rw'.files \ rw.files : y.f = "f" /\ y.body = "app" /\ l[1] = "upper" => l \in rw.markers
  /\ l[1] \notin Layers \/ l \in rw'.cut \/ (l \in rw.markers /\ Filled(rw'.files, l))
  /\ \/ l[1] \in Layers \/ l \in rw'.cut \/ Filled(rw'.files, l)
     \/ \A y \in rw'.files : y.loc = l => y.f = "lost+found"
     \/ /\ Has(rw'.files, l, "d") /\ ~Has(rw'.files, l, "f")
        /\ \E v \in rwPods : Half(v, l)'

LEMMA FilesStep ==
  ASSUME rwInv, NEW u \in rwPods, NEW l, PodOnly(u, podFields), FilesAt(u, l),
         Sound(rw'.files), Ordered(u)', CopiesOf(u)'
  PROVE  rwInv'
  <1>1. Shape' /\ Copies' BY ShapeStep DEF rwInv, FilesAt
  <1>2. /\ rw'.conf = rw.conf /\ rw'.markers = rw.markers /\ rw'.raced = rw.raced
        /\ \A m : m \notin rw'.cut => m \notin rw.cut
        /\ Beyond(l, rw'.files, rw.files)
    BY Zenon DEF FilesAt
  <1>3. \A v \in rwPods : \A m : Filling(v, m)' => Filling(v, m)
    BY Others, Zenon DEF FilesAt
  <1>4. \A v \in rwPods : \A m : m \notin rw'.cut =>
          /\ Filling(v, m)' <=> Filling(v, m)
          /\ Filling(v, m)' => rw'.p[v].todo = rw.p[v].todo
    <2> TAKE v \in rwPods
    <2> TAKE m
    <2> HAVE m \notin rw'.cut
    <2>1. CASE v = u BY <2>1, Zenon DEF FilesAt
    <2>2. CASE v # u BY <2>2, Others
    <2> QED BY <2>1, <2>2
  <1>5. Marked'
    <2>1. \A v \in rwPods : rw'.conf.nested /\ rw'.p[v].at \in Late => rw'.p[v].upper \in rw'.markers
      <3> TAKE v \in rwPods
      <3>1. CASE v = u BY <1>2, <3>1, Zenon DEF FilesAt
      <3>2. CASE v # u BY <1>2, <3>2, Others, Zenon DEF rwInv, Marked
      <3> QED BY <3>1, <3>2
    <2>2. \A v \in rwPods : \A m :
            Filling(v, m)' /\ m \notin rw'.raced =>
              m \notin rw'.markers /\ \A w \in rwPods \ {v} : ~Filling(w, m)'
      BY <1>2, <1>3, Zenon DEF rwInv, Marked
    <2>3. ASSUME NEW y \in rw'.files, y.loc[1] = "upper", y.f = "f", y.body = "app"
          PROVE  y.loc \in rw'.markers
      <3>1. CASE y \in rw.files BY <1>2, <2>3, <3>1, Zenon DEF rwInv, Marked
      <3>2. CASE y \notin rw.files
        <4>1. y.loc = l BY <1>2, <3>2, Zenon DEF Beyond
        <4> QED BY <1>2, <2>3, <3>2, <4>1, Zenon DEF FilesAt
      <3> QED BY <3>1, <3>2
    <2> QED BY <1>2, <2>1, <2>2, <2>3, Zenon DEF rwInv, Marked
  <1>6. \A v \in rwPods : \A m : Filling(v, m) => m[1] \in Layers
    BY FillingLayer DEF rwInv
  <1>7. MarkersWhole'
    <2> SUFFICES ASSUME NEW m \in rw'.markers \ (rw'.cut \cup rw'.raced) PROVE Filled(rw'.files, m)
      BY Zenon DEF MarkersWhole
    <2>1. Filled(rw.files, m) /\ m[1] \in Layers
      BY <1>2, Zenon DEF rwInv, Marked, LayersWhole, MarkersWhole
    <2>2. CASE m = l BY <2>1, <2>2, Zenon DEF FilesAt
    <2>3. CASE m # l BY <1>2, <2>1, <2>3, BeyondSame
    <2> QED BY <2>2, <2>3
  <1>8. CopiesWhole'
    <2> SUFFICES ASSUME NEW v \in rwPods, NEW m, Filling(v, m)', m \notin rw'.cut \cup rw'.raced
                 PROVE  Progress(v, m)'
      BY Zenon DEF CopiesWhole
    <2>1. /\ Filling(v, m) /\ Progress(v, m) /\ rw'.p[v].todo = rw.p[v].todo
          /\ m \notin rw.markers
      BY <1>2, <1>4, Zenon DEF rwInv, LayersWhole, CopiesWhole, Marked
    <2>2. m # l BY <1>6, <2>1, Zenon DEF FilesAt
    <2>3. /\ \A g : Has(rw'.files, m, g) <=> Has(rw.files, m, g)
          /\ Filled(rw'.files, m) <=> Filled(rw.files, m)
      BY <1>2, <2>2, BeyondSame
    <2> QED BY <2>1, <2>3, Zenon DEF Progress
  <1>9. Begun'
    <2> SUFFICES ASSUME NEW y \in rw'.files, y.loc[1] \in Layers,
                        y.loc \notin rw'.cut \cup rw'.raced \cup rw'.markers
                 PROVE  \E v \in rwPods : Filling(v, y.loc)'
      BY Zenon DEF Begun
    <2>1. y.loc # l BY <1>2, Zenon DEF FilesAt
    <2>2. y \in rw.files BY <1>2, <2>1, Zenon DEF Beyond
    <2>3. PICK v \in rwPods : Filling(v, y.loc) BY <1>2, <2>2, Zenon DEF rwInv, LayersWhole, Begun
    <2> QED BY <1>4, <2>3, Zenon
  <1>10. DirsWhole'
    <2> SUFFICES ASSUME NEW y \in rw'.files,
                        y.loc[1] \notin Layers, y.loc \notin rw'.cut, y.f # "lost+found"
                 PROVE  \/ Filled(rw'.files, y.loc)
                        \/ /\ Has(rw'.files, y.loc, "d") /\ ~Has(rw'.files, y.loc, "f")
                           /\ \E v \in rwPods : Half(v, y.loc)'
      BY Zenon DEF DirsWhole
    <2>1. CASE y.loc = l BY <2>1, Zenon DEF FilesAt
    <2>2. CASE y.loc # l
      <3>1. y \in rw.files /\ y.loc \notin rw.cut BY <1>2, <2>2, Zenon DEF Beyond
      <3>2. /\ \A g : Has(rw'.files, y.loc, g) <=> Has(rw.files, y.loc, g)
            /\ Filled(rw'.files, y.loc) <=> Filled(rw.files, y.loc)
        BY <1>2, <2>2, BeyondSame
      <3>3. \A v \in rwPods : Half(v, y.loc) => Half(v, y.loc)'
        BY <2>2, Others, Zenon DEF FilesAt
      <3> QED BY <3>1, <3>2, <3>3, Zenon DEF rwInv, DirsWhole
    <2> QED BY <2>1, <2>2
  <1> QED BY <1>1, <1>5, <1>7, <1>8, <1>9, <1>10 DEF rwInv, LayersWhole

\* An application only writes.
LEMMA AppStep ==
  ASSUME rwInv, NEW u \in rwPods, rw.p[u].at = "running", Store({"files"}),
         NEW l \in rwDirs(u), Beyond(l, rw'.files, rw.files), Sound(rw'.files),
         \/ Filled(rw'.files, l)
         \/ l # rw.p[u].upper /\ \A y \in rw'.files : y.loc = l => y.f = "lost+found"
  PROVE  rwInv'
  <1>1. /\ rw'.pc = rw.pc /\ rw'.conf = rw.conf /\ DOMAIN rw' = rwFields /\ rw'.p = rw.p
        /\ rw'.markers = rw.markers /\ rw'.raced = rw.raced /\ rw'.cut = rw.cut
    BY DEF Store, rwFields
  <1>2. (rw.conf.nested /\ l = rw.p[u].upper) \/ l[1] \notin Layers
    BY DirsOf DEF rwInv, Shape
  <1>3. rw.conf.nested => rw.p[u].upper \in rw.markers
    BY DEF rwInv, Marked, Late
  <1>4. PodOnly(u, podFields) BY <1>1, Zenon DEF PodOnly, rwInv, Shape, Fields
  <1>5. Ordered(u)' BY <1>1, Zenon DEF Ordered, rwInv, Shape, Indexed, Bound
  <1>6. CopiesOf(u)' BY <1>1, Zenon DEF CopiesOf, OwnUpper, rwInv, Copies
  <1>7. \A m : (Filling(u, m)' <=> Filling(u, m)) /\ (Half(u, m)' <=> Half(u, m))
    BY <1>1, Zenon DEF Filling, Half
  <1>8. l[1] \notin Layers \/ (l \in rw.markers /\ Filled(rw'.files, l))
    BY <1>2, <1>3, Zenon
  <1>9. l[1] = "upper" => l \in rw.markers BY <1>8 DEF Layers
  <1>10. FilesAt(u, l) BY <1>1, <1>3, <1>7, <1>8, <1>9, Zenon DEF FilesAt
  <1> QED BY <1>4, <1>5, <1>6, <1>10, FilesStep

LEMMA WriteStep ==
  ASSUME rwInv, NEW u \in rwPods, appWrite(u)
  PROVE  rwInv'
  <1>1. /\ rw.p[u].at = "running" /\ Store({"files"})
        /\ \E l \in rwDirs(u) : \E d :
             /\ d = rw.files \/ d = rwPut(rw.files, l, "d", "app")
             /\ rwBody(rw.files, l, "d") = "none" => d = rwPut(rw.files, l, "d", "app")
             /\ rw'.files = rwPut(d, l, "f", "app")
    BY WriteDoes DEF rwInv, Shape
  <1>2. PICK l \in rwDirs(u) : \E d :
          /\ d = rw.files \/ d = rwPut(rw.files, l, "d", "app")
          /\ rwBody(rw.files, l, "d") = "none" => d = rwPut(rw.files, l, "d", "app")
          /\ rw'.files = rwPut(d, l, "f", "app")
    BY <1>1
  <1>3. PICK d : /\ d = rw.files \/ d = rwPut(rw.files, l, "d", "app")
                 /\ rwBody(rw.files, l, "d") = "none" => d = rwPut(rw.files, l, "d", "app")
                 /\ rw'.files = rwPut(d, l, "f", "app")
    BY <1>2
  <1>4. Sound(rw.files) BY DEF rwInv, Shape
  <1>5. Beyond(l, d, rw.files) /\ Has(d, l, "d") /\ Sound(d)
    <2>1. CASE d = rw.files /\ rwBody(rw.files, l, "d") # "none"
      <3>1. Has(d, l, "d") BY <1>4, <2>1, BodyNone
      <3> QED BY <1>4, <2>1, <3>1, Zenon DEF Beyond
    <2>2. CASE d = rwPut(rw.files, l, "d", "app")
      <3>1. /\ Beyond(l, d, rw.files) /\ Has(d, l, "d")
            /\ \A y \in d : y \in rw.files \/ (y.loc = l /\ y.f = "d" /\ y.body = "app")
        BY <2>2, PutDoes
      <3>2. Sound(d) BY <1>4, <3>1, Zenon DEF Sound, Bodies
      <3> QED BY <3>1, <3>2
    <2> QED BY <1>3, <2>1, <2>2
  <1>6. /\ Beyond(l, rw'.files, d) /\ Has(rw'.files, l, "f")
        /\ \A y \in rw'.files : y \in d \/ (y.loc = l /\ y.f = "f" /\ y.body = "app")
        /\ \A y \in rw'.files : y.loc = l /\ y.f = "f" => y.body = "app"
        /\ \A h : h # "f" => (Has(rw'.files, l, h) <=> Has(d, l, h))
    BY <1>3, PutDoes
  <1>7. Beyond(l, rw'.files, rw.files) BY <1>5, <1>6, Zenon DEF Beyond
  <1>8. Sound(rw'.files) BY <1>5, <1>6, Zenon DEF Sound, Bodies
  <1>9. "d" # "f" BY SMT
  <1>10. Filled(rw'.files, l) BY <1>5, <1>6, <1>9, Zenon DEF Filled
  <1> QED BY <1>1, <1>7, <1>8, <1>10, AppStep

LEMMA EraseStep ==
  ASSUME rwInv, NEW u \in rwPods, appErase(u)
  PROVE  rwInv'
  <1>1. /\ rw.p[u].at = "running" /\ Store({"files"})
        /\ \E l \in rwDirs(u) \ {rw.p[u].upper} :
             rw'.files = {y \in rw.files : y.loc # l \/ y.f = "lost+found"}
    BY EraseDoes DEF rwInv, Shape
  <1>2. PICK l \in rwDirs(u) \ {rw.p[u].upper} :
          rw'.files = {y \in rw.files : y.loc # l \/ y.f = "lost+found"}
    BY <1>1
  <1>3. Sound(rw'.files) BY <1>2, Zenon DEF rwInv, Shape, Sound
  <1>4. Beyond(l, rw'.files, rw.files) BY <1>2, Zenon DEF Beyond
  <1>5. \A y \in rw'.files : y.loc = l => y.f = "lost+found" BY <1>2, Zenon
  <1>6. l # rw.p[u].upper /\ l \in rwDirs(u) BY <1>2
  <1> QED BY <1>1, <1>3, <1>4, <1>5, <1>6, AppStep

\* An entry of the image is copied to a volume or a special directory.
LEMMA DirStep ==
  ASSUME rwInv, NEW u \in rwPods, rw.p[u].at \in DirCopying, rw.p[u].todo # <<>>,
         copyEntry(rw.p[u].dst, rw.p[u].todo[1]),
         Store({"p", "files"}), PodOnly(u, {"todo"}), rw'.p[u].todo = Tail(rw.p[u].todo),
         rw'.files = IF rw.p[u].todo[1] = "d" /\ rwBody(rw.files, rw.p[u].dst, "d") # "none"
                     THEN rw.files ELSE rwPut(rw.files, rw.p[u].dst, rw.p[u].todo[1], "image")
  PROVE  rwInv'
  <1> DEFINE t == rw.p[u].dst
             f == rw.p[u].todo[1]
  <1>1. /\ rw'.pc = rw.pc /\ rw'.conf = rw.conf /\ DOMAIN rw' = rwFields
        /\ rw'.markers = rw.markers /\ rw'.cut = rw.cut /\ rw'.raced = rw.raced
    BY DEF Store, rwFields
  <1>2. /\ PodOnly(u, podFields)
        /\ rw'.p[u].at = rw.p[u].at /\ rw'.p[u].dst = t /\ rw'.p[u].upper = rw.p[u].upper
        /\ rw'.p[u].side = rw.p[u].side /\ rw'.p[u].idx = rw.p[u].idx
        /\ rw'.p[u].binds = rw.p[u].binds
    BY DEF PodOnly, podFields
  <1>3. \/ rw.p[u].todo = <<"d", "f">> /\ rw'.p[u].todo = <<"f">> /\ f = "d"
        \/ rw.p[u].todo = <<"f">> /\ rw'.p[u].todo = <<>> /\ f = "f"
    <2>1. rw.p[u].todo \in Todos BY Zenon DEF rwInv, Copies
    <2> QED BY <2>1, Tails, Zenon DEF Todos
  <1>4. t[1] \notin Layers BY Zenon DEF rwInv, Copies
  <1>5. Sound(rw.files) BY DEF rwInv, Shape
  <1>6. rw.p[u].at \notin {"matCopy"} /\ (rw.p[u].at \in Late) BY DEF DirCopying, Late
  <1>7. f = "f" => Has(rw.files, t, "d") /\ ~Has(rw.files, t, "f")
    <2> SUFFICES ASSUME f = "f" PROVE rwBody(rw.files, t, "d") # "none" /\ rwBody(rw.files, t, "f") = "none"
      BY <1>5, BodyNone, Zenon
    <2>1. copyEntry(t, "f") BY Zenon
    <2> QED BY <2>1 DEF copyEntry
  <1>8. Half(u, t)' <=> rw'.p[u].todo = <<"f">> BY <1>2, Zenon DEF Half
  <1> HIDE DEF t, f
  <1>9. \/ rw'.files = rw.files /\ f = "d" /\ Has(rw.files, t, "d")
        \/ rw'.files = rwPut(rw.files, t, f, "image")
    <2>1. CASE f = "d" /\ rwBody(rw.files, t, "d") # "none"
      BY <1>5, <2>1, BodyNone, Zenon DEF t, f
    <2>2. CASE ~(f = "d" /\ rwBody(rw.files, t, "d") # "none")
      BY <2>2, Zenon DEF t, f
    <2> QED BY <2>1, <2>2
  <1>10. /\ Beyond(t, rw'.files, rw.files) /\ Sound(rw'.files)
         /\ \A y \in rw'.files \ rw.files : y.body = "image"
         /\ \/ Filled(rw'.files, t)
            \/ t \in rw.cut
            \/ Has(rw'.files, t, "d") /\ ~Has(rw'.files, t, "f") /\ Half(u, t)'
    <2>1. CASE rw'.files = rw.files /\ f = "d" /\ Has(rw.files, t, "d")
      <3>1. rw'.p[u].todo = <<"f">> BY <1>3, <2>1
      <3>2. CASE Has(rw.files, t, "f")
        <4>1. PICK y \in rw.files : y.loc = t /\ y.f = "f" BY <3>2, Zenon DEF Has
        <4>2. y.f # "lost+found" BY <4>1
        <4>3. t \in rw.cut \/ Filled(rw.files, t)
          BY <1>4, <3>2, <4>1, <4>2, Zenon DEF rwInv, DirsWhole
        <4> QED BY <1>5, <2>1, <4>3, Zenon DEF Beyond
      <3>3. CASE ~Has(rw.files, t, "f")
        BY <1>5, <1>8, <2>1, <3>1, <3>3, Zenon DEF Beyond
      <3> QED BY <3>2, <3>3
    <2>2. CASE rw'.files = rwPut(rw.files, t, f, "image")
      <3>1. /\ Beyond(t, rw'.files, rw.files) /\ Has(rw'.files, t, f)
            /\ \A y \in rw'.files : y \in rw.files \/ (y.loc = t /\ y.f = f /\ y.body = "image")
            /\ \A y \in rw'.files : y.loc = t /\ y.f = f => y.body = "image"
            /\ \A h : h # f => (Has(rw'.files, t, h) <=> Has(rw.files, t, h))
        BY <2>2, PutDoes
      <3>2. f \in {"d", "f"} /\ "d" # "f" BY <1>3
      <3>3. Sound(rw'.files) BY <1>5, <3>1, <3>2, Zenon DEF Sound, Bodies
      <3>4. CASE f = "f"
        <4>1. Filled(rw'.files, t) BY <1>7, <3>1, <3>2, <3>4, Zenon DEF Filled
        <4> QED BY <3>1, <3>3, <4>1, Zenon
      <3>5. CASE f = "d"
        <4>1. Half(u, t)' BY <1>3, <1>8, <3>2, <3>5
        <4>2. CASE Has(rw.files, t, "f")
          <5>1. PICK y \in rw.files : y.loc = t /\ y.f = "f" BY <4>2, Zenon DEF Has
          <5>2. y.f # "lost+found" BY <5>1
          <5>3. t \in rw.cut \/ Filled(rw.files, t)
            BY <1>4, <4>2, <5>1, <5>2, Zenon DEF rwInv, DirsWhole
          <5>4. \A z \in rw'.files : z.f = "f" => z \in rw.files BY <3>1, <3>2, <3>5, Zenon
          <5>5. Filled(rw.files, t) => Filled(rw'.files, t)
            BY <3>1, <3>2, <3>5, <5>4, Zenon DEF Filled
          <5> QED BY <3>1, <3>3, <5>3, <5>5, Zenon
        <4>3. CASE ~Has(rw.files, t, "f") BY <3>1, <3>2, <3>3, <3>5, <4>1, <4>3, Zenon
        <4> QED BY <4>2, <4>3
      <3> QED BY <3>2, <3>4, <3>5
    <2> QED BY <1>9, <2>1, <2>2
  <1>11. Ordered(u)' BY <1>2 DEF Ordered, rwInv, Shape, Indexed, Bound
  <1>12. CopiesOf(u)'
    <2>1. OwnUpper(u)' BY <1>2, <1>6 DEF rwInv, Copies, OwnUpper
    <2>2. rw'.p[u].todo \in Todos BY <1>3 DEF Todos
    <2> QED BY <1>1, <1>2, <1>4, <1>6, <2>1, <2>2 DEF CopiesOf
  <1>13. \A m : ~Filling(u, m) /\ ~Filling(u, m)' BY <1>2, <1>6, Zenon DEF Filling
  <1>14. \A m : m # t => ~Half(u, m) BY Zenon DEF Half, t
  <1>15. rw.conf.nested => rw'.p[u].upper \in rw.markers
    BY <1>2, <1>6 DEF rwInv, Marked
  <1>16. "image" # "app" BY SMT
  <1>17. FilesAt(u, t)
    BY <1>1, <1>4, <1>10, <1>13, <1>14, <1>15, <1>16, Zenon DEF FilesAt
  <1> QED BY <1>2, <1>10, <1>11, <1>12, <1>17, FilesStep

\* A copy is cut short.
LEMMA CutStep ==
  ASSUME rwInv, NEW u \in rwPods, rwInterrupt(u), rw.p[u].at \in DirCopying \cup {"matCopy"}
  PROVE  rwInv'
  <1> DEFINE t == rw.p[u].dst
             half == rwPut(rw.files, t, "f", "part")
  <1>1. /\ PodOnly(u, Start) /\ rw'.p[u].at = "idle" /\ rw'.p[u].idx = 1 /\ rw'.p[u].binds = <<>>
        /\ Store({"p", "handoffs", "faults", "files", "cut"}) /\ rw'.cut = rw.cut \cup {t}
        /\ rw'.files = rw.files \/ rw'.files = half
    BY InterruptDoes, Zenon DEF rwInv, Shape
  <1>2. /\ rw'.pc = rw.pc /\ rw'.conf = rw.conf /\ DOMAIN rw' = rwFields
        /\ rw'.markers = rw.markers /\ rw'.raced = rw.raced
    BY <1>1 DEF Store, rwFields
  <1>3. PodOnly(u, podFields) /\ rw'.p[u].side = rw.p[u].side
    BY <1>1 DEF PodOnly, podFields, Start
  <1>4. Beyond(t, rw'.files, rw.files) /\ Sound(rw'.files)
        /\ \A y \in rw'.files \ rw.files : y.body = "part"
    <2>1. Sound(rw.files) BY DEF rwInv, Shape
    <2>2. CASE rw'.files = rw.files BY <2>1, <2>2, Zenon DEF Beyond
    <2>3. CASE rw'.files = half
      <3>1. /\ Beyond(t, rw'.files, rw.files)
            /\ \A y \in rw'.files : y \in rw.files \/ (y.loc = t /\ y.f = "f" /\ y.body = "part")
        BY <2>3, PutDoes
      <3>2. Sound(rw'.files) BY <2>1, <3>1, Zenon DEF Sound, Bodies
      <3> QED BY <3>1, <3>2, Zenon
    <2> QED BY <1>1, <2>2, <2>3
  <1>5. Ordered(u)' BY <1>1, <1>3 DEF Ordered, rwInv, Shape, Indexed
  <1>6. CopiesOf(u)' BY <1>1 DEF CopiesOf, Late, DirCopying
  <1>7. rw'.p[u].at \notin Late /\ rw'.p[u].at # "matCopy" /\ "part" # "app" BY <1>1 DEF Late
  <1>8. \A m : m # t => ~Filling(u, m) /\ ~Half(u, m) BY Zenon DEF Filling, Half
  <1>9. \A m : ~Filling(u, m)' BY <1>7, Zenon DEF Filling
  <1> HIDE DEF t
  <1>10. t \in rw'.cut /\ rw.cut \subseteq rw'.cut /\ \A m : m # t => (m \in rw'.cut <=> m \in rw.cut)
    BY <1>1, Zenon
  <1>11. FilesAt(u, t)
    BY <1>2, <1>4, <1>7, <1>8, <1>9, <1>10, Zenon DEF FilesAt
  <1> QED BY <1>3, <1>4, <1>5, <1>6, <1>11, FilesStep

\* The copy is complete: the marker is written.
LEMMA MarkStep ==
  ASSUME rwInv, NEW u \in rwPods, materializeMark(u)
  PROVE  rwInv'
  <1> DEFINE t == rw.p[u].upper
  <1>1. /\ rw.p[u].at = "matCopy" /\ rw.p[u].todo = <<>>
        /\ Store({"p", "markers"}) /\ PodOnly(u, {"at", "dst"}) /\ Returns(u)
        /\ rw'.markers = rw.markers \cup {t}
    BY MarkDoes DEF rwInv, Shape
  <1>2. /\ rw'.pc = rw.pc /\ rw'.conf = rw.conf /\ DOMAIN rw' = rwFields /\ rw'.files = rw.files
        /\ rw'.cut = rw.cut /\ rw'.raced = rw.raced
    BY <1>1 DEF Store, rwFields
  <1>3. /\ PodOnly(u, podFields) /\ rw'.p[u].upper = t
        /\ rw'.p[u].side = rw.p[u].side /\ rw'.p[u].idx = rw.p[u].idx
        /\ rw'.p[u].binds = rw.p[u].binds
    BY <1>1 DEF PodOnly, podFields
  <1>4. rw'.p[u].at \in {"prepared", "vols"} BY <1>1 DEF Returns
  <1>5. Filling(u, t) /\ t[1] \in Layers
    <2>1. Filling(u, rw.p[u].dst) BY <1>1 DEF Filling
    <2> QED BY <2>1, FillingLayer DEF rwInv
  <1>6. Ordered(u)' BY <1>1, <1>3 DEF Ordered, rwInv, Shape, Indexed, Bound, Specials
  <1>7. CopiesOf(u)'
    <2>1. OwnUpper(u)' BY <1>1, <1>3 DEF rwInv, Copies, OwnUpper
    <2> QED BY <1>4, <2>1 DEF CopiesOf, DirCopying
  <1>8. Shape' /\ Copies' BY <1>2, <1>3, <1>6, <1>7, ShapeStep DEF rwInv, Shape
  <1>9. \A m : ~Filling(u, m)' BY <1>4 DEF Filling
  <1>10. \A m : Filling(u, m) => m = t BY FillingLayer DEF rwInv
  <1>11. \A m : ~Half(u, m) BY <1>1 DEF Half, DirCopying
  <1>12. \A v \in rwPods : \A m : /\ Filling(v, m)' => v # u /\ Filling(v, m)
                                  /\ Filling(v, m) => Filling(v, m)' \/ m = t
                                  /\ Half(v, m) => Half(v, m)'
    BY <1>3, <1>9, <1>10, <1>11, Others, Zenon
  <1> HIDE DEF t
  <1>13. \A v \in rwPods : \A m : Filling(v, m)' /\ m \notin rw.raced => m # t
    BY <1>5, <1>12, ZenonT(40) DEF rwInv, Marked
  <1>14. Marked'
    <2>1. \A v \in rwPods : rw'.conf.nested /\ rw'.p[v].at \in Late => rw'.p[v].upper \in rw'.markers
      BY <1>1, <1>2, <1>3, Others, Zenon DEF rwInv, Marked
    <2>2. \A v \in rwPods : \A m :
            Filling(v, m)' /\ m \notin rw'.raced =>
              m \notin rw'.markers /\ \A w \in rwPods \ {v} : ~Filling(w, m)'
      BY <1>1, <1>2, <1>12, <1>13, Zenon DEF rwInv, Marked
    <2> QED BY <1>1, <1>2, <1>5, <2>1, <2>2, Zenon DEF rwInv, Marked
  <1>15. LayersWhole'
    <2>1. t \notin rw.cut \cup rw.raced => Filled(rw.files, t)
      <3> SUFFICES ASSUME t \notin rw.cut \cup rw.raced PROVE Filled(rw.files, t) BY Zenon
      <3>1. Progress(u, t) BY <1>5, Zenon DEF rwInv, LayersWhole, CopiesWhole
      <3> QED BY <1>1, <3>1, Zenon DEF Progress
    <2>2. MarkersWhole' BY <1>1, <1>2, <2>1, Zenon DEF rwInv, LayersWhole, MarkersWhole
    <2>3. CopiesWhole'
      <3> SUFFICES ASSUME NEW v \in rwPods, NEW m, Filling(v, m)', m \notin rw'.cut \cup rw'.raced
                   PROVE  Progress(v, m)'
        BY Zenon DEF CopiesWhole
      <3>1. v # u /\ Filling(v, m) BY <1>12, Zenon
      <3>2. Progress(v, m) BY <1>2, <3>1, Zenon DEF rwInv, LayersWhole, CopiesWhole
      <3>3. rw'.p[v] = rw.p[v] BY <1>3, <3>1, Others
      <3> QED BY <1>2, <3>2, <3>3, Zenon DEF Progress
    <2>4. Begun' BY <1>1, <1>2, <1>12, Zenon DEF rwInv, LayersWhole, Begun
    <2> QED BY <2>2, <2>3, <2>4 DEF LayersWhole
  <1>16. DirsWhole' BY <1>2, <1>12, Zenon DEF rwInv, DirsWhole
  <1> QED BY <1>8, <1>14, <1>15, <1>16 DEF rwInv

\* A new container has an empty snapshot of its own.
LEMMA CreateStep ==
  ASSUME rwInv, NEW u \in rwPods, CreateContainer(u)
  PROVE  rwInv'
  <1> DEFINE t == Native(u)
  <1>1. /\ Store({"p", "files", "markers", "cut"}) /\ PodOnly(u, {"at", "call", "start"})
        /\ rw.p[u].at = "idle" /\ rw'.p[u].at = "hook"
        /\ rw'.files = {y \in rw.files : y.loc # t}
        /\ rw'.markers = rw.markers \ {t} /\ rw'.cut = rw.cut \ {t}
    BY CreateDoes DEF rwInv, Shape
  <1>2. /\ rw'.pc = rw.pc /\ rw'.conf = rw.conf /\ DOMAIN rw' = rwFields /\ rw'.raced = rw.raced
    BY <1>1 DEF Store, rwFields
  <1>3. /\ PodOnly(u, podFields)
        /\ rw'.p[u].side = rw.p[u].side /\ rw'.p[u].idx = rw.p[u].idx
        /\ rw'.p[u].binds = rw.p[u].binds
    BY <1>1 DEF PodOnly, podFields
  <1>4. Ordered(u)' BY <1>1, <1>3 DEF Ordered, rwInv, Shape, Indexed, Bound, Specials
  <1>5. CopiesOf(u)' BY <1>1 DEF CopiesOf, DirCopying, Late
  <1>6. Sound(rw'.files) BY <1>1, Zenon DEF rwInv, Shape, Sound
  <1>7. Shape' /\ Copies' BY <1>2, <1>3, <1>4, <1>5, <1>6, ShapeStep DEF rwInv
  <1>8. t[1] = "native" /\ t[1] \in Layers /\ \A v \in rwPods : v # u => Native(v) # t
    BY DEF Native, Layers
  <1> HIDE DEF t
  <1>9. Beyond(t, rw'.files, rw.files) BY <1>1, Zenon DEF Beyond
  <1>10. \A m : ~Filling(u, m) /\ ~Filling(u, m)' /\ ~Half(u, m)
    BY <1>1 DEF Filling, Half, DirCopying
  <1>11. \A v \in rwPods : \A m : /\ Filling(v, m)' <=> Filling(v, m)
                                  /\ Half(v, m) => Half(v, m)'
                                  /\ Filling(v, m) => v # u
    BY <1>3, <1>10, Others, Zenon
  <1>12. \A v \in rwPods : \A m : Filling(v, m) => m # t
    <2> TAKE v \in rwPods
    <2> TAKE m
    <2> HAVE Filling(v, m)
    <2>1. m = Native(v) \/ m[1] = "upper" BY FillingLayer DEF rwInv
    <2>2. "upper" # "native" BY SMT
    <2> QED BY <1>8, <1>11, <2>1, <2>2, Zenon
  <1>13. Marked'
    <2>1. ASSUME NEW v \in rwPods, rw'.conf.nested, rw'.p[v].at \in Late
          PROVE  rw'.p[v].upper \in rw'.markers
      <3>1. v # u BY <1>1, <2>1 DEF Late
      <3>2. rw'.p[v] = rw.p[v] BY <1>3, <3>1, Others
      <3>3. rw.p[v].upper \in rw.markers /\ OwnUpper(v)
        BY <1>2, <2>1, <3>2, Zenon DEF rwInv, Marked, Copies
      <3>4. "upper" # "native" BY SMT
      <3>5. rw.p[v].upper # t BY <1>8, <3>1, <3>3, <3>4, Zenon DEF OwnUpper
      <3> QED BY <1>1, <3>2, <3>3, <3>5, Zenon
    <2>2. \A v \in rwPods : \A m :
            Filling(v, m)' /\ m \notin rw'.raced =>
              m \notin rw'.markers /\ \A w \in rwPods \ {v} : ~Filling(w, m)'
      BY <1>1, <1>2, <1>11, Zenon DEF rwInv, Marked
    <2>3. \A y \in rw'.files : y.loc[1] = "upper" /\ y.f = "f" /\ y.body = "app" => y.loc \in rw'.markers
      BY <1>1, Zenon DEF rwInv, Marked
    <2> QED BY <1>1, <2>1, <2>2, <2>3, Zenon DEF rwInv, Marked
  <1>14. \A m : m # t => /\ \A g : Has(rw'.files, m, g) <=> Has(rw.files, m, g)
                         /\ Filled(rw'.files, m) <=> Filled(rw.files, m)
    BY <1>9, BeyondSame
  <1>15. LayersWhole'
    <2>1. MarkersWhole' BY <1>1, <1>2, <1>14, Zenon DEF rwInv, LayersWhole, MarkersWhole
    <2>2. CopiesWhole'
      <3> SUFFICES ASSUME NEW v \in rwPods, NEW m, Filling(v, m)', m \notin rw'.cut \cup rw'.raced
                   PROVE  Progress(v, m)'
        BY Zenon DEF CopiesWhole
      <3>1. v # u /\ Filling(v, m) /\ m # t BY <1>11, <1>12, Zenon
      <3>2. Progress(v, m) BY <1>1, <1>2, <3>1, Zenon DEF rwInv, LayersWhole, CopiesWhole
      <3>3. rw'.p[v] = rw.p[v] BY <1>3, <3>1, Others
      <3> QED BY <1>14, <3>1, <3>2, <3>3, Zenon DEF Progress
    <2>3. Begun' BY <1>1, <1>2, <1>11, Zenon DEF rwInv, LayersWhole, Begun
    <2> QED BY <2>1, <2>2, <2>3 DEF LayersWhole
  <1>16. DirsWhole' BY <1>1, <1>8, <1>11, <1>14, Zenon DEF rwInv, DirsWhole
  <1> QED BY <1>7, <1>13, <1>15, <1>16 DEF rwInv

\* Before the container is made.
LEMMA EarlyStep ==
  ASSUME rwInv, NEW u \in rwPods, Store({"p", "handoffs", "faults"}),
         PodOnly(u, podFields \ {"side", "idx", "binds"}),
         rw.p[u].at \notin Late \cup {"matCopy"}, rw'.p[u].at \notin Late \cup {"matCopy"},
         rw'.p[u].at \in {"handoff", "mounts"} => OwnUpper(u)'
  PROVE  rwInv'
  <1>1. PodOnly(u, podFields) BY Zenon DEF PodOnly
  <1>2. /\ rw'.p[u].side = rw.p[u].side /\ rw'.p[u].idx = rw.p[u].idx
        /\ rw'.p[u].binds = rw.p[u].binds
    BY DEF PodOnly, podFields
  <1>3. rw.p[u].at \notin Specials \cup DirCopying /\ rw'.p[u].at \notin DirCopying
    BY DEF Late, Specials, DirCopying
  <1>4. Ordered(u)' BY <1>2, <1>3, Zenon DEF Ordered, rwInv, Shape, Indexed, Bound
  <1>5. CopiesOf(u)' BY <1>3, Zenon DEF CopiesOf
  <1>6. Calm(u) BY <1>3, Zenon DEF Calm, Half
  <1> QED BY <1>1, <1>4, <1>5, <1>6, CalmStep

\* A start ends, and no copy is cut short.
LEMMA EndStep ==
  ASSUME rwInv, NEW u \in rwPods, Store({"p", "handoffs", "faults"}), PodOnly(u, Start),
         rw'.p[u].at = "idle", rw'.p[u].idx = 1, rw'.p[u].binds = <<>>, rw.p[u].at # "matCopy",
         \A l : Half(u, l) => ~Has(rw.files, l, "d") \/ Has(rw.files, l, "f")
  PROVE  rwInv'
  <1>1. PodOnly(u, podFields) /\ rw'.p[u].side = rw.p[u].side
    BY DEF PodOnly, Start, podFields
  <1>2. Ordered(u)' BY <1>1 DEF Ordered, rwInv, Shape, Indexed
  <1>3. CopiesOf(u)' BY DEF CopiesOf, DirCopying, Late
  <1>4. Calm(u) BY DEF Calm, Late
  <1> QED BY <1>1, <1>2, <1>3, <1>4, CalmStep

\* Runc-lite prepares the bundle.
LEMMA BundleStep ==
  ASSUME rwInv, NEW u \in rwPods, Store({"p"}), PodOnly(u, {"at", "dst", "todo", "idx", "binds"}),
         rw.p[u].at \in Late, rw'.p[u].at \in Late,
         rw'.p[u].at \in Specials \/ rw'.p[u].idx \in Nat \ {0},
         \A i \in DOMAIN rw'.p[u].binds : rw'.p[u].binds[i].source[1] \notin Layers,
         rw'.p[u].at \in DirCopying => rw'.p[u].dst[1] \notin Layers /\ rw'.p[u].todo \in Todos,
         \A l : ~Half(u, l)
  PROVE  rwInv'
  <1>1. /\ PodOnly(u, podFields) /\ rw'.p[u].side = rw.p[u].side /\ rw'.p[u].upper = rw.p[u].upper
    BY DEF PodOnly, podFields
  <1>2. rw.p[u].at # "matCopy" /\ rw'.p[u].at # "matCopy" BY DEF Late
  <1>3. rw'.conf = rw.conf /\ Store({"p", "handoffs", "faults"}) BY DEF Store, rwFields
  <1>4. Ordered(u)' BY <1>1, Zenon DEF Ordered, rwInv, Shape, Indexed
  <1>5. OwnUpper(u)' BY <1>1, Zenon DEF rwInv, Copies, OwnUpper
  <1>6. CopiesOf(u)' BY <1>2, <1>5, Zenon DEF CopiesOf
  <1>7. Calm(u) BY <1>1, <1>2, Zenon DEF Calm, rwInv, Marked
  <1> QED BY <1>1, <1>3, <1>4, <1>6, <1>7, CalmStep

-----------------------------------------------------------------------------
(* The invariant is inductive.                                             *)

LEMMA rwInvInit == ASSUME rwInit PROVE rwInv
  <1>1. PICK c \in rwConfs :
          rw = [pc |-> "on", conf |-> c, files |-> c.files, markers |-> {}, handoffs |-> {},
                cut |-> {}, raced |-> {}, faults |-> 0,
                p |-> [u \in rwPods |->
                        [at |-> IF c.static \/ c.starts[u] = 0 THEN "idle" ELSE "new",
                         pod |-> c.pod, reviews |-> 0,
                         side |-> 0, rec |-> FALSE, start |-> 0, call |-> "none", tries |-> 0,
                         pvc |-> <<>>, upper |-> <<>>, dst |-> <<>>, todo |-> <<>>, idx |-> 1,
                         binds |-> <<>>]]]
    BY DEF rwInit
  <1>2. /\ DOMAIN rw = rwFields /\ rw.pc = "on" /\ rw.conf = c /\ rw.files = c.files
        /\ rw.markers = {} /\ rw.cut = {} /\ rw.raced = {} /\ DOMAIN rw.p = rwPods
    BY <1>1 DEF rwFields
  <1>3. \A u \in rwPods : /\ DOMAIN rw.p[u] = podFields /\ rw.p[u].at \in {"idle", "new"}
                          /\ rw.p[u].side = 0 /\ rw.p[u].idx = 1 /\ rw.p[u].binds = <<>>
    BY <1>1 DEF podFields
  <1>4. \A y \in rw.files :
          /\ y.loc[1] \notin Layers /\ y.body = "app"
          /\ \/ y.f = "lost+found"
             \/ /\ y.f \in {"d", "f"}
                /\ \A f \in {"d", "f"} : [loc |-> y.loc, f |-> f, body |-> "app"] \in rw.files
    BY <1>2, rwAssumption, Zenon DEF Layers
  <1>5. Shape
    <2>1. Sound(rw.files) BY <1>4 DEF Sound, Bodies
    <2>2. Indexed /\ Bound BY <1>3 DEF Indexed, Bound
    <2> QED BY <1>2, <1>3, <2>1, <2>2, Zenon DEF Shape, Fields
  <1>6. \A u \in rwPods : rw.p[u].at \notin {"handoff", "mounts", "matCopy"} \cup Late \cup DirCopying
    BY <1>3 DEF Late, DirCopying
  <1>7. Copies BY <1>6, Zenon DEF Copies
  <1>8. \A u \in rwPods : \A l : ~Filling(u, l) BY <1>6, Zenon DEF Filling
  <1>9. Marked
    <2>1. "upper" \in Layers BY DEF Layers
    <2> QED BY <1>2, <1>4, <1>6, <1>8, <2>1, Zenon DEF Marked
  <1>10. LayersWhole
    BY <1>2, <1>4, <1>8, Zenon DEF LayersWhole, MarkersWhole, CopiesWhole, Begun
  <1>11. DirsWhole
    <2> SUFFICES ASSUME NEW y \in rw.files, y.f # "lost+found" PROVE Filled(rw.files, y.loc)
      BY Zenon DEF DirsWhole
    <2>1. \A f \in {"d", "f"} : Has(rw.files, y.loc, f)
      <3> TAKE f \in {"d", "f"}
      <3> DEFINE z == [loc |-> y.loc, f |-> f, body |-> "app"]
      <3>1. z \in rw.files BY <1>4, Zenon
      <3>2. z.loc = y.loc /\ z.f = f BY Zenon
      <3> QED BY <3>1, <3>2, Zenon DEF Has
    <2>2. Has(rw.files, y.loc, "d") /\ Has(rw.files, y.loc, "f") BY <2>1
    <2> QED BY <1>4, <2>2, Zenon DEF Filled
  <1> QED BY <1>5, <1>7, <1>9, <1>10, <1>11 DEF rwInv

LEMMA FailsStep ==
  ASSUME rwInv, NEW u \in rwPods, Fails(u), rw.p[u].at # "matCopy",
         \A l : Half(u, l) => ~Has(rw.files, l, "d") \/ Has(rw.files, l, "f")
  PROVE  rwInv'
  <1>1. Store({"p", "handoffs", "faults"}) BY DEF Fails, Store
  <1> QED BY <1>1, EndStep DEF Fails

LEMMA EarlyFails ==
  ASSUME rwInv, NEW u \in rwPods, Fails(u), rw.p[u].at \notin DirCopying \cup {"matCopy"}
  PROVE  rwInv'
  <1>1. \A l : ~Half(u, l) BY Zenon DEF Half
  <1> QED BY <1>1, FailsStep

LEMMA GoesStep ==
  ASSUME rwInv, NEW u \in rwPods, NEW l, Goes(u, l), rw.p[u].at \notin Late \cup {"matCopy"},
         l \notin Late \cup {"matCopy", "handoff", "mounts"}
  PROVE  rwInv'
  <1>1. Store({"p", "handoffs", "faults"}) BY DEF Goes, Store
  <1>2. PodOnly(u, podFields \ {"side", "idx", "binds"}) BY DEF Goes, PodOnly, podFields
  <1> QED BY <1>1, <1>2, EarlyStep DEF Goes

LEMMA NativeStep ==
  ASSUME rwInv, NEW u \in rwPods, Mounts(u, Native(u)), rw.p[u].at \notin Late \cup {"matCopy"}
  PROVE  rwInv'
  <1>1. Store({"p", "handoffs", "faults"}) BY DEF Mounts, Store
  <1>2. PodOnly(u, podFields \ {"side", "idx", "binds"}) BY DEF Mounts, PodOnly, podFields
  <1>3. OwnUpper(u)' BY Zenon DEF Mounts, OwnUpper
  <1>4. rw'.p[u].at \notin Late \cup {"matCopy"} BY DEF Mounts, Late
  <1> QED BY <1>1, <1>2, <1>3, <1>4, EarlyStep

\* The API server, kubelet and the hook of the snapshotter.
LEMMA HookStep ==
  ASSUME rwInv, NEW u \in rwPods,
         \/ Admit(u) \/ StartContainer(u) \/ ResolveIdentity(u) \/ ResolveRootfsRwLayer(u)
         \/ LoadSidecarSpec(u) \/ PrepareRootfsRwLayer(u) \/ WriteHandoff(u)
  PROVE  rwInv'
  <1>0. Fields /\ Indexed BY DEF rwInv, Shape
  <1>1. CASE Admit(u)
    <2>1. /\ Store({"p", "faults"}) /\ PodOnly(u, {"at", "pod", "reviews"})
          /\ rw.p[u].at = "new" /\ rw'.p[u].at \in {"rejected", "idle", "new"}
      BY <1>0, <1>1, AdmitDoes
    <2>2. Store({"p", "handoffs", "faults"}) BY <2>1 DEF Store
    <2>3. PodOnly(u, podFields \ {"side", "idx", "binds"}) BY <2>1 DEF PodOnly, podFields
    <2>4. /\ rw.p[u].at \notin Late \cup {"matCopy"}
          /\ rw'.p[u].at \notin Late \cup {"matCopy", "handoff", "mounts"}
      BY <2>1 DEF Late
    <2> QED BY <2>2, <2>3, <2>4, EarlyStep
  <1>2. CASE StartContainer(u)
    <2>1. /\ Store({"p"}) /\ PodOnly(u, {"at", "call", "rec"})
          /\ rw.p[u].at = "prepared" /\ rw'.p[u].at = "hook"
      BY <1>0, <1>2, StartDoes
    <2>2. Store({"p", "handoffs", "faults"}) BY <2>1 DEF Store
    <2>3. PodOnly(u, podFields \ {"side", "idx", "binds"}) BY <2>1 DEF PodOnly, podFields
    <2>4. /\ rw.p[u].at \notin Late \cup {"matCopy"}
          /\ rw'.p[u].at \notin Late \cup {"matCopy", "handoff", "mounts"}
      BY <2>1 DEF Late
    <2> QED BY <2>2, <2>3, <2>4, EarlyStep
  <1>3. CASE ResolveIdentity(u)
    <2>1. /\ rw.p[u].at = "hook"
          /\ Fails(u) \/ Mounts(u, Native(u)) \/ Goes(u, "resolve")
      BY <1>0, <1>3, IdentityDoes, Zenon
    <2>2. /\ rw.p[u].at \notin Late \cup {"matCopy"} /\ rw.p[u].at \notin DirCopying \cup {"matCopy"}
          /\ "resolve" \notin Late \cup {"matCopy", "handoff", "mounts"}
      BY <2>1 DEF Late, DirCopying
    <2> QED BY <2>1, <2>2, EarlyFails, NativeStep, GoesStep
  <1>4. CASE ResolveRootfsRwLayer(u)
    <2>1. /\ rw.p[u].at = "resolve"
          /\ Fails(u) \/ Mounts(u, Native(u)) \/ Goes(u, "sidecar")
      BY <1>0, <1>4, ResolveDoes, Zenon
    <2>2. /\ rw.p[u].at \notin Late \cup {"matCopy"} /\ rw.p[u].at \notin DirCopying \cup {"matCopy"}
          /\ "sidecar" \notin Late \cup {"matCopy", "handoff", "mounts"}
      BY <2>1 DEF Late, DirCopying
    <2> QED BY <2>1, <2>2, EarlyFails, NativeStep, GoesStep
  <1>5. CASE LoadSidecarSpec(u)
    <2>1. /\ rw.p[u].at = "sidecar"
          /\ Fails(u) \/ Goes(u, "pvc") \/ Goes(u, "sidecar")
      BY <1>0, <1>5, SpecDoes
    <2>2. /\ rw.p[u].at \notin Late \cup {"matCopy"} /\ rw.p[u].at \notin DirCopying \cup {"matCopy"}
          /\ "sidecar" \notin Late \cup {"matCopy", "handoff", "mounts"}
          /\ "pvc" \notin Late \cup {"matCopy", "handoff", "mounts"}
      BY <2>1 DEF Late, DirCopying
    <2> QED BY <2>1, <2>2, EarlyFails, GoesStep
  <1>6. CASE PrepareRootfsRwLayer(u)
    <2> DEFINE e == EntriesFor(rw.p[u].pod, rw.conf.name)[1]
               path == ResolvePVCMountPath(u, e)
               dir == LayerDir(u, e, path, "upper")
    <2>1. /\ rw.p[u].at = "pvc"
          /\ \/ Fails(u)
             \/ /\ Store({"p"}) /\ PodOnly(u, {"at", "pvc", "upper"})
                /\ rw'.p[u].at \in {"handoff", "mounts"} /\ rw'.p[u].upper = dir
      BY <1>0, <1>6, PrepareDoes, Zenon
    <2>2. /\ rw.p[u].at \notin Late \cup {"matCopy"} /\ rw.p[u].at \notin DirCopying \cup {"matCopy"}
      BY <2>1 DEF Late, DirCopying
    <2>3. CASE Fails(u) BY <2>2, <2>3, EarlyFails
    <2>4. dir[1] = "upper" BY DEF LayerDir
    <2> HIDE DEF dir
    <2>5. CASE /\ Store({"p"}) /\ PodOnly(u, {"at", "pvc", "upper"})
               /\ rw'.p[u].at \in {"handoff", "mounts"} /\ rw'.p[u].upper = dir
      <3>1. Store({"p", "handoffs", "faults"}) BY <2>5 DEF Store
      <3>2. PodOnly(u, podFields \ {"side", "idx", "binds"}) BY <2>5 DEF PodOnly, podFields
      <3>3. OwnUpper(u)' BY <2>4, <2>5, Zenon DEF OwnUpper
      <3>4. rw'.p[u].at \notin Late \cup {"matCopy"} BY <2>5 DEF Late
      <3> QED BY <2>2, <3>1, <3>2, <3>3, <3>4, EarlyStep
    <2> QED BY <2>1, <2>3, <2>5
  <1>7. CASE WriteHandoff(u)
    <2>1. /\ rw.p[u].at = "handoff" /\ rw'.p[u].at = "mounts"
          /\ Store({"p", "handoffs"}) /\ PodOnly(u, {"at"})
      BY <1>0, <1>7, HandoffDoes
    <2>2. Store({"p", "handoffs", "faults"}) BY <2>1 DEF Store
    <2>3. PodOnly(u, podFields \ {"side", "idx", "binds"}) /\ rw'.p[u].upper = rw.p[u].upper
      BY <2>1 DEF PodOnly, podFields
    <2>4. OwnUpper(u)' BY <2>1, <2>3 DEF rwInv, Copies, OwnUpper
    <2>5. rw.p[u].at \notin Late \cup {"matCopy"} /\ rw'.p[u].at \notin Late \cup {"matCopy"}
      BY <2>1 DEF Late
    <2> QED BY <2>2, <2>3, <2>4, <2>5, EarlyStep
  <1> QED BY <1>1, <1>2, <1>3, <1>4, <1>5, <1>6, <1>7

\* Runc-lite: the volumes of the image and the special directories.
LEMMA LiteStep ==
  ASSUME rwInv, NEW u \in rwPods,
         initLiteVolumes(u) \/ copyVolume(u) \/ addLiteSpecialMounts(u) \/ copySpecial(u)
  PROVE  rwInv'
  <1>0. Fields /\ Indexed /\ Bound /\ rw.conf \in rwConfs /\ Sound(rw.files) BY DEF rwInv, Shape
  <1>1. ASSUME NEW l, l[1] \notin Layers, Begins(u, l), rw.p[u].at \in {"vols", "special"}
        PROVE  rwInv'
    <2>1. /\ Store({"p"}) /\ PodOnly(u, {"at", "dst", "todo", "idx", "binds"})
          /\ rw'.p[u].binds = rw.p[u].binds
      BY <1>1 DEF Begins, PodOnly, podFields
    <2>2. rw.p[u].at \in Late /\ rw.p[u].at \notin DirCopying /\ rw'.p[u].at \in Late
      BY <1>1 DEF Begins, Late, DirCopying
    <2>3. \A m : ~Half(u, m) BY <2>2, Zenon DEF Half
    <2>4. rw'.p[u].dst[1] \notin Layers BY <1>1, Zenon DEF Begins
    <2>5. rw'.p[u].todo \in Todos BY <1>1, Zenon DEF Begins, Todos
    <2>6. rw'.p[u].at \in Specials \/ rw'.p[u].idx \in Nat \ {0} BY <1>1 DEF Begins
    <2>7. \A i \in DOMAIN rw'.p[u].binds : rw'.p[u].binds[i].source[1] \notin Layers
      BY <1>0, <2>1, Zenon DEF Bound
    <2> QED BY <2>1, <2>2, <2>3, <2>4, <2>5, <2>6, <2>7, BundleStep
  <1>2. CASE initLiteVolumes(u)
    <2>1. /\ rw.p[u].at = "vols"
          /\ \/ /\ Store({"p"}) /\ PodOnly(u, {"at", "idx"})
                /\ rw'.p[u].at \in {"vols", "special"} /\ rw'.p[u].idx \in Nat \ {0}
             \/ \E l : l[1] \notin Layers /\ Begins(u, l)
      BY <1>0, <1>2, VolumesDoes
    <2>2. CASE \E l : l[1] \notin Layers /\ Begins(u, l) BY <1>1, <2>1, <2>2
    <2>3. CASE /\ Store({"p"}) /\ PodOnly(u, {"at", "idx"})
               /\ rw'.p[u].at \in {"vols", "special"} /\ rw'.p[u].idx \in Nat \ {0}
      <3>1. PodOnly(u, {"at", "dst", "todo", "idx", "binds"}) /\ rw'.p[u].binds = rw.p[u].binds
        BY <2>3 DEF PodOnly, podFields
      <3>2. /\ rw.p[u].at \in Late /\ rw.p[u].at \notin DirCopying
            /\ rw'.p[u].at \in Late /\ rw'.p[u].at \notin DirCopying
        BY <2>1, <2>3 DEF Late, DirCopying
      <3>3. \A m : ~Half(u, m) BY <3>2, Zenon DEF Half
      <3>4. \A i \in DOMAIN rw'.p[u].binds : rw'.p[u].binds[i].source[1] \notin Layers
        BY <1>0, <3>1, Zenon DEF Bound
      <3> QED BY <2>3, <3>1, <3>2, <3>3, <3>4, BundleStep
    <2> QED BY <2>1, <2>2, <2>3
  <1>3. ASSUME NEW at \in DirCopying, NEW back \in {"vols", "special"}, rw.p[u].at = at,
               at = "volCopy" <=> back = "vols", copyDir(u, back)
        PROVE  rwInv'
    <2> DEFINE c == rw.p[u]
               f == c.todo[1]
    <2>1. \/ /\ c.todo = <<>> /\ Store({"p"}) /\ PodOnly(u, {"at", "idx", "dst"})
             /\ rw'.p[u].at = back /\ rw'.p[u].idx = c.idx + 1
          \/ c.todo # <<>> /\ ~copyEntry(c.dst, f) /\ Fails(u)
          \/ /\ c.todo # <<>> /\ copyEntry(c.dst, f)
             /\ Store({"p", "files"}) /\ PodOnly(u, {"todo"}) /\ rw'.p[u].todo = Tail(c.todo)
             /\ rw'.files = IF f = "d" /\ rwBody(rw.files, c.dst, "d") # "none" THEN rw.files
                            ELSE rwPut(rw.files, c.dst, f, "image")
      BY <1>0, <1>3, DirDoes
    <2>2. CASE /\ c.todo = <<>> /\ Store({"p"}) /\ PodOnly(u, {"at", "idx", "dst"})
               /\ rw'.p[u].at = back /\ rw'.p[u].idx = c.idx + 1
      <3>1. PodOnly(u, {"at", "dst", "todo", "idx", "binds"}) /\ rw'.p[u].binds = rw.p[u].binds
        BY <2>2 DEF PodOnly, podFields
      <3>2. /\ rw.p[u].at \in Late
            /\ rw'.p[u].at \in Late /\ rw'.p[u].at \notin DirCopying
        BY <1>3, <2>2 DEF Late, DirCopying
      <3>3. \A m : ~Half(u, m)
        <4>1. <<>> # <<"f">> BY SMT
        <4> QED BY <2>2, <4>1, Zenon DEF Half
      <3>4. \A i \in DOMAIN rw'.p[u].binds : rw'.p[u].binds[i].source[1] \notin Layers
        BY <1>0, <3>1, Zenon DEF Bound
      <3>5. rw'.p[u].at \in Specials \/ rw'.p[u].idx \in Nat \ {0}
        <4>1. CASE back = "special" BY <2>2, <4>1 DEF Specials
        <4>2. CASE back = "vols"
          <5>1. c.at = "volCopy" BY <1>3, <4>2
          <5>2. c.idx \in Nat \ {0} BY <1>0, <5>1 DEF Indexed, Specials
          <5> QED BY <2>2, <5>2
        <4> QED BY <1>3, <4>1, <4>2
      <3> QED BY <2>2, <3>1, <3>2, <3>3, <3>4, <3>5, BundleStep
    <2>3. CASE c.todo # <<>> /\ ~copyEntry(c.dst, f) /\ Fails(u)
      <3>1. \A l : Half(u, l) => ~Has(rw.files, l, "d") \/ Has(rw.files, l, "f")
        <4> SUFFICES ASSUME NEW l, Half(u, l)
                     PROVE  ~Has(rw.files, l, "d") \/ Has(rw.files, l, "f")
          BY Zenon
        <4>1. c.dst = l /\ f = "f" BY Tails DEF Half
        <4>2. ~copyEntry(l, "f") BY <2>3, <4>1
        <4>3. rwBody(rw.files, l, "d") = "none" \/ rwBody(rw.files, l, "f") # "none"
          BY <4>2 DEF copyEntry
        <4> QED BY <1>0, <4>3, BodyNone
      <3>2. rw.p[u].at # "matCopy" BY <1>3 DEF DirCopying
      <3> QED BY <2>3, <3>1, <3>2, FailsStep
    <2>4. CASE /\ c.todo # <<>> /\ copyEntry(c.dst, f)
               /\ Store({"p", "files"}) /\ PodOnly(u, {"todo"}) /\ rw'.p[u].todo = Tail(c.todo)
               /\ rw'.files = IF f = "d" /\ rwBody(rw.files, c.dst, "d") # "none" THEN rw.files
                              ELSE rwPut(rw.files, c.dst, f, "image")
      BY <1>3, <2>4, DirStep
    <2> QED BY <2>1, <2>2, <2>3, <2>4
  <1>4. CASE copyVolume(u)
    <2>1. rw.p[u].at = "volCopy" /\ copyDir(u, "vols") BY <1>4 DEF copyVolume, rwAt
    <2>2. "volCopy" \in DirCopying BY DEF DirCopying
    <2> QED BY <1>3, <2>1, <2>2
  <1>5. CASE copySpecial(u)
    <2>1. rw.p[u].at = "specialCopy" /\ copyDir(u, "special") BY <1>5 DEF copySpecial, rwAt
    <2>2. "specialCopy" \in DirCopying BY DEF DirCopying
    <2> QED BY <1>3, <2>1, <2>2
  <1>6. CASE addLiteSpecialMounts(u)
    <2>1. /\ rw.p[u].at = "special"
          /\ \/ Fails(u)
             \/ /\ Store({"p"}) /\ PodOnly(u, {"at", "binds"}) /\ rw'.p[u].at = "running"
                /\ \/ rw'.p[u].binds = rw.p[u].binds
                   \/ \A i \in DOMAIN rw'.p[u].binds : rw'.p[u].binds[i].source[1] = "special"
             \/ \E l : l[1] = "special" /\ Begins(u, l)
      BY <1>0, <1>6, SpecialsDoes
    <2>2. /\ rw.p[u].at \in Late /\ rw.p[u].at \notin DirCopying \cup {"matCopy"}
          /\ "special" \notin Layers
      BY <2>1 DEF Late, DirCopying, Layers
    <2>3. CASE Fails(u) BY <2>2, <2>3, EarlyFails
    <2>4. CASE \E l : l[1] = "special" /\ Begins(u, l)
      <3>1. PICK l : l[1] = "special" /\ Begins(u, l) BY <2>4
      <3>2. l[1] \notin Layers BY <2>2, <3>1
      <3> QED BY <1>1, <2>1, <3>1, <3>2
    <2>5. CASE /\ Store({"p"}) /\ PodOnly(u, {"at", "binds"}) /\ rw'.p[u].at = "running"
               /\ \/ rw'.p[u].binds = rw.p[u].binds
                  \/ \A i \in DOMAIN rw'.p[u].binds : rw'.p[u].binds[i].source[1] = "special"
      <3>1. PodOnly(u, {"at", "dst", "todo", "idx", "binds"}) BY <2>5, Zenon DEF PodOnly
      <3>2. rw'.p[u].at \in Late /\ rw'.p[u].at \notin DirCopying /\ rw'.p[u].at \in Specials
        BY <2>5 DEF Late, DirCopying, Specials
      <3>3. \A m : ~Half(u, m) BY <2>2, Zenon DEF Half
      <3>4. \A i \in DOMAIN rw'.p[u].binds : rw'.p[u].binds[i].source[1] \notin Layers
        BY <1>0, <2>2, <2>5, Zenon DEF Bound
      <3> QED BY <2>2, <2>5, <3>1, <3>2, <3>3, <3>4, BundleStep
    <2> QED BY <2>1, <2>3, <2>4, <2>5
  <1> QED BY <1>2, <1>4, <1>5, <1>6

LEMMA MaterializeStep ==
  ASSUME rwInv, NEW u \in rwPods, materializeActiveSnapshot(u)
  PROVE  rwInv'
  <1>1. /\ rw.p[u].at = "mounts"
        /\ \/ /\ ~rw.conf.nested \/ rw.p[u].upper \in rw.markers
              /\ Store({"p"}) /\ PodOnly(u, {"at"}) /\ Returns(u)
           \/ /\ rw.conf.nested /\ rw.p[u].upper \notin rw.markers
              /\ Store({"p", "raced"}) /\ PodOnly(u, {"at", "dst", "todo"})
              /\ rw'.p[u].at = "matCopy" /\ rw'.p[u].dst = rw.p[u].upper
              /\ rw'.p[u].todo = <<"d", "f">>
              /\ rw'.raced = rw.raced \cup {l \in {rw.p[u].upper} : rwCopying(l) # {}}
    BY MaterializeDoes DEF rwInv, Shape
  <1>2. CASE /\ rw.conf.nested /\ rw.p[u].upper \notin rw.markers
             /\ Store({"p", "raced"}) /\ PodOnly(u, {"at", "dst", "todo"})
             /\ rw'.p[u].at = "matCopy" /\ rw'.p[u].dst = rw.p[u].upper
             /\ rw'.p[u].todo = <<"d", "f">>
             /\ rw'.raced = rw.raced \cup {l \in {rw.p[u].upper} : rwCopying(l) # {}}
    BY <1>1, <1>2, FillStep
  <1>3. CASE /\ ~rw.conf.nested \/ rw.p[u].upper \in rw.markers
             /\ Store({"p"}) /\ PodOnly(u, {"at"}) /\ Returns(u)
    <2>1. /\ PodOnly(u, podFields) /\ rw'.p[u].side = rw.p[u].side
          /\ rw'.p[u].idx = rw.p[u].idx /\ rw'.p[u].binds = rw.p[u].binds
          /\ rw'.p[u].upper = rw.p[u].upper
      BY <1>3 DEF PodOnly, podFields
    <2>2. Store({"p", "handoffs", "faults"}) BY <1>3 DEF Store
    <2>3. rw'.p[u].at \in {"prepared", "vols"} BY <1>3 DEF Returns
    <2>4. Ordered(u)' BY <1>1, <2>1 DEF Ordered, rwInv, Shape, Indexed, Bound, Specials
    <2>5. OwnUpper(u)' BY <1>1, <2>1 DEF rwInv, Copies, OwnUpper
    <2>6. CopiesOf(u)' BY <2>3, <2>5 DEF CopiesOf, DirCopying
    <2>7. \A m : ~Half(u, m) BY <1>1 DEF Half, DirCopying
    <2>8. rw.p[u].at # "matCopy" /\ rw'.p[u].at # "matCopy" BY <1>1, <2>3
    <2>9. Calm(u) BY <1>3, <2>1, <2>7, <2>8, Zenon DEF Calm
    <2> QED BY <2>1, <2>2, <2>4, <2>6, <2>9, CalmStep
  <1> QED BY <1>1, <1>2, <1>3

LEMMA InterruptStep ==
  ASSUME rwInv, NEW u \in rwPods, rwInterrupt(u)
  PROVE  rwInv'
  <1>1. CASE rw.p[u].at \in DirCopying \cup {"matCopy"} BY <1>1, CutStep
  <1>2. CASE rw.p[u].at \notin DirCopying \cup {"matCopy"}
    <2>1. /\ PodOnly(u, Start) /\ rw'.p[u].at = "idle" /\ rw'.p[u].idx = 1 /\ rw'.p[u].binds = <<>>
          /\ Store({"p", "handoffs", "faults"})
      BY <1>2, InterruptDoes, Zenon DEF rwInv, Shape
    <2>2. \A m : ~Half(u, m) BY <1>2, Zenon DEF Half
    <2>3. rw.p[u].at # "matCopy" BY <1>2
    <2> QED BY <2>1, <2>2, <2>3, EndStep
  <1> QED BY <1>1, <1>2

LEMMA StopStep ==
  ASSUME rwInv, NEW u \in rwPods, Stop(u)
  PROVE  rwInv'
  <1>1. rw.p[u].at = "running" /\ rwError(u) BY DEF Stop, rwAt
  <1>2. Fails(u) BY <1>1, FailedDoes DEF Fails, rwInv, Shape
  <1>3. rw.p[u].at \notin DirCopying \cup {"matCopy"} BY <1>1 DEF DirCopying
  <1> QED BY <1>2, <1>3, EarlyFails

LEMMA rwInvStep == rwInv /\ [rwNext]_rw => rwInv'
  <1> SUFFICES ASSUME rwInv, [rwNext]_rw PROVE rwInv' OBVIOUS
  <1>1. CASE rw' = rw
    <2>1. Shape' BY <1>1, Zenon DEF rwInv, Shape, Fields, Indexed, Bound
    <2>2. Copies' BY <1>1, Zenon DEF rwInv, Copies, OwnUpper
    <2>3. Marked' BY <1>1, Zenon DEF rwInv, Marked, Filling
    <2>4. LayersWhole'
      BY <1>1, Zenon DEF rwInv, LayersWhole, MarkersWhole, CopiesWhole, Begun, Progress, Filling
    <2>5. DirsWhole' BY <1>1, Zenon DEF rwInv, DirsWhole, Half
    <2> QED BY <2>1, <2>2, <2>3, <2>4, <2>5 DEF rwInv
  <1>2. CASE rwNext
    <2>1. PICK u \in rwPods :
            \/ Admit(u) \/ StartSidecar(u) \/ CreateContainer(u) \/ StartContainer(u)
            \/ ResolveIdentity(u) \/ ResolveRootfsRwLayer(u) \/ LoadSidecarSpec(u)
            \/ PrepareRootfsRwLayer(u) \/ WriteHandoff(u)
            \/ materializeActiveSnapshot(u) \/ materializeCopy(u) \/ materializeMark(u)
            \/ initLiteVolumes(u) \/ copyVolume(u) \/ addLiteSpecialMounts(u) \/ copySpecial(u)
            \/ appWrite(u) \/ appErase(u) \/ Stop(u) \/ rwInterrupt(u)
      BY <1>2, Zenon DEF rwNext
    <2> QED BY <2>1, SideStep, CreateStep, HookStep, MaterializeStep, CopyStep, MarkStep, LiteStep,
               WriteStep, EraseStep, StopStep, InterruptStep
  <1> QED BY <1>1, <1>2

THEOREM rwInductive == rwSpec => []rwInv
  BY rwInvInit, rwInvStep, PTL DEF rwSpec

-----------------------------------------------------------------------------
(* What it says.                                                           *)

LEMMA FilledWhole ==
  ASSUME NEW fs, Sound(fs), NEW l, Filled(fs, l)
  PROVE  rwBody(fs, l, "d") # "none" /\ rwBody(fs, l, "f") \in {"image", "app"}
  <1>1. rwBody(fs, l, "d") # "none" /\ rwBody(fs, l, "f") # "none" BY BodyNone DEF Filled
  <1>2. PICK y \in fs : y.loc = l /\ y.f = "f" /\ y.body = rwBody(fs, l, "f") BY <1>1, BodyIn
  <1> QED BY <1>1, <1>2, Zenon DEF Filled

\* A container runs on a root file system that holds all of the image or what
\* the application made of it, and so does every volume and special directory
\* that is filled from the image once nobody copies into it: the marker is
\* written last, and a copy that finds a file fails instead of going on.  The
\* exceptions are those the property names: copies that were cut short, and root
\* file systems that two starts were copying at once.
THEOREM LayersInitialised == rwSpec => []InitialisedWhole
  <1>1. rwInv => InitialisedWhole
    <2> SUFFICES ASSUME rwInv PROVE InitialisedWhole OBVIOUS
    <2>1. Sound(rw.files) BY DEF rwInv, Shape
    <2> DEFINE Whole(l) == /\ rwBody(rw.files, l, "d") # "none"
                           /\ rwBody(rw.files, l, "f") \in {"image", "app"}
    <2>2. \A l : Filled(rw.files, l) => Whole(l) BY <2>1, FilledWhole
    <2> HIDE DEF Whole
    <2>3. ASSUME NEW u \in rwPods, rw.p[u].at = "running", rw.conf.nested,
                 rw.p[u].upper \notin rw.cut \cup rw.raced
          PROVE  Whole(rw.p[u].upper)
      <3>1. rw.p[u].at \in Late BY <2>3 DEF Late
      <3>2. rw.p[u].upper \in rw.markers BY <2>3, <3>1, Zenon DEF rwInv, Marked
      <3>3. Filled(rw.files, rw.p[u].upper)
        BY <2>3, <3>2, Zenon DEF rwInv, LayersWhole, MarkersWhole
      <3> QED BY <2>2, <3>3
    <2>4. ASSUME NEW l, l[1] \in {"vol", "special"}, rwCopying(l) = {}, l \notin rw.cut
          PROVE  Whole(l) \/ dirEmpty(l)
      <3> SUFFICES ASSUME ~dirEmpty(l) PROVE Whole(l) OBVIOUS
      <3>1. PICK y \in rw.files : y.loc = l /\ y.f # "lost+found" BY Zenon DEF dirEmpty
      <3>2. l[1] \notin Layers BY <2>4 DEF Layers
      <3>3. \A v \in rwPods : ~Half(v, l) BY <2>4 DEF rwCopying, Half, DirCopying
      <3>4. Filled(rw.files, l) BY <2>4, <3>1, <3>2, <3>3, Zenon DEF rwInv, DirsWhole
      <3> QED BY <2>2, <3>4
    <2>5. /\ \A u \in rwPods :
               rw.p[u].at = "running" /\ rw.conf.nested
                 /\ rw.p[u].upper \notin rw.cut \cup rw.raced => Whole(rw.p[u].upper)
          /\ \A l \in {y.loc : y \in rw.files} :
               l[1] \in {"vol", "special"} /\ rwCopying(l) = {} /\ l \notin rw.cut
                 => Whole(l) \/ dirEmpty(l)
      <3>1. \A u \in rwPods :
              rw.p[u].at = "running" /\ rw.conf.nested
                /\ rw.p[u].upper \notin rw.cut \cup rw.raced => Whole(rw.p[u].upper)
        BY <2>3
      <3>2. \A l : l[1] \in {"vol", "special"} /\ rwCopying(l) = {} /\ l \notin rw.cut
                    => Whole(l) \/ dirEmpty(l)
        BY <2>4
      <3> QED BY <3>1, <3>2, Zenon
    <2> USE DEF Whole
    <2> QED BY <2>5 DEF InitialisedWhole
  <1> QED BY rwInductive, <1>1, PTL

\* No start writes over a file of the application, its own or that of another
\* Pod on the same volume, whatever it finds there, whenever it is cut short and
\* however often it is repeated; only an application changes it.  Root file
\* systems that two starts were copying into at once are left out, as in the
\* property.
THEOREM ApplicationDataKept == rwSpec => DataKept
  <1>1. rwInv /\ [rwNext]_rw =>
          [rw.pc = "on" =>
             \A y \in rw.files : /\ y.f = "f" /\ y.body = "app" /\ y.loc[1] # "native"
                                 /\ y.loc \notin rw'.raced
               => \/ y \in rw'.files
                  \/ \E u \in rwPods : rw.p[u].at = "running" /\ y.loc \in rwDirs(u)
                                       /\ rw'.p = rw.p]_rw
    <2> SUFFICES ASSUME rwInv, rwNext, NEW y \in rw.files, y.f = "f", y.body = "app",
                        y.loc[1] # "native", y.loc \notin rw'.raced
                 PROVE  \/ y \in rw'.files
                        \/ \E u \in rwPods : rw.p[u].at = "running" /\ y.loc \in rwDirs(u)
                                             /\ rw'.p = rw.p
      BY Zenon
    <2>0. Fields /\ Indexed /\ Bound /\ rw.conf \in rwConfs /\ Sound(rw.files) BY DEF rwInv, Shape
    <2>1. PICK u \in rwPods :
            \/ Admit(u) \/ StartSidecar(u) \/ CreateContainer(u) \/ StartContainer(u)
            \/ ResolveIdentity(u) \/ ResolveRootfsRwLayer(u) \/ LoadSidecarSpec(u)
            \/ PrepareRootfsRwLayer(u) \/ WriteHandoff(u)
            \/ materializeActiveSnapshot(u) \/ materializeCopy(u) \/ materializeMark(u)
            \/ initLiteVolumes(u) \/ copyVolume(u) \/ addLiteSpecialMounts(u) \/ copySpecial(u)
            \/ appWrite(u) \/ appErase(u) \/ Stop(u) \/ rwInterrupt(u)
      BY Zenon DEF rwNext
    <2>2. rw'.files = rw.files => y \in rw'.files BY Zenon
    <2>3. \A F : "files" \notin F /\ Store(F) => rw'.files = rw.files BY DEF Store, rwFields
    <2>4. /\ Fails(u) => rw'.files = rw.files
          /\ \A l : Goes(u, l) \/ Mounts(u, l) \/ Begins(u, l) => rw'.files = rw.files
      BY <2>3 DEF Fails, Goes, Mounts, Begins
    <2>5. CASE Admit(u) \/ StartSidecar(u) \/ StartContainer(u) \/ Stop(u)
      <3>1. Store({"p", "faults"}) \/ Store({"p"}) \/ Store({"p", "handoffs"})
        BY <2>0, <2>5, AdmitDoes, SidecarDoes, StartDoes, FailedDoes, Zenon DEF Stop
      <3> QED BY <2>2, <2>3, <3>1
    <2>6. CASE CreateContainer(u)
      <3>1. rw'.files = {z \in rw.files : z.loc # Native(u)} BY <2>0, <2>6, CreateDoes
      <3>2. Native(u)[1] = "native" BY DEF Native
      <3> QED BY <3>1, <3>2, Zenon
    <2>7. CASE ResolveIdentity(u) \/ ResolveRootfsRwLayer(u) \/ LoadSidecarSpec(u)
      <3>1. Fails(u) \/ \E l : Goes(u, l) \/ Mounts(u, l)
        BY <2>0, <2>7, IdentityDoes, ResolveDoes, SpecDoes, Zenon
      <3> QED BY <2>2, <2>4, <3>1
    <2>8. CASE PrepareRootfsRwLayer(u) \/ WriteHandoff(u)
      <3>1. Fails(u) \/ Store({"p"}) \/ Store({"p", "handoffs"})
        BY <2>0, <2>8, PrepareDoes, HandoffDoes, Zenon
      <3> QED BY <2>2, <2>3, <2>4, <3>1
    <2>9. CASE materializeActiveSnapshot(u) \/ materializeMark(u)
      <3>1. Store({"p"}) \/ Store({"p", "raced"}) \/ Store({"p", "markers"})
        BY <2>0, <2>9, MaterializeDoes, MarkDoes, Zenon
      <3> QED BY <2>2, <2>3, <3>1
    <2>10. CASE initLiteVolumes(u) \/ addLiteSpecialMounts(u)
      <3>1. Fails(u) \/ Store({"p"})
        BY <2>0, <2>10, VolumesDoes, SpecialsDoes, Zenon DEF Begins
      <3> QED BY <2>2, <2>3, <2>4, <3>1
    <2>11. ASSUME Filling(u, y.loc) PROVE y.loc \in rw.raced
      <3>1. y.loc[1] = "upper" BY <2>11, FillingLayer DEF rwInv, Native
      <3>2. y.loc \in rw.markers BY <3>1, Zenon DEF rwInv, Marked
      <3> QED BY <2>11, <3>2, Zenon DEF rwInv, Marked
    <2>12. CASE materializeCopy(u)
      <3> DEFINE t == rw.p[u].dst
                 f == rw.p[u].todo[1]
      <3>1. /\ rw.p[u].at = "matCopy" /\ Store({"p", "files"})
            /\ \E body : rw'.files = rwPut(rw.files, t, f, body)
        BY <2>0, <2>12, CopyDoes
      <3>2. PICK body : rw'.files = rwPut(rw.files, t, f, body) BY <3>1
      <3>3. rw'.raced = rw.raced BY <3>1 DEF Store, rwFields
      <3>4. Filling(u, t) BY <3>1 DEF Filling
      <3> HIDE DEF t, f
      <3>5. y.loc # t BY <2>11, <3>3, <3>4, Zenon
      <3>6. Beyond(t, rw'.files, rw.files) BY <3>2, PutDoes
      <3> QED BY <3>5, <3>6, Zenon DEF Beyond
    <2>13. CASE copyVolume(u) \/ copySpecial(u)
      <3> DEFINE t == rw.p[u].dst
                 f == rw.p[u].todo[1]
      <3>1. rw.p[u].at \in DirCopying /\ (copyDir(u, "vols") \/ copyDir(u, "special"))
        BY <2>13 DEF copyVolume, copySpecial, rwAt, DirCopying
      <3>2. \/ Store({"p"}) \/ Fails(u)
            \/ /\ rw.p[u].todo # <<>> /\ copyEntry(t, f)
               /\ rw'.files = IF f = "d" /\ rwBody(rw.files, t, "d") # "none" THEN rw.files
                              ELSE rwPut(rw.files, t, f, "image")
        BY <2>0, <3>1, DirDoes, Zenon
      <3>3. rw.p[u].todo \in Todos BY <3>1, Zenon DEF rwInv, Copies
      <3>4. rw.p[u].todo # <<>> => f \in {"d", "f"} BY <3>3, Tails DEF Todos
      <3> HIDE DEF t, f
      <3>5. CASE Store({"p"}) \/ Fails(u) BY <2>2, <2>3, <2>4, <3>5
      <3>6. CASE /\ rw.p[u].todo # <<>> /\ copyEntry(t, f)
                 /\ rw'.files = IF f = "d" /\ rwBody(rw.files, t, "d") # "none" THEN rw.files
                                ELSE rwPut(rw.files, t, f, "image")
        <4>1. rw'.files = rw.files \/ rw'.files = rwPut(rw.files, t, f, "image") BY <3>6, Zenon
        <4>2. CASE f = "f"
          <5>1. rwBody(rw.files, t, "f") = "none" BY <3>6, <4>2 DEF copyEntry
          <5>2. ~Has(rw.files, t, "f") BY <2>0, <5>1, BodyNone
          <5>3. y.loc # t BY <5>2, Zenon DEF Has
          <5>4. \A z \in rw.files : (z.loc = t /\ z.f = f) \/ z \in rwPut(rw.files, t, f, "image")
            BY PutDoes
          <5> QED BY <4>1, <5>3, <5>4, Zenon
        <4>3. CASE f = "d"
          <5>1. "d" # "f" BY SMT
          <5>2. \A z \in rw.files : (z.loc = t /\ z.f = f) \/ z \in rwPut(rw.files, t, f, "image")
            BY PutDoes
          <5> QED BY <4>1, <4>3, <5>1, <5>2, Zenon
        <4> QED BY <3>4, <3>6, <4>2, <4>3
      <3> QED BY <3>2, <3>5, <3>6
    <2>14. CASE appWrite(u)
      <3>1. /\ rw.p[u].at = "running" /\ Store({"files"})
            /\ \E l \in rwDirs(u) : \E d :
                 /\ d = rw.files \/ d = rwPut(rw.files, l, "d", "app")
                 /\ rw'.files = rwPut(d, l, "f", "app")
        BY <2>0, <2>14, WriteDoes, Zenon
      <3>2. PICK l \in rwDirs(u) : \E d :
              /\ d = rw.files \/ d = rwPut(rw.files, l, "d", "app")
              /\ rw'.files = rwPut(d, l, "f", "app")
        BY <3>1
      <3>3. PICK d : /\ d = rw.files \/ d = rwPut(rw.files, l, "d", "app")
                     /\ rw'.files = rwPut(d, l, "f", "app")
        BY <3>2
      <3>4. rw'.p = rw.p BY <3>1 DEF Store, rwFields
      <3>5. CASE y.loc = l BY <3>1, <3>4, <3>5, Zenon
      <3>6. CASE y.loc # l
        <4>1. Beyond(l, rw'.files, d) BY <3>3, PutDoes
        <4>2. d = rw.files \/ Beyond(l, d, rw.files) BY <3>3, PutDoes
        <4> QED BY <3>6, <4>1, <4>2, Zenon DEF Beyond
      <3> QED BY <3>5, <3>6
    <2>15. CASE appErase(u)
      <3>1. /\ rw.p[u].at = "running" /\ Store({"files"})
            /\ \E l \in rwDirs(u) \ {rw.p[u].upper} :
                 rw'.files = {z \in rw.files : z.loc # l \/ z.f = "lost+found"}
        BY <2>0, <2>15, EraseDoes
      <3>2. rw'.p = rw.p BY <3>1 DEF Store, rwFields
      <3> QED BY <3>1, <3>2, Zenon
    <2>16. CASE rwInterrupt(u)
      <3> DEFINE t == rw.p[u].dst
                 half == rwPut(rw.files, t, "f", "part")
      <3>1. \/ rw.p[u].at \notin DirCopying \cup {"matCopy"} /\ Store({"p", "handoffs", "faults"})
            \/ /\ rw.p[u].at \in DirCopying \cup {"matCopy"}
               /\ Store({"p", "handoffs", "faults", "files", "cut"})
               /\ \/ rw'.files = rw.files
                  \/ /\ rw.p[u].at = "matCopy" \/ copyEntry(t, "f")
                     /\ rw'.files = half
        BY <2>0, <2>16, InterruptDoes, Zenon
      <3>2. CASE Store({"p", "handoffs", "faults"}) BY <2>2, <2>3, <3>2
      <3>3. CASE rw'.files = rw.files BY <2>2, <3>3
      <3>4. CASE /\ rw.p[u].at = "matCopy" \/ copyEntry(t, "f")
                 /\ rw'.files = half
                 /\ Store({"p", "handoffs", "faults", "files", "cut"})
        <4>1. rw'.raced = rw.raced BY <3>4 DEF Store, rwFields
        <4>2. y.loc # t
          <5>1. CASE rw.p[u].at = "matCopy"
            <6>1. Filling(u, t) BY <5>1 DEF Filling
            <6> HIDE DEF t
            <6> QED BY <2>11, <4>1, <6>1, Zenon
          <5>2. CASE copyEntry(t, "f")
            <6> HIDE DEF t
            <6>1. rwBody(rw.files, t, "f") = "none" BY <5>2 DEF copyEntry
            <6>2. ~Has(rw.files, t, "f") BY <2>0, <6>1, BodyNone
            <6> QED BY <6>2, Zenon DEF Has
          <5> QED BY <3>4, <5>1, <5>2
        <4>3. Beyond(t, rw'.files, rw.files)
          <5> HIDE DEF t
          <5> QED BY <3>4, PutDoes
        <4> QED BY <4>2, <4>3, Zenon DEF Beyond
      <3> QED BY <3>1, <3>2, <3>3, <3>4
    <2> QED BY <2>1, <2>5, <2>6, <2>7, <2>8, <2>9, <2>10, <2>12, <2>13, <2>14, <2>15, <2>16
  <1> QED BY rwInductive, <1>1, PTL DEF rwSpec, DataKept

-----------------------------------------------------------------------------
(* The directory of an entry.                                              *)

HasUpper == {"handoff", "mounts", "matCopy"} \cup Late
Ended == {"new", "rejected", "idle"}
EntryUpper(u) ==
  LET es == EntriesFor(rw.conf.pod, rw.conf.name) IN
  IF es = <<>> \/ rw.conf.name = SidecarContainerName THEN Native(u)
  ELSE <<"upper", rw.conf.pod.volumes[es[1].vol], CleanPath(es[1].path)>>

\* Admission leaves the annotation and the volumes alone.  Only a container that
\* is stored has a name, and its entry is what the directory is taken from.
AsReviewed(u) ==
  /\ {"annot", "volumes"} \subseteq DOMAIN rw.p[u].pod
  /\ rw.p[u].pod.annot = rw.conf.pod.annot /\ rw.p[u].pod.volumes = rw.conf.pod.volumes
Stored(u) ==
  /\ rw.p[u].rec <=> rw.p[u].call = "mounts"
  /\ rw.p[u].at \in Ended => ~rw.p[u].rec
  /\ rw.p[u].at \notin Ended => rw.p[u].call \in {"prepare", "mounts"}
  /\ rw.p[u].at \in Late \cup {"resolve", "sidecar", "pvc", "handoff"} => rw.p[u].rec
Entered(u) ==
  /\ rw.p[u].at \in {"resolve", "sidecar", "pvc", "handoff"} => rw.conf.labels # "noName"
  /\ rw.p[u].at \in {"sidecar", "pvc", "handoff"} => HasEntry(u)
  /\ rw.p[u].rec /\ rw.p[u].at \in HasUpper => rw.p[u].upper = EntryUpper(u)
AnnotOf(u) == AsReviewed(u) /\ Stored(u) /\ Entered(u)
AnnotInv == \A u \in rwPods : AnnotOf(u)

LEMMA AnnotStep ==
  ASSUME AnnotInv, NEW u \in rwPods, PodOnly(u, podFields), rw'.conf = rw.conf, AnnotOf(u)'
  PROVE  AnnotInv'
  <1> SUFFICES ASSUME NEW v \in rwPods, v # u PROVE AnnotOf(v)' BY Zenon DEF AnnotInv
  <1>1. rw'.p[v] = rw.p[v] BY Others
  <1>2. AnnotOf(v) BY DEF AnnotInv
  <1> QED BY <1>1, <1>2, Zenon DEF AnnotOf, AsReviewed, Stored, Entered, HasEntry, EntryUpper

LEMMA PatchDoes ==
  ASSUME NEW pod, NEW patch
  PROVE  \E a, b : applyPatch(pod, patch) = [pod EXCEPT !.containers = a, !.volumeInit = b]
  <1> DEFINE New(path, old) == IF \E q \in patch : q.path = path
                               THEN (CHOOSE q \in patch : q.path = path).value ELSE old
  <1>1. applyPatch(pod, patch) = [pod EXCEPT !.containers = New("containers", pod.containers),
                                             !.volumeInit = New("volumeInit", pod.volumeInit)]
    BY Zenon DEF applyPatch
  <1> HIDE DEF New
  <1> QED BY <1>1, Zenon

\* What admission changes of a Pod.
LEMMA AdmitPod ==
  ASSUME Fields, NEW u \in rwPods, AsReviewed(u), Admit(u)
  PROVE  AsReviewed(u)'
  <1> DEFINE old == rw.p[u].pod
             New(pod) == /\ {"annot", "volumes"} \subseteq DOMAIN pod
                         /\ pod.annot = old.annot /\ pod.volumes = old.volumes
  <1>0. PodOnly(u, {"at", "pod", "reviews"}) /\ Store({"p", "faults"}) BY AdmitDoes
  <1>1. PICK expired, r, pod :
          /\ \E a, b : pod = [old EXCEPT !.containers = a, !.volumeInit = b]
          /\ IF ~r.allowed
             THEN rw' = [rw EXCEPT !.p[u].at = "rejected",
                                   !.faults = IF expired THEN @ + 1 ELSE @]
             ELSE \/ rw' = [rw EXCEPT !.p[u].pod = pod, !.p[u].at = "idle"]
                  \/ rw' = [rw EXCEPT !.p[u].reviews = 1,
                        !.p[u].pod = [pod EXCEPT !.containers =
                           Append(@, [name |-> "mesh", mounts |-> <<>>])]]
    <2>1. PICK expired, r, pod :
            /\ pod = applyPatch(old, r.patch)
            /\ IF ~r.allowed
               THEN rw' = [rw EXCEPT !.p[u].at = "rejected",
                                     !.faults = IF expired THEN @ + 1 ELSE @]
               ELSE \/ rw' = [rw EXCEPT !.p[u].pod = pod, !.p[u].at = "idle"]
                    \/ rw' = [rw EXCEPT !.p[u].reviews = 1,
                          !.p[u].pod = [pod EXCEPT !.containers =
                             Append(@, [name |-> "mesh", mounts |-> <<>>])]]
      BY Zenon DEF Admit
    <2>2. \E a, b : pod = [old EXCEPT !.containers = a, !.volumeInit = b]
      <3> HIDE DEF old
      <3>1. \E a, b : applyPatch(old, r.patch) = [old EXCEPT !.containers = a, !.volumeInit = b]
        BY PatchDoes
      <3> QED BY <2>1, <3>1, Zenon
    <2> QED BY <2>1, <2>2, ZenonT(40)
  <1>2. New(pod)
    <2>1. PICK a, b : pod = [old EXCEPT !.containers = a, !.volumeInit = b] BY <1>1
    <2> HIDE DEF old
    <2>2. {"annot", "volumes"} \subseteq DOMAIN old BY DEF AsReviewed, old
    <2> QED BY <2>1, <2>2
  <1>3. \A c : New([pod EXCEPT !.containers = c])
    <2> HIDE DEF old
    <2> QED BY <1>2
  <1> HIDE DEF New
  <1>4. rw'.p[u].pod = old \/ New(rw'.p[u].pod)
    <2>1. CASE rw' = [rw EXCEPT !.p[u].at = "rejected", !.faults = IF expired THEN @ + 1 ELSE @]
      BY <2>1 DEF Fields, rwFields, podFields
    <2>2. CASE rw' = [rw EXCEPT !.p[u].pod = pod, !.p[u].at = "idle"]
      <3>1. rw'.p[u].pod = pod BY <2>2 DEF Fields, rwFields, podFields
      <3> QED BY <1>2, <3>1
    <2>3. ASSUME NEW x, New(x), rw' = [rw EXCEPT !.p[u].reviews = 1, !.p[u].pod = x]
          PROVE  New(rw'.p[u].pod)
      <3>1. rw'.p[u].pod = x BY <2>3 DEF Fields, rwFields, podFields
      <3> QED BY <2>3, <3>1
    <2> QED BY <1>1, <1>3, <2>1, <2>2, <2>3, Zenon
  <1>5. rw'.conf = rw.conf BY <1>0 DEF Store, rwFields
  <1> QED BY <1>4, <1>5, Zenon DEF New, AsReviewed

LEMMA SeqsEqual ==
  ASSUME NEW S, NEW s \in Seq(S), NEW t \in Seq(S), Len(s) = Len(t),
         \A i \in 1 .. Len(s) : s[i] = t[i]
  PROVE  s = t
  <1>1. s \in [1 .. Len(s) -> S] /\ t \in [1 .. Len(s) -> S] BY SMT
  <1> QED BY <1>1

\* In a Sysbox container the path below Sysbox's directory is the same for every
\* Pod, elsewhere the disk is.
LEMMA StablePath ==
  ASSUME NEW u \in rwPods, NEW e, ResolvePVCMountPath(u, e) # <<>>
  PROVE  rwBacking(u, e.vol, ResolvePVCMountPath(u, e)) = rw.p[u].pod.volumes[e.vol]
  <1> DEFINE k == KubeletPath(u, e.vol)
             claim == rw.p[u].pod.volumes[e.vol]
             root == mountinfoRoot(u, e.vol)
  <1>1. ResolvePVCMountPath(u, e) = stablePVCMountPath(k, root)
    BY Zenon DEF ResolvePVCMountPath
  <1>2. CASE rw.conf.l1
    <2>1. root = <<"rootfs", "special", claim>> BY <1>2, Zenon DEF mountinfoRoot
    <2> HIDE DEF claim
    <2> DEFINE r == <<"rootfs", "special", claim>>
    <2>2. Len(r) = 3 BY SMT
    <2>4. r \in Seq({"rootfs", "special", claim}) BY SMT
    <2>5. SubSeq(r, 1, 2) = <<"rootfs", "special">>
      <3>1. Len(SubSeq(r, 1, 2)) = 2 BY <2>2, <2>4, SMT
      <3>2. SubSeq(r, 1, 2)[1] = "rootfs" /\ SubSeq(r, 1, 2)[2] = "special" BY <2>2, <2>4, SMT
      <3>3. SubSeq(r, 1, 2) \in Seq({"rootfs", "special", claim}) BY <2>2, <2>4, SMT
      <3>4. /\ <<"rootfs", "special">> \in Seq({"rootfs", "special", claim})
            /\ Len(<<"rootfs", "special">>) = 2
            /\ <<"rootfs", "special">>[1] = "rootfs" /\ <<"rootfs", "special">>[2] = "special"
        BY SMT
      <3> HIDE DEF r
      <3>5. \A i \in 1 .. 2 : SubSeq(r, 1, 2)[i] = <<"rootfs", "special">>[i] BY <3>2, <3>4
      <3> QED BY <3>1, <3>3, <3>4, <3>5, SeqsEqual
    <2>6. SubSeq(r, 3, 3) = <<claim>>
      <3>1. Len(SubSeq(r, 3, 3)) = 1 BY <2>2, <2>4, SMT
      <3>2. SubSeq(r, 3, 3)[1] = claim BY <2>2, <2>4, SMT
      <3>3. SubSeq(r, 3, 3) \in Seq({"rootfs", "special", claim}) BY <2>2, <2>4, SMT
      <3>4. <<claim>> \in Seq({"rootfs", "special", claim}) /\ Len(<<claim>>) = 1 /\ <<claim>>[1] = claim
        BY SMT
      <3> HIDE DEF r
      <3>5. \A i \in 1 .. 1 : SubSeq(r, 3, 3)[i] = <<claim>>[i] BY <3>2, <3>4
      <3> QED BY <3>1, <3>3, <3>4, <3>5, SeqsEqual
    <2> HIDE DEF r
    <2>3. stablePVCMountPath(k, root) = <<claim>>
      BY <2>1, <2>2, <2>5, <2>6 DEF stablePVCMountPath, r
    <2>7. <<claim>> # k BY SMT DEF KubeletPath
    <2> QED BY <1>1, <2>3, <2>7, Zenon DEF rwBacking, claim
  <1>3. CASE ~rw.conf.l1 BY <1>3, Zenon DEF rwBacking
  <1> QED BY <1>2, <1>3

\* A start goes on without a word about where its root file system is.
LEMMA AnnotGoes ==
  ASSUME NEW u \in rwPods, AnnotOf(u), rw'.conf = rw.conf,
         PodOnly(u, podFields \ {"pod", "rec", "call", "upper"}),
         rw.p[u].at \notin Ended, rw'.p[u].at \notin Ended,
         rw'.p[u].at \in Late \cup {"resolve", "sidecar", "pvc", "handoff"} => rw.p[u].rec,
         rw'.p[u].at \in {"resolve", "sidecar", "pvc", "handoff"} => rw.conf.labels # "noName",
         rw'.p[u].at \in {"sidecar", "pvc", "handoff"} => HasEntry(u),
         rw'.p[u].at \in HasUpper => rw.p[u].at \in HasUpper
  PROVE  AnnotOf(u)'
  <1>1. /\ rw'.p[u].pod = rw.p[u].pod /\ rw'.p[u].rec = rw.p[u].rec
        /\ rw'.p[u].call = rw.p[u].call /\ rw'.p[u].upper = rw.p[u].upper
    BY DEF PodOnly, podFields
  <1>2. AsReviewed(u)' BY <1>1, Zenon DEF AnnotOf, AsReviewed
  <1>3. Stored(u)' BY <1>1, Zenon DEF AnnotOf, Stored
  <1>4. HasEntry(u)' <=> HasEntry(u) BY <1>1, Zenon DEF HasEntry
  <1>5. EntryUpper(u)' = EntryUpper(u) BY Zenon DEF EntryUpper
  <1>6. Entered(u)' BY <1>1, <1>4, <1>5, Zenon DEF AnnotOf, Entered
  <1> QED BY <1>2, <1>3, <1>6 DEF AnnotOf

LEMMA AnnotFails ==
  ASSUME NEW u \in rwPods, AnnotOf(u), rw'.conf = rw.conf, PodOnly(u, Start),
         rw'.p[u].at = "idle", ~rw'.p[u].rec, rw'.p[u].call = "none"
  PROVE  AnnotOf(u)'
  <1>1. rw'.p[u].pod = rw.p[u].pod BY DEF PodOnly, podFields, Start
  <1>2. AsReviewed(u)' BY <1>1, Zenon DEF AnnotOf, AsReviewed
  <1>3. /\ rw'.p[u].at \in Ended /\ rw'.p[u].call # "mounts"
        /\ rw'.p[u].at \notin Late \cup {"resolve", "sidecar", "pvc", "handoff"}
    BY DEF Ended, Late
  <1>4. Stored(u)' BY <1>3, Zenon DEF Stored
  <1>5. Entered(u)' BY <1>3, Zenon DEF Entered
  <1> QED BY <1>2, <1>4, <1>5 DEF AnnotOf

\* The native snapshot is for containers without an entry.
LEMMA AnnotNative ==
  ASSUME NEW u \in rwPods, AnnotOf(u), rw.conf \in rwConfs, Mounts(u, Native(u)),
         rw.p[u].at \notin Ended, ~rw.p[u].rec \/ rw.conf.labels = "noName" \/ ~HasEntry(u)
  PROVE  AnnotOf(u)'
  <1>1. /\ rw'.p[u].pod = rw.p[u].pod /\ rw'.p[u].rec = rw.p[u].rec
        /\ rw'.p[u].call = rw.p[u].call /\ rw'.p[u].upper = Native(u)
        /\ rw'.conf = rw.conf /\ rw'.p[u].at = "mounts"
    BY DEF Mounts, Store, PodOnly, podFields, rwFields
  <1>2. AsReviewed(u)' BY <1>1, Zenon DEF AnnotOf, AsReviewed
  <1>3. rw'.p[u].at \notin Late \cup {"resolve", "sidecar", "pvc", "handoff"} \cup Ended
    BY <1>1 DEF Late, Ended
  <1>4. Stored(u)' BY <1>1, <1>3, Zenon DEF AnnotOf, Stored
  <1>5. rw.p[u].rec => EntryUpper(u)' = Native(u)
    <2> SUFFICES ASSUME rw.p[u].rec PROVE EntryUpper(u) = Native(u)
      BY <1>1, Zenon DEF EntryUpper
    <2> DEFINE es == EntriesFor(rw.conf.pod, rw.conf.name)
    <2>1. /\ rw.p[u].pod.annot = rw.conf.pod.annot
          /\ es = EntriesFor(rw.p[u].pod, rw.conf.name)
      BY Zenon DEF AnnotOf, AsReviewed, EntriesFor
    <2>2. \/ rw.conf.pod.annot.kind \in {"absent", "empty"} \/ rw.conf.labels = "noName"
          \/ es = <<>> \/ rw.conf.name = SidecarContainerName
      BY <2>1, Zenon DEF HasEntry
    <2>3. \/ rw.conf.pod.annot.kind \in {"absent", "empty"} \/ rw.conf.labels = "noName" =>
            es = <<>>
      BY rwAssumption, Zenon
    <2> QED BY <2>2, <2>3, Zenon DEF EntryUpper
  <1>6. Entered(u)' BY <1>1, <1>3, <1>5, Zenon DEF Entered
  <1> QED BY <1>2, <1>4, <1>6 DEF AnnotOf

LEMMA AnnotPrepare ==
  ASSUME NEW u \in rwPods, Fields, AnnotOf(u), PrepareRootfsRwLayer(u)
  PROVE  AnnotOf(u)'
  <1> DEFINE e == EntriesFor(rw.p[u].pod, rw.conf.name)[1]
             path == ResolvePVCMountPath(u, e)
             dir == LayerDir(u, e, path, "upper")
  <1>1. /\ rw.p[u].at = "pvc"
        /\ \/ Fails(u)
           \/ /\ path # <<>> /\ Store({"p"}) /\ PodOnly(u, {"at", "pvc", "upper"})
              /\ rw'.p[u].at \in {"handoff", "mounts"} /\ rw'.p[u].upper = dir
    BY PrepareDoes, Zenon
  <1>2. CASE Fails(u)
    <2>1. rw'.conf = rw.conf BY <1>2 DEF Fails, Store, rwFields
    <2> QED BY <1>2, <2>1, AnnotFails DEF Fails
  <1>3. dir = EntryUpper(u) \/ path = <<>>
    <2> SUFFICES ASSUME path # <<>> PROVE dir = EntryUpper(u) OBVIOUS
    <2>1. HasEntry(u) BY <1>1 DEF AnnotOf, Entered
    <2>2. /\ rw.p[u].pod.annot = rw.conf.pod.annot /\ rw.p[u].pod.volumes = rw.conf.pod.volumes
          /\ EntriesFor(rw.conf.pod, rw.conf.name) = EntriesFor(rw.p[u].pod, rw.conf.name)
      BY Zenon DEF AnnotOf, AsReviewed, EntriesFor
    <2>3. EntryUpper(u) = <<"upper", rw.p[u].pod.volumes[e.vol], CleanPath(e.path)>>
      BY <2>1, <2>2, Zenon DEF EntryUpper, HasEntry
    <2>4. rwBacking(u, e.vol, path) = rw.p[u].pod.volumes[e.vol] BY StablePath
    <2> QED BY <2>3, <2>4, Zenon DEF LayerDir
  <1> HIDE DEF path, dir
  <1>4. CASE /\ path # <<>> /\ Store({"p"}) /\ PodOnly(u, {"at", "pvc", "upper"})
             /\ rw'.p[u].at \in {"handoff", "mounts"} /\ rw'.p[u].upper = dir
    <2>1. /\ rw'.p[u].pod = rw.p[u].pod /\ rw'.p[u].rec = rw.p[u].rec
          /\ rw'.p[u].call = rw.p[u].call /\ rw'.conf = rw.conf
      BY <1>4 DEF Store, PodOnly, podFields, rwFields
    <2>2. AsReviewed(u)' BY <2>1, Zenon DEF AnnotOf, AsReviewed
    <2>3. rw'.p[u].at \notin Ended /\ rw.p[u].at \notin Ended BY <1>1, <1>4 DEF Ended
    <2>4. rw.p[u].rec /\ rw.conf.labels # "noName" /\ HasEntry(u)
      BY <1>1 DEF AnnotOf, Stored, Entered
    <2>5. Stored(u)' BY <2>1, <2>3, <2>4, Zenon DEF AnnotOf, Stored
    <2>6. EntryUpper(u)' = EntryUpper(u) BY <2>1, Zenon DEF EntryUpper
    <2>7. HasEntry(u)' BY <2>1, <2>4, Zenon DEF HasEntry
    <2>8. Entered(u)' BY <1>3, <1>4, <2>1, <2>4, <2>6, <2>7, Zenon DEF Entered
    <2> QED BY <2>2, <2>5, <2>8 DEF AnnotOf
  <1> QED BY <1>1, <1>2, <1>4

LEMMA AnnotInit == ASSUME rwInit PROVE AnnotInv
  <1>1. PICK c \in rwConfs :
          /\ rw.conf = c
          /\ \A u \in rwPods : /\ rw.p[u].at \in {"idle", "new"} /\ rw.p[u].pod = c.pod
                               /\ rw.p[u].rec = FALSE /\ rw.p[u].call = "none"
    BY DEF rwInit
  <1> SUFFICES ASSUME NEW u \in rwPods PROVE AnnotOf(u) BY Zenon DEF AnnotInv
  <1>2. {"annot", "containers", "volumes", "volumeInit"} \subseteq DOMAIN c.pod
    BY rwAssumption
  <1>3. AsReviewed(u) BY <1>1, <1>2 DEF AsReviewed
  <1>4. rw.p[u].at \in Ended /\ rw.p[u].at \notin Late \cup {"resolve", "sidecar", "pvc", "handoff"}
    BY <1>1 DEF Ended, Late
  <1>5. ~rw.p[u].rec /\ rw.p[u].call # "mounts" BY <1>1
  <1>6. Stored(u) BY <1>4, <1>5, Zenon DEF Stored
  <1>7. Entered(u) BY <1>4, <1>5, Zenon DEF Entered
  <1> QED BY <1>3, <1>6, <1>7 DEF AnnotOf

\* Until the mounts are asked for.
LEMMA AnnotHook ==
  ASSUME rwInv, NEW u \in rwPods, AnnotOf(u),
         \/ Admit(u) \/ StartSidecar(u) \/ CreateContainer(u) \/ StartContainer(u)
         \/ ResolveIdentity(u) \/ ResolveRootfsRwLayer(u) \/ LoadSidecarSpec(u) \/ WriteHandoff(u)
  PROVE  PodOnly(u, podFields) /\ rw'.conf = rw.conf /\ AnnotOf(u)'
  <1>0. Fields /\ Indexed /\ rw.conf \in rwConfs BY DEF rwInv, Shape
  <1>1. \A F : PodOnly(u, F) => PodOnly(u, podFields) BY Zenon DEF PodOnly
  <1>2. \A F : Store(F) /\ "conf" \notin F => rw'.conf = rw.conf BY DEF Store, rwFields
  <1>3. Fails(u) => PodOnly(u, podFields) /\ rw'.conf = rw.conf /\ AnnotOf(u)'
    BY <1>1, <1>2, AnnotFails DEF Fails
  <1>4. ASSUME Mounts(u, Native(u)), rw.p[u].at \notin Ended,
               ~rw.p[u].rec \/ rw.conf.labels = "noName" \/ ~HasEntry(u)
        PROVE  PodOnly(u, podFields) /\ rw'.conf = rw.conf /\ AnnotOf(u)'
    <2>1. AnnotOf(u)' BY <1>0, <1>4, AnnotNative
    <2> QED BY <1>1, <1>2, <1>4, <2>1 DEF Mounts
  <1>5. ASSUME NEW l \in {"resolve", "sidecar", "pvc"}, Goes(u, l), rw.p[u].at \notin Ended,
               rw.p[u].rec, rw.conf.labels # "noName", l # "resolve" => HasEntry(u)
        PROVE  PodOnly(u, podFields) /\ rw'.conf = rw.conf /\ AnnotOf(u)'
    <2>1. PodOnly(u, podFields) /\ rw'.conf = rw.conf BY <1>1, <1>2, <1>5 DEF Goes
    <2>2. PodOnly(u, podFields \ {"pod", "rec", "call", "upper"})
      BY <1>5 DEF Goes, PodOnly, podFields
    <2>3. rw'.p[u].at = l /\ l \notin Ended /\ l \notin HasUpper BY <1>5 DEF Goes, Ended, HasUpper, Late
    <2>4. AnnotOf(u)' BY <1>5, <2>1, <2>2, <2>3, AnnotGoes
    <2> QED BY <2>1, <2>4
  <1>6. CASE Admit(u)
    <2>1. /\ Store({"p", "faults"}) /\ PodOnly(u, {"at", "pod", "reviews"})
          /\ rw.p[u].at = "new" /\ rw'.p[u].at \in {"rejected", "idle", "new"}
      BY <1>0, <1>6, AdmitDoes
    <2>2. AsReviewed(u)' BY <1>0, <1>6, AdmitPod DEF AnnotOf
    <2>3. rw'.p[u].rec = rw.p[u].rec /\ rw'.p[u].call = rw.p[u].call BY <2>1 DEF PodOnly, podFields
    <2>4. /\ rw.p[u].at \in Ended /\ rw'.p[u].at \in Ended
          /\ rw'.p[u].at \notin Late \cup {"resolve", "sidecar", "pvc", "handoff"}
      BY <2>1 DEF Ended, Late
    <2>5. Stored(u)' BY <2>3, <2>4, Zenon DEF AnnotOf, Stored
    <2>6. Entered(u)' BY <2>3, <2>4, <2>5, Zenon DEF Entered, Stored
    <2> QED BY <1>1, <1>2, <2>1, <2>2, <2>5, <2>6 DEF AnnotOf
  <1>7. CASE StartSidecar(u)
    <2>1. Store({"p"}) /\ PodOnly(u, {"side"}) BY <1>0, <1>7, SidecarDoes
    <2>2. /\ rw'.p[u].pod = rw.p[u].pod /\ rw'.p[u].rec = rw.p[u].rec /\ rw'.p[u].at = rw.p[u].at
          /\ rw'.p[u].call = rw.p[u].call /\ rw'.p[u].upper = rw.p[u].upper
      BY <2>1 DEF PodOnly, podFields
    <2>3. PodOnly(u, podFields) /\ rw'.conf = rw.conf BY <1>1, <1>2, <2>1
    <2>4. AnnotOf(u)'
      BY <2>2, <2>3, Zenon DEF AnnotOf, AsReviewed, Stored, Entered, HasEntry, EntryUpper
    <2> QED BY <2>3, <2>4
  <1>8. CASE CreateContainer(u)
    <2>1. /\ Store({"p", "files", "markers", "cut"}) /\ PodOnly(u, {"at", "call", "start"})
          /\ rw.p[u].at = "idle" /\ rw'.p[u].at = "hook" /\ rw'.p[u].call = "prepare"
      BY <1>0, <1>8, CreateDoes
    <2>2. rw'.p[u].pod = rw.p[u].pod /\ rw'.p[u].rec = rw.p[u].rec BY <2>1 DEF PodOnly, podFields
    <2>3. PodOnly(u, podFields) /\ rw'.conf = rw.conf BY <1>1, <1>2, <2>1
    <2>4. AsReviewed(u)' BY <2>2, <2>3, Zenon DEF AnnotOf, AsReviewed
    <2>5. /\ rw.p[u].at \in Ended /\ rw'.p[u].at \notin Ended /\ rw'.p[u].call # "mounts"
          /\ rw'.p[u].at \notin Late \cup {"resolve", "sidecar", "pvc", "handoff"}
      BY <2>1 DEF Ended, Late
    <2>6. Stored(u)' BY <2>1, <2>2, <2>5, Zenon DEF AnnotOf, Stored
    <2>7. Entered(u)' BY <2>2, <2>5, <2>6, Zenon DEF Entered, Stored
    <2> QED BY <2>3, <2>4, <2>6, <2>7 DEF AnnotOf
  <1>9. CASE StartContainer(u)
    <2>1. /\ Store({"p"}) /\ PodOnly(u, {"at", "call", "rec"})
          /\ rw.p[u].at = "prepared" /\ rw'.p[u].at = "hook" /\ rw'.p[u].call = "mounts"
          /\ rw'.p[u].rec
      BY <1>0, <1>9, StartDoes
    <2>2. rw'.p[u].pod = rw.p[u].pod BY <2>1 DEF PodOnly, podFields
    <2>3. PodOnly(u, podFields) /\ rw'.conf = rw.conf BY <1>1, <1>2, <2>1
    <2>4. AsReviewed(u)' BY <2>2, <2>3, Zenon DEF AnnotOf, AsReviewed
    <2>5. /\ rw'.p[u].at \notin Ended \cup HasUpper
          /\ rw'.p[u].at \notin Late \cup {"resolve", "sidecar", "pvc", "handoff"}
      BY <2>1 DEF Ended, Late, HasUpper
    <2>6. Stored(u)' BY <2>1, <2>5, Zenon DEF Stored
    <2>7. Entered(u)' BY <2>5, Zenon DEF Entered
    <2> QED BY <2>3, <2>4, <2>6, <2>7 DEF AnnotOf
  <1>10. CASE ResolveIdentity(u)
    <2>1. /\ rw.p[u].at = "hook"
          /\ \/ Fails(u)
             \/ ~rw.p[u].rec /\ Mounts(u, Native(u))
             \/ rw.conf.labels = "noName" /\ Mounts(u, Native(u))
             \/ rw.p[u].rec /\ rw.conf.labels # "noName" /\ Goes(u, "resolve")
      BY <1>0, <1>10, IdentityDoes
    <2>2. rw.p[u].at \notin Ended BY <2>1 DEF Ended
    <2> QED BY <1>3, <1>4, <1>5, <2>1, <2>2
  <1>11. CASE ResolveRootfsRwLayer(u)
    <2>1. /\ rw.p[u].at = "resolve"
          /\ \/ Fails(u)
             \/ ~HasEntry(u) /\ Mounts(u, Native(u))
             \/ HasEntry(u) /\ Goes(u, "sidecar")
      BY <1>0, <1>11, ResolveDoes
    <2>2. rw.p[u].at \notin Ended BY <2>1 DEF Ended
    <2>3. rw.p[u].rec /\ rw.conf.labels # "noName" BY <2>1 DEF AnnotOf, Stored, Entered
    <2> QED BY <1>3, <1>4, <1>5, <2>1, <2>2, <2>3
  <1>12. CASE LoadSidecarSpec(u)
    <2>1. rw.p[u].at = "sidecar" /\ (Fails(u) \/ Goes(u, "pvc") \/ Goes(u, "sidecar"))
      BY <1>0, <1>12, SpecDoes
    <2>2. rw.p[u].at \notin Ended BY <2>1 DEF Ended
    <2>3. rw.p[u].rec /\ rw.conf.labels # "noName" /\ HasEntry(u)
      BY <2>1 DEF AnnotOf, Stored, Entered
    <2> QED BY <1>3, <1>5, <2>1, <2>2, <2>3
  <1>13. CASE WriteHandoff(u)
    <2>1. /\ rw.p[u].at = "handoff" /\ rw'.p[u].at = "mounts"
          /\ Store({"p", "handoffs"}) /\ PodOnly(u, {"at"})
      BY <1>0, <1>13, HandoffDoes
    <2>2. PodOnly(u, podFields) /\ rw'.conf = rw.conf BY <1>1, <1>2, <2>1
    <2>3. PodOnly(u, podFields \ {"pod", "rec", "call", "upper"}) BY <2>1 DEF PodOnly, podFields
    <2>4. /\ rw.p[u].at \notin Ended /\ rw'.p[u].at \notin Ended
          /\ rw.p[u].at \in HasUpper
          /\ rw'.p[u].at \notin Late \cup {"resolve", "sidecar", "pvc", "handoff"}
      BY <2>1 DEF Ended, Late, HasUpper
    <2>5. AnnotOf(u)' BY <2>2, <2>3, <2>4, AnnotGoes
    <2> QED BY <2>2, <2>5
  <1> QED BY <1>6, <1>7, <1>8, <1>9, <1>10, <1>11, <1>12, <1>13

\* The mounts are returned, or the image is copied for them.
LEMMA AnnotReturns ==
  ASSUME NEW u \in rwPods, AnnotOf(u), rw'.conf = rw.conf,
         PodOnly(u, podFields \ {"pod", "rec", "call", "upper"}),
         rw.p[u].at \in {"mounts", "matCopy"}, Returns(u) \/ rw'.p[u].at = "matCopy"
  PROVE  AnnotOf(u)'
  <1>1. rw.p[u].at \in HasUpper \ Ended BY DEF HasUpper, Ended, Late
  <1>2. rw.p[u].call \in {"prepare", "mounts"} BY <1>1, Zenon DEF AnnotOf, Stored
  <1>3. rw'.p[u].at = "vols" => rw.p[u].rec
    <2>1. rw'.p[u].at = "vols" => rw.p[u].call # "prepare" BY DEF Returns
    <2> QED BY <1>2, <2>1, Zenon DEF AnnotOf, Stored
  <1>4. rw'.p[u].at \in {"prepared", "vols", "matCopy"} BY DEF Returns
  <1>5. /\ rw'.p[u].at \notin Ended \cup {"resolve", "sidecar", "pvc", "handoff"}
        /\ rw'.p[u].at \in Late => rw'.p[u].at = "vols"
    BY <1>4 DEF Ended, Late
  <1> QED BY <1>1, <1>3, <1>5, AnnotGoes

\* Runc-lite and the application leave it alone.
LEMMA AnnotLate ==
  ASSUME NEW u \in rwPods, AnnotOf(u), rw'.conf = rw.conf,
         PodOnly(u, podFields \ {"pod", "rec", "call", "upper"}),
         rw.p[u].at \in Late, rw'.p[u].at \in Late
  PROVE  AnnotOf(u)'
  <1>1. /\ rw.p[u].at \notin Ended /\ rw'.p[u].at \notin Ended /\ rw.p[u].at \in HasUpper
        /\ rw'.p[u].at \notin {"resolve", "sidecar", "pvc", "handoff"}
    BY DEF Ended, Late, HasUpper
  <1>2. rw.p[u].rec BY DEF AnnotOf, Stored
  <1> QED BY <1>1, <1>2, AnnotGoes

LEMMA AnnotBundle ==
  ASSUME rwInv, NEW u \in rwPods, AnnotOf(u),
         \/ PrepareRootfsRwLayer(u)
         \/ materializeActiveSnapshot(u) \/ materializeCopy(u) \/ materializeMark(u)
         \/ initLiteVolumes(u) \/ copyVolume(u) \/ addLiteSpecialMounts(u) \/ copySpecial(u)
         \/ appWrite(u) \/ appErase(u) \/ Stop(u) \/ rwInterrupt(u)
  PROVE  PodOnly(u, podFields) /\ rw'.conf = rw.conf /\ AnnotOf(u)'
  <1> DEFINE Keeps == podFields \ {"pod", "rec", "call", "upper"}
  <1>0. Fields /\ Indexed /\ Bound /\ rw.conf \in rwConfs BY DEF rwInv, Shape
  <1>1. \A F : PodOnly(u, F) => PodOnly(u, podFields) BY Zenon DEF PodOnly
  <1>2. \A F : Store(F) /\ "conf" \notin F => rw'.conf = rw.conf BY DEF Store, rwFields
  <1>3. \A F : PodOnly(u, F) /\ F \cap {"pod", "rec", "call", "upper"} = {} => PodOnly(u, Keeps)
    BY DEF PodOnly
  <1> HIDE DEF Keeps
  <1>4. Fails(u) => PodOnly(u, podFields) /\ rw'.conf = rw.conf /\ AnnotOf(u)'
    BY <1>1, <1>2, AnnotFails DEF Fails
  <1>5. ASSUME rw'.conf = rw.conf, PodOnly(u, Keeps), rw.p[u].at \in Late, rw'.p[u].at \in Late
        PROVE  PodOnly(u, podFields) /\ rw'.conf = rw.conf /\ AnnotOf(u)'
    BY <1>1, <1>5, AnnotLate DEF Keeps
  <1>6. ASSUME rw'.conf = rw.conf, PodOnly(u, Keeps), rw.p[u].at \in {"mounts", "matCopy"},
               Returns(u) \/ rw'.p[u].at = "matCopy"
        PROVE  PodOnly(u, podFields) /\ rw'.conf = rw.conf /\ AnnotOf(u)'
    BY <1>1, <1>6, AnnotReturns DEF Keeps
  <1>7. CASE PrepareRootfsRwLayer(u)
    <2>1. Fails(u) \/ (Store({"p"}) /\ PodOnly(u, {"at", "pvc", "upper"}))
      BY <1>0, <1>7, PrepareDoes, Zenon
    <2>2. AnnotOf(u)' BY <1>0, <1>7, AnnotPrepare
    <2> QED BY <1>1, <1>2, <1>4, <2>1, <2>2
  <1>8. CASE materializeActiveSnapshot(u)
    <2>1. /\ rw.p[u].at = "mounts"
          /\ \/ Store({"p"}) /\ PodOnly(u, {"at"}) /\ Returns(u)
             \/ /\ Store({"p", "raced"}) /\ PodOnly(u, {"at", "dst", "todo"})
                /\ rw'.p[u].at = "matCopy"
      BY <1>0, <1>8, MaterializeDoes, Zenon
    <2> QED BY <1>2, <1>3, <1>6, <2>1
  <1>9. CASE materializeCopy(u)
    <2>1. rw.p[u].at = "matCopy" /\ Store({"p", "files"}) /\ PodOnly(u, {"todo"})
      BY <1>0, <1>9, CopyDoes, Zenon
    <2>2. rw'.p[u].at = "matCopy" BY <2>1 DEF PodOnly, podFields
    <2> QED BY <1>2, <1>3, <1>6, <2>1, <2>2
  <1>10. CASE materializeMark(u)
    <2>1. /\ rw.p[u].at = "matCopy" /\ Store({"p", "markers"}) /\ PodOnly(u, {"at", "dst"})
          /\ Returns(u)
      BY <1>0, <1>10, MarkDoes
    <2> QED BY <1>2, <1>3, <1>6, <2>1
  <1>11. ASSUME NEW l, Begins(u, l), rw.p[u].at \in {"vols", "special"}
         PROVE  PodOnly(u, podFields) /\ rw'.conf = rw.conf /\ AnnotOf(u)'
    <2>1. Store({"p"}) /\ PodOnly(u, {"at", "dst", "todo", "idx"}) BY <1>11 DEF Begins
    <2>2. rw.p[u].at \in Late /\ rw'.p[u].at \in Late BY <1>11 DEF Begins, Late, DirCopying
    <2> QED BY <1>2, <1>3, <1>5, <2>1, <2>2
  <1>12. CASE initLiteVolumes(u)
    <2>1. /\ rw.p[u].at = "vols"
          /\ \/ /\ Store({"p"}) /\ PodOnly(u, {"at", "idx"}) /\ rw'.p[u].at \in {"vols", "special"}
             \/ \E l : Begins(u, l)
      BY <1>0, <1>12, VolumesDoes, Zenon
    <2>2. CASE \E l : Begins(u, l) BY <1>11, <2>1, <2>2
    <2>3. CASE Store({"p"}) /\ PodOnly(u, {"at", "idx"}) /\ rw'.p[u].at \in {"vols", "special"}
      <3>1. rw.p[u].at \in Late /\ rw'.p[u].at \in Late BY <2>1, <2>3 DEF Late
      <3> QED BY <1>2, <1>3, <1>5, <2>3, <3>1
    <2> QED BY <2>1, <2>2, <2>3
  <1>13. CASE addLiteSpecialMounts(u)
    <2>1. /\ rw.p[u].at = "special"
          /\ \/ Fails(u) \/ \E l : Begins(u, l)
             \/ Store({"p"}) /\ PodOnly(u, {"at", "binds"}) /\ rw'.p[u].at = "running"
      BY <1>0, <1>13, SpecialsDoes, Zenon
    <2>2. CASE \E l : Begins(u, l) BY <1>11, <2>1, <2>2
    <2>3. CASE Store({"p"}) /\ PodOnly(u, {"at", "binds"}) /\ rw'.p[u].at = "running"
      <3>1. rw.p[u].at \in Late /\ rw'.p[u].at \in Late BY <2>1, <2>3 DEF Late
      <3> QED BY <1>2, <1>3, <1>5, <2>3, <3>1
    <2> QED BY <1>4, <2>1, <2>2, <2>3
  <1>14. CASE copyVolume(u) \/ copySpecial(u)
    <2>1. PICK back \in {"vols", "special"} : copyDir(u, back)
      BY <1>14, Zenon DEF copyVolume, copySpecial
    <2>2. rw.p[u].at \in Late BY <1>14 DEF copyVolume, copySpecial, rwAt, Late
    <2>3. \/ Fails(u)
          \/ Store({"p"}) /\ PodOnly(u, {"at", "idx", "dst"}) /\ rw'.p[u].at = back
          \/ Store({"p", "files"}) /\ PodOnly(u, {"todo"})
      BY <1>0, <2>1, DirDoes, Zenon
    <2>4. CASE Store({"p"}) /\ PodOnly(u, {"at", "idx", "dst"}) /\ rw'.p[u].at = back
      <3>1. rw'.p[u].at \in Late BY <2>4 DEF Late
      <3> QED BY <1>2, <1>3, <1>5, <2>2, <2>4, <3>1
    <2>5. CASE Store({"p", "files"}) /\ PodOnly(u, {"todo"})
      <3>1. rw'.p[u].at \in Late BY <2>2, <2>5 DEF PodOnly, podFields
      <3> QED BY <1>2, <1>3, <1>5, <2>2, <2>5, <3>1
    <2> QED BY <1>4, <2>3, <2>4, <2>5
  <1>15. CASE appWrite(u) \/ appErase(u)
    <2>1. rw.p[u].at = "running" /\ Store({"files"})
      BY <1>0, <1>15, WriteDoes, EraseDoes, Zenon
    <2>2. rw'.p = rw.p /\ rw'.conf = rw.conf BY <2>1 DEF Store, rwFields
    <2>3. PodOnly(u, {}) BY <1>0, <2>2, Zenon DEF PodOnly, Fields
    <2>4. rw.p[u].at \in Late /\ rw'.p[u].at \in Late BY <2>1, <2>2 DEF Late
    <2> QED BY <1>3, <1>5, <2>2, <2>3, <2>4
  <1>16. CASE Stop(u)
    <2>1. Fails(u) BY <1>0, <1>16, FailedDoes DEF Stop, Fails
    <2> QED BY <1>4, <2>1
  <1>17. CASE rwInterrupt(u)
    <2>1. /\ PodOnly(u, Start) /\ rw'.p[u].at = "idle" /\ ~rw'.p[u].rec /\ rw'.p[u].call = "none"
          /\ Store({"p", "handoffs", "faults"}) \/ Store({"p", "handoffs", "faults", "files", "cut"})
      BY <1>0, <1>17, InterruptDoes, Zenon
    <2>2. PodOnly(u, podFields) /\ rw'.conf = rw.conf BY <1>1, <1>2, <2>1
    <2> QED BY <2>1, <2>2, AnnotFails
  <1> QED BY <1>7, <1>8, <1>9, <1>10, <1>12, <1>13, <1>14, <1>15, <1>16, <1>17

LEMMA AnnotInvStep == rwInv /\ AnnotInv /\ [rwNext]_rw => AnnotInv'
  <1> SUFFICES ASSUME rwInv, AnnotInv, [rwNext]_rw PROVE AnnotInv' OBVIOUS
  <1>1. CASE rw' = rw
    BY <1>1, Zenon DEF AnnotInv, AnnotOf, AsReviewed, Stored, Entered, HasEntry, EntryUpper
  <1>2. CASE rwNext
    <2>1. PICK u \in rwPods :
            \/ Admit(u) \/ StartSidecar(u) \/ CreateContainer(u) \/ StartContainer(u)
            \/ ResolveIdentity(u) \/ ResolveRootfsRwLayer(u) \/ LoadSidecarSpec(u)
            \/ PrepareRootfsRwLayer(u) \/ WriteHandoff(u)
            \/ materializeActiveSnapshot(u) \/ materializeCopy(u) \/ materializeMark(u)
            \/ initLiteVolumes(u) \/ copyVolume(u) \/ addLiteSpecialMounts(u) \/ copySpecial(u)
            \/ appWrite(u) \/ appErase(u) \/ Stop(u) \/ rwInterrupt(u)
      BY <1>2, Zenon DEF rwNext
    <2>2. AnnotOf(u) BY DEF AnnotInv
    <2>3. PodOnly(u, podFields) /\ rw'.conf = rw.conf /\ AnnotOf(u)'
      BY <2>1, <2>2, AnnotHook, AnnotBundle
    <2> QED BY <2>3, AnnotStep
  <1> QED BY <1>1, <1>2

\* A container runs on the directory that its entry of the annotation names,
\* which is the same for every Pod of the template and outlives a restart or a
\* replacement of the Pod, and on its native snapshot only if it has no entry:
\* a sidecar that is missing, late or restarted fails the start and never
\* leads to another directory.
THEOREM LayerNamed == rwSpec => []UpperAsAnnotated
  <1>1. AnnotInv => UpperAsAnnotated
    <2> SUFFICES ASSUME AnnotInv, NEW u \in rwPods, rw.p[u].at = "running"
                 PROVE  LET es == EntriesFor(rw.p[u].pod, rw.conf.name) IN
                        rw.p[u].upper = IF es = <<>> \/ rw.conf.name = SidecarContainerName
                                        THEN Native(u)
                                        ELSE <<"upper">> \o EntryDir(rw.p[u].pod, es[1])
      BY Zenon DEF UpperAsAnnotated
    <2>1. AnnotOf(u) BY DEF AnnotInv
    <2>2. rw.p[u].at \in Late /\ rw.p[u].at \in HasUpper BY DEF Late, HasUpper
    <2>3. rw.p[u].upper = EntryUpper(u) BY <2>1, <2>2, Zenon DEF AnnotOf, Stored, Entered
    <2>4. /\ EntriesFor(rw.conf.pod, rw.conf.name) = EntriesFor(rw.p[u].pod, rw.conf.name)
          /\ rw.p[u].pod.volumes = rw.conf.pod.volumes
      BY <2>1, Zenon DEF AnnotOf, AsReviewed, EntriesFor
    <2>5. ASSUME NEW a, NEW b PROVE <<"upper">> \o <<a, b>> = <<"upper", a, b>>
      <3> DEFINE S == {"upper", a, b}
                 s == <<"upper">> \o <<a, b>>
                 t == <<"upper", a, b>>
      <3>1. <<"upper">> \in Seq(S) /\ <<a, b>> \in Seq(S) /\ t \in Seq(S) /\ Len(t) = 3 BY SMT
      <3>2. s \in Seq(S) BY <3>1, SMT
      <3>3. Len(s) = 3 BY <3>1, SMT
      <3>4. s[1] = "upper" /\ s[2] = a /\ s[3] = b BY <3>1, SMT
      <3>5. t[1] = "upper" /\ t[2] = a /\ t[3] = b BY SMT
      <3> HIDE DEF s, t, S
      <3>6. \A i \in 1 .. 3 : s[i] = t[i] BY <3>4, <3>5
      <3>7. s = t BY <3>1, <3>2, <3>3, <3>6, SeqsEqual
      <3> QED BY <3>7 DEF s, t
    <2> DEFINE es == EntriesFor(rw.p[u].pod, rw.conf.name)
               dir == <<"upper", rw.p[u].pod.volumes[es[1].vol], CleanPath(es[1].path)>>
    <2>6. rw.p[u].upper = IF es = <<>> \/ rw.conf.name = SidecarContainerName THEN Native(u) ELSE dir
      BY <2>3, <2>4, Zenon DEF EntryUpper
    <2>7. dir = <<"upper">> \o EntryDir(rw.p[u].pod, es[1]) BY <2>5, Zenon DEF EntryDir
    <2> QED BY <2>6, <2>7, Zenon
  <1> QED BY rwInductive, AnnotInit, AnnotInvStep, <1>1, PTL DEF rwSpec
=============================================================================
