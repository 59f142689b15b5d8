------------------------------- MODULE RwLayer ------------------------------
(***************************************************************************)
(* A persistent root file system from end to end: the admission of a Pod,   *)
(* the snapshotter's hook, runc-lite's preparation of the bundle, and the   *)
(* calls of kubelet and containerd that connect them.  The second Pod is    *)
(* the replacement of the first, on the same claims; nothing keeps a        *)
(* rolling update from starting it before the first has stopped.            *)
(***************************************************************************)
EXTENDS LiteVolumes

\* A Pod's own volumes are neither native snapshots nor the upper directories of
\* layers.  Those are empty at first, and a volume is empty or was used before.
\* Without an annotation, or without the label that holds its name, a container
\* has no entry.
ASSUME rwAssumption ==
  \A c \in rwConfs :
    /\ \A u \in rwPods :
         /\ Len(c.mounts[u]) \in Nat /\ DOMAIN c.mounts[u] = 1 .. Len(c.mounts[u])
         /\ \A i \in DOMAIN c.mounts[u] : c.mounts[u][i].loc[1] \notin {"native", "upper"}
    /\ \A y \in c.files :
         /\ y.loc[1] \notin {"native", "upper"} /\ y.body = "app"
         /\ \/ y.f = "lost+found"
            \/ /\ y.f \in {"d", "f"}
               /\ \A f \in {"d", "f"} : [loc |-> y.loc, f |-> f, body |-> "app"] \in c.files
    /\ {"annot", "containers", "volumes", "volumeInit"} \subseteq DOMAIN c.pod
    /\ c.pod.annot.kind \in {"absent", "empty"} \/ c.labels = "noName" =>
         EntriesFor(c.pod, c.name) = <<>>

\* what kubelet and containerd do is modelled from how the code relies on it
rwInit == \E c \in rwConfs :
  rw = [pc |-> "on", conf |-> c, files |-> c.files, markers |-> {}, handoffs |-> {},
        cut |-> {}, raced |-> {}, faults |-> 0,
        p |-> [u \in rwPods |->
                [at |-> IF c.static \/ c.starts[u] = 0 THEN "idle" ELSE "new", pod |-> c.pod, reviews |-> 0,
                 side |-> 0, rec |-> FALSE, start |-> 0, call |-> "none", tries |-> 0,
                 pvc |-> <<>>, upper |-> <<>>, dst |-> <<>>, todo |-> <<>>, idx |-> 1,
                 binds |-> <<>>]]]

\* The API server sends the Pod for review and applies the patch.  It may do so
\* again after another webhook has added a container (reinvocationPolicy).
Admit(u) ==
  /\ rwAt(u, "new")
  /\ \E expired \in BOOLEAN :
       LET r == ServeHTTP(rw.conf.request, rw.p[u].pod, expired)
           pod == applyPatch(rw.p[u].pod, r.patch)
       IN /\ expired => rw.faults < rwFaults
          /\ IF ~r.allowed
             THEN rw' = [rw EXCEPT !.p[u].at = "rejected",
                                   !.faults = IF expired THEN @ + 1 ELSE @]
             ELSE \/ rw' = [rw EXCEPT !.p[u].pod = pod, !.p[u].at = "idle"]
                  \/ /\ rw.conf.reinvoke /\ rw.p[u].reviews = 0
                     /\ rw' = [rw EXCEPT !.p[u].reviews = 1,
                          !.p[u].pod = [pod EXCEPT !.containers =
                             Append(@, [name |-> "mesh", mounts |-> <<>>])]]

\* kubelet starts the sidecar beside the application; a restart leaves the
\* record of the container that ended
StartSidecar(u) ==
  /\ rwOn /\ rw.p[u].at \notin {"new", "rejected"}
  /\ sidecarMounts(u) # <<>> /\ rw.p[u].side < 2 /\ rw.conf.starts[u] > 0
  /\ rw.p[u].side = 1 => rw.conf.restarts
  /\ rw' = [rw EXCEPT !.p[u].side = @ + 1]

\* Prepare for a new container; its native snapshot is empty
CreateContainer(u) ==
  /\ rwAt(u, "idle") /\ rw.p[u].start < rw.conf.starts[u]
  /\ rw.conf.sideFirst => rw.p[u].side > 0
  /\ rw' = [rw EXCEPT !.p[u].at = "hook", !.p[u].call = "prepare", !.p[u].start = @ + 1,
                      !.files = {y \in @ : y.loc # Native(u)}, !.markers = @ \ {Native(u)},
                      !.cut = @ \ {Native(u)}]

\* the container is stored and its task made: Mounts
StartContainer(u) ==
  /\ rwAt(u, "prepared")
  /\ rw' = [rw EXCEPT !.p[u].at = "hook", !.p[u].call = "mounts", !.p[u].rec = TRUE]

\* where the application writes: the directories that a start copies to as well
rwDirs(u) ==
  {rw.p[u].upper : x \in {y \in {1} : rw.conf.nested}}
  \cup {b.source : b \in {rw.p[u].binds[i] : i \in {j \in DOMAIN rw.p[u].binds :
                                               rw.p[u].binds[j].dest \in rw.conf.image}}}
  \cup {liteSpec(u)[i].loc : i \in {j \in DOMAIN liteSpec(u) :
                              ~liteSpec(u)[j].ro /\ liteSpec(u)[j].dest \in rw.conf.image}}

appWrite(u) ==
  /\ rwAt(u, "running")
  /\ \E l \in rwDirs(u) :
       LET d == IF rwBody(rw.files, l, "d") = "none" THEN rwPut(rw.files, l, "d", "app")
                ELSE rw.files
       IN rw' = [rw EXCEPT !.files = rwPut(d, l, "f", "app")]
appErase(u) ==
  /\ rwAt(u, "running") /\ rw.conf.erase
  /\ \E l \in rwDirs(u) \ {rw.p[u].upper} :
       /\ ~dirEmpty(l)
       /\ rw' = [rw EXCEPT !.files = {y \in @ : y.loc # l \/ y.f = "lost+found"}]

\* the container ends and is removed
Stop(u) == rwAt(u, "running") /\ rwError(u)

\* A call fails, or the daemon or runc is killed: the start ends where it is.
\* An entry that is being copied may be left incomplete.
rwInterrupt(u) ==
  LET c == rw.p[u]
      half == rwPut(rw.files, c.dst, "f", "part")
  IN /\ rwOn /\ c.at \notin {"new", "rejected", "idle", "running"} /\ rw.faults < rwFaults
     /\ IF c.at \in {"matCopy", "volCopy", "specialCopy"}
        THEN \E fs \in {rw.files} \cup
                 {x \in {half} : /\ c.todo # <<>> /\ c.todo[1] = "f"
                                 /\ \/ c.at = "matCopy" \/ copyEntry(c.dst, "f")} :
               rw' = [rwFailed(u) EXCEPT !.files = fs, !.cut = @ \cup {c.dst},
                                         !.faults = @ + 1]
        ELSE rw' = [rwFailed(u) EXCEPT !.faults = @ + 1]

rwNext == \E u \in rwPods :
  \/ Admit(u) \/ StartSidecar(u) \/ CreateContainer(u) \/ StartContainer(u)
  \/ ResolveIdentity(u) \/ ResolveRootfsRwLayer(u) \/ LoadSidecarSpec(u)
  \/ PrepareRootfsRwLayer(u) \/ WriteHandoff(u)
  \/ materializeActiveSnapshot(u) \/ materializeCopy(u) \/ materializeMark(u)
  \/ initLiteVolumes(u) \/ copyVolume(u) \/ addLiteSpecialMounts(u) \/ copySpecial(u)
  \/ appWrite(u) \/ appErase(u) \/ Stop(u) \/ rwInterrupt(u)

rwSpec == rwInit /\ [][rwNext]_rw

----------------------------------------------------------------------------
(* Properties.                                                              *)

\* the directory of a volume that an entry names
EntryDir(pod, e) == <<pod.volumes[e.vol], CleanPath(e.path)>>

\* A container that an entry of the annotation names never runs on anything but
\* the directory the entry names, the same for every Pod of the template; a
\* container without an entry runs on its own snapshot (ResolveRootfsRwLayer,
\* stablePVCMountPath; sysbox-snapshotter/README.md: "fails closed for that
\* rootfs rw-layer request").
UpperAsAnnotated ==
  rw.pc = "on" => \A u \in {x \in rwPods : rw.p[x].at = "running"} :
    LET es == EntriesFor(rw.p[u].pod, rw.conf.name) IN
    rw.p[u].upper = IF es = <<>> \/ rw.conf.name = SidecarContainerName THEN Native(u)
                    ELSE <<"upper">> \o EntryDir(rw.p[u].pod, es[1])

\* So do its special mounts, which are there exactly if the entry asks for them
\* (the handoff).  What admission let through has one sidecar, and its special
\* mounts do not cover one another.
LayerAsAnnotated ==
  /\ UpperAsAnnotated
  /\ rw.pc = "on" => \A u \in {x \in rwPods : rw.p[x].at = "running"} :
    LET c  == rw.p[u]
        es == EntriesFor(c.pod, rw.conf.name)
        dests == [i \in DOMAIN c.binds |-> c.binds[i].dest]
    IN /\ IF es = <<>> \/ rw.conf.name = SidecarContainerName THEN c.binds = <<>>
          ELSE /\ (c.binds # <<>>) = es[1].persist
               /\ \A i \in DOMAIN c.binds : c.binds[i].source =
                    <<"special">> \o EntryDir(c.pod, es[1]) \o <<c.binds[i].dest>>
               /\ \A i \in DOMAIN es[1].special :
                    CleanPath(es[1].special[i]) \in {dests[j] : j \in DOMAIN dests}
       /\ ~rw.conf.static =>
            /\ c.pod.annot.kind = "entries" =>
                 Cardinality({i \in DOMAIN c.pod.containers :
                                c.pod.containers[i].name = SidecarContainerName}) = 1
            /\ \A i, j \in DOMAIN dests : i # j => ~pathsOverlap(dests[i], dests[j])

\* What an application has written to a persistent directory is changed by an
\* application only: no later start, and no start of another Pod beside it,
\* copies the image over it (the marker of materializeActiveSnapshot, dirEmpty,
\* O_EXCL in copyDir).  Left out are layers that two starts were copying into
\* at the same time.
DataKept ==
  [][rw.pc = "on" =>
      \A y \in rw.files : /\ y.f = "f" /\ y.body = "app" /\ y.loc[1] # "native"
                          /\ y.loc \notin rw'.raced
        => \/ y \in rw'.files
           \/ \E u \in rwPods : rw.p[u].at = "running" /\ y.loc \in rwDirs(u)
                                /\ rw'.p = rw.p]_rw

\* A container does not run on a root file system that another start is still
\* copying, and a directory that is filled from the image holds all of it once
\* nobody copies into it, unless a copy was cut short (the marker is written
\* last; what dirEmpty decides).
InitialisedWhole ==
  rw.pc = "on" =>
    LET Whole(l) == /\ rwBody(rw.files, l, "d") # "none"
                    /\ rwBody(rw.files, l, "f") \in {"image", "app"}
    IN /\ \A u \in rwPods :
            rw.p[u].at = "running" /\ rw.conf.nested
              /\ rw.p[u].upper \notin rw.cut \cup rw.raced => Whole(rw.p[u].upper)
       /\ \A l \in {y.loc : y \in rw.files} :
            l[1] \in {"vol", "special"} /\ rwCopying(l) = {} /\ l \notin rw.cut
              => Whole(l) \/ dirEmpty(l)
=============================================================================
