------------------------------ MODULE RootfsHook ----------------------------
(***************************************************************************)
(* The rootfs hook of sysbox-snapshotter (rootfs/*.go, fuseoverlayfs.go):   *)
(* from the key of a snapshot to the container, from there to its entry of  *)
(* the annotation, to the sidecar's mount of the volume and to the upper    *)
(* and work directories on it; and, inside a Sysbox user namespace, the     *)
(* copy of the merged view into that upper directory.                       *)
(*                                                                          *)
(* Two Pods of one template share its claims.  rw.p[u] is the container of  *)
(* Pod u that is followed: `at' is where its start stands, `call' the       *)
(* snapshotter call in progress.  rw.files are the files of the persistent  *)
(* directories and of the native snapshots: every image directory holds a   *)
(* directory "d" and in it a file "f".  A file's body is that of the image, *)
(* what the application wrote, "part" of the image's, or "void".            *)
(***************************************************************************)
EXTENDS RwLayerAdmission

CONSTANTS rwConfs,  \* the templates to consider: see rwInit
          rwTries,  \* look-ups of the sidecar before giving up (20)
          rwFaults  \* bound: failing calls, killed daemons

VARIABLE rw

rwPods == {"u1", "u2"}
ImageFiles == <<"d", "f">>
rwOff == [pc |-> "off"]
rwOn == rw.pc = "on"
rwAt(u, l) == rwOn /\ rw.p[u].at = l
rwBody(fs, loc, f) == LET x == {y \in fs : y.loc = loc /\ y.f = f}
                      IN IF x = {} THEN "none" ELSE (CHOOSE y \in x : TRUE).body
rwPut(fs, loc, f, body) ==
  {y \in fs : ~(y.loc = loc /\ y.f = f)} \cup {[loc |-> loc, f |-> f, body |-> body]}
rwCopying(loc) == {u \in rwPods : rw.p[u].at \in {"matCopy", "volCopy", "specialCopy"}
                                  /\ rw.p[u].dst = loc}

\* A start that fails leaves everything it has written where it is; kubelet
\* makes another container for the next one.  The record of the failed one is
\* removed with its snapshot, and with that its handoff.
removeHandoff(hs, id) == {h \in hs : h.id # id}
rwFailed(u) == [rw EXCEPT !.p[u] = [@ EXCEPT !.at = "idle", !.rec = FALSE, !.call = "none",
                            !.tries = 0, !.pvc = <<>>, !.upper = <<>>, !.dst = <<>>,
                            !.todo = <<>>, !.idx = 1, !.binds = <<>>],
                          !.handoffs = removeHandoff(@, <<u, rw.p[u].start>>)]
rwError(u) == rw' = rwFailed(u)
rwTo(u, l) == rw' = [rw EXCEPT !.p[u].at = l]

Native(u) == <<"native", u>>
\* the hook's mounts: the upper directory and the marker's directory (workdir)
rwMounts(u, upper) == [rw EXCEPT !.p[u].upper = upper, !.p[u].at = "mounts"]

----------------------------------------------------------------------------
(* Who the snapshot is for.                                                 *)

\* The key of containerd's metadata store ends in the container's id, which is
\* looked up when the key itself is not found.  Prepare comes before containerd
\* has stored the container: its mounts are the native ones.
ResolveIdentity(u) ==
  LET c == rw.p[u] IN
  /\ rwAt(u, "hook")
  /\ CASE ~c.rec -> rw' = rwMounts(u, Native(u))
       [] c.rec /\ rw.conf.labels = "noUid" -> rwError(u)
       [] c.rec /\ rw.conf.labels = "noName" -> rw' = rwMounts(u, Native(u))
       [] OTHER -> rwTo(u, "resolve")

safeLayerPath(p) == ~p.abs /\ \A i \in DOMAIN CleanPath(p) : CleanPath(p)[i] # ".."

EntriesFor(pod, name) == SelectSeq(pod.annot.entries, LAMBDA e : e.name = name)

\* The entry of the container; the sidecar itself never has a layer.
ResolveRootfsRwLayer(u) ==
  LET pod  == rw.p[u].pod
      mine == EntriesFor(pod, rw.conf.name)
  IN /\ rwAt(u, "resolve")
     /\ CASE pod.annot.kind \in {"absent", "empty"} -> rw' = rwMounts(u, Native(u))
          [] pod.annot.kind = "malformed" -> rwError(u)
          [] OTHER ->
               IF rw.conf.name = SidecarContainerName \/ mine = <<>>
               THEN rw' = rwMounts(u, Native(u))
               ELSE IF ~safeLayerPath(mine[1].path) THEN rwError(u)
               ELSE rw' = [rw EXCEPT !.p[u].at = "sidecar", !.p[u].tries = 0]

\* mutant of LoadSidecarSpec: a sidecar that cannot be found counts as no configuration
LoadSidecarSpecOpen(u) ==
  LET c == rw.p[u] IN
  /\ rwAt(u, "sidecar")
  /\ CASE c.side = 1 -> rwTo(u, "pvc")
       [] c.side > 1 -> rwError(u)
       [] c.side = 0 -> IF c.tries + 1 >= rwTries THEN rw' = rwMounts(u, Native(u))
                        ELSE rw' = [rw EXCEPT !.p[u].tries = @ + 1]

\* The sidecar's record may lag behind; only that is waited for.  A sidecar that
\* was restarted has two records, which is an error.
LoadSidecarSpec(u) ==
  LET c == rw.p[u] IN
  /\ rwAt(u, "sidecar")
  /\ CASE c.side = 1 -> rwTo(u, "pvc")
       [] c.side > 1 -> rwError(u)
       [] c.side = 0 -> IF c.tries + 1 >= rwTries THEN rwError(u)
                        ELSE rw' = [rw EXCEPT !.p[u].tries = @ + 1]

----------------------------------------------------------------------------
(* Where the layer is.                                                      *)

\* the source kubelet gives a mount of the Pod, and where it leads (external):
\* in a Sysbox container it is bound from below /rootfs/special of the host
KubeletPath(u, vol) == <<"kubelet", u, vol>>
mountinfoRoot(u, vol) == IF rw.conf.l1 THEN <<"rootfs", "special", rw.p[u].pod.volumes[vol]>>
                         ELSE <<"disk", rw.p[u].pod.volumes[vol]>>
\* the directory of a path: what another Pod finds there again
rwBacking(u, vol, path) == IF rw.conf.l1 /\ path = KubeletPath(u, vol) THEN path
                           ELSE rw.p[u].pod.volumes[vol]

\* the bind source without Sysbox's prefix, which is the same for every Pod
stablePVCMountPath(source, root) ==
  IF Len(root) > 2 /\ SubSeq(root, 1, 2) = <<"rootfs", "special">>
  THEN SubSeq(root, 3, Len(root)) ELSE source

sidecarMounts(u) ==
  LET cs == SelectSeq(rw.p[u].pod.containers, LAMBDA c : c.name = SidecarContainerName)
  IN IF cs = <<>> THEN <<>> ELSE cs[1].mounts

\* the source of the sidecar's mount of the volume, <<>> if it has none
ResolvePVCMountPath(u, e) ==
  LET ms == SelectSeq(sidecarMounts(u), LAMBDA m : m.at = <<"rootfs-rw-volume", e.vol>>)
  IN IF e.vol = "" \/ ms = <<>> THEN <<>>
     ELSE stablePVCMountPath(KubeletPath(u, e.vol), mountinfoRoot(u, e.vol))

LayerDir(u, e, path, sub) == <<sub, rwBacking(u, e.vol, path), CleanPath(e.path)>>
rejectSymlink == rw.conf.layer = "symlink"
rewriteFuseOverlayMounts(u, s, upper) == [s EXCEPT !.p[u].upper = upper]

\* No symbolic link on the way to the layer; upper and work are directories or
\* are made.
PrepareRootfsRwLayer(u) ==
  LET e    == EntriesFor(rw.p[u].pod, rw.conf.name)[1]
      path == ResolvePVCMountPath(u, e)
      to   == [rw EXCEPT !.p[u].pvc = path,
                         !.p[u].at = IF e.persist THEN "handoff" ELSE "mounts"]
  IN /\ rwAt(u, "pvc")
     /\ IF path = <<>> \/ rejectSymlink \/ rw.conf.layer = "file" THEN rwError(u)
        ELSE rw' = rewriteFuseOverlayMounts(u, to, LayerDir(u, e, path, "upper"))

\* The handoff for runc-lite, renamed into place under the id of the container.
WriteHandoff(u) ==
  LET e == EntriesFor(rw.p[u].pod, rw.conf.name)[1]
      h == [id |-> <<u, rw.p[u].start>>, uid |-> u, name |-> rw.conf.name, vol |-> e.vol,
            path |-> rw.p[u].pvc]
  IN /\ rwAt(u, "handoff")
     /\ rw' = [rw EXCEPT !.p[u].at = "mounts",
                         !.handoffs = removeHandoff(@, h.id) \cup {h}]

----------------------------------------------------------------------------
(* The mounts that are returned.                                            *)

\* the end of Prepare or Mounts: containerd stores the container after Prepare
\* and asks for the mounts again to start it
rwReturn(u) == IF rw.p[u].call = "prepare" THEN "prepared" ELSE "vols"

\* mutant of materializeActiveSnapshot: the marker is written before the copy
materializeMarksFirst(u) ==
  LET c == rw.p[u] IN
  /\ rwAt(u, "mounts")
  /\ IF ~rw.conf.nested \/ c.upper \in rw.markers THEN rwTo(u, rwReturn(u))
     ELSE rw' = [rw EXCEPT !.p[u].at = "matCopy", !.p[u].dst = c.upper, !.p[u].todo = ImageFiles,
                           !.markers = @ \cup {c.upper}]

\* In a nested user namespace the lower layers are copied into the upper
\* directory, once: a marker in the work directory says that it was done.
materializeActiveSnapshot(u) ==
  LET c == rw.p[u] IN
  /\ rwAt(u, "mounts")
  /\ IF ~rw.conf.nested \/ c.upper \in rw.markers THEN rwTo(u, rwReturn(u))
     ELSE rw' = [rw EXCEPT !.p[u].at = "matCopy", !.p[u].dst = c.upper, !.p[u].todo = ImageFiles,
                           !.raced = @ \cup {l \in {c.upper} : rwCopying(l) # {}}]

\* fs.CopyDir from the merged view (external).  Where the upper directory has
\* the file already it is copied onto itself, which may empty it.
materializeCopy(u) ==
  LET c == rw.p[u]
      f == c.todo[1]
      old == rwBody(rw.files, c.dst, f)
  IN /\ rwAt(u, "matCopy") /\ c.todo # <<>>
     /\ \E body \in IF old = "none" THEN {"image"} ELSE {old} \cup {x \in {"void"} : f = "f"} :
          rw' = [rw EXCEPT !.p[u].todo = Tail(@), !.files = rwPut(@, c.dst, f, body)]

materializeMark(u) ==
  /\ rwAt(u, "matCopy") /\ rw.p[u].todo = <<>>
  /\ rw' = [rw EXCEPT !.p[u].at = rwReturn(u), !.p[u].dst = <<>>,
                      !.markers = @ \cup {rw.p[u].upper}]
=============================================================================
