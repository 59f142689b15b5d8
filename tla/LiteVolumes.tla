----------------------------- MODULE LiteVolumes ----------------------------
(***************************************************************************)
(* What runc-lite does to a bundle before the container is made (lite.go):  *)
(* an empty claim that is mounted over a directory of the image receives    *)
(* the contents of that directory, and a container with persistent special  *)
(* mounts gets a bind for each of them from the layer the handoff names.    *)
(*                                                                          *)
(* A mount of the spec is [type, ro, source, dest, loc]: the source is a    *)
(* sequence of names below kubelet's pods directory, `loc' is where it      *)
(* leads (rw.conf.image says what the image has at a destination).          *)
(***************************************************************************)
EXTENDS RootfsHook

\* filepath.Rel of two clean absolute paths
RelTo(root, path) ==
  LET Same(n) == n <= Len(root) /\ n <= Len(path) /\ SubSeq(root, 1, n) = SubSeq(path, 1, n)
      n == CHOOSE k \in 0 .. Len(root) : Same(k) /\ ~Same(k + 1)
      rel == [i \in 1 .. Len(root) - n |-> ".."] \o SubSeq(path, n + 1, Len(path))
  IN IF rel = <<>> THEN <<".">> ELSE rel

volumeRoots(uid) == {<<uid, "volumes", "kubernetes.io~csi">>,
                     <<uid, "volumes", "kubernetes.io~local-volume">>}

\* Only kubelet's paths of claims of this Pod: all CSI drivers and local-path,
\* directly or through a subPath of this container.
detectLitePVCSource(source, uid, name) ==
  LET Direct(rel) == Len(rel) = 1 \/ (Len(rel) = 2 /\ rel[2] = "mount")
      sub == RelTo(<<uid, "volume-subpaths">>, source)
  IN \/ \E r \in volumeRoots(uid) : Direct(RelTo(r, source))
     \/ /\ Len(sub) = 3
        /\ \/ sub[2] = name
           \/ sub[2] \in rw.conf.namePrefixes  \* name starts with sub[2] and "-"
        /\ \/ sub[1] \in rw.conf.pvcNames      \* starts with "pvc-"
           \/ \E r \in volumeRoots(uid) : Append(r, sub[1]) \in rw.conf.kubeletDirs

\* "lost+found" does not count
dirEmpty(loc) == \A y \in rw.files : y.loc = loc => y.f = "lost+found"

liteSpec(u) == IF rw.conf.name = "" THEN <<>> ELSE rw.conf.mounts[u]

\* Whether the i-th mount is filled from the image.  A failure to look at the
\* source or at the directory skips the mount, a failure to look at the image
\* fails the start (rwInterrupt).
initialises(u, m) ==
  /\ m.type = "bind" /\ ~m.ro
  /\ detectLitePVCSource(m.source, u, rw.conf.name)
  /\ m.dir /\ dirEmpty(m.loc)
  /\ CleanPath(AbsPath(m.dest)) # <<>>
  /\ m.dest \in rw.conf.image

initLiteVolumes(u) ==
  LET i  == rw.p[u].idx
      ms == liteSpec(u)
  IN /\ rwAt(u, "vols")
     /\ IF i > Len(ms) THEN rw' = [rw EXCEPT !.p[u].at = "special", !.p[u].idx = 1]
        ELSE IF ~initialises(u, ms[i]) THEN rw' = [rw EXCEPT !.p[u].idx = @ + 1]
        ELSE rw' = [rw EXCEPT !.p[u].at = "volCopy", !.p[u].dst = ms[i].loc,
                              !.p[u].todo = ImageFiles]

\* mutant of copyEntry: a file that exists is truncated
copyEntryTruncates(loc, f) == f = "f" => rwBody(rw.files, loc, "d") # "none"

\* One entry of filepath.Walk: a directory may exist, a file may not (O_EXCL),
\* and it needs its directory.
copyEntry(loc, f) ==
  CASE f = "d" -> TRUE
    [] f = "f" -> /\ rwBody(rw.files, loc, "d") # "none"
                  /\ rwBody(rw.files, loc, "f") = "none"
copyDir(u, back) ==
  LET c == rw.p[u] IN
  IF c.todo = <<>> THEN
    rw' = [rw EXCEPT !.p[u].at = back, !.p[u].idx = @ + 1, !.p[u].dst = <<>>]
  ELSE IF ~copyEntry(c.dst, c.todo[1]) THEN rwError(u)
  ELSE rw' = [rw EXCEPT !.p[u].todo = Tail(@),
                        !.files = IF c.todo[1] = "d" /\ rwBody(@, c.dst, "d") # "none" THEN @
                                  ELSE rwPut(@, c.dst, c.todo[1], "image")]
copyVolume(u) == rwAt(u, "volCopy") /\ copyDir(u, "vols")
copySpecial(u) == rwAt(u, "specialCopy") /\ copyDir(u, "special")

----------------------------------------------------------------------------
(* The special mounts.                                                      *)

liteSpecialPaths(e) ==
  <<VarLib(<<"docker">>), VarLib(<<"kubelet">>), VarLib(<<"rancher", "k3s">>),
    VarLib(<<"rancher", "rke2">>), VarLib(<<"buildkit">>), ContainerdOverlay>>
  \o [i \in DOMAIN e.special |-> CleanPath(e.special[i])]

\* the binds of one container, in order: an entry of its name with the switch
\* has one for each of its special paths
liteSpecials(u) ==
  LET es == SelectSeq(EntriesFor(rw.p[u].pod, rw.conf.name), LAMBDA e : e.persist)
      Binds(e) == [i \in DOMAIN liteSpecialPaths(e) |-> [e |-> e, dest |-> liteSpecialPaths(e)[i]]]
      upTo[i \in 0 .. Len(es)] == IF i = 0 THEN <<>> ELSE upTo[i - 1] \o Binds(es[i])
  IN upTo[Len(es)]

loadLiteHandoff(id) == {h \in rw.handoffs : h.id = id}
handoffMatches(h, u, e) ==
  h.name = rw.conf.name /\ h.vol = e.vol /\ h.id = <<u, rw.p[u].start>>

\* The source of a bind is made if it is missing and filled if it is empty and
\* the image has the directory.  Destinations the image lacks need no copy and
\* are taken together with the next one it has.
addLiteSpecialMounts(u) ==
  LET c  == rw.p[u]
      bs == liteSpecials(u)
      hs == loadLiteHandoff(<<u, c.start>>)
      h  == CHOOSE x \in hs : TRUE
      Root(e) == LayerDir(u, e, h.path, "special")
      Bind(b) == [source |-> Append(Root(b.e), b.dest), dest |-> b.dest]
      Wrong(i) == ~handoffMatches(h, u, bs[i].e)
      due == {i \in c.idx .. Len(bs) : \/ Wrong(i)
                                       \/ /\ bs[i].dest \in rw.conf.image
                                          /\ dirEmpty(Bind(bs[i]).source)}
      next == IF due = {} THEN Len(bs) + 1 ELSE CHOOSE i \in due : \A j \in due : i <= j
      Made(n) == [i \in 1 .. n |-> Bind(bs[i])]
  IN /\ rwAt(u, "special")
     /\ IF c.pod.annot.kind = "malformed" THEN rwError(u)
        ELSE IF bs = <<>> THEN rwTo(u, "running")
        ELSE IF hs = {} THEN rwError(u)
        ELSE IF next <= Len(bs) /\ Wrong(next) THEN rwError(u)
        ELSE IF next > Len(bs)
             THEN rw' = [rw EXCEPT !.p[u].at = "running", !.p[u].binds = Made(Len(bs))]
        ELSE rw' = [rw EXCEPT !.p[u].at = "specialCopy", !.p[u].idx = next,
                              !.p[u].dst = Bind(bs[next]).source, !.p[u].todo = ImageFiles]
=============================================================================
