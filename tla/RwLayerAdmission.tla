--------------------------- MODULE RwLayerAdmission -------------------------
(***************************************************************************)
(* What sysbox-admission makes of a Pod (mutate.go, sidecar.go, patch.go,   *)
(* server.go): it validates the annotation sysbox/rootfs-rw-layer and adds  *)
(* the sidecar whose mounts tell the snapshotter where a volume is.         *)
(*                                                                          *)
(* A path is [abs, parts]; a Pod has its runtime class, the annotation      *)
(* [kind, entries], whether it carries the former volume-init annotation,   *)
(* the sequence of its containers and the function from volumes to claims.  *)
(***************************************************************************)
EXTENDS Integers, Sequences, FiniteSets

NoVolume == "not a claim"
SidecarContainerName == "sysbox-rootfs"
AbsPath(s) == [abs |-> TRUE, parts |-> s]
RelPath(s) == [abs |-> FALSE, parts |-> s]

\* filepath.Clean: drops empty elements and ".", resolves ".." where it can
CleanPath(p) ==
  LET Step(acc, e) ==
        CASE e \in {"", "."} -> acc
          [] e = ".." /\ acc # <<>> /\ acc[Len(acc)] # ".." -> SubSeq(acc, 1, Len(acc) - 1)
          [] e = ".." /\ acc = <<>> /\ p.abs -> acc
          [] OTHER -> Append(acc, e)
      upTo[i \in 0 .. Len(p.parts)] ==
        IF i = 0 THEN <<>> ELSE Step(upTo[i - 1], p.parts[i])
  IN upTo[Len(p.parts)]

----------------------------------------------------------------------------
(* Validation.                                                              *)

isManagedRuntime(name) == name \in {"sysbox-runc", "sysbox-runc-lite"}

VarLib(s) == <<"var", "lib">> \o s
ContainerdOverlay == VarLib(<<"containerd", "io.containerd.snapshotter.v1.overlayfs">>)
builtinSpecialPaths ==
  {VarLib(<<"docker">>), VarLib(<<"kubelet">>), VarLib(<<"k0s">>),
   VarLib(<<"rancher", "k3s">>), VarLib(<<"rancher", "rke2">>), VarLib(<<"buildkit">>),
   ContainerdOverlay}

validateSpecialPath(p) == p.abs /\ CleanPath(p) # <<>>
pathsOverlap(left, right) ==
  LET Under(path, root) == Len(root) <= Len(path) /\ SubSeq(path, 1, Len(root)) = root
  IN Under(left, right) \/ Under(right, left)
validateRelativePath(p) ==
  ~p.abs /\ (CleanPath(p) = <<>> \/ CleanPath(p)[1] # "..")

findContainer(pod, name) == \E i \in DOMAIN pod.containers : pod.containers[i].name = name
findPVCVolume(pod, vol) == vol \in DOMAIN pod.volumes /\ pod.volumes[vol] # NoVolume

\* every special path is checked against the built-in ones and those before it
specialPathsDisjoint(special) ==
  \A i \in DOMAIN special :
    \A q \in builtinSpecialPaths \cup {CleanPath(special[j]) : j \in 1 .. i - 1} :
      ~pathsOverlap(CleanPath(special[i]), q)

validateEntry(pod, e) ==
  /\ e.vol # ""
  /\ findContainer(pod, e.name)
  /\ findPVCVolume(pod, e.vol) /\ pod.volumes[e.vol] # ""
  /\ validateRelativePath(e.path)
  /\ e.special # <<>> => e.persist
  /\ \A i \in DOMAIN e.special : validateSpecialPath(e.special[i])
  /\ specialPathsDisjoint(e.special)

\* "none" without the annotation, else whether it is accepted
parseRootfsAnnotation(pod) ==
  LET es == pod.annot.entries IN
  CASE pod.annot.kind = "absent" -> "none"
    [] pod.annot.kind # "absent" ->
         IF /\ pod.annot.kind = "entries" /\ es # <<>>
            /\ \A i \in DOMAIN es : /\ es[i].name # ""
                                    /\ \A j \in 1 .. i - 1 : es[j].name # es[i].name
                                    /\ validateEntry(pod, es[i])
         THEN "ok" ELSE "error"

----------------------------------------------------------------------------
(* The sidecar and the patch.                                               *)

\* one mount for each volume that is named, in the order they are first named
requiredSidecarMounts(entries) ==
  LET Step(acc, e) == IF \E i \in DOMAIN acc : acc[i].vol = e.vol THEN acc
                      ELSE Append(acc, [vol |-> e.vol, at |-> <<"rootfs-rw-volume", e.vol>>])
      upTo[i \in 0 .. Len(entries)] ==
        IF i = 0 THEN <<>> ELSE Step(upTo[i - 1], entries[i])
  IN upTo[Len(entries)]
canonicalSidecar(entries) ==
  [name |-> SidecarContainerName, mounts |-> requiredSidecarMounts(entries)]
ensureSidecar(pod) ==
  LET Others == SelectSeq(pod.containers, LAMBDA c : c.name # SidecarContainerName)
  IN [pod EXCEPT !.containers = Append(Others, canonicalSidecar(pod.annot.entries))]

\* [ok, pod]; `expired' is a request whose context has ended by then
mutatePod(pod, expired) ==
  LET parsed == parseRootfsAnnotation(pod)
      clean  == [pod EXCEPT !.volumeInit = FALSE]
      No     == [ok |-> FALSE, pod |-> pod]
  IN CASE ~isManagedRuntime(pod.runtime) -> [ok |-> pod.annot.kind = "absent", pod |-> pod]
       [] parsed = "error" \/ expired -> No
       [] parsed = "none" -> [ok |-> TRUE, pod |-> clean]
       [] OTHER -> [ok |-> TRUE, pod |-> ensureSidecar(clean)]

\* the fields that are replaced; neither the class nor the labels ever change
patchForPod(original, mutated) ==
  (IF original.containers # mutated.containers
   THEN {[path |-> "containers", value |-> mutated.containers]} ELSE {})
  \cup (IF original.volumeInit # mutated.volumeInit
        THEN {[path |-> "volumeInit", value |-> mutated.volumeInit]} ELSE {})

\* The response to a request: whether it is allowed and the patch.  A body over
\* the limit or one that cannot be decoded, a review without a request and a
\* resource other than pods are refused, as is a Pod that is not accepted.
ServeHTTP(kind, pod, expired) ==
  LET m == mutatePod(pod, expired) IN
  IF kind = "pods" /\ m.ok THEN [allowed |-> TRUE, patch |-> patchForPod(pod, m.pod)]
  ELSE [allowed |-> FALSE, patch |-> {}]

\* the API server replaces the fields a patch names (external)
applyPatch(pod, patch) ==
  LET New(path, old) == IF \E q \in patch : q.path = path
                        THEN (CHOOSE q \in patch : q.path = path).value ELSE old
  IN [pod EXCEPT !.containers = New("containers", @), !.volumeInit = New("volumeInit", @)]
=============================================================================
