--------------------------- MODULE MCSnapshotter ---------------------------
(***************************************************************************)
(* Instances of Snapshotter for TLC.                                       *)
(***************************************************************************)
EXTENDS Snapshotter, TLC

\* Handlers, keys and temporary names are interchangeable.
Symmetry == Permutations(Clients) \cup Permutations(Keys) \cup Permutations(Temps)
=============================================================================
