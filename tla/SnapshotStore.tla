--------------------------- MODULE SnapshotStore ---------------------------
(***************************************************************************)
(* What a snapshotter promises its client (containerd's snapshots          *)
(* interface): keys that are created, committed and removed, each at one   *)
(* instant or not at all, in a tree whose inner nodes are committed, with  *)
(* a storage ID that is never used again.  Snapshotter implements it.      *)
(***************************************************************************)
EXTENDS Naturals

CONSTANTS Keys, NoKey

VARIABLES kind, idOf, parentOf, seq

state == <<kind, idOf, parentOf, seq>>

Init ==
  /\ kind = [k \in Keys |-> "absent"]
  /\ idOf = [k \in Keys |-> 0]
  /\ parentOf = [k \in Keys |-> NoKey]
  /\ seq = 0

\* A new snapshot, with a newer ID than any before it, on a committed parent.
Prepare(kd, k, p) ==
  /\ kind[k] = "absent"
  /\ p # NoKey => kind[p] = "committed"
  /\ seq' > seq
  /\ kind' = [kind EXCEPT ![k] = kd]
  /\ idOf' = [idOf EXCEPT ![k] = seq']
  /\ parentOf' = [parentOf EXCEPT ![k] = p]

\* An active snapshot becomes a committed one, with its ID and its parent.
Commit(k, name) ==
  /\ kind[k] = "active" /\ kind[name] = "absent"
  /\ kind' = [kind EXCEPT ![name] = "committed", ![k] = "absent"]
  /\ idOf' = [idOf EXCEPT ![name] = idOf[k], ![k] = 0]
  /\ parentOf' = [parentOf EXCEPT ![name] = parentOf[k], ![k] = NoKey]
  /\ UNCHANGED seq

\* A snapshot without children goes.
Remove(k) ==
  /\ kind[k] # "absent"
  /\ \A j \in Keys : kind[j] # "absent" => parentOf[j] # k
  /\ kind' = [kind EXCEPT ![k] = "absent"]
  /\ idOf' = [idOf EXCEPT ![k] = 0]
  /\ parentOf' = [parentOf EXCEPT ![k] = NoKey]
  /\ UNCHANGED seq

Next ==
  \/ \E kd \in {"active", "view"}, k \in Keys, p \in Keys \cup {NoKey} : Prepare(kd, k, p)
  \/ \E k, name \in Keys : Commit(k, name)
  \/ \E k \in Keys : Remove(k)

Spec == Init /\ [][Next]_state
=============================================================================
