------------------------- MODULE SnapshotterProofs --------------------------
(***************************************************************************)
(* Proofs about Snapshotter, for any number of handlers, keys, faults and  *)
(* crashes.                                                                *)
(*                                                                         *)
(* MetaInv is inductive under every fault and gives UniqueIds and          *)
(* ParentsCommitted, and with them that Snapshotter implements the atomic  *)
(* operations of SnapshotStore.                                            *)
(***************************************************************************)
EXTENDS Snapshotter, TLAPS

(* Most leaves are first-order; Zenon finds them at once.                  *)
USE ZenonT(3), SMT

\* A handler is inside the write transaction exactly when it is the writer.
LockInv == \A c \in Clients : pc[c] \in TxSteps <=> writer = c

\* What a handler checked inside its transaction is still true: nobody else
\* can change the metadata before it commits.
CheckedInv ==
  \A c \in Clients :
    /\ pc[c] \in {"prepareDirectory", "CreateSnapshot", "Rename", "createCommit"} =>
         /\ req[c].kind \in {"active", "view"}
         /\ req[c].key \in Keys
    /\ pc[c] \in {"Rename", "createCommit"} => storageCreateOK(req[c])
    /\ pc[c] = "createCommit" => path[c] = seq + 1
    /\ pc[c] \in {"CommitActive", "commitCommit"} =>
         req[c].key \in Keys /\ req[c].other \in Keys
    /\ pc[c] = "commitCommit" =>
         kind[req[c].key] = "active" /\ kind[req[c].other] = "absent"
    /\ pc[c] \in {"mounts", "Mounts", "UpdateInfo", "storage.Remove",
                  "removeCommit"} => req[c].key \in Keys
    /\ pc[c] = "removeCommit" =>
         req[c].key \in Live /\ \A j \in Live : parentOf[j] # req[c].key

MetaInv == TypeOK /\ LockInv /\ CheckedInv /\ UniqueIds /\ ParentsCommitted


-----------------------------------------------------------------------------
(* The metadata, under every fault and crash.                              *)

\* The request of a handler that serves none is well-typed.
LEMMA NoRequestType == NoRequest \in Requests
BY DEF NoRequest, Requests

\* The empty store satisfies the invariant.
LEMMA InitMeta == Init => MetaInv
<1> SUFFICES ASSUME Init PROVE MetaInv
  OBVIOUS
<1>1. MetaType
  BY DEF Init, MetaType, Kinds
<1>2. DiskType
  BY ConstantsAssumption DEF Init, DiskType
<1>3. TxType
  BY DEF Init, TxType
<1>4. LocalType
  BY NoRequestType DEF Init, LocalType, OpenSteps
<1>5. LockInv /\ CheckedInv
  BY ConstantsAssumption DEF Init, LockInv, CheckedInv, TxSteps
<1>6. UniqueIds /\ ParentsCommitted
  BY DEF Init, UniqueIds, ParentsCommitted, Live
<1> QED BY <1>1, <1>2, <1>3, <1>4, <1>5, <1>6 DEF MetaInv, TypeOK

\* A step that leaves the metadata alone keeps what is said of it alone.
LEMMA UnchangedMeta ==
  ASSUME MetaType, UniqueIds, ParentsCommitted, UNCHANGED <<kind, idOf, parentOf, seq>>
  PROVE  MetaType' /\ UniqueIds' /\ ParentsCommitted'
BY DEF MetaType, UniqueIds, ParentsCommitted, Live

\* prepareDirectory keeps MetaInv.  It makes a directory; an error ends the transaction.
LEMMA Meta_prepareDirectory ==
  ASSUME MetaInv, NEW c \in Clients, prepareDirectory(c)
  PROVE  MetaInv'
<1> USE ConstantsAssumption, NoRequestType
    DEF MetaInv, TypeOK, prepareDirectory, Goto, Return, EndWrite, Fault, meta, FreeTemps
<1>1. MetaType' /\ UniqueIds' /\ ParentsCommitted'
  BY UnchangedMeta
<1>2. DiskType'
  <2>1. dirs' \in SUBSET (Nat \cup Temps)
    BY DEF DiskType, MetaType, LocalType
  <2>2. handoffs' \in SUBSET Keys
    BY DEF DiskType, CheckedInv, LocalType
  <2>3. faults' \in 0..MaxFaults
    BY DEF DiskType
  <2> QED BY <2>1, <2>2, <2>3 DEF DiskType
<1>3. TxType' /\ LockInv'
  BY DEF TxType, LocalType, LockInv, TxSteps
<1>4. LocalType'
  BY DEF LocalType, OpenSteps, TxSteps
<1>5. CheckedInv'
  BY DEF LocalType, TxType, MetaType, LockInv, CheckedInv, TxSteps, Live, NoRequest, Requests, storageCreateOK
<1> QED BY <1>1, <1>2, <1>3, <1>4, <1>5

\* CreateSnapshot keeps MetaInv.  What it checks, the key absent and the parent committed, is CheckedInv's.
LEMMA Meta_CreateSnapshot ==
  ASSUME MetaInv, NEW c \in Clients, CreateSnapshot(c)
  PROVE  MetaInv'
<1> USE ConstantsAssumption, NoRequestType
    DEF MetaInv, TypeOK, CreateSnapshot, Goto, EndWrite, Fault, meta
<1>1. MetaType' /\ UniqueIds' /\ ParentsCommitted'
  BY UnchangedMeta
<1>2. DiskType'
  BY DEF DiskType, CheckedInv, LocalType
<1>3. TxType' /\ LockInv'
  BY DEF TxType, LocalType, LockInv, TxSteps
<1>4. LocalType'
  BY DEF LocalType, OpenSteps, TxSteps
<1>5. CheckedInv'
  BY DEF LocalType, TxType, MetaType, LockInv, CheckedInv, TxSteps, Live, NoRequest, Requests, storageCreateOK
<1> QED BY <1>1, <1>2, <1>3, <1>4, <1>5

\* Rename keeps MetaInv.  It draws the next ID of the sequence, so path = seq + 1 at the commit.
LEMMA Meta_Rename ==
  ASSUME MetaInv, NEW c \in Clients, Rename(c)
  PROVE  MetaInv'
<1> USE ConstantsAssumption, NoRequestType
    DEF MetaInv, TypeOK, Rename, Goto, EndWrite, Fault, meta
<1>1. MetaType' /\ UniqueIds' /\ ParentsCommitted'
  BY UnchangedMeta
<1>2. DiskType'
  <2>1. dirs' \in SUBSET (Nat \cup Temps)
    <3>1. seq + 1 \in Nat
      BY DEF MetaType
    <3>2. dirs \ {td[c]} \subseteq Nat \cup Temps
      BY DEF DiskType
    <3>3. dirs' = dirs \/ dirs' = (dirs \ {td[c]}) \cup {seq + 1}
      OBVIOUS
    <3> QED BY <3>1, <3>2, <3>3 DEF DiskType
  <2>2. handoffs' \in SUBSET Keys
    BY DEF DiskType, CheckedInv, LocalType
  <2>3. faults' \in 0..MaxFaults
    BY DEF DiskType
  <2> QED BY <2>1, <2>2, <2>3 DEF DiskType
<1>3. TxType' /\ LockInv'
  BY DEF TxType, LocalType, LockInv, TxSteps
<1>4. LocalType'
  <2>1. seq + 1 \in Nat
    BY DEF MetaType
  <2> QED BY <2>1 DEF LocalType, OpenSteps, TxSteps
<1>5. CheckedInv'
  BY DEF LocalType, TxType, MetaType, LockInv, CheckedInv, TxSteps, Live, NoRequest, Requests, storageCreateOK
<1> QED BY <1>1, <1>2, <1>3, <1>4, <1>5

\* createCommit keeps MetaInv.  The new entry has the next ID and a committed parent.
LEMMA Meta_createCommit ==
  ASSUME MetaInv, NEW c \in Clients, createCommit(c)
  PROVE  MetaInv'
<1> USE ConstantsAssumption, NoRequestType
    DEF MetaInv, TypeOK, createCommit, Goto, EndWrite, Fault, meta
<1>1. MetaType'
  <2>1. /\ req[c].key \in Keys /\ req[c].kind \in Kinds
        /\ req[c].other \in Keys \cup {NoKey} /\ path[c] \in Nat
    BY DEF CheckedInv, LocalType, Requests, Kinds
  <2> HIDE DEF Kinds
  <2>2. kind' \in [Keys -> Kinds \cup {"absent"}]
    BY <2>1 DEF MetaType
  <2>3. idOf' \in [Keys -> Nat] /\ seq' \in Nat
    BY <2>1 DEF MetaType
  <2>4. parentOf' \in [Keys -> Keys \cup {NoKey}]
    BY <2>1 DEF MetaType
  <2> QED BY <2>2, <2>3, <2>4 DEF MetaType
<1>2. UniqueIds'
  BY DEF LocalType, MetaType, CheckedInv, UniqueIds, Live
<1>3. ParentsCommitted'
  <2>1. CASE UNCHANGED <<kind, idOf, parentOf, seq>>
    BY <2>1 DEF ParentsCommitted, Live
  <2>2. CASE /\ kind' = [kind EXCEPT ![req[c].key] = req[c].kind]
             /\ parentOf' = [parentOf EXCEPT ![req[c].key] = req[c].other]
    <3>1. /\ req[c].key \in Keys /\ kind[req[c].key] = "absent"
          /\ req[c].other # NoKey => kind[req[c].other] = "committed"
      BY DEF CheckedInv, storageCreateOK
    <3>2. req[c].other # NoKey => req[c].other \in Keys
      BY DEF LocalType, Requests
    <3> QED BY <2>2, <3>1, <3>2 DEF MetaType, ParentsCommitted, Live
  <2> QED BY <2>1, <2>2
<1>4. DiskType'
  BY DEF DiskType, CheckedInv, LocalType
<1>5. TxType' /\ LockInv'
  BY DEF TxType, LocalType, LockInv, TxSteps
<1>6. LocalType'
  BY DEF LocalType, OpenSteps, TxSteps
<1>7. CheckedInv'
  BY DEF LocalType, TxType, MetaType, LockInv, CheckedInv, TxSteps, Live, NoRequest, Requests, storageCreateOK
<1> QED BY <1>1, <1>2, <1>3, <1>4, <1>5, <1>6, <1>7

\* createMounts keeps MetaInv.  It writes at most the handoff of its own key.
LEMMA Meta_createMounts ==
  ASSUME MetaInv, NEW c \in Clients, createMounts(c)
  PROVE  MetaInv'
<1> USE ConstantsAssumption, NoRequestType
    DEF MetaInv, TypeOK, createMounts, Goto, Return, meta, hookRuns, applyRootfsHook
<1>1. MetaType' /\ UniqueIds' /\ ParentsCommitted'
  BY UnchangedMeta
<1>2. DiskType'
  <2>1. dirs' \in SUBSET (Nat \cup Temps)
    BY DEF DiskType, MetaType, LocalType
  <2>2. handoffs' \in SUBSET Keys
    BY DEF DiskType, CheckedInv, LocalType
  <2>3. faults' \in 0..MaxFaults
    BY DEF DiskType
  <2> QED BY <2>1, <2>2, <2>3 DEF DiskType
<1>3. TxType' /\ LockInv'
  BY DEF TxType, LocalType, LockInv, TxSteps
<1>4. LocalType'
  BY DEF LocalType, OpenSteps, TxSteps
<1>5. CheckedInv'
  BY DEF LocalType, TxType, MetaType, LockInv, CheckedInv, TxSteps, Live, NoRequest, Requests, storageCreateOK
<1> QED BY <1>1, <1>2, <1>3, <1>4, <1>5

\* reclaimTd keeps MetaInv.  It removes a directory only.
LEMMA Meta_reclaimTd ==
  ASSUME MetaInv, NEW c \in Clients, reclaimTd(c)
  PROVE  MetaInv'
<1> USE ConstantsAssumption, NoRequestType
    DEF MetaInv, TypeOK, reclaimTd, Goto, RemoveAll, meta, Fault
<1>1. MetaType' /\ UniqueIds' /\ ParentsCommitted'
  BY UnchangedMeta
<1>2. DiskType'
  <2>1. dirs' \in SUBSET (Nat \cup Temps)
    BY DEF DiskType, MetaType, LocalType
  <2>2. handoffs' \in SUBSET Keys
    BY DEF DiskType, CheckedInv, LocalType
  <2>3. faults' \in 0..MaxFaults
    BY DEF DiskType
  <2> QED BY <2>1, <2>2, <2>3 DEF DiskType
<1>3. TxType' /\ LockInv'
  BY DEF TxType, LocalType, LockInv, TxSteps
<1>4. LocalType'
  BY DEF LocalType, OpenSteps, TxSteps
<1>5. CheckedInv'
  BY DEF LocalType, TxType, MetaType, LockInv, CheckedInv, TxSteps, Live, NoRequest, Requests, storageCreateOK
<1> QED BY <1>1, <1>2, <1>3, <1>4, <1>5

\* reclaimPath keeps MetaInv.  It removes a directory only, then forgets its request.
LEMMA Meta_reclaimPath ==
  ASSUME MetaInv, NEW c \in Clients, reclaimPath(c)
  PROVE  MetaInv'
<1> USE ConstantsAssumption, NoRequestType
    DEF MetaInv, TypeOK, reclaimPath, Return, RemoveAll, meta, Fault
<1>1. MetaType' /\ UniqueIds' /\ ParentsCommitted'
  BY UnchangedMeta
<1>2. DiskType'
  <2>1. dirs' \in SUBSET (Nat \cup Temps)
    BY DEF DiskType, MetaType, LocalType
  <2>2. handoffs' \in SUBSET Keys
    BY DEF DiskType, CheckedInv, LocalType
  <2>3. faults' \in 0..MaxFaults
    BY DEF DiskType
  <2> QED BY <2>1, <2>2, <2>3 DEF DiskType
<1>3. TxType' /\ LockInv'
  BY DEF TxType, LocalType, LockInv, TxSteps
<1>4. LocalType'
  BY DEF LocalType, OpenSteps, TxSteps
<1>5. CheckedInv'
  BY DEF LocalType, TxType, MetaType, LockInv, CheckedInv, TxSteps, Live, NoRequest, Requests, storageCreateOK
<1> QED BY <1>1, <1>2, <1>3, <1>4, <1>5

\* MountsReturn keeps MetaInv.  It writes at most the handoff of its own key.
LEMMA Meta_MountsReturn ==
  ASSUME MetaInv, NEW c \in Clients, MountsReturn(c)
  PROVE  MetaInv'
<1> USE ConstantsAssumption, NoRequestType
    DEF MetaInv, TypeOK, MountsReturn, Return, meta, applyRootfsHook, hookRuns
<1>1. MetaType' /\ UniqueIds' /\ ParentsCommitted'
  BY UnchangedMeta
<1>2. DiskType'
  <2>1. dirs' \in SUBSET (Nat \cup Temps)
    BY DEF DiskType, MetaType, LocalType
  <2>2. handoffs' \in SUBSET Keys
    BY DEF DiskType, CheckedInv, LocalType
  <2>3. faults' \in 0..MaxFaults
    BY DEF DiskType
  <2> QED BY <2>1, <2>2, <2>3 DEF DiskType
<1>3. TxType' /\ LockInv'
  BY DEF TxType, LocalType, LockInv, TxSteps
<1>4. LocalType'
  BY DEF LocalType, OpenSteps, TxSteps
<1>5. CheckedInv'
  BY DEF LocalType, TxType, MetaType, LockInv, CheckedInv, TxSteps, Live, NoRequest, Requests, storageCreateOK
<1> QED BY <1>1, <1>2, <1>3, <1>4, <1>5

\* CommitActive keeps MetaInv.  It checks that the key is active and the name free.
LEMMA Meta_CommitActive ==
  ASSUME MetaInv, NEW c \in Clients, CommitActive(c)
  PROVE  MetaInv'
<1> USE ConstantsAssumption, NoRequestType
    DEF MetaInv, TypeOK, CommitActive, Goto, Return, EndWrite, Fault, meta
<1>1. MetaType' /\ UniqueIds' /\ ParentsCommitted'
  BY UnchangedMeta
<1>2. DiskType'
  BY DEF DiskType, CheckedInv, LocalType
<1>3. TxType' /\ LockInv'
  BY DEF TxType, LocalType, LockInv, TxSteps
<1>4. LocalType'
  BY DEF LocalType, OpenSteps, TxSteps
<1>5. CheckedInv'
  BY DEF LocalType, TxType, MetaType, LockInv, CheckedInv, TxSteps, Live, NoRequest, Requests, storageCreateOK
<1> QED BY <1>1, <1>2, <1>3, <1>4, <1>5

\* commitCommit keeps MetaInv.  The ID moves to the committed name; an active key has no children.
LEMMA Meta_commitCommit ==
  ASSUME MetaInv, NEW c \in Clients, commitCommit(c)
  PROVE  MetaInv'
<1> USE ConstantsAssumption, NoRequestType
    DEF MetaInv, TypeOK, commitCommit, Return, EndWrite, Fault, meta
<1>1. MetaType'
  <2>1. req[c].key \in Keys /\ req[c].other \in Keys
    BY DEF CheckedInv
  <2> QED BY <2>1 DEF MetaType, Kinds
<1>2. UniqueIds'
  BY DEF LocalType, MetaType, CheckedInv, UniqueIds, Live
<1>3. ParentsCommitted'
  BY DEF LocalType, MetaType, CheckedInv, ParentsCommitted, Live
<1>4. DiskType'
  BY DEF DiskType, CheckedInv, LocalType
<1>5. TxType' /\ LockInv'
  BY DEF TxType, LocalType, LockInv, TxSteps
<1>6. LocalType'
  BY DEF LocalType, OpenSteps, TxSteps
<1>7. CheckedInv'
  BY DEF LocalType, TxType, MetaType, LockInv, CheckedInv, TxSteps, Live, NoRequest, Requests, storageCreateOK
<1> QED BY <1>1, <1>2, <1>3, <1>4, <1>5, <1>6, <1>7

\* UpdateInfo keeps MetaInv.  It only checks that the key exists.
LEMMA Meta_UpdateInfo ==
  ASSUME MetaInv, NEW c \in Clients, UpdateInfo(c)
  PROVE  MetaInv'
<1> USE ConstantsAssumption, NoRequestType
    DEF MetaInv, TypeOK, UpdateInfo, Goto, Return, EndWrite, meta
<1>1. MetaType' /\ UniqueIds' /\ ParentsCommitted'
  BY UnchangedMeta
<1>2. DiskType'
  BY DEF DiskType, CheckedInv, LocalType
<1>3. TxType' /\ LockInv'
  BY DEF TxType, LocalType, LockInv, TxSteps
<1>4. LocalType'
  BY DEF LocalType, OpenSteps, TxSteps
<1>5. CheckedInv'
  BY DEF LocalType, TxType, MetaType, LockInv, CheckedInv, TxSteps, Live, NoRequest, Requests, storageCreateOK
<1> QED BY <1>1, <1>2, <1>3, <1>4, <1>5

\* updateCommit keeps MetaInv.  The metadata the model keeps is unchanged.
LEMMA Meta_updateCommit ==
  ASSUME MetaInv, NEW c \in Clients, updateCommit(c)
  PROVE  MetaInv'
<1> USE ConstantsAssumption, NoRequestType
    DEF MetaInv, TypeOK, updateCommit, Return, EndWrite, meta
<1>1. MetaType' /\ UniqueIds' /\ ParentsCommitted'
  BY UnchangedMeta
<1>2. DiskType'
  BY DEF DiskType, CheckedInv, LocalType
<1>3. TxType' /\ LockInv'
  BY DEF TxType, LocalType, LockInv, TxSteps
<1>4. LocalType'
  BY DEF LocalType, OpenSteps, TxSteps
<1>5. CheckedInv'
  BY DEF LocalType, TxType, MetaType, LockInv, CheckedInv, TxSteps, Live, NoRequest, Requests, storageCreateOK
<1> QED BY <1>1, <1>2, <1>3, <1>4, <1>5

\* storageRemove keeps MetaInv.  It checks that the key exists and has no children.
LEMMA Meta_storageRemove ==
  ASSUME MetaInv, NEW c \in Clients, storageRemove(c)
  PROVE  MetaInv'
<1> USE ConstantsAssumption, NoRequestType
    DEF MetaInv, TypeOK, storageRemove, Goto, Return, EndWrite, Fault, meta, getCleanupDirectories
<1>1. MetaType' /\ UniqueIds' /\ ParentsCommitted'
  BY UnchangedMeta
<1>2. DiskType'
  BY DEF DiskType, CheckedInv, LocalType
<1>3. TxType' /\ LockInv'
  BY DEF TxType, LocalType, LockInv, TxSteps
<1>4. LocalType'
  <2>1. removals' \in [Clients -> SUBSET (Nat \cup Temps)]
    BY DEF LocalType, DiskType
  <2> QED BY <2>1 DEF LocalType, OpenSteps, TxSteps
<1>5. CheckedInv'
  BY DEF LocalType, TxType, MetaType, LockInv, CheckedInv, TxSteps, Live, NoRequest, Requests, storageCreateOK
<1> QED BY <1>1, <1>2, <1>3, <1>4, <1>5

\* removeCommit keeps MetaInv.  No snapshot has the removed key as its parent.
LEMMA Meta_removeCommit ==
  ASSUME MetaInv, NEW c \in Clients, removeCommit(c)
  PROVE  MetaInv'
<1> USE ConstantsAssumption, NoRequestType
    DEF MetaInv, TypeOK, removeCommit, Goto, Return, EndWrite, Fault, meta
<1>1. MetaType'
  <2>1. req[c].key \in Keys
    BY DEF CheckedInv
  <2> QED BY <2>1 DEF MetaType, Kinds
<1>2. UniqueIds'
  BY DEF LocalType, MetaType, CheckedInv, UniqueIds, Live
<1>3. ParentsCommitted'
  BY DEF LocalType, MetaType, CheckedInv, ParentsCommitted, Live
<1>4. DiskType'
  BY DEF DiskType, CheckedInv, LocalType
<1>5. TxType' /\ LockInv'
  BY DEF TxType, LocalType, LockInv, TxSteps
<1>6. LocalType'
  BY DEF LocalType, OpenSteps, TxSteps
<1>7. CheckedInv'
  BY DEF LocalType, TxType, MetaType, LockInv, CheckedInv, TxSteps, Live, NoRequest, Requests, storageCreateOK
<1> QED BY <1>1, <1>2, <1>3, <1>4, <1>5, <1>6, <1>7

\* handoffRemove keeps MetaInv.  It removes a handoff file only.
LEMMA Meta_handoffRemove ==
  ASSUME MetaInv, NEW c \in Clients, handoffRemove(c)
  PROVE  MetaInv'
<1> USE ConstantsAssumption, NoRequestType
    DEF MetaInv, TypeOK, handoffRemove, Goto, Fault, meta
<1>1. MetaType' /\ UniqueIds' /\ ParentsCommitted'
  BY UnchangedMeta
<1>2. DiskType'
  BY DEF DiskType, CheckedInv, LocalType
<1>3. TxType' /\ LockInv'
  BY DEF TxType, LocalType, LockInv, TxSteps
<1>4. LocalType'
  BY DEF LocalType, OpenSteps, TxSteps
<1>5. CheckedInv'
  BY DEF LocalType, TxType, MetaType, LockInv, CheckedInv, TxSteps, Live, NoRequest, Requests, storageCreateOK
<1> QED BY <1>1, <1>2, <1>3, <1>4, <1>5

\* cleanupDirectories keeps MetaInv.  It lists directories and rolls the transaction back.
LEMMA Meta_cleanupDirectories ==
  ASSUME MetaInv, NEW c \in Clients, cleanupDirectories(c)
  PROVE  MetaInv'
<1> USE ConstantsAssumption, NoRequestType
    DEF MetaInv, TypeOK, cleanupDirectories, Goto, Return, EndWrite, Fault, meta, getCleanupDirectories
<1>1. MetaType' /\ UniqueIds' /\ ParentsCommitted'
  BY UnchangedMeta
<1>2. DiskType'
  BY DEF DiskType, CheckedInv, LocalType
<1>3. TxType' /\ LockInv'
  BY DEF TxType, LocalType, LockInv, TxSteps
<1>4. LocalType'
  <2>1. removals' \in [Clients -> SUBSET (Nat \cup Temps)]
    <3>1. dirs \ LiveIds \in SUBSET (Nat \cup Temps)
      BY DEF DiskType
    <3> QED BY <3>1 DEF LocalType
  <2> QED BY <2>1 DEF LocalType, OpenSteps, TxSteps
<1>5. CheckedInv'
  BY DEF LocalType, TxType, MetaType, LockInv, CheckedInv, TxSteps, Live, NoRequest, Requests, storageCreateOK
<1> QED BY <1>1, <1>2, <1>3, <1>4, <1>5

\* removeListed keeps MetaInv.  It removes a directory only.
LEMMA Meta_removeListed ==
  ASSUME MetaInv, NEW c \in Clients, removeListed(c)
  PROVE  MetaInv'
<1> USE ConstantsAssumption, NoRequestType
    DEF MetaInv, TypeOK, removeListed, Return, RemoveAll, meta, Fault
<1>1. MetaType' /\ UniqueIds' /\ ParentsCommitted'
  BY UnchangedMeta
<1>2. DiskType'
  <2>1. dirs' \in SUBSET (Nat \cup Temps)
    BY DEF DiskType, MetaType, LocalType
  <2>2. handoffs' \in SUBSET Keys
    BY DEF DiskType, CheckedInv, LocalType
  <2>3. faults' \in 0..MaxFaults
    BY DEF DiskType
  <2> QED BY <2>1, <2>2, <2>3 DEF DiskType
<1>3. TxType' /\ LockInv'
  BY DEF TxType, LocalType, LockInv, TxSteps
<1>4. LocalType'
  BY DEF LocalType, OpenSteps, TxSteps
<1>5. CheckedInv'
  BY DEF LocalType, TxType, MetaType, LockInv, CheckedInv, TxSteps, Live, NoRequest, Requests, storageCreateOK
<1> QED BY <1>1, <1>2, <1>3, <1>4, <1>5

\* WaitForReaders keeps MetaInv.  Nothing but wedged changes.
LEMMA Meta_WaitForReaders ==
  ASSUME MetaInv, NEW c \in Clients, WaitForReaders(c)
  PROVE  MetaInv'
<1> USE ConstantsAssumption, NoRequestType
    DEF MetaInv, TypeOK, WaitForReaders, meta, locals
<1>1. MetaType' /\ UniqueIds' /\ ParentsCommitted'
  BY UnchangedMeta
<1>2. DiskType'
  BY DEF DiskType, CheckedInv, LocalType
<1>3. TxType' /\ LockInv'
  BY DEF TxType, LocalType, LockInv, TxSteps
<1>4. LocalType'
  BY DEF LocalType, OpenSteps, TxSteps
<1>5. CheckedInv'
  BY DEF LocalType, TxType, MetaType, LockInv, CheckedInv, TxSteps, Live,
     NoRequest, Requests, storageCreateOK
<1> QED BY <1>1, <1>2, <1>3, <1>4, <1>5

\* A handler that begins its write transaction keeps MetaInv.
LEMMA Meta_BeginWrite ==
  ASSUME MetaInv, NEW c \in Clients, NEW label, NEW r \in Requests,
         BeginWrite(c, label, r),
         \/ label = "prepareDirectory" /\ r.kind # "none" /\ r.key \in Keys
         \/ label = "CommitActive" /\ r.key \in Keys /\ r.other \in Keys
         \/ label \in {"UpdateInfo", "storage.Remove"} /\ r.key \in Keys
         \/ label = "scan",
         UNCHANGED <<meta, dirs, handoffs, leaked, wedged, td, path, removals,
                     faults, crashes>>
  PROVE  MetaInv'
<1> USE ConstantsAssumption DEF MetaInv, TypeOK, BeginWrite, Goto, meta
<1>1. MetaType'
  BY DEF MetaType
<1>2. DiskType'
  BY DEF DiskType
<1>3. TxType'
  BY DEF TxType
<1>4. LocalType'
  BY DEF LocalType, OpenSteps, TxSteps
<1>5. LockInv'
  BY DEF TxType, LocalType, LockInv, TxSteps
<1>6. CheckedInv'
  BY DEF LocalType, LockInv, CheckedInv, TxSteps, Live, Requests, storageCreateOK
<1>7. UniqueIds' /\ ParentsCommitted'
  BY DEF UniqueIds, ParentsCommitted, Live
<1> QED BY <1>1, <1>2, <1>3, <1>4, <1>5, <1>6, <1>7

\* Mounts reads the entry of the key, or leaks its read transaction.
LEMMA Meta_Mounts ==
  ASSUME MetaInv, NEW c \in Clients, NEW k \in Keys, Mounts(c, k)
  PROVE  MetaInv'
<1> USE ConstantsAssumption DEF MetaInv, TypeOK, Mounts, Goto, meta
<1>1. MetaType'
  BY DEF MetaType
<1>2. DiskType'
  BY DEF DiskType
<1>3. TxType'
  BY DEF TxType
<1>4. LocalType'
  <2>1. kind[k] \in {"active", "view"} =>
          [kind |-> kind[k], key |-> k, other |-> parentOf[k]] \in Requests
    BY DEF MetaType, Requests
  <2>2. req' \in [Clients -> Requests]
    BY <2>1 DEF LocalType
  <2> QED BY <2>2 DEF LocalType, OpenSteps
<1>5. LockInv'
  BY DEF TxType, LocalType, LockInv, TxSteps
<1>6. CheckedInv'
  BY DEF LocalType, LockInv, CheckedInv, TxSteps, Live, Requests, storageCreateOK
<1>7. UniqueIds' /\ ParentsCommitted'
  BY DEF UniqueIds, ParentsCommitted, Live
<1> QED BY <1>1, <1>2, <1>3, <1>4, <1>5, <1>6, <1>7

\* A crash loses locals and transactions; the metadata is as committed.
LEMMA Meta_Crash ==
  ASSUME MetaInv, Crash
  PROVE  MetaInv'
<1> USE ConstantsAssumption, NoRequestType DEF MetaInv, TypeOK, Crash, meta
<1>1. MetaType'
  BY DEF MetaType
<1>2. DiskType'
  BY DEF DiskType
<1>3. TxType'
  BY DEF TxType
<1>4. LocalType'
  BY DEF LocalType, OpenSteps
<1>5. LockInv'
  BY DEF LockInv, TxSteps
<1>6. CheckedInv'
  BY DEF CheckedInv
<1>7. UniqueIds' /\ ParentsCommitted'
  BY DEF UniqueIds, ParentsCommitted, Live
<1> QED BY <1>1, <1>2, <1>3, <1>4, <1>5, <1>6, <1>7

\* A step that changes nothing keeps MetaInv.
LEMMA Meta_Stutter ==
  ASSUME MetaInv, UNCHANGED vars
  PROVE  MetaInv'
<1> USE DEF MetaInv, TypeOK, vars
<1>1. TypeOK'
  BY DEF MetaType, DiskType, TxType, LocalType
<1>2. LockInv' /\ CheckedInv'
  BY DEF LockInv, CheckedInv, storageCreateOK, Live
<1>3. UniqueIds' /\ ParentsCommitted'
  BY DEF UniqueIds, ParentsCommitted, Live
<1> QED BY <1>1, <1>2, <1>3

\* Every arriving request keeps MetaInv.
LEMMA Meta_Arrive ==
  ASSUME MetaInv, NEW c \in Clients, Arrive(c)
  PROVE  MetaInv'
<1>1. ASSUME NEW kd \in {"active", "view"}, NEW k \in Keys,
             NEW p \in Keys \cup {NoKey}, createSnapshot(c, kd, k, p)
      PROVE  MetaInv'
  <2>1. [kind |-> kd, key |-> k, other |-> p] \in Requests
    BY DEF Requests
  <2> QED BY <1>1, <2>1, Meta_BeginWrite DEF createSnapshot
<1>2. ASSUME NEW k \in Keys, NEW name \in Keys, Commit(c, name, k)
      PROVE  MetaInv'
  <2>1. [kind |-> "none", key |-> k, other |-> name] \in Requests
    BY DEF Requests
  <2> QED BY <1>2, <2>1, Meta_BeginWrite DEF Commit
<1>3. ASSUME NEW k \in Keys, Remove(c, k) \/ Update(c, k)
      PROVE  MetaInv'
  <2>1. [kind |-> "none", key |-> k, other |-> NoKey] \in Requests
    BY DEF Requests
  <2> QED BY <1>3, <2>1, Meta_BeginWrite DEF Remove, Update
<1>4. CASE Cleanup(c)
  BY <1>4, NoRequestType, Meta_BeginWrite DEF Cleanup
<1> QED BY <1>1, <1>2, <1>3, <1>4, Meta_Mounts DEF Arrive

\* MetaInv is inductive.
LEMMA MetaStep == MetaInv /\ [Next]_vars => MetaInv'
<1> SUFFICES ASSUME MetaInv, [Next]_vars PROVE MetaInv'
  OBVIOUS
<1>1. ASSUME NEW c \in Clients, Serve(c) PROVE MetaInv'
  BY <1>1, Meta_prepareDirectory, Meta_CreateSnapshot, Meta_Rename,
     Meta_createCommit, Meta_createMounts, Meta_reclaimTd, Meta_reclaimPath,
     Meta_MountsReturn, Meta_CommitActive, Meta_commitCommit, Meta_UpdateInfo,
     Meta_updateCommit, Meta_storageRemove, Meta_removeCommit,
     Meta_handoffRemove, Meta_cleanupDirectories, Meta_removeListed
     DEF Serve
<1> QED BY <1>1, Meta_Arrive, Meta_WaitForReaders, Meta_Crash, Meta_Stutter
        DEF Next

\* Every variable keeps its type.
THEOREM TypeCorrect == Spec => []TypeOK
<1>1. MetaInv => TypeOK
  BY DEF MetaInv
<1> QED BY <1>1, InitMeta, MetaStep, PTL DEF Spec

\* Snapshot IDs stay unique and within the sequence, whatever fails or crashes.
THEOREM IdsUnique == Spec => []UniqueIds
<1>1. MetaInv => UniqueIds
  BY DEF MetaInv
<1> QED BY <1>1, InitMeta, MetaStep, PTL DEF Spec

\* The parent of a snapshot is always a committed snapshot.
THEOREM ParentsStay == Spec => []ParentsCommitted
<1>1. MetaInv => ParentsCommitted
  BY DEF MetaInv
<1> QED BY <1>1, InitMeta, MetaStep, PTL DEF Spec
-----------------------------------------------------------------------------
(* Snapshotter implements SnapshotStore.                                   *)

\* Only the three commits change the metadata.
LEMMA OnlyCommits ==
  ASSUME [Next]_vars,
         \A c \in Clients : ~createCommit(c) /\ ~commitCommit(c) /\ ~removeCommit(c)
  PROVE  UNCHANGED <<kind, idOf, parentOf, seq>>
<1> USE DEF meta
<1>1. ASSUME NEW c \in Clients, Arrive(c) PROVE UNCHANGED <<kind, idOf, parentOf, seq>>
  BY <1>1 DEF Arrive, createSnapshot, Commit, Remove, Mounts, Update, Cleanup
<1>2. ASSUME NEW c \in Clients, Serve(c) PROVE UNCHANGED <<kind, idOf, parentOf, seq>>
  BY <1>2 DEF Serve, prepareDirectory, CreateSnapshot, Rename, createMounts,
     reclaimTd, reclaimPath, MountsReturn, CommitActive, UpdateInfo,
     updateCommit, storageRemove, handoffRemove, cleanupDirectories, removeListed
<1>3. Crash \/ UNCHANGED vars \/ (\E c \in Clients : WaitForReaders(c)) =>
        UNCHANGED <<kind, idOf, parentOf, seq>>
  BY DEF Crash, vars, WaitForReaders
<1> QED BY <1>1, <1>2, <1>3 DEF Next

\* A commit is the abstract step, because CheckedInv carries the check made at
\* the beginning of its transaction; a commit that fails changes nothing.
LEMMA StoreStep == MetaInv /\ [Next]_vars => [Store!Next]_(Store!state)
<1> SUFFICES ASSUME MetaInv, [Next]_vars,
                    ~ UNCHANGED <<kind, idOf, parentOf, seq>>
             PROVE  Store!Next
  BY DEF Store!state
<1>0. seq \in Nat
  BY DEF MetaInv, TypeOK, MetaType
<1>1. ASSUME NEW c \in Clients, createCommit(c) PROVE Store!Next
  <2>1. /\ req[c].kind \in {"active", "view"} /\ req[c].key \in Keys
        /\ req[c].other \in Keys \cup {NoKey}
        /\ storageCreateOK(req[c]) /\ path[c] = seq + 1
    BY <1>1 DEF MetaInv, CheckedInv, createCommit, TypeOK, LocalType, Requests
  <2>2. Store!Prepare(req[c].kind, req[c].key, req[c].other)
    BY <1>0, <1>1, <2>1 DEF createCommit, meta, storageCreateOK, Store!Prepare
  <2> QED BY <2>1, <2>2 DEF Store!Next
<1>2. ASSUME NEW c \in Clients, commitCommit(c) PROVE Store!Next
  <2>1. /\ req[c].key \in Keys /\ req[c].other \in Keys
        /\ kind[req[c].key] = "active" /\ kind[req[c].other] = "absent"
    BY <1>2 DEF MetaInv, CheckedInv, commitCommit
  <2>2. Store!Commit(req[c].key, req[c].other)
    BY <1>2, <2>1 DEF commitCommit, meta, Store!Commit, MetaInv, TypeOK, MetaType
  <2> QED BY <2>1, <2>2 DEF Store!Next
<1>3. ASSUME NEW c \in Clients, removeCommit(c) PROVE Store!Next
  <2>1. req[c].key \in Live /\ req[c].key \in Keys /\ \A j \in Live : parentOf[j] # req[c].key
    BY <1>3 DEF MetaInv, CheckedInv, removeCommit
  <2>2. Store!Remove(req[c].key)
    BY <1>3, <2>1 DEF removeCommit, meta, Live, Store!Remove
  <2> QED BY <2>1, <2>2 DEF Store!Next
<1> QED BY <1>1, <1>2, <1>3, OnlyCommits

\* For any handlers, keys, I/O errors and crashes, createSnapshot, Commit and
\* Remove implement the atomic operations of SnapshotStore.
THEOREM StoreImplemented == Spec => ImplementsStore
<1>1. Init => Store!Init
  BY DEF Init, Store!Init
<1> QED BY <1>1, InitMeta, MetaStep, StoreStep, PTL DEF Spec, ImplementsStore, Store!Spec
=============================================================================
