------------------------ MODULE SnapshotterDirProofs ------------------------
(***************************************************************************)
(* The directories of Snapshotter, when nothing fails: DirInv is inductive *)
(* together with MetaInv and gives LiveHaveDirs, for any number of handlers*)
(* and keys and either value of AsyncRemove; RestInv, for synchronous      *)
(* removal, gives NoGarbageAtRest.                                         *)
(***************************************************************************)
EXTENDS SnapshotterProofs

(* Most leaves are first-order; Zenon finds them at once.                  *)
USE ZenonT(3), SMT

\* No I/O error, no crash, and a rootfs hook that succeeds.
FaultFree == MaxFaults = 0 /\ MaxCrashes = 0 /\ HookMayFail = FALSE

\* The temporary directory of a running createSnapshot exists, belongs to it
\* alone, and is on no removal list; handlers outside createSnapshot have none.
TempInv ==
  \A c \in Clients :
    /\ pc[c] \in {"CreateSnapshot", "Rename"} =>
         /\ td[c] \in Temps /\ td[c] \in dirs
         /\ \A d \in Clients : td[c] \notin removals[d] /\ (d # c => td[d] # td[c])
    /\ pc[c] \notin {"CreateSnapshot", "Rename", "reclaimTd", "reclaimPath"} =>
         td[c] = NoDir

\* Numbered directories have been handed out, but for the one that a handler
\* has renamed and not committed; path is set only from there on.
NumberInv ==
  /\ \A n \in dirs \cap Nat : n \in 1..seq \/ \E c \in Clients : pc[c] = "createCommit" /\ n = path[c]
  /\ \A c \in Clients : pc[c] \in {"mounts", "createCommit"} \/ path[c] = 0
  /\ \A c \in Clients : pc[c] = "createCommit" => path[c] \in dirs

\* A removal list names no live directory and none that may still become live.
RemovalInv ==
  \A c \in Clients :
    /\ \A n \in removals[c] \cap Nat : n \in 1..seq
    /\ pc[c] = "removeCommit" => removals[c] \cap LiveIds \subseteq {idOf[req[c].key]}
    /\ pc[c] # "removeCommit" => removals[c] \cap LiveIds = {}
    /\ pc[c] \notin {"removeCommit", "handoffRemove", "removeAll"} => removals[c] = {}

DirInv == TempInv /\ NumberInv /\ RemovalInv /\ LiveHaveDirs

-----------------------------------------------------------------------------
\* The error and crash alternatives are disabled when FaultFree.
LEMMA NoFault ==
  ASSUME FaultFree, TypeOK
  PROVE  ~Fault /\ ~HookMayFail /\ ~Crash
BY ConstantsAssumption DEF FaultFree, TypeOK, DiskType, Fault, Crash

\* Live IDs are numbers up to the sequence, never temporary names.
LEMMA LiveIdsNat ==
  ASSUME MetaInv
  PROVE  LiveIds \subseteq 1..seq /\ LiveIds \cap Temps = {}
BY ConstantsAssumption DEF MetaInv, UniqueIds, LiveIds, TypeOK, MetaType

\* The empty store satisfies DirInv.
LEMMA InitDir == Init => DirInv
BY ConstantsAssumption DEF Init, DirInv, TempInv, NumberInv, RemovalInv, LiveHaveDirs, LiveIds, Live

\* prepareDirectory keeps DirInv.  The new directory is on no removal list and nobody's td.
LEMMA Dir_prepareDirectory ==
  ASSUME FaultFree, MetaInv, DirInv, NEW c \in Clients, prepareDirectory(c)
  PROVE  DirInv'
<1> USE ConstantsAssumption, NoFault
    DEF MetaInv, TypeOK, DirInv, prepareDirectory, Goto, Return, EndWrite, meta, FreeTemps
<1>1. TempInv'
  BY DEF TempInv, LocalType, LockInv, TxSteps
<1>2. NumberInv'
  BY DEF NumberInv, LocalType, LockInv, TxSteps
<1>3. RemovalInv'
  BY DEF RemovalInv, LocalType, LockInv, TxSteps, LiveIds, Live
<1>4. LiveHaveDirs'
  BY DEF LiveHaveDirs, LiveIds, Live
<1> QED BY <1>1, <1>2, <1>3, <1>4

\* CreateSnapshot keeps DirInv.  td stays; when the check fails it is left to reclaimTd.
LEMMA Dir_CreateSnapshot ==
  ASSUME FaultFree, MetaInv, DirInv, NEW c \in Clients, CreateSnapshot(c)
  PROVE  DirInv'
<1> USE ConstantsAssumption, NoFault
    DEF MetaInv, TypeOK, DirInv, CreateSnapshot, Goto, EndWrite, meta
<1>1. TempInv'
  BY DEF TempInv, LocalType, LockInv, TxSteps
<1>2. NumberInv'
  BY DEF NumberInv, LocalType, LockInv, TxSteps
<1>3. RemovalInv'
  BY DEF RemovalInv, LocalType, LockInv, TxSteps, LiveIds, Live
<1>4. LiveHaveDirs'
  BY DEF LiveHaveDirs, LiveIds, Live
<1> QED BY <1>1, <1>2, <1>3, <1>4

\* Rename keeps DirInv.  seq + 1 names no directory, so the rename succeeds and path is set.
LEMMA Dir_Rename ==
  ASSUME FaultFree, MetaInv, DirInv, NEW c \in Clients, Rename(c)
  PROVE  DirInv'
<1> USE ConstantsAssumption, NoFault
    DEF MetaInv, TypeOK, DirInv, Rename, Goto, EndWrite, meta
<1>1. TempInv'
  BY DEF TempInv, LocalType, LockInv, TxSteps
<1>2. NumberInv'
  <2>1. seq + 1 \notin dirs
    BY DEF NumberInv, LocalType, MetaType, LockInv, TxSteps
  <2>2. td[c] \in dirs /\ td[c] \in Temps
    BY DEF TempInv
  <2>3. /\ dirs' = (dirs \ {td[c]}) \cup {seq + 1}
        /\ path' = [path EXCEPT ![c] = seq + 1]
        /\ pc' = [pc EXCEPT ![c] = "createCommit"]
        /\ seq' = seq
    BY <2>1, <2>2
  <2>4. \A d \in Clients : pc[d] = "createCommit" => d = c
    BY DEF LockInv, LocalType, TxSteps
  <2> QED BY <2>2, <2>3, <2>4 DEF NumberInv, LocalType, MetaType
<1>3. RemovalInv'
  BY DEF RemovalInv, LocalType, LockInv, TxSteps, LiveIds, Live
<1>4. LiveHaveDirs'
  <2>1. td[c] \in Temps
    BY DEF TempInv
  <2>2. LiveIds' = LiveIds
    BY DEF LiveIds, Live
  <2> QED BY <2>1, <2>2, LiveIdsNat DEF LiveHaveDirs
<1> QED BY <1>1, <1>2, <1>3, <1>4

\* createCommit keeps DirInv.  path, which is seq + 1, exists and is on no removal list.
LEMMA Dir_createCommit ==
  ASSUME FaultFree, MetaInv, DirInv, NEW c \in Clients, createCommit(c)
  PROVE  DirInv'
<1> USE ConstantsAssumption, NoFault
    DEF MetaInv, TypeOK, DirInv, createCommit, Goto, EndWrite, meta
<1>1. TempInv'
  BY DEF TempInv, LocalType, LockInv, TxSteps
<1>2. NumberInv'
  <2>1. path[c] = seq + 1 /\ seq' = seq + 1
    BY DEF CheckedInv
  <2>2. \A d \in Clients : pc[d] = "createCommit" => d = c
    BY DEF LockInv, LocalType, TxSteps
  <2> QED BY <2>1, <2>2 DEF NumberInv, LocalType, MetaType
<1>3. RemovalInv'
  <2>1. path[c] = seq + 1 /\ seq' = seq + 1 /\ seq \in Nat
    BY DEF CheckedInv, MetaType
  <2>2. LiveIds' \subseteq LiveIds \cup {path[c]}
    BY DEF CheckedInv, MetaType, LiveIds, Live
  <2>3. \A d \in Clients : pc[d] # "removeCommit" /\ pc'[d] # "removeCommit"
    BY DEF LockInv, LocalType, TxSteps
  <2>4. \A d \in Clients : removals[d] \cap LiveIds = {} /\ seq + 1 \notin removals[d]
    BY <2>1, <2>3 DEF RemovalInv
  <2>5. \A d \in Clients : removals[d] \cap LiveIds' = {}
    BY <2>1, <2>2, <2>4
  <2> QED BY <2>1, <2>3, <2>5 DEF RemovalInv, LocalType
<1>4. LiveHaveDirs'
  <2>1. LiveIds' \subseteq LiveIds \cup {path[c]}
    BY DEF CheckedInv, MetaType, LiveIds, Live
  <2> QED BY <2>1 DEF LiveHaveDirs, NumberInv
<1> QED BY <1>1, <1>2, <1>3, <1>4

\* createMounts keeps DirInv.  The hook succeeds, so path is dropped and never reclaimed.
LEMMA Dir_createMounts ==
  ASSUME FaultFree, MetaInv, DirInv, NEW c \in Clients, createMounts(c)
  PROVE  DirInv'
<1> USE ConstantsAssumption, NoFault
    DEF MetaInv, TypeOK, DirInv, createMounts, Goto, Return, meta, hookRuns, applyRootfsHook
<1>1. TempInv'
  BY DEF TempInv, LocalType, LockInv, TxSteps
<1>2. NumberInv'
  BY DEF NumberInv, LocalType, LockInv, TxSteps
<1>3. RemovalInv'
  BY DEF RemovalInv, LocalType, LockInv, TxSteps, LiveIds, Live
<1>4. LiveHaveDirs'
  BY DEF LiveHaveDirs, LiveIds, Live
<1> QED BY <1>1, <1>2, <1>3, <1>4

\* reclaimTd keeps DirInv.  td is a temporary name, which no live snapshot has.
LEMMA Dir_reclaimTd ==
  ASSUME FaultFree, MetaInv, DirInv, NEW c \in Clients, reclaimTd(c)
  PROVE  DirInv'
<1> USE ConstantsAssumption, NoFault
    DEF MetaInv, TypeOK, DirInv, reclaimTd, Goto, RemoveAll, meta
<1>1. TempInv'
  BY DEF TempInv, LocalType, LockInv, TxSteps
<1>2. NumberInv'
  BY DEF NumberInv, LocalType, LockInv, TxSteps
<1>3. RemovalInv'
  BY DEF RemovalInv, LocalType, LockInv, TxSteps, LiveIds, Live
<1>4. LiveHaveDirs'
  <2>1. td[c] = NoDir \/ td[c] \in Temps
    BY DEF LocalType
  <2>2. LiveIds' = LiveIds
    BY DEF LiveIds, Live
  <2> QED BY <2>1, <2>2, LiveIdsNat DEF LiveHaveDirs
<1> QED BY <1>1, <1>2, <1>3, <1>4

\* reclaimPath keeps DirInv.  path is unset: the rename of a fault-free run does not fail.
LEMMA Dir_reclaimPath ==
  ASSUME FaultFree, MetaInv, DirInv, NEW c \in Clients, reclaimPath(c)
  PROVE  DirInv'
<1> USE ConstantsAssumption, NoFault
    DEF MetaInv, TypeOK, DirInv, reclaimPath, Return, RemoveAll, meta
<1>1. TempInv'
  BY DEF TempInv, LocalType, LockInv, TxSteps
<1>2. NumberInv'
  BY DEF NumberInv, LocalType, LockInv, TxSteps
<1>3. RemovalInv'
  BY DEF RemovalInv, LocalType, LockInv, TxSteps, LiveIds, Live
<1>4. LiveHaveDirs'
  <2>1. path[c] = 0
    BY DEF NumberInv
  <2>2. LiveIds' = LiveIds
    BY DEF LiveIds, Live
  <2> QED BY <2>1, <2>2 DEF LiveHaveDirs
<1> QED BY <1>1, <1>2, <1>3, <1>4

\* MountsReturn keeps DirInv.  No directory changes.
LEMMA Dir_MountsReturn ==
  ASSUME FaultFree, MetaInv, DirInv, NEW c \in Clients, MountsReturn(c)
  PROVE  DirInv'
<1> USE ConstantsAssumption, NoFault
    DEF MetaInv, TypeOK, DirInv, MountsReturn, Return, meta, applyRootfsHook, hookRuns
<1>1. TempInv'
  BY DEF TempInv, LocalType, LockInv, TxSteps
<1>2. NumberInv'
  BY DEF NumberInv, LocalType, LockInv, TxSteps
<1>3. RemovalInv'
  BY DEF RemovalInv, LocalType, LockInv, TxSteps, LiveIds, Live
<1>4. LiveHaveDirs'
  BY DEF LiveHaveDirs, LiveIds, Live
<1> QED BY <1>1, <1>2, <1>3, <1>4

\* CommitActive keeps DirInv.  No directory changes.
LEMMA Dir_CommitActive ==
  ASSUME FaultFree, MetaInv, DirInv, NEW c \in Clients, CommitActive(c)
  PROVE  DirInv'
<1> USE ConstantsAssumption, NoFault
    DEF MetaInv, TypeOK, DirInv, CommitActive, Goto, Return, EndWrite, meta
<1>1. TempInv'
  BY DEF TempInv, LocalType, LockInv, TxSteps
<1>2. NumberInv'
  BY DEF NumberInv, LocalType, LockInv, TxSteps
<1>3. RemovalInv'
  BY DEF RemovalInv, LocalType, LockInv, TxSteps, LiveIds, Live
<1>4. LiveHaveDirs'
  BY DEF LiveHaveDirs, LiveIds, Live
<1> QED BY <1>1, <1>2, <1>3, <1>4

\* commitCommit keeps DirInv.  The directory goes from one key to the other.
LEMMA Dir_commitCommit ==
  ASSUME FaultFree, MetaInv, DirInv, NEW c \in Clients, commitCommit(c)
  PROVE  DirInv'
<1> USE ConstantsAssumption, NoFault
    DEF MetaInv, TypeOK, DirInv, commitCommit, Return, EndWrite, meta
<1>1. TempInv'
  BY DEF TempInv, LocalType, LockInv, TxSteps
<1>2. NumberInv'
  BY DEF NumberInv, LocalType, LockInv, TxSteps
<1>3. RemovalInv'
  <2>1. LiveIds' \subseteq LiveIds
    BY DEF CheckedInv, MetaType, LiveIds, Live
  <2>2. \A d \in Clients : pc[d] # "removeCommit" /\ pc'[d] # "removeCommit"
    BY DEF LockInv, LocalType, TxSteps
  <2>3. \A d \in Clients : removals[d] \cap LiveIds' = {}
    BY <2>1, <2>2 DEF RemovalInv
  <2> QED BY <2>2, <2>3 DEF RemovalInv, LocalType
<1>4. LiveHaveDirs'
  <2>1. LiveIds' \subseteq LiveIds
    BY DEF CheckedInv, MetaType, LiveIds, Live
  <2> QED BY <2>1 DEF LiveHaveDirs
<1> QED BY <1>1, <1>2, <1>3, <1>4

\* UpdateInfo keeps DirInv.  No directory changes.
LEMMA Dir_UpdateInfo ==
  ASSUME FaultFree, MetaInv, DirInv, NEW c \in Clients, UpdateInfo(c)
  PROVE  DirInv'
<1> USE ConstantsAssumption, NoFault
    DEF MetaInv, TypeOK, DirInv, UpdateInfo, Goto, Return, EndWrite, meta
<1>1. TempInv'
  BY DEF TempInv, LocalType, LockInv, TxSteps
<1>2. NumberInv'
  BY DEF NumberInv, LocalType, LockInv, TxSteps
<1>3. RemovalInv'
  BY DEF RemovalInv, LocalType, LockInv, TxSteps, LiveIds, Live
<1>4. LiveHaveDirs'
  BY DEF LiveHaveDirs, LiveIds, Live
<1> QED BY <1>1, <1>2, <1>3, <1>4

\* updateCommit keeps DirInv.  No directory changes.
LEMMA Dir_updateCommit ==
  ASSUME FaultFree, MetaInv, DirInv, NEW c \in Clients, updateCommit(c)
  PROVE  DirInv'
<1> USE ConstantsAssumption, NoFault
    DEF MetaInv, TypeOK, DirInv, updateCommit, Return, EndWrite, meta
<1>1. TempInv'
  BY DEF TempInv, LocalType, LockInv, TxSteps
<1>2. NumberInv'
  BY DEF NumberInv, LocalType, LockInv, TxSteps
<1>3. RemovalInv'
  BY DEF RemovalInv, LocalType, LockInv, TxSteps, LiveIds, Live
<1>4. LiveHaveDirs'
  BY DEF LiveHaveDirs, LiveIds, Live
<1> QED BY <1>1, <1>2, <1>3, <1>4

\* storageRemove keeps DirInv.  It lists numbered directories that are not live, and its own.
LEMMA Dir_storageRemove ==
  ASSUME FaultFree, MetaInv, DirInv, NEW c \in Clients, storageRemove(c)
  PROVE  DirInv'
<1> USE ConstantsAssumption, NoFault
    DEF MetaInv, TypeOK, DirInv, storageRemove, Goto, Return, EndWrite, meta, getCleanupDirectories
<1>1. TempInv'
  BY DEF TempInv, LocalType, LockInv, TxSteps
<1>2. NumberInv'
  BY DEF NumberInv, LocalType, LockInv, TxSteps
<1>3. RemovalInv'
  <2>1. LiveIds' = LiveIds /\ seq' = seq /\ idOf' = idOf
    BY DEF LiveIds, Live
  <2>2. \A n \in dirs \cap Nat : n \in 1..seq
    BY DEF NumberInv, LockInv, LocalType, TxSteps
  <2>3. \A d \in Clients \ {c} : pc[d] # "removeCommit"
    BY DEF LockInv, LocalType, TxSteps
  <2>4. /\ removals[c] = {}
        /\ removals'[c] \subseteq dirs \ (LiveIds \ {idOf[req[c].key]})
        /\ req'[c].key = req[c].key \/ removals'[c] = {}
        /\ pc'[c] \in {"removeCommit", "idle"}
        /\ pc'[c] = "idle" => removals'[c] = {}
    BY DEF RemovalInv, LocalType
  <2>5. \A d \in Clients \ {c} : removals'[d] = removals[d] /\ pc'[d] = pc[d]
    BY DEF LocalType
  <2> HIDE DEF storageRemove, getCleanupDirectories, Goto, Return
  <2> QED BY <2>1, <2>2, <2>3, <2>4, <2>5 DEF RemovalInv
<1>4. LiveHaveDirs'
  BY DEF LiveHaveDirs, LiveIds, Live
<1> QED BY <1>1, <1>2, <1>3, <1>4

\* removeCommit keeps DirInv.  The ID it listed leaves the metadata, by UniqueIds.
LEMMA Dir_removeCommit ==
  ASSUME FaultFree, MetaInv, DirInv, NEW c \in Clients, removeCommit(c)
  PROVE  DirInv'
<1> USE ConstantsAssumption, NoFault
    DEF MetaInv, TypeOK, DirInv, removeCommit, Goto, Return, EndWrite, meta
<1>1. TempInv'
  BY DEF TempInv, LocalType, LockInv, TxSteps
<1>2. NumberInv'
  BY DEF NumberInv, LocalType, LockInv, TxSteps
<1>3. RemovalInv'
  <2>1. LiveIds' \subseteq LiveIds \ {idOf[req[c].key]}
    BY DEF CheckedInv, MetaType, UniqueIds, LiveIds, Live
  <2>2. \A d \in Clients : pc'[d] # "removeCommit" /\ (d # c => pc[d] # "removeCommit")
    BY DEF LockInv, LocalType, TxSteps
  <2>3. \A d \in Clients : removals[d] \cap LiveIds' = {}
    BY <2>1, <2>2 DEF RemovalInv
  <2> QED BY <2>2, <2>3 DEF RemovalInv, LocalType
<1>4. LiveHaveDirs'
  <2>1. LiveIds' \subseteq LiveIds
    BY DEF CheckedInv, MetaType, LiveIds, Live
  <2> QED BY <2>1 DEF LiveHaveDirs
<1> QED BY <1>1, <1>2, <1>3, <1>4

\* handoffRemove keeps DirInv.  No directory changes.
LEMMA Dir_handoffRemove ==
  ASSUME FaultFree, MetaInv, DirInv, NEW c \in Clients, handoffRemove(c)
  PROVE  DirInv'
<1> USE ConstantsAssumption, NoFault
    DEF MetaInv, TypeOK, DirInv, handoffRemove, Goto, meta
<1>1. TempInv'
  BY DEF TempInv, LocalType, LockInv, TxSteps
<1>2. NumberInv'
  BY DEF NumberInv, LocalType, LockInv, TxSteps
<1>3. RemovalInv'
  BY DEF RemovalInv, LocalType, LockInv, TxSteps, LiveIds, Live
<1>4. LiveHaveDirs'
  BY DEF LiveHaveDirs, LiveIds, Live
<1> QED BY <1>1, <1>2, <1>3, <1>4

\* cleanupDirectories keeps DirInv.  It lists directories that are not live, and that no create is filling.
LEMMA Dir_cleanupDirectories ==
  ASSUME FaultFree, MetaInv, DirInv, NEW c \in Clients, cleanupDirectories(c)
  PROVE  DirInv'
<1> USE ConstantsAssumption, NoFault
    DEF MetaInv, TypeOK, DirInv, cleanupDirectories, Goto, Return, EndWrite, meta, getCleanupDirectories
<1>1. TempInv'
  BY DEF TempInv, LocalType, LockInv, TxSteps
<1>2. NumberInv'
  BY DEF NumberInv, LocalType, LockInv, TxSteps
<1>3. RemovalInv'
  <2>1. LiveIds' = LiveIds /\ seq' = seq /\ idOf' = idOf
    BY DEF LiveIds, Live
  <2>2. \A n \in dirs \cap Nat : n \in 1..seq
    BY DEF NumberInv, LockInv, LocalType, TxSteps
  <2>3. \A d \in Clients \ {c} : pc[d] # "removeCommit"
    BY DEF LockInv, LocalType, TxSteps
  <2>4. removals'[c] = dirs \ LiveIds /\ pc'[c] = "removeAll"
    BY DEF LocalType
  <2>5. \A d \in Clients \ {c} : removals'[d] = removals[d] /\ pc'[d] = pc[d]
    BY DEF LocalType
  <2> HIDE DEF cleanupDirectories, getCleanupDirectories, Goto, Return
  <2> QED BY <2>1, <2>2, <2>3, <2>4, <2>5 DEF RemovalInv
<1>4. LiveHaveDirs'
  BY DEF LiveHaveDirs, LiveIds, Live
<1> QED BY <1>1, <1>2, <1>3, <1>4

\* removeListed keeps DirInv.  A listed directory is neither live nor about to be.
LEMMA Dir_removeListed ==
  ASSUME FaultFree, MetaInv, DirInv, NEW c \in Clients, removeListed(c)
  PROVE  DirInv'
<1> USE ConstantsAssumption, NoFault
    DEF MetaInv, TypeOK, DirInv, removeListed, Return, RemoveAll, meta
<1>1. TempInv'
  BY DEF TempInv, LocalType, LockInv, TxSteps
<1>2. NumberInv'
  <2>1. \A n \in removals[c] \cap Nat : n \in 1..seq
    BY DEF RemovalInv
  <2>2. \A d \in Clients : pc[d] = "createCommit" => path[d] = seq + 1
    BY DEF CheckedInv
  <2>3. \A d \in Clients : pc[d] = "createCommit" => path[d] \notin removals[c]
    BY <2>1, <2>2 DEF MetaType
  <2>4. dirs' \subseteq dirs /\ dirs \ removals[c] \subseteq dirs'
    OBVIOUS
  <2>5. \A d \in Clients : pc[d] = "createCommit" <=> pc'[d] = "createCommit"
    BY DEF LocalType
  <2> QED BY <2>3, <2>4, <2>5 DEF NumberInv, LocalType
<1>3. RemovalInv'
  BY DEF RemovalInv, LocalType, LockInv, TxSteps, LiveIds, Live
<1>4. LiveHaveDirs'
  <2>1. removals[c] \cap LiveIds = {}
    BY DEF RemovalInv
  <2>2. LiveIds' = LiveIds
    BY DEF LiveIds, Live
  <2> QED BY <2>1, <2>2 DEF LiveHaveDirs
<1> QED BY <1>1, <1>2, <1>3, <1>4

\* WaitForReaders keeps DirInv.  No directory changes.
LEMMA Dir_WaitForReaders ==
  ASSUME FaultFree, MetaInv, DirInv, NEW c \in Clients, WaitForReaders(c)
  PROVE  DirInv'
<1> USE ConstantsAssumption, NoFault
    DEF MetaInv, TypeOK, DirInv, WaitForReaders, meta, locals
<1>1. TempInv'
  BY DEF TempInv, LocalType, LockInv, TxSteps
<1>2. NumberInv'
  BY DEF NumberInv, LocalType, LockInv, TxSteps
<1>3. RemovalInv'
  BY DEF RemovalInv, LocalType, LockInv, TxSteps, LiveIds, Live
<1>4. LiveHaveDirs'
  BY DEF LiveHaveDirs, LiveIds, Live
<1> QED BY <1>1, <1>2, <1>3, <1>4

\* An arriving request starts with no directory and an empty list.
LEMMA Dir_Arrive ==
  ASSUME FaultFree, MetaInv, DirInv, NEW c \in Clients, Arrive(c)
  PROVE  DirInv'
<1> USE ConstantsAssumption DEF MetaInv, TypeOK, DirInv, meta
<1>1. /\ pc[c] = "idle"
      /\ \E label \in {"prepareDirectory", "CommitActive", "UpdateInfo",
                       "storage.Remove", "scan", "Mounts", "idle"} :
           pc' = [pc EXCEPT ![c] = label]
      /\ UNCHANGED <<kind, idOf, parentOf, seq, dirs, td, path, removals>>
  BY DEF Arrive, createSnapshot, Commit, Remove, Mounts, Update, Cleanup,
     BeginWrite, Goto, LocalType
<1>2. \A d \in Clients : pc'[d] = "removeCommit" => req'[d] = req[d] /\ d # c
  BY <1>1 DEF Arrive, createSnapshot, Commit, Remove, Mounts, Update, Cleanup,
     BeginWrite, LocalType
<1>3. TempInv'
  BY <1>1 DEF TempInv, LocalType
<1>4. NumberInv'
  BY <1>1 DEF NumberInv, LocalType
<1>5. LiveIds' = LiveIds
  BY <1>1 DEF LiveIds, Live
<1>6. RemovalInv'
  BY <1>1, <1>2, <1>5 DEF RemovalInv, LocalType
<1>7. LiveHaveDirs'
  BY <1>1, <1>5 DEF LiveHaveDirs
<1> QED BY <1>3, <1>4, <1>6, <1>7

\* A step that changes nothing keeps DirInv.
LEMMA Dir_Stutter ==
  ASSUME DirInv, UNCHANGED vars
  PROVE  DirInv'
BY DEF DirInv, vars, TempInv, NumberInv, RemovalInv, LiveHaveDirs, LiveIds, Live

\* DirInv is inductive, given MetaInv, when FaultFree.
LEMMA DirStep ==
  ASSUME FaultFree, MetaInv, DirInv, [Next]_vars
  PROVE  DirInv'
<1>1. ASSUME NEW c \in Clients, Serve(c) PROVE DirInv'
  BY <1>1, Dir_prepareDirectory, Dir_CreateSnapshot, Dir_Rename,
     Dir_createCommit, Dir_createMounts, Dir_reclaimTd, Dir_reclaimPath,
     Dir_MountsReturn, Dir_CommitActive, Dir_commitCommit, Dir_UpdateInfo,
     Dir_updateCommit, Dir_storageRemove, Dir_removeCommit,
     Dir_handoffRemove, Dir_cleanupDirectories, Dir_removeListed
     DEF Serve
<1>2. ~Crash
  BY NoFault DEF MetaInv
<1> QED BY <1>1, <1>2, Dir_Arrive, Dir_WaitForReaders, Dir_Stutter DEF Next

\* Without I/O errors, crashes and hook errors, every snapshot in the metadata
\* has its directory at every moment, whatever handlers run beside it.
THEOREM DirectoriesStay ==
  ASSUME FaultFree
  PROVE  Spec => []LiveHaveDirs
<1>1. Init => MetaInv /\ DirInv
  BY InitMeta, InitDir
<1>2. MetaInv /\ DirInv /\ [Next]_vars => (MetaInv /\ DirInv)'
  BY FaultFree, MetaStep, DirStep
<1>3. MetaInv /\ DirInv => LiveHaveDirs
  BY DEF DirInv
<1> QED BY <1>1, <1>2, <1>3, PTL DEF Spec

-----------------------------------------------------------------------------
(* What is left behind, when removal is also synchronous: RestInv is       *)
(* inductive together with MetaInv and DirInv and gives NoGarbageAtRest.   *)

\* The directories that handler c is about to commit or to remove.
Claims(c) ==
  {d \in dirs : \/ d = td[c] /\ pc[c] # "reclaimPath"
                \/ d = path[c] /\ pc[c] = "createCommit"
                \/ d \in removals[c]}

\* Every directory is live, or some handler will commit or remove it.
GarbageInv == \A d \in dirs : d \in LiveIds \/ \E c \in Clients : d \in Claims(c)

\* The list of a Remove that is about to commit has the directory it owns.
ListedInv ==
  \A c \in Clients :
    pc[c] = "removeCommit" /\ idOf[req[c].key] \in dirs =>
      idOf[req[c].key] \in removals[c]

RestInv == GarbageInv /\ ListedInv


\* The empty store satisfies the invariant.
LEMMA InitRest == Init => RestInv
BY DEF Init, RestInv, GarbageInv, ListedInv

\* GarbageInv is kept by a step of handler c that takes nothing over from the
\* others, and leaves each directory it no longer claims live or removed.
LEMMA ClaimsKept ==
  ASSUME GarbageInv, NEW c \in Clients,
         \A e \in Clients \ {c} : Claims(e) \cap dirs' \subseteq Claims(e)',
         LiveIds \cap dirs' \subseteq LiveIds' \cup Claims(c)',
         Claims(c) \cap dirs' \subseteq LiveIds' \cup Claims(c)',
         dirs' \ dirs \subseteq LiveIds' \cup Claims(c)'
  PROVE  GarbageInv'
BY DEF GarbageInv

\* prepareDirectory keeps RestInv: what it drops is live or gone.
LEMMA Garbage_prepareDirectory ==
  ASSUME FaultFree, ~AsyncRemove, MetaInv, DirInv, RestInv,
         NEW c \in Clients, prepareDirectory(c)
  PROVE  RestInv'
<1> USE ConstantsAssumption, NoFault
    DEF MetaInv, TypeOK, DirInv, RestInv, prepareDirectory, Goto, Return, EndWrite, meta, FreeTemps
<1>1. GarbageInv'
  <2>1. LiveIds' = LiveIds
    BY DEF LiveIds, Live
  <2>2. \A e \in Clients \ {c} : Claims(e) \cap dirs' \subseteq Claims(e)'
    BY DEF Claims, LocalType
  <2>3. Claims(c) \cap dirs' \subseteq LiveIds' \cup Claims(c)'
    <3>1. td[c] = NoDir /\ removals[c] = {}
      BY DEF TempInv, RemovalInv
    <3>2. NoDir \notin dirs
      BY DEF DiskType
    <3> QED BY <3>1, <3>2 DEF Claims
  <2>4. LiveIds \cap dirs' \subseteq LiveIds' \cup Claims(c)'
    BY <2>1 DEF Claims, ListedInv, LocalType
  <2>5. dirs' \ dirs \subseteq LiveIds' \cup Claims(c)'
    BY DEF Claims, LocalType
  <2> QED BY <2>1, <2>2, <2>3, <2>4, <2>5, ClaimsKept
<1>2. ListedInv'
  BY DEF ListedInv, LocalType, LockInv, TxSteps
<1> QED BY <1>1, <1>2

\* CreateSnapshot keeps RestInv: what it drops is live or gone.
LEMMA Garbage_CreateSnapshot ==
  ASSUME FaultFree, ~AsyncRemove, MetaInv, DirInv, RestInv,
         NEW c \in Clients, CreateSnapshot(c)
  PROVE  RestInv'
<1> USE ConstantsAssumption, NoFault
    DEF MetaInv, TypeOK, DirInv, RestInv, CreateSnapshot, Goto, EndWrite, meta
<1>1. GarbageInv'
  <2>1. LiveIds' = LiveIds
    BY DEF LiveIds, Live
  <2>2. \A e \in Clients \ {c} : Claims(e) \cap dirs' \subseteq Claims(e)'
    BY DEF Claims, LocalType
  <2>3. Claims(c) \cap dirs' \subseteq LiveIds' \cup Claims(c)'
    BY <2>1 DEF Claims, LocalType, DiskType, TempInv, NumberInv, RemovalInv
  <2>4. LiveIds \cap dirs' \subseteq LiveIds' \cup Claims(c)'
    BY <2>1 DEF Claims, ListedInv, LocalType
  <2>5. dirs' \ dirs \subseteq LiveIds' \cup Claims(c)'
    BY DEF Claims, LocalType
  <2> QED BY <2>1, <2>2, <2>3, <2>4, <2>5, ClaimsKept
<1>2. ListedInv'
  BY DEF ListedInv, LocalType, LockInv, TxSteps
<1> QED BY <1>1, <1>2

\* Rename keeps RestInv: what it drops is live or gone.
LEMMA Garbage_Rename ==
  ASSUME FaultFree, ~AsyncRemove, MetaInv, DirInv, RestInv,
         NEW c \in Clients, Rename(c)
  PROVE  RestInv'
<1> USE ConstantsAssumption, NoFault
    DEF MetaInv, TypeOK, DirInv, RestInv, Rename, Goto, EndWrite, meta
<1>1. GarbageInv'
  <2>1. LiveIds' = LiveIds
    BY DEF LiveIds, Live
  <2>2. \A e \in Clients \ {c} : Claims(e) \cap dirs' \subseteq Claims(e)'
    BY DEF Claims, LocalType
  <2>3. Claims(c) \cap dirs' \subseteq LiveIds' \cup Claims(c)'
    BY <2>1 DEF Claims, LocalType, DiskType, TempInv, NumberInv, RemovalInv
  <2>4. LiveIds \cap dirs' \subseteq LiveIds' \cup Claims(c)'
    BY <2>1 DEF Claims, ListedInv, LocalType
  <2>5. dirs' \ dirs \subseteq LiveIds' \cup Claims(c)'
    BY DEF Claims, LocalType
  <2> QED BY <2>1, <2>2, <2>3, <2>4, <2>5, ClaimsKept
<1>2. ListedInv'
  BY DEF ListedInv, LocalType, LockInv, TxSteps
<1> QED BY <1>1, <1>2

\* createCommit keeps RestInv: what it drops is live or gone.
LEMMA Garbage_createCommit ==
  ASSUME FaultFree, ~AsyncRemove, MetaInv, DirInv, RestInv,
         NEW c \in Clients, createCommit(c)
  PROVE  RestInv'
<1> USE ConstantsAssumption, NoFault
    DEF MetaInv, TypeOK, DirInv, RestInv, createCommit, Goto, EndWrite, meta
<1>1. GarbageInv'
  <2>1. LiveIds \cup {path[c]} \subseteq LiveIds'
    BY DEF CheckedInv, storageCreateOK, MetaType, LiveIds, Live
  <2>2. \A e \in Clients \ {c} : Claims(e) \cap dirs' \subseteq Claims(e)'
    BY DEF Claims, LocalType
  <2>3. Claims(c) \cap dirs' \subseteq LiveIds' \cup Claims(c)'
    BY <2>1 DEF Claims, LocalType, DiskType, TempInv, NumberInv, RemovalInv
  <2>4. LiveIds \cap dirs' \subseteq LiveIds' \cup Claims(c)'
    BY <2>1 DEF Claims, ListedInv, LocalType
  <2>5. dirs' \ dirs \subseteq LiveIds' \cup Claims(c)'
    BY DEF Claims, LocalType
  <2> QED BY <2>1, <2>2, <2>3, <2>4, <2>5, ClaimsKept
<1>2. ListedInv'
  BY DEF ListedInv, LocalType, LockInv, TxSteps
<1> QED BY <1>1, <1>2

\* createMounts keeps RestInv: what it drops is live or gone.
LEMMA Garbage_createMounts ==
  ASSUME FaultFree, ~AsyncRemove, MetaInv, DirInv, RestInv,
         NEW c \in Clients, createMounts(c)
  PROVE  RestInv'
<1> USE ConstantsAssumption, NoFault
    DEF MetaInv, TypeOK, DirInv, RestInv, createMounts, Goto, Return, meta, hookRuns, applyRootfsHook
<1>1. GarbageInv'
  <2>1. LiveIds' = LiveIds
    BY DEF LiveIds, Live
  <2>2. \A e \in Clients \ {c} : Claims(e) \cap dirs' \subseteq Claims(e)'
    BY DEF Claims, LocalType
  <2>3. Claims(c) \cap dirs' \subseteq LiveIds' \cup Claims(c)'
    BY <2>1 DEF Claims, LocalType, DiskType, TempInv, NumberInv, RemovalInv
  <2>4. LiveIds \cap dirs' \subseteq LiveIds' \cup Claims(c)'
    BY <2>1 DEF Claims, ListedInv, LocalType
  <2>5. dirs' \ dirs \subseteq LiveIds' \cup Claims(c)'
    BY DEF Claims, LocalType
  <2> QED BY <2>1, <2>2, <2>3, <2>4, <2>5, ClaimsKept
<1>2. ListedInv'
  BY DEF ListedInv, LocalType, LockInv, TxSteps
<1> QED BY <1>1, <1>2

\* reclaimTd keeps RestInv: what it drops is live or gone.
LEMMA Garbage_reclaimTd ==
  ASSUME FaultFree, ~AsyncRemove, MetaInv, DirInv, RestInv,
         NEW c \in Clients, reclaimTd(c)
  PROVE  RestInv'
<1> USE ConstantsAssumption, NoFault
    DEF MetaInv, TypeOK, DirInv, RestInv, reclaimTd, Goto, RemoveAll, meta
<1>1. GarbageInv'
  <2>1. LiveIds' = LiveIds
    BY DEF LiveIds, Live
  <2>2. \A e \in Clients \ {c} : Claims(e) \cap dirs' \subseteq Claims(e)'
    BY DEF Claims, LocalType
  <2>3. Claims(c) \cap dirs' \subseteq LiveIds' \cup Claims(c)'
    <3>1. removals[c] = {} /\ NoDir \notin dirs
      BY DEF RemovalInv, DiskType
    <3>2. CASE td[c] = NoDir
      BY <3>1, <3>2 DEF Claims
    <3>3. CASE td[c] # NoDir
      <4>1. dirs' = dirs \ {td[c]}
        BY <3>3
      <4> QED BY <3>1, <4>1 DEF Claims
    <3> QED BY <3>2, <3>3
  <2>4. LiveIds \cap dirs' \subseteq LiveIds' \cup Claims(c)'
    BY <2>1 DEF Claims, ListedInv, LocalType
  <2>5. dirs' \ dirs \subseteq LiveIds' \cup Claims(c)'
    BY DEF Claims, LocalType
  <2> QED BY <2>1, <2>2, <2>3, <2>4, <2>5, ClaimsKept
<1>2. ListedInv'
  BY DEF ListedInv, LocalType, LockInv, TxSteps
<1> QED BY <1>1, <1>2

\* reclaimPath keeps RestInv: what it drops is live or gone.
LEMMA Garbage_reclaimPath ==
  ASSUME FaultFree, ~AsyncRemove, MetaInv, DirInv, RestInv,
         NEW c \in Clients, reclaimPath(c)
  PROVE  RestInv'
<1> USE ConstantsAssumption, NoFault
    DEF MetaInv, TypeOK, DirInv, RestInv, reclaimPath, Return, RemoveAll, meta
<1>1. GarbageInv'
  <2>1. LiveIds' = LiveIds
    BY DEF LiveIds, Live
  <2>2. \A e \in Clients \ {c} : Claims(e) \cap dirs' \subseteq Claims(e)'
    BY DEF Claims, LocalType
  <2>3. Claims(c) \cap dirs' \subseteq LiveIds' \cup Claims(c)'
    BY <2>1 DEF Claims, LocalType, DiskType, TempInv, NumberInv, RemovalInv
  <2>4. LiveIds \cap dirs' \subseteq LiveIds' \cup Claims(c)'
    BY <2>1 DEF Claims, ListedInv, LocalType
  <2>5. dirs' \ dirs \subseteq LiveIds' \cup Claims(c)'
    BY DEF Claims, LocalType
  <2> QED BY <2>1, <2>2, <2>3, <2>4, <2>5, ClaimsKept
<1>2. ListedInv'
  BY DEF ListedInv, LocalType, LockInv, TxSteps
<1> QED BY <1>1, <1>2

\* MountsReturn keeps RestInv: what it drops is live or gone.
LEMMA Garbage_MountsReturn ==
  ASSUME FaultFree, ~AsyncRemove, MetaInv, DirInv, RestInv,
         NEW c \in Clients, MountsReturn(c)
  PROVE  RestInv'
<1> USE ConstantsAssumption, NoFault
    DEF MetaInv, TypeOK, DirInv, RestInv, MountsReturn, Return, meta, applyRootfsHook, hookRuns
<1>1. GarbageInv'
  <2>1. LiveIds' = LiveIds
    BY DEF LiveIds, Live
  <2>2. \A e \in Clients \ {c} : Claims(e) \cap dirs' \subseteq Claims(e)'
    BY DEF Claims, LocalType
  <2>3. Claims(c) \cap dirs' \subseteq LiveIds' \cup Claims(c)'
    BY <2>1 DEF Claims, LocalType, DiskType, TempInv, NumberInv, RemovalInv
  <2>4. LiveIds \cap dirs' \subseteq LiveIds' \cup Claims(c)'
    BY <2>1 DEF Claims, ListedInv, LocalType
  <2>5. dirs' \ dirs \subseteq LiveIds' \cup Claims(c)'
    BY DEF Claims, LocalType
  <2> QED BY <2>1, <2>2, <2>3, <2>4, <2>5, ClaimsKept
<1>2. ListedInv'
  BY DEF ListedInv, LocalType, LockInv, TxSteps
<1> QED BY <1>1, <1>2

\* CommitActive keeps RestInv: what it drops is live or gone.
LEMMA Garbage_CommitActive ==
  ASSUME FaultFree, ~AsyncRemove, MetaInv, DirInv, RestInv,
         NEW c \in Clients, CommitActive(c)
  PROVE  RestInv'
<1> USE ConstantsAssumption, NoFault
    DEF MetaInv, TypeOK, DirInv, RestInv, CommitActive, Goto, Return, EndWrite, meta
<1>1. GarbageInv'
  <2>1. LiveIds' = LiveIds
    BY DEF LiveIds, Live
  <2>2. \A e \in Clients \ {c} : Claims(e) \cap dirs' \subseteq Claims(e)'
    BY DEF Claims, LocalType
  <2>3. Claims(c) \cap dirs' \subseteq LiveIds' \cup Claims(c)'
    BY <2>1 DEF Claims, LocalType, DiskType, TempInv, NumberInv, RemovalInv
  <2>4. LiveIds \cap dirs' \subseteq LiveIds' \cup Claims(c)'
    BY <2>1 DEF Claims, ListedInv, LocalType
  <2>5. dirs' \ dirs \subseteq LiveIds' \cup Claims(c)'
    BY DEF Claims, LocalType
  <2> QED BY <2>1, <2>2, <2>3, <2>4, <2>5, ClaimsKept
<1>2. ListedInv'
  BY DEF ListedInv, LocalType, LockInv, TxSteps
<1> QED BY <1>1, <1>2

\* commitCommit keeps RestInv: what it drops is live or gone.
LEMMA Garbage_commitCommit ==
  ASSUME FaultFree, ~AsyncRemove, MetaInv, DirInv, RestInv,
         NEW c \in Clients, commitCommit(c)
  PROVE  RestInv'
<1> USE ConstantsAssumption, NoFault
    DEF MetaInv, TypeOK, DirInv, RestInv, commitCommit, Return, EndWrite, meta
<1>1. GarbageInv'
  <2>1. LiveIds \subseteq LiveIds'
    <3>1. /\ req[c].key \in Keys /\ req[c].other \in Keys
          /\ kind[req[c].key] = "active" /\ kind[req[c].other] = "absent"
      BY DEF CheckedInv
    <3>2. \A k \in Live \ {req[c].key} : k \in Live' /\ idOf'[k] = idOf[k]
      BY <3>1 DEF MetaType, Live
    <3>3. req[c].other \in Live' /\ idOf'[req[c].other] = idOf[req[c].key]
      BY <3>1 DEF MetaType, Live
    <3> QED BY <3>2, <3>3 DEF LiveIds, Live
  <2>2. \A e \in Clients \ {c} : Claims(e) \cap dirs' \subseteq Claims(e)'
    BY DEF Claims, LocalType
  <2>3. Claims(c) \cap dirs' \subseteq LiveIds' \cup Claims(c)'
    BY <2>1 DEF Claims, LocalType, DiskType, TempInv, NumberInv, RemovalInv
  <2>4. LiveIds \cap dirs' \subseteq LiveIds' \cup Claims(c)'
    BY <2>1 DEF Claims, ListedInv, LocalType
  <2>5. dirs' \ dirs \subseteq LiveIds' \cup Claims(c)'
    BY DEF Claims, LocalType
  <2> QED BY <2>1, <2>2, <2>3, <2>4, <2>5, ClaimsKept
<1>2. ListedInv'
  BY DEF ListedInv, LocalType, LockInv, TxSteps
<1> QED BY <1>1, <1>2

\* UpdateInfo keeps RestInv: what it drops is live or gone.
LEMMA Garbage_UpdateInfo ==
  ASSUME FaultFree, ~AsyncRemove, MetaInv, DirInv, RestInv,
         NEW c \in Clients, UpdateInfo(c)
  PROVE  RestInv'
<1> USE ConstantsAssumption, NoFault
    DEF MetaInv, TypeOK, DirInv, RestInv, UpdateInfo, Goto, Return, EndWrite, meta
<1>1. GarbageInv'
  <2>1. LiveIds' = LiveIds
    BY DEF LiveIds, Live
  <2>2. \A e \in Clients \ {c} : Claims(e) \cap dirs' \subseteq Claims(e)'
    BY DEF Claims, LocalType
  <2>3. Claims(c) \cap dirs' \subseteq LiveIds' \cup Claims(c)'
    BY <2>1 DEF Claims, LocalType, DiskType, TempInv, NumberInv, RemovalInv
  <2>4. LiveIds \cap dirs' \subseteq LiveIds' \cup Claims(c)'
    BY <2>1 DEF Claims, ListedInv, LocalType
  <2>5. dirs' \ dirs \subseteq LiveIds' \cup Claims(c)'
    BY DEF Claims, LocalType
  <2> QED BY <2>1, <2>2, <2>3, <2>4, <2>5, ClaimsKept
<1>2. ListedInv'
  BY DEF ListedInv, LocalType, LockInv, TxSteps
<1> QED BY <1>1, <1>2

\* updateCommit keeps RestInv: what it drops is live or gone.
LEMMA Garbage_updateCommit ==
  ASSUME FaultFree, ~AsyncRemove, MetaInv, DirInv, RestInv,
         NEW c \in Clients, updateCommit(c)
  PROVE  RestInv'
<1> USE ConstantsAssumption, NoFault
    DEF MetaInv, TypeOK, DirInv, RestInv, updateCommit, Return, EndWrite, meta
<1>1. GarbageInv'
  <2>1. LiveIds' = LiveIds
    BY DEF LiveIds, Live
  <2>2. \A e \in Clients \ {c} : Claims(e) \cap dirs' \subseteq Claims(e)'
    BY DEF Claims, LocalType
  <2>3. Claims(c) \cap dirs' \subseteq LiveIds' \cup Claims(c)'
    BY <2>1 DEF Claims, LocalType, DiskType, TempInv, NumberInv, RemovalInv
  <2>4. LiveIds \cap dirs' \subseteq LiveIds' \cup Claims(c)'
    BY <2>1 DEF Claims, ListedInv, LocalType
  <2>5. dirs' \ dirs \subseteq LiveIds' \cup Claims(c)'
    BY DEF Claims, LocalType
  <2> QED BY <2>1, <2>2, <2>3, <2>4, <2>5, ClaimsKept
<1>2. ListedInv'
  BY DEF ListedInv, LocalType, LockInv, TxSteps
<1> QED BY <1>1, <1>2

\* storageRemove keeps RestInv: what it drops is live or gone.
LEMMA Garbage_storageRemove ==
  ASSUME FaultFree, ~AsyncRemove, MetaInv, DirInv, RestInv,
         NEW c \in Clients, storageRemove(c)
  PROVE  RestInv'
<1> USE ConstantsAssumption, NoFault
    DEF MetaInv, TypeOK, DirInv, RestInv, storageRemove, Goto, Return, EndWrite, meta, getCleanupDirectories
<1>1. GarbageInv'
  <2>1. LiveIds' = LiveIds
    BY DEF LiveIds, Live
  <2>2. \A e \in Clients \ {c} : Claims(e) \cap dirs' \subseteq Claims(e)'
    BY DEF Claims, LocalType
  <2>3. Claims(c) \cap dirs' \subseteq LiveIds' \cup Claims(c)'
    BY <2>1 DEF Claims, LocalType, DiskType, TempInv, NumberInv, RemovalInv
  <2>4. LiveIds \cap dirs' \subseteq LiveIds' \cup Claims(c)'
    BY <2>1 DEF Claims, ListedInv, LocalType
  <2>5. dirs' \ dirs \subseteq LiveIds' \cup Claims(c)'
    BY DEF Claims, LocalType
  <2> QED BY <2>1, <2>2, <2>3, <2>4, <2>5, ClaimsKept
<1>2. ListedInv'
  BY DEF ListedInv, LocalType, LockInv, TxSteps
<1> QED BY <1>1, <1>2

\* removeCommit keeps RestInv: what it drops is live or gone.
LEMMA Garbage_removeCommit ==
  ASSUME FaultFree, ~AsyncRemove, MetaInv, DirInv, RestInv,
         NEW c \in Clients, removeCommit(c)
  PROVE  RestInv'
<1> USE ConstantsAssumption, NoFault
    DEF MetaInv, TypeOK, DirInv, RestInv, removeCommit, Goto, Return, EndWrite, meta
<1>1. GarbageInv'
  <2>1. LiveIds \ {idOf[req[c].key]} \subseteq LiveIds'
    BY DEF CheckedInv, MetaType, LiveIds, Live
  <2>2. \A e \in Clients \ {c} : Claims(e) \cap dirs' \subseteq Claims(e)'
    BY DEF Claims, LocalType
  <2>3. Claims(c) \cap dirs' \subseteq LiveIds' \cup Claims(c)'
    BY <2>1 DEF Claims, LocalType, DiskType, TempInv, NumberInv, RemovalInv
  <2>4. LiveIds \cap dirs' \subseteq LiveIds' \cup Claims(c)'
    BY <2>1 DEF Claims, ListedInv, LocalType
  <2>5. dirs' \ dirs \subseteq LiveIds' \cup Claims(c)'
    BY DEF Claims, LocalType
  <2> QED BY <2>1, <2>2, <2>3, <2>4, <2>5, ClaimsKept
<1>2. ListedInv'
  BY DEF ListedInv, LocalType, LockInv, TxSteps
<1> QED BY <1>1, <1>2

\* handoffRemove keeps RestInv: what it drops is live or gone.
LEMMA Garbage_handoffRemove ==
  ASSUME FaultFree, ~AsyncRemove, MetaInv, DirInv, RestInv,
         NEW c \in Clients, handoffRemove(c)
  PROVE  RestInv'
<1> USE ConstantsAssumption, NoFault
    DEF MetaInv, TypeOK, DirInv, RestInv, handoffRemove, Goto, meta
<1>1. GarbageInv'
  <2>1. LiveIds' = LiveIds
    BY DEF LiveIds, Live
  <2>2. \A e \in Clients \ {c} : Claims(e) \cap dirs' \subseteq Claims(e)'
    BY DEF Claims, LocalType
  <2>3. Claims(c) \cap dirs' \subseteq LiveIds' \cup Claims(c)'
    BY <2>1 DEF Claims, LocalType, DiskType, TempInv, NumberInv, RemovalInv
  <2>4. LiveIds \cap dirs' \subseteq LiveIds' \cup Claims(c)'
    BY <2>1 DEF Claims, ListedInv, LocalType
  <2>5. dirs' \ dirs \subseteq LiveIds' \cup Claims(c)'
    BY DEF Claims, LocalType
  <2> QED BY <2>1, <2>2, <2>3, <2>4, <2>5, ClaimsKept
<1>2. ListedInv'
  BY DEF ListedInv, LocalType, LockInv, TxSteps
<1> QED BY <1>1, <1>2

\* cleanupDirectories keeps RestInv: what it drops is live or gone.
LEMMA Garbage_cleanupDirectories ==
  ASSUME FaultFree, ~AsyncRemove, MetaInv, DirInv, RestInv,
         NEW c \in Clients, cleanupDirectories(c)
  PROVE  RestInv'
<1> USE ConstantsAssumption, NoFault
    DEF MetaInv, TypeOK, DirInv, RestInv, cleanupDirectories, Goto, Return, EndWrite, meta, getCleanupDirectories
<1>1. GarbageInv'
  <2>1. LiveIds' = LiveIds
    BY DEF LiveIds, Live
  <2>2. \A e \in Clients \ {c} : Claims(e) \cap dirs' \subseteq Claims(e)'
    BY DEF Claims, LocalType
  <2>3. Claims(c) \cap dirs' \subseteq LiveIds' \cup Claims(c)'
    BY <2>1 DEF Claims, LocalType, DiskType, TempInv, NumberInv, RemovalInv
  <2>4. LiveIds \cap dirs' \subseteq LiveIds' \cup Claims(c)'
    BY <2>1 DEF Claims, ListedInv, LocalType
  <2>5. dirs' \ dirs \subseteq LiveIds' \cup Claims(c)'
    BY DEF Claims, LocalType
  <2> QED BY <2>1, <2>2, <2>3, <2>4, <2>5, ClaimsKept
<1>2. ListedInv'
  BY DEF ListedInv, LocalType, LockInv, TxSteps
<1> QED BY <1>1, <1>2

\* removeListed keeps RestInv: what it drops is live or gone.
LEMMA Garbage_removeListed ==
  ASSUME FaultFree, ~AsyncRemove, MetaInv, DirInv, RestInv,
         NEW c \in Clients, removeListed(c)
  PROVE  RestInv'
<1> USE ConstantsAssumption, NoFault
    DEF MetaInv, TypeOK, DirInv, RestInv, removeListed, Return, RemoveAll, meta
<1>1. GarbageInv'
  <2>1. LiveIds' = LiveIds
    BY DEF LiveIds, Live
  <2>2. \A e \in Clients \ {c} : Claims(e) \cap dirs' \subseteq Claims(e)'
    BY DEF Claims, LocalType
  <2>3. Claims(c) \cap dirs' \subseteq LiveIds' \cup Claims(c)'
    BY <2>1 DEF Claims, LocalType, DiskType, TempInv, NumberInv, RemovalInv
  <2>4. LiveIds \cap dirs' \subseteq LiveIds' \cup Claims(c)'
    BY <2>1 DEF Claims, ListedInv, LocalType
  <2>5. dirs' \ dirs \subseteq LiveIds' \cup Claims(c)'
    BY DEF Claims, LocalType
  <2> QED BY <2>1, <2>2, <2>3, <2>4, <2>5, ClaimsKept
<1>2. ListedInv'
  BY DEF ListedInv, LocalType, LockInv, TxSteps
<1> QED BY <1>1, <1>2

\* WaitForReaders keeps RestInv: what it drops is live or gone.
LEMMA Garbage_WaitForReaders ==
  ASSUME FaultFree, ~AsyncRemove, MetaInv, DirInv, RestInv,
         NEW c \in Clients, WaitForReaders(c)
  PROVE  RestInv'
<1> USE ConstantsAssumption, NoFault
    DEF MetaInv, TypeOK, DirInv, RestInv, WaitForReaders, meta, locals
<1>1. GarbageInv'
  <2>1. LiveIds' = LiveIds
    BY DEF LiveIds, Live
  <2>2. \A e \in Clients \ {c} : Claims(e) \cap dirs' \subseteq Claims(e)'
    BY DEF Claims, LocalType
  <2>3. Claims(c) \cap dirs' \subseteq LiveIds' \cup Claims(c)'
    BY <2>1 DEF Claims, LocalType, DiskType, TempInv, NumberInv, RemovalInv
  <2>4. LiveIds \cap dirs' \subseteq LiveIds' \cup Claims(c)'
    BY <2>1 DEF Claims, ListedInv, LocalType
  <2>5. dirs' \ dirs \subseteq LiveIds' \cup Claims(c)'
    BY DEF Claims, LocalType
  <2> QED BY <2>1, <2>2, <2>3, <2>4, <2>5, ClaimsKept
<1>2. ListedInv'
  BY DEF ListedInv, LocalType, LockInv, TxSteps
<1> QED BY <1>1, <1>2


\* An arriving request changes no directory and no claim.
LEMMA Garbage_Arrive ==
  ASSUME MetaInv, RestInv, NEW c \in Clients, Arrive(c)
  PROVE  RestInv'
<1> USE ConstantsAssumption DEF MetaInv, TypeOK, RestInv, meta
<1>1. /\ pc[c] = "idle"
      /\ \E label \in {"prepareDirectory", "CommitActive", "UpdateInfo",
                       "storage.Remove", "scan", "Mounts", "idle"} :
           pc' = [pc EXCEPT ![c] = label]
      /\ UNCHANGED <<kind, idOf, parentOf, seq, dirs, td, path, removals>>
  BY DEF Arrive, createSnapshot, Commit, Remove, Mounts, Update, Cleanup,
     BeginWrite, Goto, LocalType
<1>2. \A d \in Clients : pc'[d] = "removeCommit" =>
        pc[d] = "removeCommit" /\ req'[d] = req[d]
  <2>1. \A d \in Clients : pc'[d] = "removeCommit" => d # c /\ pc[d] = "removeCommit"
    BY <1>1 DEF LocalType
  <2>2. req' = req \/ \E r : req' = [req EXCEPT ![c] = r]
    BY Zenon DEF Arrive, createSnapshot, Commit, Remove, Mounts, Update, Cleanup, BeginWrite
  <2>3. \A d \in Clients \ {c} : req'[d] = req[d]
    BY <2>2 DEF LocalType
  <2> QED BY <2>1, <2>3
<1>3. LiveIds' = LiveIds
  BY <1>1 DEF LiveIds, Live
<1>4. GarbageInv'
  BY <1>1, <1>3 DEF GarbageInv, Claims, LocalType
<1>5. ListedInv'
  BY <1>1, <1>2 DEF ListedInv
<1> QED BY <1>4, <1>5

\* A step that changes nothing keeps RestInv.
LEMMA Garbage_Stutter ==
  ASSUME RestInv, UNCHANGED vars
  PROVE  RestInv'
BY DEF RestInv, GarbageInv, Claims, ListedInv, vars, LiveIds, Live

\* RestInv is inductive, given MetaInv and DirInv.
LEMMA RestStep ==
  ASSUME FaultFree, ~AsyncRemove, MetaInv, DirInv, RestInv, [Next]_vars
  PROVE  RestInv'
<1>1. ASSUME NEW c \in Clients, Serve(c) PROVE RestInv'
  BY <1>1, Garbage_prepareDirectory, Garbage_CreateSnapshot, Garbage_Rename,
     Garbage_createCommit, Garbage_createMounts, Garbage_reclaimTd,
     Garbage_reclaimPath, Garbage_MountsReturn, Garbage_CommitActive,
     Garbage_commitCommit, Garbage_UpdateInfo, Garbage_updateCommit,
     Garbage_storageRemove, Garbage_removeCommit, Garbage_handoffRemove,
     Garbage_cleanupDirectories, Garbage_removeListed
     DEF Serve
<1>2. ~Crash
  BY NoFault DEF MetaInv
<1> QED BY <1>1, <1>2, Garbage_Arrive, Garbage_WaitForReaders, Garbage_Stutter
        DEF Next

\* Without errors and with synchronous removal, a snapshotter at rest has
\* exactly the directories of its live snapshots.
THEOREM NothingLeftBehind ==
  ASSUME FaultFree, ~AsyncRemove
  PROVE  Spec => []NoGarbageAtRest
<1> DEFINE Inv == MetaInv /\ DirInv /\ RestInv
<1>1. Init => Inv
  BY InitMeta, InitDir, InitRest
<1>2. Inv /\ [Next]_vars => Inv'
  BY MetaStep, DirStep, RestStep, FaultFree, ~AsyncRemove
<1>3. Inv => NoGarbageAtRest
  <2> SUFFICES ASSUME MetaInv, DirInv, RestInv,
                      \A c \in Clients : pc[c] = "idle"
               PROVE  dirs = LiveIds
    BY DEF NoGarbageAtRest
  <2>1. \A c \in Clients : td[c] = NoDir /\ removals[c] = {}
    BY DEF DirInv, TempInv, RemovalInv
  <2>2. \A d \in dirs : d \in Nat \cup Temps
    BY DEF MetaInv, TypeOK, DiskType
  <2>3. NoDir \notin Nat \cup Temps
    BY ConstantsAssumption
  <2> QED BY <2>1, <2>2, <2>3 DEF RestInv, GarbageInv, Claims, DirInv, LiveHaveDirs
<1> QED BY <1>1, <1>2, <1>3, PTL DEF Spec
=============================================================================
