---------------------------- MODULE Snapshotter ----------------------------
(***************************************************************************)
(* The sysbox-snapshotter daemon (sysbox-snapshotter/fuseoverlayfs.go):    *)
(* concurrent gRPC handlers over one bolt metadata store and one directory *)
(* tree <root>/snapshots.                                                  *)
(*                                                                         *)
(* Metadata changes are made under the store's single write transaction;   *)
(* directories are created under it, but removed outside it, after the     *)
(* transaction has ended.  The module keeps the two apart: every step      *)
(* between two points where another handler can interfere is an action.    *)
(*                                                                         *)
(* The metadata store (containerd core/snapshots/storage over bbolt) is    *)
(* external; it is modelled from the way the snapshotter uses it: one      *)
(* write transaction at a time, nothing visible or durable before Commit,  *)
(* snapshot IDs drawn from a bucket sequence that a rollback rewinds.      *)
(***************************************************************************)
EXTENDS Naturals, FiniteSets

CONSTANTS
  Clients,       \* concurrent gRPC handlers
  Keys,          \* snapshot keys and committed names
  Temps,         \* names that os.MkdirTemp(snapshots, "new-") can return
  Nobody,        \* no handler holds the write transaction
  NoKey,         \* the empty parent
  NoDir,         \* td == ""
  MaxId,         \* bound: number of snapshot IDs ever committed
  MaxFaults,     \* bound: I/O errors (mkdir, chown, rename, commit, unlink)
  MaxCrashes,    \* bound: crashes of the daemon
  AsyncRemove,   \* SnapshotterConfig.asyncRemove
  HookMayFail    \* applyRootfsHook / materialisation may return an error

ASSUME ConstantsAssumption ==
  /\ Nobody \notin Clients
  /\ NoKey \notin Keys
  /\ NoDir \notin Nat \cup Temps
  /\ \A t \in Temps : t \notin Nat
  /\ MaxId \in Nat /\ MaxFaults \in Nat /\ MaxCrashes \in Nat
  /\ AsyncRemove \in BOOLEAN /\ HookMayFail \in BOOLEAN

VARIABLES
  kind,          \* committed metadata: kind of each key, "absent" if none
  idOf,          \* committed metadata: storage ID of each key
  parentOf,      \* committed metadata: parent of each key
  seq,           \* committed metadata: bucket sequence, last ID handed out
  dirs,          \* entries of <root>/snapshots: IDs and new-* directories
  handoffs,      \* keys that have a file in the persistent-special handoff dir
  writer,        \* handler that holds the write transaction
  leaked,        \* a read transaction was left open
  wedged,        \* a write transaction waits forever for a leaked reader
  pc,            \* where each handler is
  req,           \* the request each handler serves
  td, path,      \* createSnapshot's td and path (path = 0 stands for "")
  removals,      \* directories a handler has still to remove
  faults, crashes

meta    == <<kind, idOf, parentOf, seq>>
locals  == <<pc, req, td, path, removals>>
vars    == <<kind, idOf, parentOf, seq, dirs, handoffs, writer, leaked,
             wedged, pc, req, td, path, removals, faults, crashes>>

Kinds     == {"active", "view", "committed"}
Requests  == [kind : {"none", "active", "view"}, key : Keys \cup {NoKey},
              other : Keys \cup {NoKey}]
NoRequest == [kind |-> "none", key |-> NoKey, other |-> NoKey]

TxSteps   == {"prepareDirectory", "CreateSnapshot", "Rename", "createCommit",
              "storage.Remove", "removeCommit", "scan", "CommitActive",
              "commitCommit", "UpdateInfo", "updateCommit"}
OpenSteps == {"idle", "mounts", "Mounts", "reclaimTd", "reclaimPath",
              "handoffRemove", "removeAll"}

Live      == {k \in Keys : kind[k] # "absent"}
LiveIds   == {idOf[k] : k \in Live}

MetaType ==
  /\ kind \in [Keys -> Kinds \cup {"absent"}]
  /\ idOf \in [Keys -> Nat]
  /\ parentOf \in [Keys -> Keys \cup {NoKey}]
  /\ seq \in Nat

DiskType ==
  /\ dirs \in SUBSET (Nat \cup Temps)
  /\ handoffs \in SUBSET Keys
  /\ faults \in 0..MaxFaults
  /\ crashes \in 0..MaxCrashes

TxType ==
  /\ writer \in Clients \cup {Nobody}
  /\ leaked \in BOOLEAN
  /\ wedged \in BOOLEAN

LocalType ==
  /\ pc \in [Clients -> TxSteps \cup OpenSteps]
  /\ req \in [Clients -> Requests]
  /\ td \in [Clients -> Temps \cup {NoDir}]
  /\ path \in [Clients -> Nat]
  /\ removals \in [Clients -> SUBSET (Nat \cup Temps)]

TypeOK == MetaType /\ DiskType /\ TxType /\ LocalType

Init ==
  /\ kind = [k \in Keys |-> "absent"]
  /\ idOf = [k \in Keys |-> 0]
  /\ parentOf = [k \in Keys |-> NoKey]
  /\ seq = 0 /\ dirs = {} /\ handoffs = {}
  /\ writer = Nobody /\ leaked = FALSE /\ wedged = FALSE
  /\ pc = [c \in Clients |-> "idle"]
  /\ req = [c \in Clients |-> NoRequest]
  /\ td = [c \in Clients |-> NoDir]
  /\ path = [c \in Clients |-> 0]
  /\ removals = [c \in Clients |-> {}]
  /\ faults = 0 /\ crashes = 0

-----------------------------------------------------------------------------
(* Steps shared by the handlers.                                           *)

Goto(c, label) == pc' = [pc EXCEPT ![c] = label]

\* The handler returns: its locals are gone.
Return(c) ==
  /\ pc' = [pc EXCEPT ![c] = "idle"]
  /\ req' = [req EXCEPT ![c] = NoRequest]
  /\ td' = [td EXCEPT ![c] = NoDir]
  /\ path' = [path EXCEPT ![c] = 0]
  /\ removals' = [removals EXCEPT ![c] = {}]

\* MetaStore.TransactionContext(ctx, true): wait for the write transaction.
BeginWrite(c, label, r) ==
  /\ pc[c] = "idle" /\ writer = Nobody
  /\ writer' = c
  /\ Goto(c, label)
  /\ req' = [req EXCEPT ![c] = r]

EndWrite == writer' = Nobody

\* An I/O error, out of the budget of the run.
Fault == faults < MaxFaults /\ faults' = faults + 1

\* os.RemoveAll(d): an error leaves d behind and is only logged.
RemoveAll(d) ==
  \/ dirs' = dirs \ {d} /\ UNCHANGED faults
  \/ d \in dirs /\ Fault /\ UNCHANGED dirs

\* A commit whose file has to grow remaps the database and so waits for every
\* open read transaction; one that was leaked is never closed.
WaitForReaders(c) ==
  /\ pc[c] \in {"createCommit", "removeCommit", "commitCommit", "updateCommit"}
  /\ leaked /\ ~wedged
  /\ wedged' = TRUE
  /\ UNCHANGED <<meta, dirs, handoffs, writer, leaked, locals, faults, crashes>>

-----------------------------------------------------------------------------
(* Prepare and View: createSnapshot.                                       *)

\* Fresh random names: os.MkdirTemp does not return one that is in use, nor,
\* in this model, one that a handler still has to remove.
FreeTemps ==
  {t \in Temps : t \notin dirs /\ \A d \in Clients : t \notin removals[d] \cup {td[d]}}

\* The first conjunct is the bound of the model on IDs and names.
createSnapshot(c, kd, k, p) ==
  /\ seq < MaxId /\ FreeTemps # {}
  /\ BeginWrite(c, "prepareDirectory", [kind |-> kd, key |-> k, other |-> p])
  /\ UNCHANGED <<meta, dirs, handoffs, leaked, wedged, td, path, removals,
                 faults, crashes>>

\* os.MkdirTemp, mkdir fs and work; an error after the first rolls the
\* transaction back and leaves td to be removed.
prepareDirectory(c) ==
  /\ pc[c] = "prepareDirectory"
  /\ \/ /\ \E t \in FreeTemps :
             /\ dirs' = dirs \cup {t}
             /\ td' = [td EXCEPT ![c] = t]
        /\ \/ Goto(c, "CreateSnapshot") /\ UNCHANGED <<writer, faults>>
           \/ Fault /\ EndWrite /\ Goto(c, "reclaimTd")
        /\ UNCHANGED <<req, path, removals>>
     \/ Fault /\ EndWrite /\ Return(c) /\ UNCHANGED dirs
  /\ UNCHANGED <<meta, handoffs, leaked, wedged, crashes>>

\* storage.CreateSnapshot: the key must be new and the parent committed.
storageCreateOK(r) ==
  /\ kind[r.key] = "absent"
  /\ r.other # NoKey => kind[r.other] = "committed"

\* CreateSnapshot, then stat of the parent's upper directory and chown.
CreateSnapshot(c) ==
  LET r == req[c] IN
  /\ pc[c] = "CreateSnapshot"
  /\ \/ /\ storageCreateOK(r)
        /\ r.other # NoKey => idOf[r.other] \in dirs
        /\ Goto(c, "Rename") /\ UNCHANGED <<writer, faults>>
     \/ /\ ~ (storageCreateOK(r) /\ (r.other # NoKey => idOf[r.other] \in dirs))
        /\ EndWrite /\ Goto(c, "reclaimTd") /\ UNCHANGED faults
     \/ Fault /\ EndWrite /\ Goto(c, "reclaimTd")
  /\ UNCHANGED <<meta, dirs, handoffs, leaked, wedged, req, td, path, removals,
                 crashes>>

\* os.Rename(td, snapshots/<ID>) fails on a directory that is not empty.
Rename(c) ==
  LET id == seq + 1 IN
  /\ pc[c] = "Rename"
  /\ path' = [path EXCEPT ![c] = id]
  /\ \/ /\ id \notin dirs /\ td[c] \in dirs
        /\ dirs' = (dirs \ {td[c]}) \cup {id}
        /\ td' = [td EXCEPT ![c] = NoDir]
        /\ Goto(c, "createCommit") /\ UNCHANGED <<writer, faults>>
     \/ /\ id \in dirs \/ td[c] \notin dirs
        /\ EndWrite /\ Goto(c, "reclaimTd") /\ UNCHANGED <<dirs, td, faults>>
     \/ Fault /\ EndWrite /\ Goto(c, "reclaimTd") /\ UNCHANGED <<dirs, td>>
  /\ UNCHANGED <<meta, handoffs, leaked, wedged, req, removals, crashes>>

\* Mutant: the sequence is not stored with the snapshot that used it.
createCommitKeepsSeq(c) ==
  LET r == req[c] IN
  /\ pc[c] = "createCommit" /\ ~wedged
  /\ EndWrite
  /\ kind' = [kind EXCEPT ![r.key] = r.kind]
  /\ idOf' = [idOf EXCEPT ![r.key] = path[c]]
  /\ parentOf' = [parentOf EXCEPT ![r.key] = r.other]
  /\ Goto(c, "mounts")
  /\ UNCHANGED <<seq, dirs, handoffs, leaked, wedged, req, td, path, removals,
                 faults, crashes>>

\* t.Commit: on success the snapshot exists, on an error nothing does, and
\* the sequence is rewound with the transaction.
createCommit(c) ==
  LET r == req[c] IN
  /\ pc[c] = "createCommit" /\ ~wedged
  /\ EndWrite
  /\ \/ /\ kind' = [kind EXCEPT ![r.key] = r.kind]
        /\ idOf' = [idOf EXCEPT ![r.key] = path[c]]
        /\ parentOf' = [parentOf EXCEPT ![r.key] = r.other]
        /\ seq' = path[c]
        /\ Goto(c, "mounts") /\ UNCHANGED faults
     \/ Fault /\ Goto(c, "reclaimTd") /\ UNCHANGED meta
  /\ UNCHANGED <<dirs, handoffs, leaked, wedged, req, td, path, removals, crashes>>

\* applyRootfsHook runs for active snapshots that have a parent.  It may leave
\* the mounts native, redirect them, or redirect them and write a handoff; an
\* error can come before or after the handoff (materialisation fails last).
hookRuns(r) == r.kind = "active" /\ r.other # NoKey

applyRootfsHook(r) ==
  handoffs' \in {handoffs} \cup (IF hookRuns(r) THEN {handoffs \cup {r.key}}
                                               ELSE {})

\* o.mounts at the end of createSnapshot: the transaction is committed, yet an
\* error still runs the deferred clean-up of td and path.
createMounts(c) ==
  /\ pc[c] = "mounts"
  /\ applyRootfsHook(req[c])
  /\ \/ Return(c)
     \/ HookMayFail /\ hookRuns(req[c]) /\ Goto(c, "reclaimTd")
        /\ UNCHANGED <<req, td, path, removals>>
  /\ UNCHANGED <<meta, dirs, writer, leaked, wedged, faults, crashes>>

\* Deferred clean-up of a failed createSnapshot, after the rollback: td first.
reclaimTd(c) ==
  /\ pc[c] = "reclaimTd"
  /\ IF td[c] = NoDir THEN UNCHANGED <<dirs, faults>> ELSE RemoveAll(td[c])
  /\ Goto(c, "reclaimPath")
  /\ UNCHANGED <<meta, handoffs, writer, leaked, wedged, req, td, path, removals,
                 crashes>>

reclaimPath(c) ==
  /\ pc[c] = "reclaimPath"
  /\ IF path[c] = 0 THEN UNCHANGED <<dirs, faults>> ELSE RemoveAll(path[c])
  /\ Return(c)
  /\ UNCHANGED <<meta, handoffs, writer, leaked, wedged, crashes>>

-----------------------------------------------------------------------------
(* Mounts: a read transaction, then the same mounts without a clean-up.    *)

\* storage.GetSnapshot only finds active snapshots and views; when it fails,
\* the handler returns without closing the read transaction.  No reader can
\* begin while a commit waits to remap the database.
Mounts(c, k) ==
  /\ pc[c] = "idle" /\ ~wedged
  /\ \/ /\ kind[k] \in {"active", "view"}
        /\ Goto(c, "Mounts")
        /\ req' = [req EXCEPT ![c] = [kind |-> kind[k], key |-> k,
                                      other |-> parentOf[k]]]
        /\ UNCHANGED leaked
     \/ /\ kind[k] \notin {"active", "view"}
        /\ leaked' = TRUE /\ UNCHANGED <<pc, req>>
  /\ UNCHANGED <<meta, dirs, handoffs, writer, wedged, td, path, removals,
                 faults, crashes>>

MountsReturn(c) ==
  /\ pc[c] = "Mounts"
  /\ applyRootfsHook(req[c])
  /\ Return(c)
  /\ UNCHANGED <<meta, dirs, writer, leaked, wedged, faults, crashes>>

-----------------------------------------------------------------------------
(* Commit: an active snapshot becomes a committed one under a new name.    *)

Commit(c, name, k) ==
  /\ BeginWrite(c, "CommitActive", [kind |-> "none", key |-> k, other |-> name])
  /\ UNCHANGED <<meta, dirs, handoffs, leaked, wedged, td, path, removals,
                 faults, crashes>>

\* GetInfo, DiskUsage of the upper directory, storage.CommitActive.
CommitActive(c) ==
  LET r == req[c]
      ok == /\ kind[r.key] = "active" /\ idOf[r.key] \in dirs
            /\ kind[r.other] = "absent"
  IN
  /\ pc[c] = "CommitActive"
  /\ \/ ok /\ Goto(c, "commitCommit")
        /\ UNCHANGED <<writer, req, td, path, removals, faults>>
     \/ ~ok /\ EndWrite /\ Return(c) /\ UNCHANGED faults
     \/ Fault /\ EndWrite /\ Return(c)
  /\ UNCHANGED <<meta, dirs, handoffs, leaked, wedged, crashes>>

\* Mutant: the active entry stays beside the committed one.
commitCommitKeepsKey(c) ==
  LET r == req[c] IN
  /\ pc[c] = "commitCommit" /\ ~wedged
  /\ EndWrite
  /\ kind' = [kind EXCEPT ![r.other] = "committed"]
  /\ idOf' = [idOf EXCEPT ![r.other] = idOf[r.key]]
  /\ parentOf' = [parentOf EXCEPT ![r.other] = parentOf[r.key]]
  /\ Return(c)
  /\ UNCHANGED <<seq, faults, dirs, handoffs, leaked, wedged, crashes>>

commitCommit(c) ==
  LET r == req[c] IN
  /\ pc[c] = "commitCommit" /\ ~wedged
  /\ EndWrite
  /\ \/ /\ kind' = [kind EXCEPT ![r.key] = "absent", ![r.other] = "committed"]
        /\ idOf' = [idOf EXCEPT ![r.other] = idOf[r.key], ![r.key] = 0]
        /\ parentOf' = [parentOf EXCEPT ![r.other] = parentOf[r.key],
                                        ![r.key] = NoKey]
        /\ UNCHANGED <<seq, faults>>
     \/ Fault /\ UNCHANGED meta
  /\ Return(c)
  /\ UNCHANGED <<dirs, handoffs, leaked, wedged, crashes>>

-----------------------------------------------------------------------------
(* Update: labels only; the write transaction is all the model keeps.      *)

Update(c, k) ==
  /\ BeginWrite(c, "UpdateInfo", [kind |-> "none", key |-> k, other |-> NoKey])
  /\ UNCHANGED <<meta, dirs, handoffs, leaked, wedged, td, path, removals,
                 faults, crashes>>

UpdateInfo(c) ==
  /\ pc[c] = "UpdateInfo"
  /\ \/ /\ req[c].key \in Live
        /\ Goto(c, "updateCommit") /\ UNCHANGED <<writer, req, td, path, removals>>
     \/ req[c].key \notin Live /\ EndWrite /\ Return(c)
  /\ UNCHANGED <<meta, dirs, handoffs, leaked, wedged, faults, crashes>>

updateCommit(c) ==
  /\ pc[c] = "updateCommit" /\ ~wedged
  /\ EndWrite /\ Return(c)
  /\ UNCHANGED <<meta, dirs, handoffs, leaked, wedged, faults, crashes>>

-----------------------------------------------------------------------------
(* Remove and Cleanup.                                                     *)

\* Mutant: the scan only considers numbered directories.
getCleanupDirectoriesNumbered(ids) == {d \in dirs \ ids : d \in Nat}

\* Directories that no snapshot of the given ID set owns.
getCleanupDirectories(ids) == dirs \ ids

Remove(c, k) ==
  /\ BeginWrite(c, "storage.Remove", [kind |-> "none", key |-> k, other |-> NoKey])
  /\ UNCHANGED <<meta, dirs, handoffs, leaked, wedged, td, path, removals,
                 faults, crashes>>

\* Mutants of storageRemove: ids is what the directory scan takes for live, ok
\* the check of the key, refused the writer after a refusal.
storageRemoveWith(c, ids, ok, refused) ==
  /\ pc[c] = "storage.Remove"
  /\ \/ /\ ok
        /\ removals' = [removals EXCEPT ![c] = getCleanupDirectories(ids)]
        /\ Goto(c, "removeCommit") /\ UNCHANGED <<writer, req, td, path>>
     \/ ~ok /\ writer' = refused /\ Return(c)
  /\ UNCHANGED <<meta, dirs, handoffs, leaked, wedged, faults, crashes>>

\* Mutant: the scan comes before the key is removed from the metadata.
storageRemoveScansFirst(c) ==
  storageRemoveWith(c, LiveIds, req[c].key \in Live /\
                    \A j \in Live : parentOf[j] # req[c].key, Nobody)

\* Mutant: a snapshot that has children can be removed.
storageRemoveIgnoresChildren(c) ==
  storageRemoveWith(c, LiveIds \ {idOf[req[c].key]}, req[c].key \in Live, Nobody)

\* Mutant: a refused removal returns without ending its transaction.
storageRemoveLeaks(c) ==
  storageRemoveWith(c, LiveIds \ {idOf[req[c].key]}, req[c].key \in Live /\
                    \A j \in Live : parentOf[j] # req[c].key, c)

\* storage.Remove refuses a missing key and one that has children; then the
\* unreferenced directories are listed inside the transaction.
storageRemove(c) ==
  LET k == req[c].key
      ok == k \in Live /\ \A j \in Live : parentOf[j] # k
  IN
  /\ pc[c] = "storage.Remove"
  /\ \/ /\ ok
        /\ removals' = [removals EXCEPT ![c] =
             IF AsyncRemove THEN {} ELSE getCleanupDirectories(LiveIds \ {idOf[k]})]
        /\ Goto(c, "removeCommit") /\ UNCHANGED <<writer, req, td, path, faults>>
     \/ ~ok /\ EndWrite /\ Return(c) /\ UNCHANGED faults
     \/ Fault /\ EndWrite /\ Return(c)
  /\ UNCHANGED <<meta, dirs, handoffs, leaked, wedged, crashes>>

removeCommit(c) ==
  LET k == req[c].key IN
  /\ pc[c] = "removeCommit" /\ ~wedged
  /\ EndWrite
  /\ \/ /\ kind' = [kind EXCEPT ![k] = "absent"]
        /\ idOf' = [idOf EXCEPT ![k] = 0]
        /\ parentOf' = [parentOf EXCEPT ![k] = NoKey]
        /\ Goto(c, "handoffRemove") /\ UNCHANGED <<seq, faults, req, td, path, removals>>
     \/ Fault /\ Return(c) /\ UNCHANGED meta
  /\ UNCHANGED <<dirs, handoffs, leaked, wedged, crashes>>

\* HandoffStore.Remove(key): an error is only logged.
handoffRemove(c) ==
  LET k == req[c].key IN
  /\ pc[c] = "handoffRemove"
  /\ \/ handoffs' = handoffs \ {k} /\ UNCHANGED faults
     \/ k \in handoffs /\ Fault /\ UNCHANGED handoffs
  /\ Goto(c, "removeAll")
  /\ UNCHANGED <<meta, dirs, writer, leaked, wedged, req, td, path, removals, crashes>>

\* Mutant: the scan runs beside a writer, in a read transaction.
CleanupReadOnly(c) ==
  /\ pc[c] = "idle"
  /\ removals' = [removals EXCEPT ![c] = getCleanupDirectories(LiveIds)]
  /\ Goto(c, "removeAll")
  /\ UNCHANGED <<meta, dirs, handoffs, writer, leaked, wedged, req, td, path,
                 faults, crashes>>

Cleanup(c) ==
  /\ BeginWrite(c, "scan", NoRequest)
  /\ UNCHANGED <<meta, dirs, handoffs, leaked, wedged, td, path, removals,
                 faults, crashes>>

\* cleanupDirectories: list under the write transaction, then roll it back.
cleanupDirectories(c) ==
  /\ pc[c] = "scan"
  /\ EndWrite
  /\ \/ /\ removals' = [removals EXCEPT ![c] = getCleanupDirectories(LiveIds)]
        /\ Goto(c, "removeAll") /\ UNCHANGED <<req, td, path, faults>>
     \/ Fault /\ Return(c)
  /\ UNCHANGED <<meta, dirs, handoffs, leaked, wedged, crashes>>

\* The loop over the listed directories, outside any transaction.
removeListed(c) ==
  /\ pc[c] = "removeAll"
  /\ \/ \E d \in removals[c] :
          /\ RemoveAll(d)
          /\ removals' = [removals EXCEPT ![c] = @ \ {d}]
          /\ UNCHANGED <<pc, req, td, path>>
     \/ removals[c] = {} /\ Return(c) /\ UNCHANGED <<dirs, faults>>
  /\ UNCHANGED <<meta, handoffs, writer, leaked, wedged, crashes>>

-----------------------------------------------------------------------------
\* The daemon dies and is started again: handlers, transactions and lists are
\* lost; committed metadata, directories and handoff files are not.
Crash ==
  /\ crashes < MaxCrashes /\ crashes' = crashes + 1
  /\ writer' = Nobody /\ leaked' = FALSE /\ wedged' = FALSE
  /\ pc' = [c \in Clients |-> "idle"]
  /\ req' = [c \in Clients |-> NoRequest]
  /\ td' = [c \in Clients |-> NoDir]
  /\ path' = [c \in Clients |-> 0]
  /\ removals' = [c \in Clients |-> {}]
  /\ UNCHANGED <<meta, dirs, handoffs, faults>>

Arrive(c) ==
  \/ \E kd \in {"active", "view"}, k \in Keys, p \in Keys \cup {NoKey} :
       createSnapshot(c, kd, k, p)
  \/ \E k, name \in Keys : Commit(c, name, k)
  \/ \E k \in Keys : Remove(c, k) \/ Mounts(c, k) \/ Update(c, k)
  \/ Cleanup(c)

Serve(c) ==
  \/ prepareDirectory(c) \/ CreateSnapshot(c) \/ Rename(c)
  \/ createCommit(c) \/ createMounts(c) \/ reclaimTd(c) \/ reclaimPath(c)
  \/ MountsReturn(c)
  \/ CommitActive(c) \/ commitCommit(c)
  \/ UpdateInfo(c) \/ updateCommit(c)
  \/ storageRemove(c) \/ removeCommit(c) \/ handoffRemove(c)
  \/ cleanupDirectories(c) \/ removeListed(c)

Next == (\E c \in Clients : Arrive(c) \/ Serve(c) \/ WaitForReaders(c)) \/ Crash

Spec == Init /\ [][Next]_vars

\* A handler that has started runs to its end: gRPC gives each its goroutine.
FairSpec == Spec /\ \A c \in Clients : WF_vars(Serve(c))

\* containerd's garbage collector also calls Cleanup again and again, and gets
\* its turn at the write transaction (bbolt queues writers on a mutex).
CollectedSpec == FairSpec /\ \A c \in Clients : SF_vars(Cleanup(c))
-----------------------------------------------------------------------------
(* Properties.                                                             *)

\* storage IDs are never shared: two snapshots in the metadata have different
\* directories, and no snapshot has an ID the sequence has not reached.  It
\* rests on CreateSnapshot drawing the ID inside the write transaction, also
\* when transactions roll back, fail to commit or die with the daemon.
UniqueIds ==
  /\ \A j, k \in Live : idOf[j] = idOf[k] => j = k
  /\ \A k \in Live : idOf[k] \in 1..seq

\* The parent of every snapshot is a committed snapshot of the metadata, never
\* a removed one: the layers a mount lists as lowerdir cannot be taken away
\* between createSnapshot's check of the parent and its commit.
ParentsCommitted ==
  \A k \in Live : parentOf[k] # NoKey => kind[parentOf[k]] = "committed"

\* Every snapshot in the metadata has its directory under snapshots/.  Remove
\* and Cleanup delete directories after their transaction has ended, beside
\* handlers that create and commit; no interleaving deletes a live one.
LiveHaveDirs == LiveIds \subseteq dirs

\* When no handler is running, snapshots/ holds the directories of the live
\* snapshots and nothing else: synchronous Remove and the clean-up of a failed
\* createSnapshot leave neither removed snapshots nor new-* directories.
NoGarbageAtRest ==
  (\A c \in Clients : pc[c] = "idle") => dirs = LiveIds

\* Mounts "can be used to recover mounts after calling View or Prepare"
\* (fuseoverlayfs.go, comment on Mounts): whatever Prepare or View left in the
\* metadata can be mounted, that is, has its directory, once they returned.
MountsRecoverable ==
  (\A c \in Clients : pc[c] = "idle") =>
    \A k \in Live : kind[k] \in {"active", "view"} => idOf[k] \in dirs

\* "Cleanup cleans up disk resources from removed or abandoned snapshots"
\* (fuseoverlayfs.go, comment on Cleanup): the loop over listed directories
\* never deletes the directory of a snapshot that is in the metadata.
CleanupSparesLive ==
  [][\A c \in Clients : removeListed(c) => dirs \cap LiveIds \subseteq dirs']_vars

\* "The handoff is removed with the container snapshot"
\* (sysbox-admission/README.md): at rest no handoff file outlives its snapshot.
HandoffsOfLive ==
  (\A c \in Clients : pc[c] = "idle") => handoffs \subseteq Live

Store == INSTANCE SnapshotStore

\* To its client every Prepare, View, Commit and Remove happens at one instant,
\* its transaction's commit, or not at all, whatever fails before or after it
\* and whoever runs beside it: what was checked before the commit still holds
\* at it.  An ID that enters the metadata was never in it before, although the
\* sequence goes back in a transaction that rolls back.
ImplementsStore == Store!Spec

\* Every write transaction ends, on each of the error paths, unless its commit
\* waits for the read transaction that a failed Mounts left open.
TransactionsEnd == (writer # Nobody) ~> (writer = Nobody \/ wedged)

\* Every directory that no snapshot owns goes away or gets an owner: what an
\* asynchronous Remove, an I/O error or a crash leaves behind is found by a
\* later Cleanup, unless the store is wedged.
GarbageCollected ==
  \A d \in 1..MaxId \cup Temps :
    (d \in dirs \ LiveIds) ~> (d \notin dirs \ LiveIds \/ wedged)
=============================================================================
