--------------------------- MODULE RuntimeProofs ----------------------------
(***************************************************************************)
(* Proofs about the runtime's other components: the copy runc init runs    *)
(* from, checkpoint and restore, the cgroup managers and the freezer, each *)
(* for every set of configurations its assumption allows and any number of *)
(* failing calls.                                                          *)
(***************************************************************************)
EXTENDS ClonedBinary, Criu, CgroupManager, Freezer, TLAPS

USE ZenonT(3), SMT

-----------------------------------------------------------------------------
(* ClonedBinary.                                                           *)

cbLabels == {"check", "argv", "mkstemp", "bind", "remount", "openPath", "umount", "unlink",
             "memfd", "tmpfile", "unlinkCopy", "copy", "exec", "done", "failed"}
cbFiles == [seals : {"no", "some", "all"}, ro : BOOLEAN, links : {0, 1}, size : 0..cbSize]
cbStates == [pc : cbLabels, conf : cbConfs, exe : cbFiles, env : BOOLEAN, fd : cbFiles,
             type : {"none", "bind", "memfd", "file"}, mounted : BOOLEAN, named : BOOLEAN,
             left : SUBSET {"mount", "file"}, execs : Nat, faults : Nat]

\* What is_self_cloned takes for a copy.
Copy(exe) == exe.seals = "all" \/ (exe.seals = "no" /\ (exe.ro \/ exe.links = 0))
\* A program that has gone past is_self_cloned is not the copy, or a call failed.
Copying(s) == s.pc \in cbLabels \ {"check", "done", "failed"}

cbInv ==
  /\ cb \in cbStates
  /\ cb.exe.size = cbSize /\ cb.exe.seals # "some"
  /\ cb.pc = "done" => Copy(cb.exe)
  /\ cb.execs > 0 => cb.env /\ Copy(cb.exe)
  /\ cb.execs <= 1 + cb.faults /\ (Copying(cb) => cb.execs <= cb.faults)
  /\ Copying(cb) => cb.exe.seals = "no"
  /\ cb.type = "bind" => cb.fd.seals = "no" /\ cb.fd.ro /\ cb.fd.size = cbSize
  /\ cb.pc \in {"check", "argv", "mkstemp", "bind", "remount", "openPath"} => cb.type = "none"
  /\ cb.pc \in {"umount", "unlink"} => cb.type \in {"none", "bind"}
  /\ cb.pc = "unlinkCopy" => cb.type = "file"
  /\ cb.pc = "copy" => \/ cb.type = "memfd" /\ cb.fd.seals = "some"
                       \/ cb.type = "file" /\ cb.fd.seals = "no" /\ cb.fd.links = 0
  /\ cb.pc = "exec" => Copy(cb.fd) /\ cb.fd.size = cbSize
  /\ cb.mounted => "mount" \in cb.left \/ cb.pc \in {"remount", "openPath", "umount"}
  /\ cb.named => \/ "file" \in cb.left
                 \/ cb.pc \in {"bind", "remount", "openPath", "umount", "unlink", "unlinkCopy"}

LEMMA cbInitHolds == cbInit => cbInv
<1> SUFFICES ASSUME cbInit PROVE cbInv
  OBVIOUS
<1>1. PICK c \in cbConfs :
        cb = [pc |-> "check", conf |-> c, exe |-> c.exe, env |-> c.env, fd |-> NoFile,
              type |-> "none", mounted |-> FALSE, named |-> FALSE, left |-> {}, execs |-> 0,
              faults |-> 0]
  BY DEF cbInit
<1>2. /\ c.exe.seals \in {"no", "all"} /\ c.exe.size = cbSize /\ c.env \in BOOLEAN
      /\ c.exe \in cbFiles /\ NoFile \in cbFiles
  BY SMT, cbAssumption DEF cbFiles, NoFile
<1>3. cb \in cbStates
  BY <1>1, <1>2 DEF cbStates, cbLabels
<1> QED BY SMT, <1>1, <1>2, <1>3 DEF cbInv, Copying

\* What a step leaves as it was: everything but the label and the faults.
cbSame ==
  /\ cb' \in cbStates /\ cb'.conf = cb.conf /\ cb'.exe = cb.exe /\ cb'.env = cb.env
  /\ cb'.fd = cb.fd /\ cb'.type = cb.type /\ cb'.mounted = cb.mounted /\ cb'.named = cb.named
  /\ cb'.left = cb.left /\ cb'.execs = cb.execs

LEMMA cbFails ==
  ASSUME cb \in cbStates, NEW l \in cbLabels, cbFail(cb, l)
  PROVE  cbSame /\ cb'.pc = l /\ cb'.faults = cb.faults + 1
<1>1. cb.faults + 1 \in Nat
  BY SMT DEF cbStates
<1>2. cb' = [cb EXCEPT !.pc = l, !.faults = cb.faults + 1]
  BY DEF cbFail, cbStates
<1>3. cb' \in cbStates
  BY <1>1, <1>2, Zenon DEF cbStates
<1> QED BY <1>2, <1>3 DEF cbStates, cbSame

\* A failing step that records something too.
LEMMA cbFailsWith ==
  ASSUME cb \in cbStates, NEW s, NEW l, cbFail(s, l), s.faults = cb.faults
  PROVE  cb' = [s EXCEPT !.pc = l, !.faults = cb.faults + 1]
BY DEF cbFail

LEMMA cbGoes ==
  ASSUME cb \in cbStates, NEW l \in cbLabels, cb' = cbGo(cb, l)
  PROVE  cbSame /\ cb'.pc = l /\ cb'.faults = cb.faults
BY SMT DEF cbGo, cbStates, cbSame

\* A call fails and the program gives up.
LEMMA cbGivesUp ==
  ASSUME cbInv, cbFail(cb, "failed"), cb.pc \in cbLabels \ {"bind", "remount", "openPath", "umount",
                                                           "unlink", "unlinkCopy", "done"}
  PROVE  cbInv'
<1>1. cb \in cbStates /\ "failed" \in cbLabels
  BY DEF cbInv, cbLabels
<1>2. cbSame /\ cb'.pc = "failed" /\ cb'.faults = cb.faults + 1
  BY <1>1, cbFails
<1>3. cb.execs \in Nat /\ cb.faults \in Nat
  BY <1>1 DEF cbStates
<1> QED BY SMT, <1>1, <1>2, <1>3 DEF cbInv, cbSame, Copying, Copy

LEMMA checkClonedStep == ASSUME cbInv, checkCloned PROVE cbInv'
<1>1. cb \in cbStates /\ cb.pc = "check" /\ cb.exe \in cbFiles
  BY DEF cbInv, checkCloned, cbAt, cbStates
<1>2. CASE cbFail(cb, "failed")
  BY <1>1, <1>2, cbGivesUp DEF cbLabels
<1>3. ASSUME NEW ro \in BOOLEAN, NEW links \in 0 .. 1,
             ro => cb.exe.ro, links = 0 => cb.exe.links = 0,
             NEW lost \in BOOLEAN, lost <=> (ro # cb.exe.ro \/ links # cb.exe.links),
             cb' = cbGo([cb EXCEPT !.faults = IF lost THEN @ + 1 ELSE @],
                        IF is_self_cloned(cb.exe, cb.env, ro, links) THEN "done" ELSE "argv")
      PROVE  cbInv'
  <2>1. /\ cbSame /\ cb'.pc = (IF is_self_cloned(cb.exe, cb.env, ro, links) THEN "done" ELSE "argv")
        /\ cb'.faults = (IF lost THEN cb.faults + 1 ELSE cb.faults)
    <3>1. PICK n \in Nat, l \in cbLabels :
            /\ n = (IF lost THEN cb.faults + 1 ELSE cb.faults)
            /\ l = (IF is_self_cloned(cb.exe, cb.env, ro, links) THEN "done" ELSE "argv")
      BY SMT, <1>1 DEF cbStates, cbLabels
    <3>2. cb' = [cb EXCEPT !.faults = n, !.pc = l]
      BY <1>1, <1>3, <3>1 DEF cbGo, cbStates
    <3>3. cb' \in cbStates
      BY <1>1, <3>1, <3>2, Zenon DEF cbStates
    <3> QED BY <1>1, <3>1, <3>2, <3>3 DEF cbStates, cbSame
  <2>2. CASE is_self_cloned(cb.exe, cb.env, ro, links)
    <3>1. Copy(cb.exe)
      BY <1>1, <1>3, <2>2 DEF is_self_cloned, Copy, cbInv, cbFiles
    <3> QED BY SMT, <1>1, <2>1, <2>2, <3>1 DEF cbInv, cbSame, Copying, cbStates, Copy
  <2>3. CASE ~is_self_cloned(cb.exe, cb.env, ro, links)
    <3>1. cb.exe.seals = "no" /\ (cb.execs > 0 => lost)
      BY <1>1, <1>3, <2>3 DEF is_self_cloned, Copy, cbInv, cbFiles
    <3>2. cb'.execs <= cb'.faults
      BY SMT, <1>1, <2>1, <3>1 DEF cbInv, cbSame, cbStates
    <3> QED BY SMT, <1>1, <2>1, <2>3, <3>1, <3>2 DEF cbInv, cbSame, Copying, cbStates, Copy
  <2> QED BY <2>2, <2>3
<1> QED BY <1>2, <1>3 DEF checkCloned, cbGo

\* A step that only moves on among the labels of the copying.
LEMMA cbMoves ==
  ASSUME cbInv, Copying(cb), cbSame, cb'.pc \in cbLabels \ {"check", "done", "failed"},
         cb'.faults \in {cb.faults, cb.faults + 1},
         cb'.pc \in {"mkstemp", "bind", "remount", "openPath"} => cb.type = "none",
         cb'.pc \in {"umount", "unlink"} => cb.type \in {"none", "bind"},
         cb'.pc \notin {"argv", "unlinkCopy", "copy"}, cb'.pc = "exec" => Copy(cb.fd) /\ cb.fd.size = cbSize,
         cb.mounted => "mount" \in cb.left \/ cb'.pc \in {"remount", "openPath", "umount"},
         cb.named => \/ "file" \in cb.left
                     \/ cb'.pc \in {"bind", "remount", "openPath", "umount", "unlink", "unlinkCopy"}
  PROVE  cbInv'
<1>1. cb \in cbStates /\ cb.execs \in Nat /\ cb.faults \in Nat
  BY DEF cbInv, cbStates
<1>2. Copying(cb)' /\ cb'.execs <= cb'.faults /\ cb'.execs <= 1 + cb'.faults
  BY SMT, <1>1 DEF cbInv, Copying, cbSame
<1> QED BY SMT, <1>1, <1>2 DEF cbInv, cbSame, Copying, Copy

LEMMA fetchveStep == ASSUME cbInv, fetchve PROVE cbInv'
<1>1. cb \in cbStates /\ cb.pc = "argv" /\ Copying(cb)
  BY DEF cbInv, fetchve, cbAt, Copying, cbLabels
<1>2. CASE cbFail(cb, "failed")
  BY <1>1, <1>2, cbGivesUp DEF cbLabels
<1>3. CASE cb' = cbGo(cb, "mkstemp")
  <2>1. cbSame /\ cb'.pc = "mkstemp" /\ cb'.faults = cb.faults
    BY <1>1, <1>3, cbGoes DEF cbLabels
  <2> QED BY <1>1, <2>1, cbMoves DEF cbInv, cbLabels
<1> QED BY <1>2, <1>3 DEF fetchve, cbStep

LEMMA bindTemplateStep == ASSUME cbInv, bindTemplate PROVE cbInv'
<1>1. cb \in cbStates /\ cb.pc = "mkstemp" /\ Copying(cb)
  BY DEF cbInv, bindTemplate, cbAt, Copying, cbLabels
<1>2. CASE cbFail(cb, "memfd")
  <2>1. cbSame /\ cb'.pc = "memfd" /\ cb'.faults = cb.faults + 1
    BY <1>1, <1>2, cbFails DEF cbLabels
  <2> QED BY <1>1, <2>1, cbMoves DEF cbInv, cbLabels
<1>3. CASE cb' = cbGo([cb EXCEPT !.named = TRUE], "bind")
  <2>1. cb' = [cb EXCEPT !.named = TRUE, !.pc = "bind"]
    BY <1>3 DEF cbGo
  <2>2. cb' \in cbStates
    BY <1>1, <2>1, Zenon DEF cbStates, cbLabels
  <2> QED BY <1>1, <2>1, <2>2, SMT DEF cbInv, cbStates, Copying, Copy, cbLabels
<1> QED BY <1>2, <1>3 DEF bindTemplate, cbStep

LEMMA bindMountStep == ASSUME cbInv, bindMount PROVE cbInv'
<1>1. cb \in cbStates /\ cb.pc = "bind" /\ Copying(cb)
  BY DEF cbInv, bindMount, cbAt, Copying, cbLabels
<1>2. CASE cbFail(cb, "unlink")
  <2>1. cbSame /\ cb'.pc = "unlink" /\ cb'.faults = cb.faults + 1
    BY <1>1, <1>2, cbFails DEF cbLabels
  <2> QED BY <1>1, <2>1, cbMoves DEF cbInv, cbLabels
<1>3. CASE cb' = cbGo(cb, "unlink")
  <2>1. cbSame /\ cb'.pc = "unlink" /\ cb'.faults = cb.faults
    BY <1>1, <1>3, cbGoes DEF cbLabels
  <2> QED BY <1>1, <2>1, cbMoves DEF cbInv, cbLabels
<1>4. CASE cb' = cbGo([cb EXCEPT !.mounted = TRUE], "remount")
  <2>1. cb' = [cb EXCEPT !.mounted = TRUE, !.pc = "remount"]
    BY <1>4 DEF cbGo
  <2>2. cb' \in cbStates
    BY <1>1, <2>1, Zenon DEF cbStates, cbLabels
  <2> QED BY <1>1, <2>1, <2>2, SMT DEF cbInv, cbStates, Copying, Copy, cbLabels
<1> QED BY <1>2, <1>3, <1>4 DEF bindMount, cbStep

LEMMA bindReadonlyStep == ASSUME cbInv, bindReadonly PROVE cbInv'
<1>1. cb \in cbStates /\ cb.pc = "remount" /\ Copying(cb)
  BY DEF cbInv, bindReadonly, cbAt, Copying, cbLabels
<1>2. CASE cbFail(cb, "umount")
  <2>1. cbSame /\ cb'.pc = "umount" /\ cb'.faults = cb.faults + 1
    BY <1>1, <1>2, cbFails DEF cbLabels
  <2> QED BY <1>1, <2>1, cbMoves DEF cbInv, cbLabels
<1>3. CASE cb' = cbGo(cb, "openPath")
  <2>1. cbSame /\ cb'.pc = "openPath" /\ cb'.faults = cb.faults
    BY <1>1, <1>3, cbGoes DEF cbLabels
  <2> QED BY <1>1, <2>1, cbMoves DEF cbInv, cbLabels
<1> QED BY <1>2, <1>3 DEF bindReadonly, cbStep

LEMMA bindOpenStep == ASSUME cbInv, bindOpen PROVE cbInv'
<1>1. cb \in cbStates /\ cb.pc = "openPath" /\ Copying(cb) /\ cb.exe \in cbFiles
  BY DEF cbInv, bindOpen, cbAt, Copying, cbLabels, cbStates
<1>2. CASE cbFail(cb, "umount")
  <2>1. cbSame /\ cb'.pc = "umount" /\ cb'.faults = cb.faults + 1
    BY <1>1, <1>2, cbFails DEF cbLabels
  <2> QED BY <1>1, <2>1, cbMoves DEF cbInv, cbLabels
<1>3. CASE cb' = cbGo([cb EXCEPT !.fd = [cb.exe EXCEPT !.ro = TRUE], !.type = "bind"], "umount")
  <2>0. [cb.exe EXCEPT !.ro = TRUE] \in cbFiles
    BY <1>1, Zenon DEF cbFiles
  <2>1. PICK f \in cbFiles : /\ f = [cb.exe EXCEPT !.ro = TRUE]
                             /\ f.ro /\ f.seals = cb.exe.seals /\ f.size = cb.exe.size
    BY <1>1, <2>0 DEF cbFiles
  <2>2. cb' = [cb EXCEPT !.fd = f, !.type = "bind", !.pc = "umount"]
    BY <1>3, <2>1 DEF cbGo
  <2>3. cb' \in cbStates
    BY <1>1, <2>2, Zenon DEF cbStates, cbLabels
  <2>4. /\ cb'.pc = "umount" /\ cb'.exe = cb.exe /\ cb'.env = cb.env /\ cb'.fd = f
        /\ cb'.type = "bind" /\ cb'.mounted = cb.mounted /\ cb'.named = cb.named
        /\ cb'.left = cb.left /\ cb'.execs = cb.execs /\ cb'.faults = cb.faults
    BY <1>1, <2>2 DEF cbStates
  <2> QED BY SMT, <1>1, <2>1, <2>3, <2>4 DEF cbInv, Copying, Copy, cbLabels
<1> QED BY <1>2, <1>3 DEF bindOpen, cbStep

\* The fields of a state, one by one.
cbIs(pc, fd, type, mounted, named, left, faults) ==
  /\ cb'.pc = pc /\ cb'.exe = cb.exe /\ cb'.env = cb.env /\ cb'.fd = fd /\ cb'.type = type
  /\ cb'.mounted = mounted /\ cb'.named = named /\ cb'.left = left /\ cb'.execs = cb.execs
  /\ cb'.faults = faults

LEMMA cbLeaves ==
  ASSUME cb \in cbStates, NEW d \in {"mount", "file"}
  PROVE  \E left \in SUBSET {"mount", "file"}, n \in Nat : left = cb.left \cup {d} /\ n = cb.faults + 1
<1>1. cb.left \cup {d} \in SUBSET {"mount", "file"}
  BY DEF cbStates
<1>2. cb.faults + 1 \in Nat
  BY SMT DEF cbStates
<1> QED BY <1>1, <1>2, Zenon

LEMMA bindUmountStep == ASSUME cbInv, bindUmount PROVE cbInv'
<1>1. /\ cb \in cbStates /\ cb.pc = "umount" /\ Copying(cb) /\ NoFile \in cbFiles
      /\ cb.left \subseteq {"mount", "file"} /\ cb.faults \in Nat /\ cb.execs \in Nat
  BY SMT, cbAssumption DEF cbInv, bindUmount, cbAt, Copying, cbLabels, cbStates, cbFiles, NoFile
<1>2. CASE cb' = [cb EXCEPT !.pc = "unlink", !.mounted = FALSE]
  <2>1. cb' \in cbStates
    BY <1>1, <1>2, Zenon DEF cbStates, cbLabels
  <2>2. cbIs("unlink", cb.fd, cb.type, FALSE, cb.named, cb.left, cb.faults)
    BY <1>1, <1>2 DEF cbStates, cbIs
  <2> QED BY <1>1, <2>1, <2>2 DEF cbInv, cbIs, Copying, Copy, cbLabels
<1>3. CASE cbFail([cb EXCEPT !.fd = NoFile, !.type = "none", !.left = @ \cup {"mount"}], "unlink")
  <2>1. PICK left \in SUBSET {"mount", "file"}, n \in Nat :
          left = cb.left \cup {"mount"} /\ n = cb.faults + 1
    BY <1>1, cbLeaves
  <2>2. cb' = [cb EXCEPT !.fd = NoFile, !.type = "none", !.left = left, !.pc = "unlink", !.faults = n]
    <3>1. PICK s : s = [cb EXCEPT !.fd = NoFile, !.type = "none", !.left = left] /\ cbFail(s, "unlink")
      BY <1>1, <1>3, <2>1 DEF cbStates
    <3>2. s.faults = cb.faults
      BY <1>1, <3>1 DEF cbStates
    <3> QED BY <1>1, <2>1, <3>1, <3>2, cbFailsWith
  <2>3. cb' \in cbStates
    BY <1>1, <2>2, Zenon DEF cbStates, cbLabels
  <2>4. cbIs("unlink", NoFile, "none", cb.mounted, cb.named, left, n)
    BY <1>1, <2>2 DEF cbStates, cbIs
  <2> QED BY SMT, <1>1, <2>1, <2>3, <2>4 DEF cbInv, cbIs, Copying, Copy, cbLabels
<1> QED BY <1>2, <1>3 DEF bindUmount

LEMMA bindUnlinkStep == ASSUME cbInv, bindUnlink PROVE cbInv'
<1> DEFINE next == IF cb.type = "bind" THEN "exec" ELSE "memfd"
<1>1. /\ cb \in cbStates /\ cb.pc = "unlink" /\ Copying(cb) /\ next \in cbLabels
      /\ cb.left \subseteq {"mount", "file"} /\ cb.faults \in Nat /\ cb.execs \in Nat
  BY DEF cbInv, bindUnlink, cbAt, Copying, cbLabels, cbStates
<1>2. CASE cb' = [cb EXCEPT !.pc = next, !.named = FALSE]
  <2>1. cb' \in cbStates
    BY <1>1, <1>2, Zenon DEF cbStates
  <2>2. cbIs(next, cb.fd, cb.type, cb.mounted, FALSE, cb.left, cb.faults)
    BY <1>1, <1>2 DEF cbStates, cbIs
  <2> QED BY <1>1, <2>1, <2>2 DEF cbInv, cbIs, Copying, Copy, cbLabels
<1>3. CASE cbFail([cb EXCEPT !.left = @ \cup {"file"}], next)
  <2>1. PICK left \in SUBSET {"mount", "file"}, n \in Nat :
          left = cb.left \cup {"file"} /\ n = cb.faults + 1
    BY <1>1, cbLeaves
  <2>2. cb' = [cb EXCEPT !.left = left, !.pc = next, !.faults = n]
    <3>1. PICK s : s = [cb EXCEPT !.left = left] /\ cbFail(s, next)
      BY <1>1, <1>3, <2>1 DEF cbStates
    <3>2. s.faults = cb.faults
      BY <1>1, <3>1 DEF cbStates
    <3> QED BY <1>1, <2>1, <3>1, <3>2, cbFailsWith
  <2>3. cb' \in cbStates
    BY <1>1, <2>2, Zenon DEF cbStates
  <2>4. cbIs(next, cb.fd, cb.type, cb.mounted, cb.named, left, n)
    BY <1>1, <2>2 DEF cbStates, cbIs
  <2> QED BY SMT, <1>1, <2>1, <2>3, <2>4 DEF cbInv, cbIs, Copying, Copy, cbLabels
<1> QED BY <1>2, <1>3 DEF bindUnlink

LEMMA make_execfdStep == ASSUME cbInv, make_execfd PROVE cbInv'
<1>1. /\ cb \in cbStates /\ cb.pc \in {"memfd", "tmpfile", "unlinkCopy"} /\ Copying(cb)
      /\ NoFile \in cbFiles /\ NoFile.seals = "no" /\ NoFile.links = 0
      /\ cb.left \subseteq {"mount", "file"} /\ cb.faults \in Nat /\ cb.execs \in Nat
  BY SMT, cbAssumption DEF cbInv, make_execfd, cbAt, Copying, cbLabels, cbStates, cbFiles, NoFile
<1>2. CASE cb.pc # "unlinkCopy" /\ cbFail(cb, "failed")
  BY <1>1, <1>2, cbGivesUp DEF cbLabels
<1>3. CASE /\ cb.pc = "memfd"
           /\ cb' = cbGo([cb EXCEPT !.type = "memfd", !.fd = [NoFile EXCEPT !.seals = "some"]], "copy")
  <2>0. [NoFile EXCEPT !.seals = "some"] \in cbFiles
    BY <1>1, Zenon DEF cbFiles
  <2>1. PICK f \in cbFiles : f = [NoFile EXCEPT !.seals = "some"] /\ f.seals = "some"
    BY <1>1, <2>0 DEF cbFiles
  <2>2. cb' = [cb EXCEPT !.type = "memfd", !.fd = f, !.pc = "copy"]
    BY <1>3, <2>1 DEF cbGo
  <2>3. cb' \in cbStates
    BY <1>1, <2>2, Zenon DEF cbStates, cbLabels
  <2>4. cbIs("copy", f, "memfd", cb.mounted, cb.named, cb.left, cb.faults)
    BY <1>1, <2>2 DEF cbStates, cbIs
  <2>5. cb.pc = "memfd" /\ f.seals = "some"
    BY <1>3, <2>1
  <2> QED BY ZenonT(20), <1>1, <2>3, <2>4, <2>5 DEF cbInv, cbIs, Copying, Copy, cbLabels
<1>4. CASE cb.pc = "memfd" /\ cb' = cbGo(cb, "tmpfile")
  <2>1. cbSame /\ cb'.pc = "tmpfile" /\ cb'.faults = cb.faults
    BY <1>1, <1>4, cbGoes DEF cbLabels
  <2> QED BY <1>1, <1>4, <2>1, cbMoves DEF cbInv, cbLabels
<1>5. CASE cb.pc = "tmpfile" /\ cb' = cbGo([cb EXCEPT !.type = "file", !.fd = NoFile], "copy")
  <2>2. cb' = [cb EXCEPT !.type = "file", !.fd = NoFile, !.pc = "copy"]
    BY <1>5 DEF cbGo
  <2>3. cb' \in cbStates
    BY <1>1, <2>2, Zenon DEF cbStates, cbLabels
  <2>4. cbIs("copy", NoFile, "file", cb.mounted, cb.named, cb.left, cb.faults)
    BY <1>1, <2>2 DEF cbStates, cbIs
  <2> QED BY <1>1, <1>5, <2>3, <2>4 DEF cbInv, cbIs, Copying, Copy, cbLabels
<1>6. CASE cb.pc = "tmpfile" /\ cb' = cbGo([cb EXCEPT !.type = "file", !.named = TRUE], "unlinkCopy")
  <2>2. cb' = [cb EXCEPT !.type = "file", !.named = TRUE, !.pc = "unlinkCopy"]
    BY <1>6 DEF cbGo
  <2>3. cb' \in cbStates
    BY <1>1, <2>2, Zenon DEF cbStates, cbLabels
  <2>4. cbIs("unlinkCopy", cb.fd, "file", cb.mounted, TRUE, cb.left, cb.faults)
    BY <1>1, <2>2 DEF cbStates, cbIs
  <2> QED BY <1>1, <1>6, <2>3, <2>4 DEF cbInv, cbIs, Copying, Copy, cbLabels
<1>7. CASE cb.pc = "unlinkCopy" /\ cb' = [cb EXCEPT !.pc = "copy", !.named = FALSE, !.fd = NoFile]
  <2>3. cb' \in cbStates
    BY <1>1, <1>7, Zenon DEF cbStates, cbLabels
  <2>4. cbIs("copy", NoFile, cb.type, cb.mounted, FALSE, cb.left, cb.faults)
    BY <1>1, <1>7 DEF cbStates, cbIs
  <2> QED BY <1>1, <1>7, <2>3, <2>4 DEF cbInv, cbIs, Copying, Copy, cbLabels
<1>8. CASE cb.pc = "unlinkCopy" /\ cbFail([cb EXCEPT !.left = @ \cup {"file"}], "failed")
  <2>1. PICK left \in SUBSET {"mount", "file"}, n \in Nat :
          left = cb.left \cup {"file"} /\ n = cb.faults + 1
    BY <1>1, cbLeaves
  <2>2. cb' = [cb EXCEPT !.left = left, !.pc = "failed", !.faults = n]
    <3>1. PICK s : s = [cb EXCEPT !.left = left] /\ cbFail(s, "failed")
      BY <1>1, <1>8, <2>1 DEF cbStates
    <3>2. s.faults = cb.faults
      BY <1>1, <3>1 DEF cbStates
    <3> QED BY <1>1, <2>1, <3>1, <3>2, cbFailsWith
  <2>3. cb' \in cbStates
    BY <1>1, <2>2, Zenon DEF cbStates, cbLabels
  <2>4. cbIs("failed", cb.fd, cb.type, cb.mounted, cb.named, left, n)
    BY <1>1, <2>2 DEF cbStates, cbIs
  <2> QED BY SMT, <1>1, <1>8, <2>1, <2>3, <2>4 DEF cbInv, cbIs, Copying, Copy, cbLabels
<1> QED BY <1>2, <1>3, <1>4, <1>5, <1>6, <1>7, <1>8 DEF make_execfd, cbAt, cbStep

LEMMA copyBinaryStep == ASSUME cbInv, copyBinary PROVE cbInv'
<1>1. /\ cb \in cbStates /\ cb.pc = "copy" /\ Copying(cb) /\ cb.fd \in cbFiles
      /\ cb.faults \in Nat /\ cb.execs \in Nat /\ cb.fd.size \in 0..cbSize
  BY DEF cbInv, copyBinary, cbAt, Copying, cbLabels, cbStates, cbFiles
<1>2. ASSUME NEW m \in 0..cbSize, NEW n \in {cb.faults, cb.faults + 1},
             cb' = [cb EXCEPT !.fd = [cb.fd EXCEPT !.size = m], !.pc = "copy", !.faults = n]
      PROVE  cbInv'
  <2>0. n \in Nat /\ [cb.fd EXCEPT !.size = m] \in cbFiles
    <3>1. n \in Nat
      BY SMT, <1>1
    <3>2. [cb.fd EXCEPT !.size = m] \in cbFiles
      BY <1>1, Zenon DEF cbFiles
    <3> QED BY <3>1, <3>2
  <2>1. PICK f \in cbFiles : f = [cb.fd EXCEPT !.size = m] /\ f.seals = cb.fd.seals
                             /\ f.links = cb.fd.links /\ f.ro = cb.fd.ro
    BY <1>1, <2>0 DEF cbFiles
  <2>2. cb' = [cb EXCEPT !.fd = f, !.pc = "copy", !.faults = n]
    BY <1>2, <2>1
  <2>3. cb' \in cbStates
    BY <1>1, <2>0, <2>2, Zenon DEF cbStates, cbLabels
  <2>4. cbIs("copy", f, cb.type, cb.mounted, cb.named, cb.left, n)
    BY <1>1, <2>2 DEF cbStates, cbIs
  <2>5. f.seals = cb.fd.seals /\ f.links = cb.fd.links /\ cb.execs <= n /\ cb.execs <= 1 + n
    BY SMT, <1>1, <1>2, <2>1 DEF cbInv
  <2> QED BY <1>1, <2>3, <2>4, <2>5 DEF cbInv, cbIs, Copying, Copy, cbLabels
<1>3. CASE cbFail(cb, "failed")
  BY <1>1, <1>3, cbGivesUp DEF cbLabels
<1>4. CASE cbFail(fd_to_fd(cb), "copy")
  <2>1. cb' = [fd_to_fd(cb) EXCEPT !.pc = "copy", !.faults = cb.faults + 1]
    <3>1. fd_to_fd(cb).faults = cb.faults
      BY <1>1 DEF fd_to_fd, cbStates
    <3> QED BY <1>1, <1>4, <3>1, cbFailsWith
  <2>2. cb' = [cb EXCEPT !.fd = [cb.fd EXCEPT !.size = cbSize], !.pc = "copy", !.faults = cb.faults + 1]
    BY <1>1, <2>1 DEF fd_to_fd, cbStates
  <2>3. cbSize \in 0..cbSize
    BY SMT, cbAssumption
  <2> QED BY <1>2, <2>2, <2>3
<1>5. ASSUME NEW n \in 1 .. cbSize - cb.fd.size, cb' = [cb EXCEPT !.fd.size = @ + n]
      PROVE  cbInv'
  <2>1. cb.fd.size + n \in 0..cbSize
    BY SMT, <1>1, cbAssumption
  <2>2. cb' = [cb EXCEPT !.fd = [cb.fd EXCEPT !.size = cb.fd.size + n], !.pc = "copy",
                         !.faults = cb.faults]
    <3>1. cb' = [cb EXCEPT !.fd = [cb.fd EXCEPT !.size = cb.fd.size + n]]
      BY <1>1, <1>5 DEF cbStates
    <3> QED BY <1>1, <3>1 DEF cbStates
  <2> QED BY <1>2, <2>1, <2>2
<1> QED BY <1>3, <1>4, <1>5 DEF copyBinary

LEMMA seal_execfdStep == ASSUME cbInv, seal_execfd PROVE cbInv'
<1>1. /\ cb \in cbStates /\ cb.pc = "copy" /\ Copying(cb) /\ cb.fd \in cbFiles /\ cb.fd.size = cbSize
      /\ cb.faults \in Nat /\ cb.execs \in Nat
  BY DEF cbInv, seal_execfd, cbAt, Copying, cbLabels, cbStates
<1>2. CASE cbFail(cb, "failed")
  BY <1>1, <1>2, cbGivesUp DEF cbLabels
<1>3. CASE cb.type # "memfd" /\ cb' = cbGo(cb, "exec")
  <2>1. cbSame /\ cb'.pc = "exec" /\ cb'.faults = cb.faults
    BY <1>1, <1>3, cbGoes DEF cbLabels
  <2>2. Copy(cb.fd)
    BY <1>1, <1>3 DEF cbInv, Copy
  <2> QED BY <1>1, <2>1, <2>2, cbMoves DEF cbInv, cbLabels
<1>4. CASE cb.type = "memfd" /\ cb' = cbGo([cb EXCEPT !.fd.seals = "all"], "exec")
  <2>0. [cb.fd EXCEPT !.seals = "all"] \in cbFiles
    BY <1>1, Zenon DEF cbFiles
  <2>1. PICK f \in cbFiles : f = [cb.fd EXCEPT !.seals = "all"] /\ f.seals = "all" /\ f.size = cb.fd.size
    BY <1>1, <2>0 DEF cbFiles
  <2>2. cb' = [cb EXCEPT !.fd = f, !.pc = "exec"]
    BY <1>1, <1>4, <2>1 DEF cbGo, cbStates
  <2>3. cb' \in cbStates
    BY <1>1, <2>2, Zenon DEF cbStates, cbLabels
  <2>4. cbIs("exec", f, cb.type, cb.mounted, cb.named, cb.left, cb.faults)
    BY <1>1, <2>2 DEF cbStates, cbIs
  <2>5. cb.type = "memfd" /\ f.seals = "all" /\ f.size = cbSize
    BY <1>1, <1>4, <2>1
  <2> QED BY <1>1, <2>3, <2>4, <2>5 DEF cbInv, cbIs, Copying, Copy, cbLabels
<1> QED BY <1>2, <1>3, <1>4 DEF seal_execfd, cbStep

LEMMA execCloneStep == ASSUME cbInv, execClone PROVE cbInv'
<1>1. /\ cb \in cbStates /\ cb.pc = "exec" /\ Copying(cb) /\ cb.fd \in cbFiles /\ NoFile \in cbFiles
      /\ cb.faults \in Nat /\ cb.execs \in Nat /\ Copy(cb.fd) /\ cb.fd.size = cbSize
      /\ cb.execs <= cb.faults
  BY SMT, cbAssumption DEF cbInv, execClone, cbAt, Copying, cbLabels, cbStates, cbFiles, NoFile
<1>2. CASE cbFail(cb, "failed")
  BY <1>1, <1>2, cbGivesUp DEF cbLabels
<1>3. CASE cb' = [cb EXCEPT !.pc = "check", !.exe = cb.fd, !.env = TRUE, !.fd = NoFile,
                            !.type = "none", !.execs = @ + 1]
  <2>1. PICK n \in Nat : n = cb.execs + 1 /\ n <= 1 + cb.faults
    BY SMT, <1>1
  <2>2. cb' = [cb EXCEPT !.pc = "check", !.exe = cb.fd, !.env = TRUE, !.fd = NoFile,
                         !.type = "none", !.execs = n]
    BY <1>1, <1>3, <2>1 DEF cbStates
  <2>3. cb' \in cbStates
    BY <1>1, <2>2, Zenon DEF cbStates, cbLabels
  <2>4. /\ cb'.pc = "check" /\ cb'.exe = cb.fd /\ cb'.env = TRUE /\ cb'.type = "none"
        /\ cb'.mounted = cb.mounted /\ cb'.named = cb.named /\ cb'.left = cb.left
        /\ cb'.execs = n /\ cb'.faults = cb.faults
    BY <1>1, <2>2 DEF cbStates
  <2> QED BY <1>1, <2>1, <2>3, <2>4 DEF cbInv, Copying, Copy, cbLabels
<1> QED BY <1>2, <1>3 DEF execClone

LEMMA cbNextHolds == cbInv /\ [cbNext]_cb => cbInv'
<1> SUFFICES ASSUME cbInv, [cbNext]_cb PROVE cbInv'
  OBVIOUS
<1>1. CASE UNCHANGED cb
  BY SMT, <1>1 DEF cbInv, Copying
<1>2. CASE cbNext
  BY <1>2, checkClonedStep, fetchveStep, bindTemplateStep, bindMountStep, bindReadonlyStep,
     bindOpenStep, bindUmountStep, bindUnlinkStep, make_execfdStep, copyBinaryStep,
     seal_execfdStep, execCloneStep, Zenon DEF cbNext
<1> QED BY <1>1, <1>2

\* runc init ends up in a whole copy of its binary that nobody can write to,
\* executes it once unless telling it from the binary failed, and leaves no
\* mount and no file behind unless removing it failed (ensure_cloned_binary).
THEOREM CopyRuns == cbSpec => []RunsFromCopy
<1>1. cbInv => RunsFromCopy
  BY DEF cbInv, RunsFromCopy, Copy
<1> QED BY <1>1, cbInitHolds, cbNextHolds, PTL DEF cbSpec

-----------------------------------------------------------------------------
(* Criu.                                                                   *)

crFields == {"pc", "conf", "req", "next", "result", "criu", "held", "client", "up", "down", "left",
             "opts", "mounts", "i", "network", "marker", "saved", "hooks", "alive", "dir", "faults"}

\* Outside prepareCriuRestoreMounts only the mount of the root is there, and
\* the deferred calls have dealt with it and with criu before runc returns.
crInv ==
  /\ crFields \subseteq DOMAIN cr
  /\ cr.next \in {"done", "dump"}
  /\ cr.pc # "mounts" => cr.mounts \subseteq {0}
  /\ cr.pc \in {"return", "done"} => cr.criu \in {"none", "reaped"} /\ cr.mounts = {}
  /\ cr.pc = "done" /\ cr.alive => cr.dir

LEMMA crInitHolds == crInit => crInv
BY SMT DEF crInit, crInv, crFields

\* A step of runc before it returns, past the mounting for criu.
LEMMA crRuns ==
  ASSUME crInv, DOMAIN cr' = DOMAIN cr, cr.pc # "mounts", cr'.mounts = cr.mounts,
         cr'.next \in {"done", "dump"}, cr'.pc \notin {"return", "done"}
  PROVE  crInv'
BY DEF crInv

LEMMA crFailStep == ASSUME crInv, crFail, cr.pc # "mounts" PROVE crInv'
<1>1. crFields \subseteq DOMAIN cr /\ cr.next \in {"done", "dump"}
  BY DEF crInv
<1>2. cr' = [cr EXCEPT !.pc = "unwind", !.result = "error", !.faults = @ + 1]
  BY DEF crFail
<1>3. DOMAIN cr' = DOMAIN cr /\ cr'.mounts = cr.mounts /\ cr'.next = cr.next /\ cr'.pc = "unwind"
  BY <1>1, <1>2 DEF crFields
<1> QED BY <1>1, <1>3, crRuns

LEMMA CheckpointStep == ASSUME crInv, Checkpoint \/ checkCriuFeatures PROVE crInv'
<1>1. crFields \subseteq DOMAIN cr /\ cr.next \in {"done", "dump"} /\ cr.pc \in {"checkpoint", "dump"}
  BY DEF crInv, Checkpoint, checkCriuFeatures, crAt
<1>2. CASE crFail
  BY <1>1, <1>2, crFailStep
<1>3. CASE ~crFail
  <2>1. \/ cr' = [cr EXCEPT !.pc = "unwind", !.result = "error"]
        \/ \E o, r : \E n \in {"done", "dump"} :
             cr' = [cr EXCEPT !.pc = "spawn", !.opts = o, !.req = r, !.next = n]
        \/ \E r : cr' = [cr EXCEPT !.pc = "spawn", !.next = "done", !.req = r]
    <3>1. CASE Checkpoint
      <4> DEFINE n == IF cr.conf.cmd = "predump" \/ cr.conf.lazy THEN "dump" ELSE "done"
      <4>1. n \in {"done", "dump"}
        OBVIOUS
      <4>2. \/ cr' = [cr EXCEPT !.pc = "unwind", !.result = "error"]
            \/ \E o, r : cr' = [cr EXCEPT !.pc = "spawn", !.opts = o, !.req = r, !.next = n]
        BY <1>3, <3>1 DEF Checkpoint
      <4> HIDE DEF n
      <4> QED BY <4>1, <4>2
    <3>2. CASE checkCriuFeatures
      BY <1>3, <3>2, Zenon DEF checkCriuFeatures
    <3> QED BY <3>1, <3>2
  <2>2. /\ DOMAIN cr' = DOMAIN cr /\ cr'.mounts = cr.mounts /\ cr'.next \in {"done", "dump"}
        /\ cr'.pc \in {"unwind", "spawn"}
    BY <1>1, <2>1 DEF crFields
  <2> QED BY <1>1, <2>2, crRuns
<1> QED BY <1>2, <1>3

LEMMA RestoreStep == ASSUME crInv, Restore PROVE crInv'
<1>1. crFields \subseteq DOMAIN cr /\ cr.next \in {"done", "dump"} /\ cr.pc = "restore"
  BY DEF crInv, Restore, crAt
<1>2. CASE crFail
  BY <1>1, <1>2, crFailStep
<1>3. CASE cr' = [cr EXCEPT !.pc = "unwind", !.result = "error"]
  BY <1>1, <1>3 DEF crInv, crFields
<1>4. CASE cr' = [cr EXCEPT !.pc = "namespaces", !.mounts = {0}]
  BY <1>1, <1>4 DEF crInv, crFields
<1> QED BY <1>2, <1>3, <1>4 DEF Restore

LEMMA namespacesStep == ASSUME crInv, handleRestoringNamespaces PROVE crInv'
<1>1. crFields \subseteq DOMAIN cr /\ cr.next \in {"done", "dump"} /\ cr.pc = "namespaces"
  BY DEF crInv, handleRestoringNamespaces, crAt
<1>2. /\ DOMAIN cr' = DOMAIN cr /\ cr'.mounts = cr.mounts /\ cr'.next = cr.next
      /\ cr'.pc \in {"unwind", "mounts"}
  BY <1>1 DEF handleRestoringNamespaces, crFields
<1> QED BY <1>1, <1>2, crRuns

LEMMA mountpointsStep == ASSUME crInv, makeCriuRestoreMountpoints PROVE crInv'
<1>1. crFields \subseteq DOMAIN cr /\ cr.next \in {"done", "dump"} /\ cr.pc = "mounts"
  BY DEF crInv, makeCriuRestoreMountpoints, crAt
<1>2. CASE \E ms : cr' = [cr EXCEPT !.i = @ + 1, !.mounts = ms]
  <2>1. DOMAIN cr' = DOMAIN cr /\ cr'.next = cr.next /\ cr'.pc = "mounts"
    BY <1>1, <1>2 DEF crFields
  <2> QED BY <1>1, <2>1 DEF crInv
<1>3. CASE cr' = [cr EXCEPT !.pc = "unwind", !.result = "error", !.faults = @ + 1, !.mounts = umounts]
  BY <1>1, <1>3 DEF crInv, crFields, umounts
<1>4. CASE cr' = [cr EXCEPT !.pc = "spawn", !.req = "RESTORE", !.mounts = umounts]
  BY <1>1, <1>4 DEF crInv, crFields, umounts
<1> QED BY <1>2, <1>3, <1>4 DEF makeCriuRestoreMountpoints

\* The conversation with criu.
LEMMA swrkSteps ==
  ASSUME crInv, \/ swrkStart \/ closeServer \/ criuApplyCgroups \/ swrkRequest \/ swrkRead
                \/ criuNotifications \/ swrkAck
  PROVE  crInv'
<1>1. /\ crFields \subseteq DOMAIN cr /\ cr.next \in {"done", "dump"}
      /\ cr.pc \in {"spawn", "close", "apply", "request", "read", "notify", "ack"}
  BY DEF crInv, swrkStart, closeServer, criuApplyCgroups, swrkRequest, swrkRead,
         criuNotifications, swrkAck, crAt
<1>2. CASE crFail
  BY <1>1, <1>2, crFailStep
<1> DEFINE Keeps == /\ DOMAIN cr' = DOMAIN cr /\ cr'.mounts = cr.mounts /\ cr'.next = cr.next
                    /\ cr'.pc \in {"close", "apply", "request", "read", "notify", "ack", "wait", "unwind"}
<1>3. CASE swrkStart /\ ~crFail
  <2>1. PICK ss : cr' = [cr EXCEPT !.pc = "close", !.criu = "running", !.held = TRUE,
                         !.client = "open", !.up = "none", !.down = "none", !.left = ss]
    BY <1>3 DEF swrkStart
  <2>2. Keeps
    BY <1>1, <2>1, Zenon DEF crFields
  <2> QED BY <1>1, <2>2, crRuns
<1>4. CASE closeServer \/ (criuApplyCgroups /\ ~crFail)
  BY <1>1, <1>4, crRuns DEF closeServer, criuApplyCgroups, crFields
<1>5. CASE swrkRequest \/ swrkAck
  <2>1. Keeps
    BY <1>1, <1>5 DEF swrkRequest, swrkAck, crWrite, crFields
  <2> QED BY <1>1, <2>1, crRuns
<1>6. CASE swrkRead
  <2>1. Keeps
    BY <1>1, <1>6 DEF swrkRead, crFields
  <2> QED BY <1>1, <2>1, crRuns
<1>7. CASE criuNotifications /\ ~crFail
  <2>1. Keeps
    BY <1>1, <1>7 DEF criuNotifications, crFields
  <2> QED BY <1>1, <2>1, crRuns
<1> QED BY <1>2, <1>3, <1>4, <1>5, <1>6, <1>7

LEMMA returnSteps == ASSUME crInv, swrkWait \/ unwind \/ checkpointCommand PROVE crInv'
<1>1. crFields \subseteq DOMAIN cr /\ cr.next \in {"done", "dump"}
  BY DEF crInv
<1>2. CASE swrkWait
  BY <1>1, <1>2, crRuns DEF swrkWait, crAt, crFields
<1>3. CASE unwind
  <2>1. CASE cr.pc = "unwind" /\ cr.criu \in {"none", "reaped"}
             /\ cr' = [cr EXCEPT !.pc = "return", !.mounts = @ \ {0}, !.client = "closed"]
    BY <1>1, <2>1 DEF crInv, crFields
  <2>2. CASE cr.pc = "unwind" /\ cr' = [cr EXCEPT !.client = "closed"]
    BY <1>1, <2>2, crRuns DEF crFields
  <2>3. CASE cr.pc = "unwind" /\ cr' = [cr EXCEPT !.criu = "reaped"]
    BY <1>1, <2>3, crRuns DEF crFields
  <2> QED BY <1>3, <2>1, <2>2, <2>3 DEF unwind, crAt
<1>4. CASE checkpointCommand
  <2>1. /\ cr.pc = "return" /\ cr'.pc = "done" /\ DOMAIN cr' = DOMAIN cr /\ cr'.next = cr.next
        /\ cr'.mounts = cr.mounts /\ cr'.criu = cr.criu /\ cr'.alive = cr.alive
        /\ cr'.dir = (cr.conf.cmd # "dump" \/ cr.conf.leave \/ cr.alive)
    BY <1>1, <1>4 DEF checkpointCommand, crAt, crFields
  <2> QED BY <1>1, <2>1 DEF crInv
<1> QED BY <1>2, <1>3, <1>4

\* criu itself acts only before runc has returned.
LEMMA CriuStepHolds == ASSUME crInv, CriuStep PROVE crInv'
<1>1. /\ crFields \subseteq DOMAIN cr /\ cr.next \in {"done", "dump"}
      /\ cr.pc \notin {"return", "done"}
  BY DEF crInv, CriuStep, criuNotifies, criuResponds, criuExits, crLive, crAt
<1>2. DOMAIN cr' = DOMAIN cr /\ cr'.mounts = cr.mounts /\ cr'.next = cr.next /\ cr'.pc = cr.pc
  <2>1. CASE criuNotifies
    BY <1>1, <2>1 DEF criuNotifies, crFields
  <2>2. CASE criuResponds
    BY <1>1, <2>2 DEF criuResponds, crFields
  <2>3. CASE criuExits
    BY <1>1, <2>3 DEF criuExits, crFields
  <2> QED BY <2>1, <2>2, <2>3 DEF CriuStep
<1> QED BY <1>1, <1>2 DEF crInv

LEMMA crNextHolds == crInv /\ [crNext]_cr => crInv'
<1> SUFFICES ASSUME crInv, [crNext]_cr PROVE crInv'
  OBVIOUS
<1>1. CASE UNCHANGED cr
  BY <1>1 DEF crInv
<1>2. CASE crNext
  BY <1>2, CheckpointStep, RestoreStep, namespacesStep, mountpointsStep, swrkSteps, returnSteps,
     CriuStepHolds, Zenon DEF crNext, crStep
<1> QED BY <1>1, <1>2

\* Whatever fails in a checkpoint or restore, and whenever criu dies, runc
\* returns with criu waited for and its mounts undone, and a container that
\* still runs keeps its state directory (criuSwrk's deferred calls).
THEOREM CriuTidies == crSpec => []CriuCleansUp
<1>1. crInv => CriuCleansUp
  BY DEF crInv, CriuCleansUp
<1> QED BY <1>1, crInitHolds, crNextHolds, PTL DEF crSpec

-----------------------------------------------------------------------------
(* CgroupManager.                                                          *)

cmFields == {"pc", "conf", "i", "tries", "paths", "dropped", "made", "undone", "todo", "dirs",
             "procs", "subs", "alive", "written", "target", "updated", "back", "unit", "existed",
             "job", "result", "stopErr", "destroyed", "faults"}

Home(conf) == IF V1(conf) THEN conf.mounted ELSE {Leaf}
Applied  == {"setProps", "set", "run"}
Ending   == {"stopUnit", "waitStop", "remove", "done"}

\* There is a manager, and it has not refused the configuration.
Managed(s) == s.pc # "new" /\ (s.pc = "done" => s.destroyed # "no")

Shaped(s) ==
  /\ cmFields \subseteq DOMAIN s /\ s.conf \in cmConfs /\ s.i \in Nat \ {0}
  /\ s.target \subseteq s.conf.limits \cup s.conf.update
  /\ ~Managed(s) => s.job = "none" /\ s.alive
  /\ s.job # "none" => Systemd(s.conf)
  /\ s.job = "stop" => ~s.alive
  /\ s.pc \notin Ending => s.alive
  /\ s.alive => s.pc \notin Ending \/ ~Managed(s)
  /\ s.pc \in {"startUnit", "waitStart", "stopUnit", "waitStop"} => Systemd(s.conf)
  /\ s.pc = "join" => V1(s.conf)
  /\ s.pc = "create" => ~V1(s.conf)
  /\ s.pc = "chown" => s.conf.driver = "sd2"
  /\ s.pc \in {"new", "startUnit", "waitStart"} => s.i = 1
  /\ s.pc = "joinWrite" => IF V1(s.conf) THEN /\ s.i \in DOMAIN cmSubsystems
                                              /\ cmSubsystems[s.i] \in s.paths
                           ELSE s.conf.driver = "fs2"

\* Whatever is in the container's cgroup is on the list of what Destroy removes.
OnList(s) ==
  /\ Managed(s) => /\ s.dirs \cap Home(s.conf) \subseteq s.paths \cup s.dropped
                   /\ s.subs \subseteq s.paths /\ s.procs \subseteq s.paths
                   /\ s.alive /\ ~V1(s.conf) => s.paths = {Leaf}
                   /\ s.alive /\ s.conf.driver = "sd1" => s.paths = s.conf.mounted
  /\ s.pc = "done" /\ s.destroyed = "ok" => s.paths = {}
  /\ s.pc = "new" => s.procs = {} /\ s.subs = {} /\ s.destroyed = "no"
  /\ s.pc \in {"join", "joinWrite"} /\ s.conf.driver = "fs"
       => s.procs \subseteq {cmSubsystems[j] : j \in 1..(s.i - 1)} /\ s.subs = {}

\* CreateCgroupPath of fs2 undoes what it did, once.
Undone(s) ==
  s.conf.driver = "fs2" =>
    /\ s.pc \in {"new", "create"} => s.procs = {} /\ (Leaf \in s.dirs => Leaf \in s.made)
    /\ s.pc \in {"new", "create", "joinWrite"} => ~s.undone
    /\ s.undone => s.made \cap s.dirs = {} /\ Leaf \notin s.dirs

\* A limit of a v1 container that Set could write.
Wanted(s, sub) ==
  sub \in cmLimits \cap s.paths /\ ~(s.conf.driver = "fs" /\ sub = "devices" /\ s.conf.skipDevices)

\* Apply has put the process where Set will write.
Joined(s) ==
  /\ V1(s.conf) /\ s.pc \in {"join", "joinWrite"} =>
       \A j \in DOMAIN cmSubsystems \cap 1..(s.i - 1) :
         Wanted(s, cmSubsystems[j]) => cmSubsystems[j] \in s.procs
  /\ V1(s.conf) /\ s.pc \in Applied => \A sub \in cmLimits : Wanted(s, sub) => sub \in s.procs
  /\ s.conf.driver = "sd2" /\ s.pc \in {"create", "chown"} \cup Applied =>
       Leaf \in s.procs \/ s.existed
  /\ s.conf.driver = "fs2" /\ s.pc \in Applied => Leaf \in s.procs \/ Leaf \notin s.dirs
  /\ s.pc = "waitStart" /\ s.job = "done" => UnitDir(s.conf) \in s.procs

\* A limit that was asked for is written, and holds the process.
Limited(s, sub) ==
  sub \in s.target /\ ~PassedOver(s, sub) =>
    sub \in s.written /\ ((IF V1(s.conf) THEN sub ELSE Leaf) \in s.procs \/ s.existed)
Limits(s) ==
  /\ s.pc = "set" => \A j \in DOMAIN SetOrder(s.conf) \cap 1..(s.i - 1) : Limited(s, SetOrder(s.conf)[j])
  /\ s.pc = "run" /\ s.result = "ok" => \A sub \in s.target : Limited(s, sub)

cmGood(s) == Shaped(s) /\ OnList(s) /\ Undone(s) /\ Joined(s) /\ Limits(s)
cmInv == cmGood(cm)

Kept(s, t, F) == DOMAIN t = DOMAIN s /\ \A f \in cmFields \ F : t[f] = s[f]

LEMMA FaultyKept == ASSUME NEW s, Shaped(s) PROVE Kept(s, cmFaulty(s), {"faults"})
  BY DEF Kept, Shaped, cmFields, cmFaulty

LEMMA KeptFaulty ==
  ASSUME NEW s, NEW t, cmGood(s), Kept(s, t, {"faults", "tries", "todo"})
  PROVE  cmGood(t)
  <1>1. /\ DOMAIN t = DOMAIN s /\ t.pc = s.pc /\ t.conf = s.conf /\ t.i = s.i /\ t.paths = s.paths
        /\ t.dropped = s.dropped /\ t.made = s.made /\ t.undone = s.undone /\ t.dirs = s.dirs
        /\ t.procs = s.procs /\ t.subs = s.subs /\ t.alive = s.alive /\ t.written = s.written
        /\ t.target = s.target /\ t.updated = s.updated /\ t.back = s.back /\ t.unit = s.unit
        /\ t.existed = s.existed /\ t.job = s.job /\ t.result = s.result /\ t.stopErr = s.stopErr
        /\ t.destroyed = s.destroyed
    BY DEF Kept, cmFields
  <1>2. Shaped(t) BY SMT, <1>1 DEF cmGood, Shaped, Managed
  <1>3. OnList(t) BY <1>1 DEF cmGood, OnList, Managed
  <1>4. Undone(t) BY <1>1 DEF cmGood, Undone
  <1>5. Joined(t) BY <1>1 DEF cmGood, Joined, Wanted
  <1>6. Limits(t) BY <1>1 DEF cmGood, Limits, Limited, PassedOver
  <1> QED BY <1>2, <1>3, <1>4, <1>5, <1>6 DEF cmGood

LEMMA FaultyGood == ASSUME NEW s, cmGood(s) PROVE cmGood(cmFaulty(s))
  BY FaultyKept, KeptFaulty DEF cmGood, Kept, cmFields

\* Apply or Set gives up: nothing that Destroy needs to know is lost.
LEMMA GivesUp ==
  ASSUME NEW s, NEW t, cmGood(s), s.pc \notin Ending \cup {"new"}, t.pc = "failed",
         Kept(s, t, {"pc", "result", "job"}), t.job \in {s.job, "none"}
  PROVE  cmGood(t)
  <1>1. /\ DOMAIN t = DOMAIN s /\ t.conf = s.conf /\ t.i = s.i /\ t.paths = s.paths
        /\ t.dropped = s.dropped /\ t.made = s.made /\ t.undone = s.undone /\ t.dirs = s.dirs
        /\ t.procs = s.procs /\ t.subs = s.subs /\ t.alive = s.alive
        /\ t.target = s.target /\ t.destroyed = s.destroyed
    BY DEF Kept, cmFields
  <1>2. Shaped(t) BY <1>1 DEF cmGood, Shaped, Managed, Ending
  <1>3. OnList(t) BY <1>1 DEF cmGood, OnList, Managed, Ending
  <1>4. Undone(t) BY <1>1 DEF cmGood, Undone
  <1>5. Joined(t) /\ Limits(t) BY DEF Joined, Limits, Applied
  <1> QED BY <1>2, <1>3, <1>4, <1>5 DEF cmGood

LEMMA FailedGood ==
  ASSUME NEW s, cmGood(s), s.pc \notin Ending \cup {"new"}
  PROVE  cmGood(Failed(s))
  <1>1. Failed(s).pc = "failed" /\ Kept(s, Failed(s), {"pc", "result", "job"})
        /\ Failed(s).job = s.job
    BY DEF Failed, Kept, cmGood, Shaped, cmFields
  <1> QED BY <1>1, GivesUp

\* Set fails: at creation, at an update, or at the attempt to go back.
LEMMA SetErrGood ==
  ASSUME NEW s, cmGood(s), s.pc \in {"setProps", "set"}
  PROVE  cmGood(SetErr(s))
  <1> DEFINE t == SetErr(s)
  <1>1. CASE ~s.updated BY <1>1, FailedGood DEF SetErr, Ending
  <1>2. CASE s.updated
    <2>1. /\ DOMAIN t = DOMAIN s /\ t.conf = s.conf /\ t.i = s.i /\ t.paths = s.paths
          /\ t.dropped = s.dropped /\ t.made = s.made /\ t.undone = s.undone /\ t.dirs = s.dirs
          /\ t.procs = s.procs /\ t.subs = s.subs /\ t.alive = s.alive /\ t.job = s.job
          /\ t.target = s.target /\ t.destroyed = s.destroyed /\ t.existed = s.existed
          /\ t.pc = "setProps" \/ (t.pc = "run" /\ t.result = "updateError")
      <3>1. CASE s.back
        <4>1. t = [[s EXCEPT !.pc = "run"] EXCEPT !.result = "updateError"]
          BY <1>2, <3>1 DEF SetErr, Goto
        <4> QED BY SMT, <4>1 DEF cmGood, Shaped, cmFields
      <3>2. CASE ~s.back
        <4>1. t = [[s EXCEPT !.pc = "setProps"] EXCEPT !.back = TRUE]
          BY <1>2, <3>2 DEF SetErr, Goto
        <4> QED BY <4>1 DEF cmGood, Shaped, cmFields
      <3> QED BY <3>1, <3>2
    <2> HIDE DEF t
    <2>2. Shaped(t) BY <2>1 DEF cmGood, Shaped, Managed, Ending
    <2>3. OnList(t) BY <2>1 DEF cmGood, OnList, Managed, Ending
    <2>4. Undone(t) BY <2>1 DEF cmGood, Undone
    <2>5. Joined(t) BY <2>1 DEF cmGood, Joined, Wanted, Applied
    <2>6. Limits(t) BY <2>1 DEF Limits
    <2> QED BY <2>2, <2>3, <2>4, <2>5, <2>6 DEF cmGood, t
  <1> QED BY <1>1, <1>2

LEMMA cmInitHolds == cmInit => cmInv
<1> SUFFICES ASSUME cmInit PROVE cmInv
  OBVIOUS
<1>1. PICK conf \in cmConfs :
        cm = [pc |-> "new", conf |-> conf, i |-> 1, tries |-> 0,
          paths |-> {}, dropped |-> {}, made |-> {}, undone |-> FALSE, todo |-> {},
          dirs |-> (IF V1(conf) THEN {} ELSE 1..(cmLevels - 2))
                   \cup (IF conf.leftover THEN UnitDirs(conf) ELSE {}),
          procs |-> {}, subs |-> {}, alive |-> TRUE,
          written |-> {}, target |-> conf.limits, updated |-> FALSE, back |-> FALSE,
          unit |-> IF conf.leftover THEN "active" ELSE "none", existed |-> FALSE, job |-> "none",
          result |-> "none", stopErr |-> FALSE, destroyed |-> "no", faults |-> 0]
  BY DEF cmInit
<1>2. /\ cmFields \subseteq DOMAIN cm /\ cm.pc = "new" /\ cm.conf = conf /\ cm.i = 1
      /\ cm.procs = {} /\ cm.subs = {} /\ cm.alive /\ cm.target = conf.limits
      /\ cm.job = "none" /\ cm.destroyed = "no" /\ cm.undone = FALSE
      /\ cm.dirs = (IF V1(conf) THEN {} ELSE 1..(cmLevels - 2))
                   \cup (IF conf.leftover THEN UnitDirs(conf) ELSE {})
  BY <1>1 DEF cmFields
<1>3. Shaped(cm) BY SMT, <1>2 DEF Shaped, Managed, Ending
<1>4. OnList(cm) BY <1>2 DEF OnList, Managed
<1>5. conf.driver = "fs2" => Leaf \notin cm.dirs
  BY SMT, <1>2, cmAssumption DEF V1, Systemd, Leaf
<1>6. Undone(cm) BY <1>2, <1>5 DEF Undone
<1>7. Joined(cm) /\ Limits(cm) BY <1>2 DEF Joined, Limits, Applied
<1> QED BY <1>3, <1>4, <1>6, <1>7 DEF cmInv, cmGood

LEMMA newManagerStep == ASSUME cmInv, newManager PROVE cmInv'
<1> DEFINE refused == [Goto(cm, "done") EXCEPT !.result = "refused"]
<1> USE DEF cmInv
<1>1. cm.pc = "new" BY DEF newManager, cmAt
<1>2. cmGood(refused)
  <2>1. /\ DOMAIN refused = DOMAIN cm /\ refused.conf = cm.conf /\ refused.i = cm.i
        /\ refused.undone = cm.undone /\ refused.alive = cm.alive /\ refused.job = cm.job
        /\ refused.target = cm.target /\ refused.destroyed = cm.destroyed /\ refused.pc = "done"
    BY DEF Goto, cmGood, Shaped, cmFields
  <2> HIDE DEF refused
  <2>2. Shaped(refused) BY <1>1, <2>1 DEF cmGood, Shaped, OnList, Managed, Ending
  <2>3. OnList(refused) BY <1>1, <2>1 DEF cmGood, OnList, Managed
  <2>4. Undone(refused) BY <1>1, <2>1 DEF cmGood, Undone
  <2>5. Joined(refused) /\ Limits(refused) BY <2>1 DEF Joined, Limits, Applied
  <2> QED BY <2>2, <2>3, <2>4, <2>5 DEF cmGood
<1>3. CASE cm' = refused BY <1>2, <1>3
<1>4. CASE cm' = cmFaulty(refused) BY <1>2, <1>4, FaultyGood
<1>5. CASE cm' = [Goto(cm, IF Systemd(cm.conf) THEN "startUnit" ELSE Joining(cm.conf))
                    EXCEPT !.paths = IF V1(cm.conf) THEN cm.conf.mounted ELSE {Leaf}]
  <2>1. /\ DOMAIN cm' = DOMAIN cm /\ cm'.conf = cm.conf /\ cm'.i = cm.i
        /\ cm'.dropped = cm.dropped /\ cm'.made = cm.made /\ cm'.undone = cm.undone
        /\ cm'.dirs = cm.dirs /\ cm'.procs = cm.procs /\ cm'.subs = cm.subs
        /\ cm'.alive = cm.alive /\ cm'.job = cm.job /\ cm'.target = cm.target
        /\ cm'.paths = (IF V1(cm.conf) THEN cm.conf.mounted ELSE {Leaf})
        /\ cm'.pc = (IF Systemd(cm.conf) THEN "startUnit" ELSE Joining(cm.conf))
    BY <1>5 DEF Goto, cmGood, Shaped, cmFields
  <2>2. /\ cm.conf \in cmConfs /\ cm.conf.driver \in {"fs", "sd1", "fs2", "sd2"} /\ cm.i = 1
        /\ cm.job = "none" /\ cm.procs = {} /\ cm.subs = {} /\ cm.alive
    BY <1>1, cmAssumption DEF cmGood, Shaped, OnList, Managed, Ending
  <2>3. Shaped(cm') BY <2>1, <2>2 DEF cmGood, Shaped, Managed, Ending, Joining, V1, Systemd
  <2>4. OnList(cm') BY <2>1, <2>2 DEF cmGood, OnList, Managed, Home, Joining, V1
  <2>5. Undone(cm') BY <1>1, <2>1 DEF cmGood, Undone
  <2>6. Joined(cm') BY SMT, <2>1, <2>2 DEF Joined, Applied, Joining, V1, Systemd
  <2>7. Limits(cm') BY <2>1 DEF Limits, Joining
  <2> QED BY <2>3, <2>4, <2>5, <2>6, <2>7 DEF cmGood
<1> QED BY <1>3, <1>4, <1>5 DEF newManager

\* The start of a unit, asked for again or found to exist.
LEMMA startUnitStep == ASSUME cmInv, startUnit PROVE cmInv'
<1> USE DEF cmInv
<1> DEFINE asked == [cm EXCEPT !.job = "start"]
<1>0. /\ cm.pc = "startUnit" /\ cm.conf \in cmConfs /\ Systemd(cm.conf) /\ cm.i = 1 /\ cm.alive
      /\ cm.conf.driver \in {"fs", "sd1", "fs2", "sd2"}
  BY cmAssumption DEF startUnit, cmAt, cmGood, Shaped, Ending
<1>1. cmGood(asked)
  <2>1. Kept(cm, asked, {"job"}) /\ asked.job = "start"
    BY DEF Kept, cmGood, Shaped, cmFields
  <2> HIDE DEF asked
  <2>2. /\ DOMAIN asked = DOMAIN cm /\ asked.pc = cm.pc /\ asked.conf = cm.conf /\ asked.i = cm.i
        /\ asked.paths = cm.paths /\ asked.dropped = cm.dropped /\ asked.made = cm.made
        /\ asked.undone = cm.undone /\ asked.dirs = cm.dirs /\ asked.procs = cm.procs
        /\ asked.subs = cm.subs /\ asked.alive = cm.alive /\ asked.target = cm.target
    BY <2>1 DEF Kept, cmFields
  <2>3. Shaped(asked) BY <1>0, <2>1, <2>2 DEF cmGood, Shaped, Managed, Ending
  <2>4. OnList(asked) BY <1>0, <2>2 DEF cmGood, OnList, Managed
  <2>5. Undone(asked) BY <1>0, <2>2 DEF cmGood, Undone
  <2>6. Joined(asked) /\ Limits(asked) BY <1>0, <2>2 DEF Joined, Limits, Applied
  <2> QED BY <2>3, <2>4, <2>5, <2>6 DEF cmGood
<1>2. CASE cm' = cmFaulty(cm) BY <1>2, FaultyGood
<1>3. CASE cm' = cmFaulty(asked) BY <1>1, <1>3, FaultyGood
<1>4. CASE cm' = cmFaulty(Failed(cm)) BY <1>0, <1>4, FaultyGood, FailedGood DEF Ending
<1>5. CASE cm' = [Goto(cm, Joining(cm.conf)) EXCEPT !.existed = TRUE]
  <2>1. Kept(cm, cm', {"pc", "existed"}) /\ cm'.existed /\ cm'.pc = Joining(cm.conf)
    BY <1>5 DEF Goto, Kept, cmGood, Shaped, cmFields
  <2>2. /\ DOMAIN cm' = DOMAIN cm /\ cm'.conf = cm.conf /\ cm'.i = cm.i /\ cm'.job = cm.job
        /\ cm'.paths = cm.paths /\ cm'.dropped = cm.dropped /\ cm'.made = cm.made
        /\ cm'.undone = cm.undone /\ cm'.dirs = cm.dirs /\ cm'.procs = cm.procs
        /\ cm'.subs = cm.subs /\ cm'.alive = cm.alive /\ cm'.target = cm.target
    BY <2>1 DEF Kept, cmFields
  <2>3. Shaped(cm') BY <1>0, <2>1, <2>2 DEF cmGood, Shaped, Managed, Ending, Joining
  <2>4. OnList(cm') BY <1>0, <2>1, <2>2 DEF cmGood, OnList, Managed, Joining, Systemd, V1
  <2>5. Undone(cm') BY <1>0, <2>1, <2>2 DEF cmGood, Undone, Systemd
  <2>6. Joined(cm') /\ Limits(cm')
    BY SMT, <1>0, <2>1, <2>2 DEF Joined, Limits, Applied, Joining, Systemd
  <2> QED BY <2>3, <2>4, <2>5, <2>6 DEF cmGood
<1>6. CASE cm' = [Goto(cm, "waitStart") EXCEPT !.job = "start"]
  <2>1. Kept(cm, cm', {"pc", "job"}) /\ cm'.job = "start" /\ cm'.pc = "waitStart"
    BY <1>6 DEF Goto, Kept, cmGood, Shaped, cmFields
  <2>2. /\ DOMAIN cm' = DOMAIN cm /\ cm'.conf = cm.conf /\ cm'.i = cm.i
        /\ cm'.paths = cm.paths /\ cm'.dropped = cm.dropped /\ cm'.made = cm.made
        /\ cm'.undone = cm.undone /\ cm'.dirs = cm.dirs /\ cm'.procs = cm.procs
        /\ cm'.subs = cm.subs /\ cm'.alive = cm.alive /\ cm'.target = cm.target
    BY <2>1 DEF Kept, cmFields
  <2>3. Shaped(cm') BY <1>0, <2>1, <2>2 DEF cmGood, Shaped, Managed, Ending
  <2>4. OnList(cm') BY <1>0, <2>1, <2>2 DEF cmGood, OnList, Managed
  <2>5. Undone(cm') BY <1>0, <2>1, <2>2 DEF cmGood, Undone, Systemd
  <2>6. Joined(cm') /\ Limits(cm') BY <2>1, <2>2 DEF Joined, Limits, Applied
  <2> QED BY <2>3, <2>4, <2>5, <2>6 DEF cmGood
<1> QED BY <1>2, <1>3, <1>4, <1>5, <1>6 DEF startUnit

\* systemd answers a start job, at any time: the unit's cgroup is one of those to remove.
LEMMA systemdStartsStep == ASSUME cmInv, systemdStarts PROVE cmInv'
<1> USE DEF cmInv
<1>0. /\ cm.job = "start" /\ cm.conf \in cmConfs /\ Systemd(cm.conf) /\ Managed(cm)
      /\ cm.conf.driver = "sd1" => "name=systemd" \in cm.conf.mounted
  BY cmAssumption DEF systemdStarts, cmGood, Shaped
<1>1. CASE cm' = [cm EXCEPT !.job = "failed"]
  <2>1. Kept(cm, cm', {"job"}) /\ cm'.job = "failed"
    BY <1>1 DEF Kept, cmGood, Shaped, cmFields
  <2>2. /\ DOMAIN cm' = DOMAIN cm /\ cm'.conf = cm.conf /\ cm'.i = cm.i /\ cm'.pc = cm.pc
        /\ cm'.paths = cm.paths /\ cm'.dropped = cm.dropped /\ cm'.made = cm.made
        /\ cm'.undone = cm.undone /\ cm'.dirs = cm.dirs /\ cm'.procs = cm.procs
        /\ cm'.subs = cm.subs /\ cm'.alive = cm.alive /\ cm'.target = cm.target
        /\ cm'.written = cm.written /\ cm'.existed = cm.existed /\ cm'.result = cm.result
        /\ cm'.destroyed = cm.destroyed
    BY <2>1 DEF Kept, cmFields
  <2>3. Shaped(cm') BY <1>0, <2>1, <2>2 DEF cmGood, Shaped, Managed
  <2>4. OnList(cm') BY <1>0, <2>1, <2>2 DEF cmGood, OnList, Managed
  <2>5. Undone(cm') BY <1>0, <2>1, <2>2 DEF cmGood, Undone
  <2>6. Joined(cm') BY <2>1, <2>2 DEF cmGood, Joined, Wanted
  <2>7. Limits(cm') BY <2>1, <2>2 DEF cmGood, Limits, Limited, PassedOver
  <2> QED BY <2>3, <2>4, <2>5, <2>6, <2>7 DEF cmGood
<1>2. CASE /\ cm.alive
           /\ cm' = [cm EXCEPT !.job = "done", !.unit = "active",
                       !.dirs = @ \cup UnitDirs(cm.conf), !.procs = @ \cup {UnitDir(cm.conf)}]
  <2>1. /\ Kept(cm, cm', {"job", "unit", "dirs", "procs"}) /\ cm'.job = "done"
        /\ cm'.dirs = cm.dirs \cup UnitDirs(cm.conf)
        /\ cm'.procs = cm.procs \cup {UnitDir(cm.conf)}
    BY <1>2 DEF Kept, cmGood, Shaped, cmFields
  <2>2. /\ DOMAIN cm' = DOMAIN cm /\ cm'.conf = cm.conf /\ cm'.i = cm.i /\ cm'.pc = cm.pc
        /\ cm'.paths = cm.paths /\ cm'.dropped = cm.dropped /\ cm'.made = cm.made
        /\ cm'.undone = cm.undone /\ cm'.subs = cm.subs /\ cm'.alive = cm.alive
        /\ cm'.target = cm.target /\ cm'.written = cm.written /\ cm'.existed = cm.existed
        /\ cm'.result = cm.result /\ cm'.destroyed = cm.destroyed
    BY <2>1 DEF Kept, cmFields
  <2>3. Shaped(cm') BY <1>0, <2>1, <2>2 DEF cmGood, Shaped, Managed
  <2>4. UnitDir(cm.conf) \in cm.paths /\ UnitDirs(cm.conf) \cap Home(cm.conf) \subseteq cm.paths
    BY <1>0, <1>2 DEF cmGood, OnList, UnitDir, UnitDirs, Home, V1, Systemd
  <2>5. cm.conf.driver \notin {"fs", "fs2"} BY <1>0 DEF Systemd
  <2>6. OnList(cm') BY SMT, <1>0, <1>2, <2>1, <2>2, <2>4, <2>5 DEF cmGood, OnList, Managed
  <2>7. Undone(cm') BY <2>2, <2>5 DEF Undone
  <2>8. Joined(cm') BY <2>1, <2>2, <2>5 DEF cmGood, Joined, Wanted
  <2>9. Limits(cm') BY <2>1, <2>2 DEF cmGood, Limits, Limited, PassedOver
  <2> QED BY <2>3, <2>6, <2>7, <2>8, <2>9 DEF cmGood
<1> QED BY <1>1, <1>2 DEF systemdStarts

LEMMA waitStartStep == ASSUME cmInv, waitStart PROVE cmInv'
<1> USE DEF cmInv
<1>0. /\ cm.pc = "waitStart" /\ cm.conf \in cmConfs /\ Systemd(cm.conf) /\ cm.i = 1
  BY DEF waitStart, cmAt, cmGood, Shaped
<1>1. CASE /\ cm.job = "done"
           /\ cm' = [Goto(cm, Joining(cm.conf)) EXCEPT !.job = "none"]
  <2>1. Kept(cm, cm', {"pc", "job"}) /\ cm'.job = "none" /\ cm'.pc = Joining(cm.conf)
    BY <1>1 DEF Goto, Kept, cmGood, Shaped, cmFields
  <2>2. /\ DOMAIN cm' = DOMAIN cm /\ cm'.conf = cm.conf /\ cm'.i = cm.i
        /\ cm'.paths = cm.paths /\ cm'.dropped = cm.dropped /\ cm'.made = cm.made
        /\ cm'.undone = cm.undone /\ cm'.dirs = cm.dirs /\ cm'.procs = cm.procs
        /\ cm'.subs = cm.subs /\ cm'.alive = cm.alive /\ cm'.target = cm.target
    BY <2>1 DEF Kept, cmFields
  <2>3. Shaped(cm') BY <1>0, <2>1, <2>2 DEF cmGood, Shaped, Managed, Ending, Joining
  <2>4. OnList(cm') BY <1>0, <2>1, <2>2 DEF cmGood, OnList, Managed, Joining, Systemd
  <2>5. Undone(cm') BY <1>0, <2>1, <2>2 DEF cmGood, Undone, Systemd
  <2>6. UnitDir(cm.conf) \in cm.procs BY <1>0, <1>1 DEF cmGood, Joined
  <2>7. Joined(cm') /\ Limits(cm')
    BY SMT, <1>0, <2>1, <2>2, <2>6 DEF Joined, Limits, Applied, Joining, Systemd, UnitDir, V1
  <2> QED BY <2>3, <2>4, <2>5, <2>7 DEF cmGood
<1>2. CASE cm' = [Failed(cm) EXCEPT !.job = "none"]
  <2>1. /\ Kept(cm, cm', {"pc", "result", "job"}) /\ cm'.job = "none" /\ cm'.pc = "failed"
    BY <1>2 DEF Failed, Kept, cmGood, Shaped, cmFields
  <2> QED BY <1>0, <2>1, GivesUp DEF Ending
<1>3. CASE cm' = cmFaulty(Failed(cm)) BY <1>0, <1>3, FaultyGood, FailedGood DEF Ending
<1> QED BY <1>1, <1>2, <1>3 DEF waitStart

\* A v1 subsystem that was joined or need not be joined is done with.
LEMMA NextJoinGood ==
  ASSUME NEW s, cmGood(s), s.pc \in {"join", "joinWrite"}, V1(s.conf), s.i \in DOMAIN cmSubsystems,
         Wanted(s, cmSubsystems[s.i]) => cmSubsystems[s.i] \in s.procs
  PROVE  cmGood(NextJoin(s))
  <1> DEFINE t == NextJoin(s)
  <1>1. /\ Kept(s, t, {"pc", "i", "tries"}) /\ t.pc = "join" /\ t.i = s.i + 1
    BY DEF NextJoin, Goto, Kept, cmGood, Shaped, cmFields
  <1> HIDE DEF t
  <1>2. /\ DOMAIN t = DOMAIN s /\ t.conf = s.conf /\ t.paths = s.paths /\ t.job = s.job
        /\ t.dropped = s.dropped /\ t.made = s.made /\ t.undone = s.undone /\ t.dirs = s.dirs
        /\ t.procs = s.procs /\ t.subs = s.subs /\ t.alive = s.alive
        /\ t.target = s.target /\ t.destroyed = s.destroyed
    BY <1>1 DEF Kept, cmFields
  <1>3. s.i \in Nat \ {0} /\ 1..(t.i - 1) = 1..(s.i - 1) \cup {s.i}
    BY SMT, <1>1 DEF cmGood, Shaped
  <1>4. Shaped(t) BY SMT, <1>1, <1>2, <1>3 DEF cmGood, Shaped, Managed, Ending
  <1>5. OnList(t) BY SMT, <1>1, <1>2, <1>3 DEF cmGood, OnList, Managed
  <1>6. Undone(t) BY <1>1, <1>2 DEF cmGood, Undone
  <1>7. Joined(t) BY <1>1, <1>2, <1>3 DEF cmGood, Joined, Wanted, Applied, V1
  <1>8. Limits(t) BY <1>1 DEF Limits
  <1> QED BY <1>4, <1>5, <1>6, <1>7, <1>8 DEF cmGood, t

\* A subsystem that refuses is given up together with its path, or Apply fails.
LEMMA JoinErrGood ==
  ASSUME NEW s, cmGood(s), s.pc \in {"join", "joinWrite"}, NEW sub,
         V1(s.conf) => s.i \in DOMAIN cmSubsystems /\ sub = cmSubsystems[s.i]
  PROVE  cmGood(JoinErr(s, sub))
  <1>0. s.i \in Nat \ {0} BY DEF cmGood, Shaped
  <1>1. CASE s.conf.driver = "fs" /\ sub = "name=systemd"
    BY <1>1, NextJoinGood DEF JoinErr, Wanted, cmLimits, V1
  <1>2. CASE s.conf.driver = "fs" /\ sub # "name=systemd" /\ Ignorable(s.conf)
    <2> DEFINE t == NextJoin([s EXCEPT !.paths = @ \ {sub}, !.dropped = @ \cup {sub}])
    <2>1. /\ Kept(s, t, {"paths", "dropped", "pc", "i", "tries"}) /\ t.paths = s.paths \ {sub}
          /\ t.dropped = s.dropped \cup {sub} /\ t.pc = "join" /\ t.i = s.i + 1
      BY DEF NextJoin, Goto, Kept, cmGood, Shaped, cmFields
    <2>t. JoinErr(s, sub) = t BY <1>2 DEF JoinErr
    <2> HIDE DEF t
    <2>2. /\ DOMAIN t = DOMAIN s /\ t.conf = s.conf /\ t.job = s.job
          /\ t.made = s.made /\ t.undone = s.undone /\ t.dirs = s.dirs
          /\ t.procs = s.procs /\ t.subs = s.subs /\ t.alive = s.alive
          /\ t.target = s.target /\ t.destroyed = s.destroyed
      BY <2>1 DEF Kept, cmFields
    <2>3. sub \notin s.procs
      <3> SUFFICES ASSUME sub \in s.procs PROVE FALSE
        OBVIOUS
      <3>1. PICK j \in 1..(s.i - 1) : sub = cmSubsystems[j]
        BY <1>2 DEF cmGood, OnList
      <3> QED BY SMT, <1>0, <1>2, <3>1, cmAssumption DEF V1
    <2>4. 1..(t.i - 1) = 1..(s.i - 1) \cup {s.i} BY SMT, <1>0, <2>1
    <2>5. Shaped(t) BY SMT, <1>0, <2>1, <2>2, <1>2 DEF cmGood, Shaped, Managed, Ending, V1
    <2>6. OnList(t) BY SMT, <1>2, <2>1, <2>2, <2>3, <2>4 DEF cmGood, OnList, Managed, V1
    <2>7. Undone(t) BY <1>2, <2>2 DEF Undone
    <2>8. sub = cmSubsystems[s.i] BY <1>2 DEF V1
    <2>9. Joined(t) BY <1>2, <2>1, <2>2, <2>4, <2>8 DEF cmGood, Joined, Wanted, Applied, V1
    <2>10. Limits(t) BY <2>1 DEF Limits
    <2> QED BY <2>t, <2>5, <2>6, <2>7, <2>9, <2>10 DEF cmGood
  <1>3. CASE ~(s.conf.driver = "fs" /\ (sub = "name=systemd" \/ Ignorable(s.conf)))
    BY <1>3, FailedGood DEF JoinErr, Ignorable, Ending
  <1> QED BY <1>1, <1>2, <1>3

LEMMA joinMkdirStep == ASSUME cmInv, joinMkdir PROVE cmInv'
<1> USE DEF cmInv
<1> DEFINE sub == cmSubsystems[cm.i]
           s == [cm EXCEPT !.dirs = @ \cup {sub}]
<1>0. /\ cm.pc = "join" /\ V1(cm.conf) /\ cm.i \in Nat \ {0}
      /\ DOMAIN cmSubsystems = 1..Len(cmSubsystems) /\ Len(cmSubsystems) \in Nat
      /\ cm.conf.driver \in {"fs", "sd1"}
  BY cmAssumption DEF joinMkdir, cmAt, cmGood, Shaped, V1
<1>1. CASE cm.i > Len(cmSubsystems)
  <2>1. cm' = Goto(cm, "setProps") BY <1>1 DEF joinMkdir
  <2>2. Kept(cm, cm', {"pc"}) /\ cm'.pc = "setProps"
    BY <2>1 DEF Goto, Kept, cmGood, Shaped, cmFields
  <2>3. /\ DOMAIN cm' = DOMAIN cm /\ cm'.conf = cm.conf /\ cm'.i = cm.i /\ cm'.job = cm.job
        /\ cm'.paths = cm.paths /\ cm'.dropped = cm.dropped /\ cm'.made = cm.made
        /\ cm'.undone = cm.undone /\ cm'.dirs = cm.dirs /\ cm'.procs = cm.procs
        /\ cm'.subs = cm.subs /\ cm'.alive = cm.alive /\ cm'.target = cm.target
    BY <2>2 DEF Kept, cmFields
  <2>4. Shaped(cm') BY <1>0, <2>2, <2>3 DEF cmGood, Shaped, Managed, Ending
  <2>5. OnList(cm') BY <1>0, <2>2, <2>3 DEF cmGood, OnList, Managed
  <2>6. Undone(cm') BY <1>0, <2>3 DEF Undone
  <2>7. DOMAIN cmSubsystems \cap 1..(cm.i - 1) = DOMAIN cmSubsystems BY SMT, <1>0, <1>1
  <2>8. \A j \in DOMAIN cmSubsystems : Wanted(cm, cmSubsystems[j]) => cmSubsystems[j] \in cm.procs
    BY <1>0, <2>7 DEF cmGood, Joined
  <2>9. \A l \in cmLimits : Wanted(cm, l) => l \in cm.procs BY SMT, <2>8, cmAssumption
  <2>10. Joined(cm') BY <1>0, <2>2, <2>3, <2>9 DEF Joined, Wanted
  <2>11. Limits(cm') BY <2>2 DEF Limits
  <2> QED BY <2>4, <2>5, <2>6, <2>10, <2>11 DEF cmGood
<1>2. CASE ~(cm.i > Len(cmSubsystems))
  <2>0. cm.i \in DOMAIN cmSubsystems BY SMT, <1>0, <1>2
  <2>1. CASE Skips(cm, sub)
    <3>1. cm' = NextJoin(cm) BY <1>2, <2>1 DEF joinMkdir
    <3>2. ~Wanted(cm, sub) BY <2>1 DEF Skips, Wanted, cmLimits
    <3> QED BY <1>0, <2>0, <3>1, <3>2, NextJoinGood
  <2>2. CASE ~Skips(cm, sub)
    <3>1. sub \in cm.paths BY <2>2 DEF Skips
    <3>2. Kept(cm, s, {"dirs"}) /\ s.dirs = cm.dirs \cup {sub}
      BY DEF Kept, cmGood, Shaped, cmFields
    <3>3. \/ cm' = cmFaulty(JoinErr(cm, sub)) \/ cm' = cmFaulty(JoinErr(s, sub))
          \/ cm' = Goto(s, "joinWrite")
      BY <1>2, <2>2 DEF joinMkdir
    <3> HIDE DEF s, sub
    <3>4. /\ DOMAIN s = DOMAIN cm /\ s.conf = cm.conf /\ s.i = cm.i /\ s.job = cm.job
          /\ s.paths = cm.paths /\ s.dropped = cm.dropped /\ s.made = cm.made
          /\ s.undone = cm.undone /\ s.pc = cm.pc /\ s.procs = cm.procs
          /\ s.subs = cm.subs /\ s.alive = cm.alive /\ s.target = cm.target
      BY <3>2 DEF Kept, cmFields
    <3>5. cmGood(s)
      <4>1. Shaped(s) BY <1>0, <3>4 DEF cmGood, Shaped, Managed
      <4>2. OnList(s) BY <1>0, <3>1, <3>2, <3>4 DEF cmGood, OnList, Managed
      <4>3. Undone(s) BY <1>0, <3>4 DEF Undone
      <4>4. Joined(s) BY <1>0, <3>4 DEF cmGood, Joined, Wanted, Applied
      <4>5. Limits(s) BY <1>0, <3>4 DEF Limits
      <4> QED BY <4>1, <4>2, <4>3, <4>4, <4>5 DEF cmGood
    <3>6. CASE cm' = cmFaulty(JoinErr(cm, sub))
      BY <1>0, <2>0, <3>6, JoinErrGood, FaultyGood DEF sub
    <3>7. CASE cm' = cmFaulty(JoinErr(s, sub))
      <4>1. cmGood(JoinErr(s, sub)) BY <1>0, <2>0, <3>4, <3>5, JoinErrGood DEF sub
      <4> QED BY <3>7, <4>1, FaultyGood
    <3>8. CASE cm' = Goto(s, "joinWrite")
      <4>1. Kept(s, cm', {"pc"}) /\ cm'.pc = "joinWrite"
        BY <3>5, <3>8 DEF Goto, Kept, cmGood, Shaped, cmFields
      <4>2. /\ DOMAIN cm' = DOMAIN s /\ cm'.conf = s.conf /\ cm'.i = s.i /\ cm'.job = s.job
            /\ cm'.paths = s.paths /\ cm'.dropped = s.dropped /\ cm'.made = s.made
            /\ cm'.undone = s.undone /\ cm'.dirs = s.dirs /\ cm'.procs = s.procs
            /\ cm'.subs = s.subs /\ cm'.alive = s.alive /\ cm'.target = s.target
        BY <4>1 DEF Kept, cmFields
      <4>3. Shaped(cm')
        BY ZenonT(20), <1>0, <2>0, <3>1, <3>4, <3>5, <4>1, <4>2 DEF cmGood, Shaped, Managed, Ending, sub
      <4>4. OnList(cm') BY <1>0, <3>4, <3>5, <4>1, <4>2 DEF cmGood, OnList, Managed
      <4>5. Undone(cm') BY <1>0, <3>4, <4>2 DEF Undone
      <4>6. Joined(cm') BY <1>0, <3>4, <3>5, <4>1, <4>2 DEF cmGood, Joined, Wanted, Applied
      <4>7. Limits(cm') BY <4>1 DEF Limits
      <4> QED BY <4>3, <4>4, <4>5, <4>6, <4>7 DEF cmGood
    <3> QED BY <3>3, <3>6, <3>7, <3>8
  <2> QED BY <2>1, <2>2
<1> QED BY <1>1, <1>2

\* The write of the pid: retried, given up, or done.
LEMMA joinWriteStep == ASSUME cmInv, joinWrite PROVE cmInv'
<1> USE DEF cmInv
<1> DEFINE sub == IF V1(cm.conf) THEN cmSubsystems[cm.i] ELSE Leaf
           s == [cm EXCEPT !.procs = @ \cup {sub}]
<1>0. /\ cm.pc = "joinWrite" /\ cm.i \in Nat \ {0}
      /\ V1(cm.conf) => cm.i \in DOMAIN cmSubsystems /\ sub \in cm.paths
      /\ ~V1(cm.conf) => cm.conf.driver = "fs2"
      /\ Managed(cm) /\ cm.alive
  BY DEF joinWrite, cmAt, cmGood, Shaped, Managed, Ending
<1>1. CASE cm' = cmFaulty(JoinErr(cm, sub))
  BY <1>0, <1>1, JoinErrGood, FaultyGood
<1>2. CASE cm' = cmFaulty([cm EXCEPT !.tries = @ + 1])
  <2>1. Kept(cm, [cm EXCEPT !.tries = cm.tries + 1], {"faults", "tries", "todo"})
    BY DEF Kept, cmGood, Shaped, cmFields
  <2> QED BY <1>2, <2>1, KeptFaulty, FaultyGood
<1>3. CASE cm' = (IF V1(cm.conf) THEN NextJoin(s) ELSE Goto(s, "setProps"))
  <2>1. sub \in cm.paths
    BY <1>0 DEF cmGood, OnList
  <2>2. Kept(cm, s, {"procs"}) /\ s.procs = cm.procs \cup {sub}
    BY DEF Kept, cmGood, Shaped, cmFields
  <2>3. sub = IF V1(cm.conf) THEN cmSubsystems[cm.i] ELSE Leaf OBVIOUS
  <2>4. CASE V1(cm.conf)
    <3>1. cm' = NextJoin(s) BY <1>3, <2>4
    <3> HIDE DEF s, sub
    <3> DEFINE t == cm'
    <3>2. Kept(s, t, {"pc", "i", "tries"}) /\ t.pc = "join" /\ t.i = cm.i + 1
      BY <2>2, <3>1 DEF NextJoin, Goto, Kept, cmGood, Shaped, cmFields
    <3>3. /\ DOMAIN t = DOMAIN cm /\ t.conf = cm.conf /\ t.paths = cm.paths /\ t.job = cm.job
          /\ t.dropped = cm.dropped /\ t.made = cm.made /\ t.undone = cm.undone
          /\ t.dirs = cm.dirs /\ t.procs = cm.procs \cup {sub} /\ t.subs = cm.subs
          /\ t.alive = cm.alive /\ t.target = cm.target
      BY <2>2, <3>2 DEF Kept, cmFields
    <3>4. 1..(t.i - 1) = 1..(cm.i - 1) \cup {cm.i} BY SMT, <1>0, <3>2
    <3>5. sub = cmSubsystems[cm.i] /\ cm.i \in DOMAIN cmSubsystems BY <1>0, <2>3, <2>4
    <3> HIDE DEF t
    <3>6. Shaped(t) BY SMT, <1>0, <2>4, <3>2, <3>3 DEF cmGood, Shaped, Managed, Ending
    <3>7. OnList(t) BY SMT, <1>0, <2>1, <2>4, <3>2, <3>3, <3>4, <3>5 DEF cmGood, OnList, Managed
    <3>8. Undone(t) BY <2>4, <3>3 DEF Undone, V1
    <3>9. Joined(t) BY <1>0, <2>4, <3>2, <3>3, <3>4, <3>5 DEF cmGood, Joined, Wanted, Applied, V1
    <3>10. Limits(t) BY <3>2 DEF Limits
    <3> QED BY <3>6, <3>7, <3>8, <3>9, <3>10 DEF cmGood, t
  <2>5. CASE ~V1(cm.conf)
    <3>1. cm' = Goto(s, "setProps") BY <1>3, <2>5
    <3>2. sub = Leaf /\ cm.conf.driver = "fs2" BY <1>0, <2>5
    <3> HIDE DEF s, sub
    <3> DEFINE t == cm'
    <3>3. Kept(s, t, {"pc"}) /\ t.pc = "setProps"
      BY <2>2, <3>1 DEF Goto, Kept, cmGood, Shaped, cmFields
    <3>4. /\ DOMAIN t = DOMAIN cm /\ t.conf = cm.conf /\ t.paths = cm.paths /\ t.job = cm.job
          /\ t.dropped = cm.dropped /\ t.made = cm.made /\ t.undone = cm.undone
          /\ t.dirs = cm.dirs /\ t.procs = cm.procs \cup {sub} /\ t.subs = cm.subs
          /\ t.alive = cm.alive /\ t.target = cm.target /\ t.i = cm.i
      BY <2>2, <3>3 DEF Kept, cmFields
    <3> HIDE DEF t
    <3>6. Shaped(t) BY <1>0, <3>3, <3>4 DEF cmGood, Shaped, Managed, Ending
    <3>7. OnList(t) BY <1>0, <2>1, <3>3, <3>4 DEF cmGood, OnList, Managed
    <3>8. Undone(t) BY <1>0, <3>2, <3>3, <3>4 DEF cmGood, Undone
    <3>9. Joined(t) BY <2>5, <3>2, <3>3, <3>4 DEF Joined
    <3>10. Limits(t) BY <3>3 DEF Limits
    <3> QED BY <3>6, <3>7, <3>8, <3>9, <3>10 DEF cmGood, t
  <2> QED BY <2>4, <2>5
<1> QED BY <1>1, <1>2, <1>3 DEF joinWrite

\* CreateCgroupPath fails: what it made is removed again.
LEMMA CreateErrGood ==
  ASSUME NEW s, cmGood(s), s.pc = "create"
  PROVE  cmGood(CreateErr(s))
  <1> DEFINE u == undoCreate(s)
             t == CreateErr(s)
  <1>1. t.pc = "failed" \/ (t.pc = "setProps" /\ s.conf.driver = "fs2")
    BY DEF CreateErr, undoCreate, Goto, Failed, cmGood, Shaped, cmFields
  <1>2. /\ Kept(s, u, {"dirs", "undone"}) /\ u.undone
        /\ u.dirs = (IF s.procs = {} THEN s.dirs \ s.made ELSE s.dirs)
    BY DEF undoCreate, Kept, cmGood, Shaped, cmFields
  <1>3. t = Failed(u) \/ t = Goto(u, "setProps") BY DEF CreateErr
  <1> HIDE DEF t, u
  <1>4. Kept(u, t, {"pc", "result"})
    BY <1>2, <1>3 DEF Failed, Goto, Kept, cmGood, Shaped, cmFields
  <1>5. /\ DOMAIN t = DOMAIN s /\ t.conf = s.conf /\ t.paths = s.paths /\ t.job = s.job
        /\ t.dropped = s.dropped /\ t.made = s.made /\ t.undone /\ t.i = s.i
        /\ t.dirs = (IF s.procs = {} THEN s.dirs \ s.made ELSE s.dirs)
        /\ t.procs = s.procs /\ t.subs = s.subs /\ t.alive = s.alive
        /\ t.target = s.target /\ t.destroyed = s.destroyed
    BY <1>2, <1>4 DEF Kept, cmFields
  <1>6. ~V1(s.conf) BY DEF cmGood, Shaped
  <1>7. Shaped(t) BY <1>1, <1>5 DEF cmGood, Shaped, Managed, Ending
  <1>8. OnList(t) BY <1>1, <1>5 DEF cmGood, OnList, Managed
  <1>9. Undone(t) BY <1>1, <1>5 DEF cmGood, Undone
  <1>10. Joined(t) BY <1>1, <1>5, <1>6 DEF cmGood, Undone, Joined, Applied
  <1>11. Limits(t) BY <1>1 DEF Limits
  <1> QED BY <1>7, <1>8, <1>9, <1>10, <1>11 DEF cmGood, t

LEMMA CreateCgroupPathStep == ASSUME cmInv, CreateCgroupPath PROVE cmInv'
<1> USE DEF cmInv
<1> DEFINE made == {cm.i} \ cm.dirs
           s == [cm EXCEPT !.dirs = @ \cup made, !.made = @ \cup made]
           on == [s EXCEPT !.i = @ + 1]
<1>0. /\ cm.pc = "create" /\ cm.i \in Nat \ {0} /\ ~V1(cm.conf) /\ cm.conf \in cmConfs
      /\ cm.conf.driver \in {"fs2", "sd2"} /\ Leaf \in Nat \ {0}
  BY cmAssumption DEF CreateCgroupPath, cmAt, cmGood, Shaped, V1, Leaf
<1>1. CASE cm' = Goto(cm, IF cm.conf.driver = "fs2" THEN "joinWrite" ELSE "chown")
  <2>1. /\ Kept(cm, cm', {"pc"})
        /\ cm'.pc = (IF cm.conf.driver = "fs2" THEN "joinWrite" ELSE "chown")
    BY <1>1 DEF Goto, Kept, cmGood, Shaped, cmFields
  <2>2. /\ DOMAIN cm' = DOMAIN cm /\ cm'.conf = cm.conf /\ cm'.i = cm.i /\ cm'.job = cm.job
        /\ cm'.paths = cm.paths /\ cm'.dropped = cm.dropped /\ cm'.made = cm.made
        /\ cm'.undone = cm.undone /\ cm'.dirs = cm.dirs /\ cm'.procs = cm.procs
        /\ cm'.subs = cm.subs /\ cm'.alive = cm.alive /\ cm'.target = cm.target
        /\ cm'.existed = cm.existed
    BY <2>1 DEF Kept, cmFields
  <2>3. Shaped(cm') BY <1>0, <2>1, <2>2 DEF cmGood, Shaped, Managed, Ending
  <2>4. OnList(cm') BY <1>0, <2>1, <2>2 DEF cmGood, OnList, Managed, V1
  <2>5. Undone(cm') BY <1>0, <2>1, <2>2 DEF cmGood, Undone
  <2>6. Joined(cm') BY <1>0, <2>1, <2>2 DEF cmGood, Joined, Applied
  <2>7. Limits(cm') BY <2>1 DEF Limits
  <2> QED BY <2>3, <2>4, <2>5, <2>6, <2>7 DEF cmGood
<1>2. CASE cm' = cmFaulty(CreateErr(cm)) BY <1>0, <1>2, CreateErrGood, FaultyGood
<1>3. ASSUME cm' = CreateErr(s) \/ cm' = on PROVE cmInv'
  <2>1. /\ Kept(cm, s, {"dirs", "made"}) /\ s.dirs = cm.dirs \cup made /\ s.made = cm.made \cup made
    BY DEF Kept, cmGood, Shaped, cmFields
  <2>2. made = {cm.i} \ cm.dirs OBVIOUS
  <2>3. cm' = on => Kept(s, cm', {"i"}) /\ cm'.i = cm.i + 1
    <3>1. on = [s EXCEPT !.i = cm.i + 1] OBVIOUS
    <3>2. cmFields \subseteq DOMAIN s BY <2>1 DEF Kept, cmGood, Shaped
    <3> HIDE DEF s
    <3> QED BY SMT, <1>0, <3>1, <3>2 DEF Kept, cmFields
  <2> HIDE DEF s, on, made
  <2>4. /\ DOMAIN s = DOMAIN cm /\ s.conf = cm.conf /\ s.i = cm.i /\ s.job = cm.job
        /\ s.paths = cm.paths /\ s.dropped = cm.dropped /\ s.pc = cm.pc
        /\ s.undone = cm.undone /\ s.procs = cm.procs
        /\ s.subs = cm.subs /\ s.alive = cm.alive /\ s.target = cm.target
        /\ s.existed = cm.existed
    BY <2>1 DEF Kept, cmFields
  <2>5. cmGood(s)
    <3>1. Shaped(s) BY <1>0, <2>4 DEF cmGood, Shaped, Managed
    <3>2. cm.paths = {Leaf} /\ Home(cm.conf) = {Leaf}
      BY <1>0 DEF cmGood, OnList, Shaped, Managed, Ending, Home
    <3>3. OnList(s) BY <1>0, <2>1, <2>4, <3>2 DEF cmGood, OnList, Managed
    <3>4. Undone(s) BY <1>0, <2>1, <2>2, <2>4 DEF cmGood, Undone
    <3>5. Joined(s) BY <1>0, <2>4 DEF cmGood, Joined, Applied
    <3>6. Limits(s) BY <1>0, <2>4 DEF Limits
    <3> QED BY <3>1, <3>3, <3>4, <3>5, <3>6 DEF cmGood
  <2>6. CASE cm' = CreateErr(s) BY <1>0, <2>4, <2>5, <2>6, CreateErrGood
  <2>7. CASE cm' = on
    <3>1. /\ DOMAIN cm' = DOMAIN s /\ cm'.conf = s.conf /\ cm'.job = s.job
          /\ cm'.paths = s.paths /\ cm'.dropped = s.dropped /\ cm'.made = s.made
          /\ cm'.undone = s.undone /\ cm'.dirs = s.dirs /\ cm'.procs = s.procs
          /\ cm'.subs = s.subs /\ cm'.alive = s.alive /\ cm'.target = s.target
          /\ cm'.existed = s.existed /\ cm'.pc = "create" /\ cm'.i \in Nat \ {0}
      BY SMT, <1>0, <2>3, <2>4, <2>7 DEF Kept, cmFields
    <3>2. Shaped(cm') BY <1>0, <2>4, <2>5, <3>1 DEF cmGood, Shaped, Managed, Ending
    <3>3. OnList(cm') BY <1>0, <2>4, <2>5, <3>1 DEF cmGood, OnList, Managed
    <3>4. Undone(cm') BY <1>0, <2>4, <2>5, <3>1 DEF cmGood, Undone
    <3>5. Joined(cm') BY <1>0, <2>4, <2>5, <3>1 DEF cmGood, Joined, Applied
    <3>6. Limits(cm') BY <3>1 DEF Limits
    <3> QED BY <3>2, <3>3, <3>4, <3>5, <3>6 DEF cmGood
  <2> QED BY <1>3, <2>6, <2>7
<1> QED BY <1>1, <1>2, <1>3 DEF CreateCgroupPath

LEMMA chownCgroupStep == ASSUME cmInv, chownCgroup PROVE cmInv'
<1> USE DEF cmInv
<1>0. cm.pc = "chown" /\ cm.conf.driver = "sd2" /\ ~V1(cm.conf)
  BY DEF chownCgroup, cmAt, cmGood, Shaped, V1
<1>1. CASE cm' = cmFaulty(Failed(cm)) BY <1>0, <1>1, FaultyGood, FailedGood DEF Ending
<1>2. CASE cm' = Goto(cm, "setProps")
  <2>1. Kept(cm, cm', {"pc"}) /\ cm'.pc = "setProps"
    BY <1>2 DEF Goto, Kept, cmGood, Shaped, cmFields
  <2>2. /\ DOMAIN cm' = DOMAIN cm /\ cm'.conf = cm.conf /\ cm'.i = cm.i /\ cm'.job = cm.job
        /\ cm'.paths = cm.paths /\ cm'.dropped = cm.dropped /\ cm'.made = cm.made
        /\ cm'.undone = cm.undone /\ cm'.dirs = cm.dirs /\ cm'.procs = cm.procs
        /\ cm'.subs = cm.subs /\ cm'.alive = cm.alive /\ cm'.target = cm.target
        /\ cm'.existed = cm.existed
    BY <2>1 DEF Kept, cmFields
  <2>3. Shaped(cm') BY <1>0, <2>1, <2>2 DEF cmGood, Shaped, Managed, Ending
  <2>4. OnList(cm') BY <1>0, <2>1, <2>2 DEF cmGood, OnList, Managed
  <2>5. Undone(cm') BY <1>0, <2>1, <2>2 DEF cmGood, Undone
  <2>6. Joined(cm') BY <1>0, <2>1, <2>2 DEF cmGood, Joined, Applied
  <2>7. Limits(cm') BY <2>1 DEF Limits
  <2> QED BY <2>3, <2>4, <2>5, <2>6, <2>7 DEF cmGood
<1> QED BY <1>1, <1>2 DEF chownCgroup

\* The limits that can be written belong to a cgroup that holds the process.
LEMMA WrittenJoined ==
  ASSUME cmInv, cm.pc \in Applied, NEW sub \in cm.target, Writable(cm, sub)
  PROVE  (IF V1(cm.conf) THEN sub ELSE Leaf) \in cm.procs \/ cm.existed
<1>0. /\ cm.conf \in cmConfs /\ cm.conf.driver \in {"fs", "sd1", "fs2", "sd2"}
      /\ sub \in cmLimits /\ (cm.conf.skipDevices => sub # "devices")
  BY SMT, cmAssumption DEF cmInv, cmGood, Shaped
<1>1. CASE V1(cm.conf)
  <2>1. Wanted(cm, sub) BY <1>0, <1>1 DEF Wanted, Writable
  <2> QED BY <1>0, <1>1, <2>1 DEF cmInv, cmGood, Joined
<1>2. CASE ~V1(cm.conf) BY <1>0, <1>2 DEF Writable, cmInv, cmGood, Joined, V1
<1> QED BY <1>1, <1>2

LEMMA setPropsStep == ASSUME cmInv, setProps PROVE cmInv'
<1> USE DEF cmInv
<1>0. cm.pc = "setProps" BY DEF setProps, cmAt
<1>1. CASE cm' = cmFaulty(SetErr(cm)) BY <1>0, <1>1, FaultyGood, SetErrGood
<1>2. CASE cm' = [Goto(cm, "set") EXCEPT !.i = 1, !.written = {}]
  <2>1. Kept(cm, cm', {"pc", "i", "written"}) /\ cm'.pc = "set" /\ cm'.i = 1
    BY <1>2 DEF Goto, Kept, cmGood, Shaped, cmFields
  <2>2. /\ DOMAIN cm' = DOMAIN cm /\ cm'.conf = cm.conf /\ cm'.job = cm.job
        /\ cm'.paths = cm.paths /\ cm'.dropped = cm.dropped /\ cm'.made = cm.made
        /\ cm'.undone = cm.undone /\ cm'.dirs = cm.dirs /\ cm'.procs = cm.procs
        /\ cm'.subs = cm.subs /\ cm'.alive = cm.alive /\ cm'.target = cm.target
        /\ cm'.existed = cm.existed
    BY <2>1 DEF Kept, cmFields
  <2>3. Shaped(cm') BY SMT, <1>0, <2>1, <2>2 DEF cmGood, Shaped, Managed, Ending
  <2>4. OnList(cm') BY <1>0, <2>1, <2>2 DEF cmGood, OnList, Managed
  <2>5. Undone(cm') BY <1>0, <2>1, <2>2 DEF cmGood, Undone
  <2>6. Joined(cm') BY <1>0, <2>1, <2>2 DEF cmGood, Joined, Wanted, Applied
  <2>7. 1..(cm'.i - 1) = {} BY SMT, <2>1
  <2>8. Limits(cm') BY <2>1, <2>7 DEF Limits
  <2> QED BY <2>3, <2>4, <2>5, <2>6, <2>8 DEF cmGood
<1> QED BY <1>1, <1>2 DEF setProps

\* Every limit in turn: not asked for, passed over, refused, or written.
LEMMA setLimitsStep == ASSUME cmInv, setLimits PROVE cmInv'
<1> USE DEF cmInv
<1> DEFINE order == SetOrder(cm.conf)
           sub == order[cm.i]
           on == [cm EXCEPT !.i = @ + 1]
           writ == [on EXCEPT !.written = @ \cup {sub}]
<1>0. /\ cm.pc = "set" /\ cm.i \in Nat \ {0} /\ cm.conf \in cmConfs
      /\ cm.target \subseteq cmLimits
  BY cmAssumption DEF setLimits, cmAt, cmGood, Shaped
<1>o. /\ DOMAIN order = 1..Len(order) /\ Len(order) \in Nat
      /\ \A l \in cmLimits : \E j \in DOMAIN order : order[j] = l
  <2>1. CASE V1(cm.conf) BY <2>1, cmAssumption DEF SetOrder
  <2>2. CASE ~V1(cm.conf)
    <3>1. order = <<"memory", "devices", "cpuset">> BY <2>2 DEF SetOrder, V2Order
    <3>2. DOMAIN order = 1..3 /\ Len(order) = 3 BY SMT, <3>1
    <3>3. order[1] = "memory" /\ order[2] = "devices" /\ order[3] = "cpuset" BY SMT, <3>1
    <3>4. 1 \in DOMAIN order /\ 2 \in DOMAIN order /\ 3 \in DOMAIN order BY SMT, <3>2
    <3> HIDE DEF order
    <3> QED BY SMT, <3>2, <3>3, <3>4 DEF cmLimits
  <2> QED BY <2>1, <2>2
<1>1. CASE cm.i > Len(order)
  <2>1. cm' = [Goto(cm, "run") EXCEPT !.result = IF cm.back THEN "updateError" ELSE "ok"]
    BY <1>1 DEF setLimits
  <2>2. Kept(cm, cm', {"pc", "result"}) /\ cm'.pc = "run"
    BY <2>1 DEF Goto, Kept, cmGood, Shaped, cmFields
  <2>3. /\ DOMAIN cm' = DOMAIN cm /\ cm'.conf = cm.conf /\ cm'.job = cm.job /\ cm'.i = cm.i
        /\ cm'.paths = cm.paths /\ cm'.dropped = cm.dropped /\ cm'.made = cm.made
        /\ cm'.undone = cm.undone /\ cm'.dirs = cm.dirs /\ cm'.procs = cm.procs
        /\ cm'.subs = cm.subs /\ cm'.alive = cm.alive /\ cm'.target = cm.target
        /\ cm'.existed = cm.existed /\ cm'.written = cm.written
    BY <2>2 DEF Kept, cmFields
  <2>4. Shaped(cm') BY <1>0, <2>2, <2>3 DEF cmGood, Shaped, Managed, Ending
  <2>5. OnList(cm') BY <1>0, <2>2, <2>3 DEF cmGood, OnList, Managed
  <2>6. Undone(cm') BY <1>0, <2>2, <2>3 DEF cmGood, Undone
  <2>7. Joined(cm') BY <1>0, <2>2, <2>3 DEF cmGood, Joined, Wanted, Applied
  <2>8. DOMAIN order \cap 1..(cm.i - 1) = DOMAIN order BY SMT, <1>0, <1>o, <1>1
  <2>9. \A j \in DOMAIN order : Limited(cm, order[j]) BY <1>0, <2>8 DEF cmGood, Limits
  <2>10. \A l \in cm.target : Limited(cm, l) BY <1>0, <1>o, <2>9
  <2>11. Limits(cm') BY <2>2, <2>3, <2>10 DEF Limits, Limited, PassedOver
  <2> QED BY <2>4, <2>5, <2>6, <2>7, <2>11 DEF cmGood
<1>2. ASSUME cm.i \in DOMAIN order, NEW t,
             \/ t = on /\ (sub \in cm.target => PassedOver(cm, sub))
             \/ t = writ /\ sub \in cm.target /\ Writable(cm, sub)
      PROVE  cmGood(t)
  <2>1. /\ Kept(cm, on, {"i"}) /\ on.i = cm.i + 1
        /\ Kept(cm, writ, {"i", "written"}) /\ writ.i = cm.i + 1 /\ writ.written = cm.written \cup {sub}
    <3>1. on = [cm EXCEPT !.i = cm.i + 1] /\ writ = [on EXCEPT !.written = cm.written \cup {sub}]
      BY <1>0 DEF cmGood, Shaped, cmFields
    <3> HIDE DEF sub
    <3>2. Kept(cm, on, {"i"}) /\ on.i = cm.i + 1 BY <3>1 DEF Kept, cmGood, Shaped, cmFields
    <3> HIDE DEF on
    <3> QED BY <3>1, <3>2 DEF Kept, cmGood, Shaped, cmFields
  <2>2. \/ t = on /\ (sub \in cm.target => PassedOver(cm, sub))
        \/ t = writ /\ sub \in cm.target /\ Writable(cm, sub)
    BY <1>2
  <2>3. sub = order[cm.i] OBVIOUS
  <2> HIDE DEF on, writ, sub
  <2>4. /\ DOMAIN t = DOMAIN cm /\ t.conf = cm.conf /\ t.job = cm.job /\ t.i = cm.i + 1
        /\ t.paths = cm.paths /\ t.dropped = cm.dropped /\ t.made = cm.made
        /\ t.undone = cm.undone /\ t.dirs = cm.dirs /\ t.procs = cm.procs
        /\ t.subs = cm.subs /\ t.alive = cm.alive /\ t.target = cm.target
        /\ t.existed = cm.existed /\ cm.written \subseteq t.written /\ t.pc = "set"
    BY <1>0, <2>1, <2>2 DEF Kept, cmFields
  <2>5. Shaped(t) BY SMT, <1>0, <2>4 DEF cmGood, Shaped, Managed, Ending
  <2>6. OnList(t) BY <1>0, <2>4 DEF cmGood, OnList, Managed
  <2>7. Undone(t) BY <1>0, <2>4 DEF cmGood, Undone
  <2>8. Joined(t) BY <1>0, <2>4 DEF cmGood, Joined, Wanted, Applied
  <2>9. Limited(t, sub)
    <3>1. CASE t = on /\ (sub \in cm.target => PassedOver(cm, sub))
      BY <2>4, <3>1 DEF Limited, PassedOver
    <3>2. CASE t = writ /\ sub \in cm.target /\ Writable(cm, sub)
      BY <1>0, <2>1, <2>4, <3>2, WrittenJoined DEF Limited, Applied
    <3> QED BY <2>2, <3>1, <3>2
  <2>10. 1..(t.i - 1) = 1..(cm.i - 1) \cup {cm.i} BY SMT, <1>0, <2>4
  <2>11. \A j \in DOMAIN order \cap 1..(cm.i - 1) : Limited(t, order[j])
    BY <1>0, <2>4 DEF cmGood, Limits, Limited, PassedOver
  <2>12. Limits(t) BY <2>3, <2>4, <2>9, <2>10, <2>11 DEF Limits
  <2> QED BY <2>5, <2>6, <2>7, <2>8, <2>12 DEF cmGood
<1>3. CASE ~(cm.i > Len(order))
  <2>0. cm.i \in DOMAIN order BY SMT, <1>0, <1>o, <1>3
  <2>1. \/ cm' = on /\ (sub \in cm.target => PassedOver(cm, sub))
        \/ cm' = writ /\ sub \in cm.target /\ Writable(cm, sub)
        \/ cm' = SetErr(cm) \/ cm' = cmFaulty(SetErr(cm))
        \/ cm' = cmFaulty(on) /\ PassedOver(cm, sub)
    BY <1>3, Zenon DEF setLimits
  <2> HIDE DEF on, writ, sub, order
  <2>2. CASE cm' = SetErr(cm) \/ cm' = cmFaulty(SetErr(cm))
    BY <1>0, <2>2, SetErrGood, FaultyGood
  <2>3. CASE cm' = cmFaulty(on) /\ PassedOver(cm, sub)
    <3>1. cmGood(on) BY <1>2, <2>0, <2>3
    <3> QED BY <2>3, <3>1, FaultyGood
  <2> QED BY <1>2, <2>0, <2>1, <2>2, <2>3
<1> QED BY <1>1, <1>3

LEMMA runSteps == ASSUME cmInv, updateContainer \/ containerNests PROVE cmInv'
<1> USE DEF cmInv
<1>0. cm.pc = "run" BY DEF updateContainer, containerNests, cmAt
<1>1. CASE updateContainer
  <2>1. /\ Kept(cm, cm', {"pc", "updated", "target"}) /\ cm'.pc = "setProps"
        /\ cm'.target = cm.target \cup cm.conf.update
    BY <1>1 DEF updateContainer, Goto, Kept, cmGood, Shaped, cmFields
  <2>2. /\ DOMAIN cm' = DOMAIN cm /\ cm'.conf = cm.conf /\ cm'.job = cm.job /\ cm'.i = cm.i
        /\ cm'.paths = cm.paths /\ cm'.dropped = cm.dropped /\ cm'.made = cm.made
        /\ cm'.undone = cm.undone /\ cm'.dirs = cm.dirs /\ cm'.procs = cm.procs
        /\ cm'.subs = cm.subs /\ cm'.alive = cm.alive /\ cm'.existed = cm.existed
    BY <2>1 DEF Kept, cmFields
  <2>3. Shaped(cm') BY <1>0, <2>1, <2>2 DEF cmGood, Shaped, Managed, Ending
  <2>4. OnList(cm') BY <1>0, <2>1, <2>2 DEF cmGood, OnList, Managed
  <2>5. Undone(cm') BY <1>0, <2>1, <2>2 DEF cmGood, Undone
  <2>6. Joined(cm') BY <1>0, <2>1, <2>2 DEF cmGood, Joined, Wanted, Applied
  <2>7. Limits(cm') BY <2>1 DEF Limits
  <2> QED BY <2>3, <2>4, <2>5, <2>6, <2>7 DEF cmGood
<1>2. CASE containerNests
  <2>1. Kept(cm, cm', {"subs"}) /\ cm'.subs = cm.procs
    BY <1>2 DEF containerNests, Kept, cmGood, Shaped, cmFields
  <2>2. /\ DOMAIN cm' = DOMAIN cm /\ cm'.conf = cm.conf /\ cm'.job = cm.job /\ cm'.i = cm.i
        /\ cm'.paths = cm.paths /\ cm'.dropped = cm.dropped /\ cm'.made = cm.made
        /\ cm'.undone = cm.undone /\ cm'.dirs = cm.dirs /\ cm'.procs = cm.procs
        /\ cm'.pc = cm.pc /\ cm'.alive = cm.alive /\ cm'.existed = cm.existed
        /\ cm'.target = cm.target /\ cm'.written = cm.written /\ cm'.result = cm.result
    BY <2>1 DEF Kept, cmFields
  <2>3. Shaped(cm') BY <1>0, <2>1, <2>2 DEF cmGood, Shaped, Managed
  <2>4. OnList(cm') BY <1>0, <2>1, <2>2 DEF cmGood, OnList, Managed
  <2>5. Undone(cm') BY <1>0, <2>1, <2>2 DEF cmGood, Undone
  <2>6. Joined(cm') BY <1>0, <2>1, <2>2 DEF cmGood, Joined, Wanted
  <2>7. Limits(cm') BY <1>0, <2>2 DEF cmGood, Limits, Limited, PassedOver
  <2> QED BY <2>3, <2>4, <2>5, <2>6, <2>7 DEF cmGood
<1> QED BY <1>1, <1>2

\* Once the process is killed, Destroy's steps take away no more than they forget.
LEMMA Destroys ==
  ASSUME cmInv, NEW t, ~t.alive, t.pc \in Ending, t.pc = "done" => t.destroyed # "no",
         t.pc = "done" /\ t.destroyed = "ok" => t.paths = {},
         Managed(cm), DOMAIN t = DOMAIN cm, t.conf = cm.conf, t.i = cm.i, t.target = cm.target,
         t.job # "none" => cm.job # "none" \/ Systemd(cm.conf),
         t.pc \in {"stopUnit", "waitStop"} => Systemd(cm.conf),
         t.dropped = cm.dropped, t.made = cm.made, t.undone = cm.undone,
         t.dirs \subseteq cm.dirs, t.subs \subseteq t.paths, t.procs \subseteq t.paths,
         t.dirs \cap Home(cm.conf) \subseteq t.paths \cup t.dropped
  PROVE  cmGood(t)
<1> USE DEF cmInv
<1>1. Shaped(t) BY DEF cmGood, Shaped, Managed, Ending
<1>2. OnList(t) BY DEF cmGood, OnList, Managed, Ending
<1>3. Undone(t) BY DEF cmGood, Undone, Ending
<1>4. Joined(t) /\ Limits(t) BY DEF Joined, Limits, Applied, Ending
<1> QED BY <1>1, <1>2, <1>3, <1>4 DEF cmGood

LEMMA killSteps == ASSUME cmInv, killProcess \/ processGone PROVE cmInv'
<1> USE DEF cmInv
<1>1. CASE killProcess
  <2>1. /\ Kept(cm, cm', {"pc", "alive", "todo", "tries"}) /\ ~cm'.alive
        /\ cm'.pc = (IF Systemd(cm.conf) THEN "stopUnit" ELSE "remove")
        /\ cm.pc \in {"run", "failed"}
    BY <1>1 DEF killProcess, Kept, cmGood, Shaped, cmFields
  <2>2. /\ DOMAIN cm' = DOMAIN cm /\ cm'.conf = cm.conf /\ cm'.i = cm.i /\ cm'.target = cm.target
        /\ cm'.job = cm.job /\ cm'.dropped = cm.dropped /\ cm'.made = cm.made
        /\ cm'.undone = cm.undone /\ cm'.dirs = cm.dirs /\ cm'.subs = cm.subs
        /\ cm'.procs = cm.procs /\ cm'.paths = cm.paths
    BY <2>1 DEF Kept, cmFields
  <2>3. /\ Managed(cm) /\ cm.subs \subseteq cm.paths /\ cm.procs \subseteq cm.paths
        /\ cm.dirs \cap Home(cm.conf) \subseteq cm.paths \cup cm.dropped
    BY <2>1 DEF cmGood, OnList, Managed
  <2> QED BY <2>1, <2>2, <2>3, Destroys DEF Ending
<1>2. CASE processGone
  <2>1. /\ Kept(cm, cm', {"procs"}) /\ cm'.procs = {} /\ ~cm.alive /\ cm.procs # {}
    BY <1>2 DEF processGone, Kept, cmGood, Shaped, cmFields
  <2>2. /\ DOMAIN cm' = DOMAIN cm /\ cm'.conf = cm.conf /\ cm'.i = cm.i /\ cm'.target = cm.target
        /\ cm'.job = cm.job /\ cm'.dropped = cm.dropped /\ cm'.made = cm.made
        /\ cm'.undone = cm.undone /\ cm'.dirs = cm.dirs /\ cm'.subs = cm.subs
        /\ cm'.pc = cm.pc /\ cm'.paths = cm.paths /\ cm'.alive = cm.alive
        /\ cm'.destroyed = cm.destroyed
    BY <2>1 DEF Kept, cmFields
  <2>3. cm.pc \in Ending /\ Managed(cm) BY <2>1 DEF cmGood, Shaped
  <2>4. /\ cm.subs \subseteq cm.paths /\ (cm.pc = "done" => cm.destroyed # "no")
        /\ cm.pc = "done" /\ cm.destroyed = "ok" => cm.paths = {}
        /\ cm.pc \in {"stopUnit", "waitStop"} => Systemd(cm.conf)
        /\ cm.dirs \cap Home(cm.conf) \subseteq cm.paths \cup cm.dropped
    BY <2>3 DEF cmGood, Shaped, OnList, Managed
  <2> QED BY <2>1, <2>2, <2>3, <2>4, Destroys
<1> QED BY <1>1, <1>2

LEMMA stopUnitStep == ASSUME cmInv, stopUnit \/ waitStop PROVE cmInv'
<1> USE DEF cmInv
<1>0. /\ cm.pc \in {"stopUnit", "waitStop"} /\ Managed(cm) /\ ~cm.alive /\ Systemd(cm.conf)
      /\ cm.subs \subseteq cm.paths /\ cm.procs \subseteq cm.paths
      /\ cm.dirs \cap Home(cm.conf) \subseteq cm.paths \cup cm.dropped
  BY DEF stopUnit, waitStop, cmAt, cmGood, Shaped, OnList, Managed, Ending
<1>1. PICK t : /\ cm' = t \/ cm' = cmFaulty(t)
               /\ \/ t = Goto(cm, "remove")
                  \/ t = [Goto(cm, "waitStop") EXCEPT !.job = "stop"] /\ cm.pc = "stopUnit"
                  \/ t = [Goto(cm, "remove") EXCEPT !.job = "none"]
                  \/ t = stopTimedOut(cm)
  <2>1. CASE stopUnit BY <2>1 DEF stopUnit, cmAt
  <2>2. CASE waitStop BY <2>2 DEF waitStop
  <2> QED BY <2>1, <2>2
<1>2. cmFields \subseteq DOMAIN cm BY DEF cmGood, Shaped
<1>3. Kept(cm, t, {"pc", "job", "stopErr", "destroyed"})
  <2>1. CASE t = Goto(cm, "remove") BY <1>2, <2>1 DEF Goto, Kept, cmFields
  <2>2. CASE t = [Goto(cm, "waitStop") EXCEPT !.job = "stop"] BY <1>2, <2>2 DEF Goto, Kept, cmFields
  <2>3. CASE t = [Goto(cm, "remove") EXCEPT !.job = "none"] BY <1>2, <2>3 DEF Goto, Kept, cmFields
  <2>4. CASE t = stopTimedOut(cm)
    <3>1. \/ t = [Goto(cm, "remove") EXCEPT !.stopErr = TRUE]
          \/ t = [Goto(cm, "done") EXCEPT !.destroyed = "error"]
      BY <2>4 DEF stopTimedOut
    <3>2. CASE t = [Goto(cm, "remove") EXCEPT !.stopErr = TRUE]
      BY <1>2, <3>2 DEF Goto, Kept, cmFields
    <3>3. CASE t = [Goto(cm, "done") EXCEPT !.destroyed = "error"]
      BY <1>2, <3>3 DEF Goto, Kept, cmFields
    <3> QED BY <3>1, <3>2, <3>3
  <2> QED BY <1>1, <2>1, <2>2, <2>3, <2>4
<1>4. t.pc \in {"remove", "waitStop"} \/ (t.pc = "done" /\ t.destroyed = "error")
  BY <1>1, <1>2 DEF Goto, stopTimedOut, cmFields
<1>6. /\ DOMAIN t = DOMAIN cm /\ t.conf = cm.conf /\ t.i = cm.i /\ t.target = cm.target
      /\ t.dropped = cm.dropped /\ t.made = cm.made /\ t.alive = cm.alive
      /\ t.undone = cm.undone /\ t.dirs = cm.dirs /\ t.subs = cm.subs
      /\ t.procs = cm.procs /\ t.paths = cm.paths
  BY <1>3 DEF Kept, cmFields
<1>7. cmGood(t) BY <1>0, <1>4, <1>6, Destroys DEF Ending
<1> QED BY <1>1, <1>7, FaultyGood

LEMMA systemdStopsStep == ASSUME cmInv, systemdStops PROVE cmInv'
<1> USE DEF cmInv
<1>0. /\ cm.job = "stop" /\ Managed(cm) /\ ~cm.alive /\ cm.pc \in Ending /\ Systemd(cm.conf)
      /\ cm.pc = "done" => cm.destroyed # "no"
      /\ cm.pc = "done" /\ cm.destroyed = "ok" => cm.paths = {}
      /\ cm.subs \subseteq cm.paths /\ cm.procs \subseteq cm.paths
      /\ cm.dirs \cap Home(cm.conf) \subseteq cm.paths \cup cm.dropped
  BY DEF systemdStops, cmGood, Shaped, OnList, Managed
<1>1. PICK t : /\ cm' = t \/ cm' = cmFaulty(t)
               /\ \/ t = [cm EXCEPT !.job = "stopped", !.unit = "none",
                                   !.dirs = IF UnitDir(cm.conf) \in cm.subs THEN @
                                            ELSE @ \ {UnitDir(cm.conf)}]
                  \/ t = [cm EXCEPT !.job = "stopped"]
  BY DEF systemdStops
<1>2. Kept(cm, t, {"job", "unit", "dirs"}) /\ t.dirs \subseteq cm.dirs
  <2>0. cmFields \subseteq DOMAIN cm BY DEF cmGood, Shaped
  <2>1. CASE t = [cm EXCEPT !.job = "stopped"] BY <2>0, <2>1 DEF Kept, cmFields
  <2>2. ASSUME NEW D, D \subseteq cm.dirs,
               t = [cm EXCEPT !.job = "stopped", !.unit = "none", !.dirs = D]
        PROVE  Kept(cm, t, {"job", "unit", "dirs"}) /\ t.dirs \subseteq cm.dirs
    BY <2>0, <2>2 DEF Kept, cmFields
  <2>3. CASE t = [cm EXCEPT !.job = "stopped", !.unit = "none",
                           !.dirs = IF UnitDir(cm.conf) \in cm.subs THEN @
                                    ELSE @ \ {UnitDir(cm.conf)}]
    <3> DEFINE D == IF UnitDir(cm.conf) \in cm.subs THEN cm.dirs ELSE cm.dirs \ {UnitDir(cm.conf)}
    <3>1. t = [cm EXCEPT !.job = "stopped", !.unit = "none", !.dirs = D] BY <2>3
    <3>2. D \subseteq cm.dirs OBVIOUS
    <3> HIDE DEF D
    <3> QED BY <2>2, <3>1, <3>2
  <2> QED BY <1>1, <2>1, <2>3
<1>3. /\ DOMAIN t = DOMAIN cm /\ t.conf = cm.conf /\ t.i = cm.i /\ t.target = cm.target
      /\ t.dropped = cm.dropped /\ t.made = cm.made /\ t.undone = cm.undone
      /\ t.subs = cm.subs /\ t.alive = cm.alive /\ t.destroyed = cm.destroyed
      /\ t.procs = cm.procs /\ t.pc = cm.pc /\ t.paths = cm.paths
  BY <1>2 DEF Kept, cmFields
<1>4. cmGood(t) BY <1>0, <1>2, <1>3, Destroys
<1> QED BY <1>1, <1>4, FaultyGood

LEMMA removePathsStep == ASSUME cmInv, removePaths PROVE cmInv'
<1> USE DEF cmInv
<1>0. /\ cm.pc = "remove" /\ Managed(cm) /\ ~cm.alive /\ cmFields \subseteq DOMAIN cm
      /\ cm.subs \subseteq cm.paths /\ cm.procs \subseteq cm.paths
      /\ cm.dirs \cap Home(cm.conf) \subseteq cm.paths \cup cm.dropped
  BY DEF removePaths, cmAt, cmGood, Shaped, OnList, Managed, Ending
<1>1. ASSUME NEW d \in cm.todo,
             cm' = [cm EXCEPT !.todo = @ \ {d},
                       !.dirs = @ \ ({d} \ cm.procs), !.subs = @ \ ({d} \ cm.procs),
                       !.paths = @ \ ({d} \ cm.procs)]
      PROVE  cmInv'
  <2>1. /\ Kept(cm, cm', {"todo", "dirs", "subs", "paths"})
        /\ cm'.dirs = cm.dirs \ ({d} \ cm.procs) /\ cm'.subs = cm.subs \ ({d} \ cm.procs)
        /\ cm'.paths = cm.paths \ ({d} \ cm.procs)
    BY <1>0, <1>1 DEF Kept, cmFields
  <2>2. /\ DOMAIN cm' = DOMAIN cm /\ cm'.conf = cm.conf /\ cm'.i = cm.i /\ cm'.target = cm.target
        /\ cm'.job = cm.job /\ cm'.dropped = cm.dropped /\ cm'.made = cm.made
        /\ cm'.undone = cm.undone /\ cm'.alive = cm.alive
        /\ cm'.procs = cm.procs /\ cm'.pc = cm.pc
    BY <2>1 DEF Kept, cmFields
  <2> QED BY <1>0, <2>1, <2>2, Destroys DEF Ending
<1>2. CASE cm' = [cm EXCEPT !.todo = cm.paths, !.tries = @ + 1]
  <2>1. Kept(cm, cm', {"faults", "tries", "todo"}) BY <1>0, <1>2 DEF Kept, cmFields
  <2> QED BY <2>1, KeptFaulty
<1>3. CASE cm' = [Goto(cm, "done") EXCEPT
                    !.destroyed = IF cm.paths = {} /\ ~cm.stopErr THEN "ok" ELSE "error"]
  <2>1. /\ Kept(cm, cm', {"pc", "destroyed"}) /\ cm'.pc = "done" /\ cm'.destroyed # "no"
        /\ cm'.destroyed = "ok" => cm.paths = {}
    BY <1>0, <1>3 DEF Goto, Kept, cmFields
  <2>2. /\ DOMAIN cm' = DOMAIN cm /\ cm'.conf = cm.conf /\ cm'.i = cm.i /\ cm'.target = cm.target
        /\ cm'.job = cm.job /\ cm'.dropped = cm.dropped /\ cm'.made = cm.made
        /\ cm'.undone = cm.undone /\ cm'.dirs = cm.dirs /\ cm'.subs = cm.subs
        /\ cm'.procs = cm.procs /\ cm'.paths = cm.paths /\ cm'.alive = cm.alive
    BY <2>1 DEF Kept, cmFields
  <2> QED BY <1>0, <2>1, <2>2, Destroys DEF Ending
<1> QED BY <1>1, <1>2, <1>3 DEF removePaths

LEMMA cmNextHolds == cmInv /\ [cmNext]_cm => cmInv'
<1> SUFFICES ASSUME cmInv, [cmNext]_cm PROVE cmInv'
  OBVIOUS
<1>1. CASE UNCHANGED cm BY <1>1 DEF cmInv
<1>2. CASE cmNext
  BY <1>2, newManagerStep, startUnitStep, systemdStartsStep, waitStartStep, joinMkdirStep,
     joinWriteStep, CreateCgroupPathStep, chownCgroupStep, setPropsStep, setLimitsStep, runSteps,
     killSteps, stopUnitStep, systemdStopsStep, removePathsStep DEF cmNext
<1> QED BY <1>1, <1>2

\* A Destroy that reports success leaves nothing behind but what a rootless Apply
\* gave up, and fs2's failed CreateCgroupPath no level it made: for every number
\* of subsystems, levels, retries and failing calls, whatever systemd does and when.
THEOREM NoStrayCgroup == cmSpec => []CgroupNoStray
<1>1. cmInv => CgroupNoStray
  <2> SUFFICES ASSUME cmInv PROVE CgroupNoStray
    OBVIOUS
  <2>1. cm.undone /\ cm.conf.driver = "fs2" => cm.made \cap cm.dirs = {}
    BY DEF cmInv, cmGood, Undone
  <2>2. cm.pc = "done" /\ cm.destroyed = "ok" =>
          cm.dirs \cap Home(cm.conf) \subseteq cm.dropped /\ cm.subs = {}
    BY DEF cmInv, cmGood, OnList, Managed
  <2> QED BY <2>1, <2>2 DEF CgroupNoStray, Home
<1> QED BY <1>1, cmInitHolds, cmNextHolds, PTL DEF cmSpec

\* The same for the limits: no create or update that reports success has left one
\* of its limits unwritten, or has written it to a cgroup without the process.
THEOREM LimitsApply == cmSpec => []LimitsJoined
<1>1. cmInv => LimitsJoined
  BY DEF cmInv, cmGood, Limits, Limited, LimitsJoined
<1> QED BY <1>1, cmInitHolds, cmNextHolds, PTL DEF cmSpec

-----------------------------------------------------------------------------
(* Freezer.                                                                *)

fzFields  == {"pc", "conf", "self", "state", "act", "faults"}
actFields == {"pc", "prog", "i", "ret", "thaw", "seen", "result"}
Freezing  == {"attempt", "write", "read", "giveup"}
Writers(s) == {b \in DOMAIN s.act : s.act[b].prog # "state"}

\* Where a runc process can be, by the program it runs.
Runs(conf, r) ==
  /\ r.prog \in {"pause", "resume", "state", "update"}
  /\ r.prog = "state" => r.pc \in {"state", "query", "self", "queried", "readback", "poll", "done"}
  /\ r.prog = "pause" =>
       /\ r.pc \in Freezing \cup {"pause", "readback", "poll", "done"} /\ r.ret = "done"
       /\ r.pc \in Freezing => conf.v = 1
       /\ r.pc \in {"readback", "poll"} => r.seen = "FROZEN" /\ conf.v # 1
  /\ r.prog = "resume" =>
       /\ r.pc \in {"resume", "readback", "poll", "done"}
       /\ r.pc \in {"readback", "poll"} => r.seen = "THAWED"
  /\ r.prog = "update" =>
       /\ r.pc \in Freezing \cup {"update", "query", "self", "queried", "props", "thaw",
                                 "subsystems", "done"}
       /\ r.pc = "queried" => r.seen \in {"FROZEN", "THAWED"}
       /\ r.ret \in {"done", "props"}
       /\ r.pc \in Freezing /\ r.ret = "done" => conf.freezer = "FROZEN"

fzShaped(s) ==
  /\ fzFields \subseteq DOMAIN s /\ s.pc = "on" /\ s.conf \in fzConfs /\ s.faults \in Nat
  /\ s.self \in BOOLEAN /\ s.state \in {"THAWED", "FREEZING", "FROZEN"}
  /\ \A b \in DOMAIN s.act : actFields \subseteq DOMAIN s.act[b] /\ Runs(s.conf, s.act[b])

\* An update that still has to thaw.
Pending(r) == r.thaw = TRUE /\ r.pc \in Freezing \cup {"props", "thaw"}

\* A container that was paused is not touched by updates; of one that was not,
\* whoever may have frozen it will thaw it.
Rests(s, r) ==
  IF s.conf.frozen
  THEN /\ s.self /\ s.state = "FROZEN" /\ r.pc \notin Freezing /\ r.thaw = FALSE
       /\ r.pc = "queried" => r.seen = "FROZEN"
  ELSE r.pc \in Freezing => r.thaw = TRUE
Restoring(s) ==
  s.conf.freezer = "" /\ (\A b \in Writers(s) : s.act[b].prog = "update") =>
    /\ \A b \in Writers(s) : Rests(s, s.act[b])
    /\ s.conf.frozen => s.self /\ s.state = "FROZEN"
    /\ ~s.conf.frozen /\ s.self => \E b \in Writers(s) : Pending(s.act[b])

\* What holds at the steps of a process that is the only one to write.
Alone(s, r) ==
  /\ r.pc = "read" => s.self
  /\ r.prog = "pause" => /\ r.pc = "poll" => s.self
                         /\ r.pc = "done" /\ r.result = "ok" => s.self /\ s.state = "FROZEN"
                         /\ r.pc = "done" /\ r.result = "error" /\ s.conf.v = 1 => ~s.self
  /\ r.prog = "resume" /\ s.faults = 0 => /\ r.pc \in {"readback", "done"} => ~s.self
                                          /\ r.pc # "poll"
  /\ r.prog = "update" /\ s.conf.freezer # "" /\ r.pc = "done" /\ r.result = "ok" =>
       s.self = (s.conf.freezer = "FROZEN")

fzGood(s) == /\ fzShaped(s) /\ Restoring(s)
             /\ \A b \in Writers(s) : Writers(s) = {b} => Alone(s, s.act[b])
fzInv == fzGood(fz)

\* A step of process a from s to t changes of it the fields F, and of the others none.
Ok(s, a) == fzFields \subseteq DOMAIN s /\ a \in DOMAIN s.act /\ actFields \subseteq DOMAIN s.act[a]
Only(s, t, a, F) ==
  /\ DOMAIN t = DOMAIN s /\ t.pc = s.pc /\ t.conf = s.conf /\ DOMAIN t.act = DOMAIN s.act
  /\ \A b \in DOMAIN s.act \ {a} : t.act[b] = s.act[b]
  /\ DOMAIN t.act[a] = DOMAIN s.act[a] /\ \A f \in actFields \ F : t.act[a][f] = s.act[a][f]
SameCgroup(s, t) == t.self = s.self /\ t.state = s.state

LEMMA ToIs ==
  ASSUME NEW s, NEW a, NEW l, Ok(s, a)
  PROVE  /\ Only(s, To(s, a, l), a, {"pc"}) /\ To(s, a, l).act[a].pc = l
         /\ SameCgroup(s, To(s, a, l)) /\ To(s, a, l).faults = s.faults
  BY DEF Ok, Only, SameCgroup, To, fzFields, actFields

LEMMA FinishIs ==
  ASSUME NEW s, NEW a, NEW r, Ok(s, a)
  PROVE  /\ Only(s, Finish(s, a, r), a, {"pc", "result"}) /\ Finish(s, a, r).act[a].pc = "done"
         /\ Finish(s, a, r).act[a].result = r
         /\ SameCgroup(s, Finish(s, a, r)) /\ Finish(s, a, r).faults = s.faults
  BY DEF Ok, Only, SameCgroup, Finish, fzFields, actFields

LEMMA OnlyOk == ASSUME NEW s, NEW t, NEW a, NEW F, Ok(s, a), Only(s, t, a, F) PROVE Ok(t, a)
  BY DEF Ok, Only

LEMMA FaultyAfter ==
  ASSUME NEW s, NEW u, NEW a, NEW F, Ok(s, a), s.faults \in Nat, Only(s, u, a, F),
         SameCgroup(s, u), u.faults = s.faults
  PROVE  /\ Only(s, Faulty(u), a, F) /\ SameCgroup(s, Faulty(u)) /\ Faulty(u).faults \in Nat \ {0}
         /\ Faulty(u).act[a] = u.act[a]
  <1>1. Ok(u, a) BY OnlyOk
  <1>2. Faulty(u) = [u EXCEPT !.faults = s.faults + 1] BY DEF Faulty
  <1>3. s.faults + 1 \in Nat \ {0} OBVIOUS
  <1> DEFINE t == Faulty(u)
  <1>4. /\ t.act = u.act /\ t.pc = u.pc /\ t.conf = u.conf /\ DOMAIN t = DOMAIN u
        /\ t.self = u.self /\ t.state = u.state /\ t.faults = s.faults + 1
    BY <1>1, <1>2 DEF Ok, fzFields
  <1> HIDE DEF t
  <1>5. Only(s, t, a, F) BY <1>4 DEF Only
  <1> QED BY <1>3, <1>4, <1>5 DEF SameCgroup, t

\* What is known where process a stands, and what its step has to see to.
Here(s, a) ==
  /\ Ok(s, a) /\ Runs(s.conf, s.act[a]) /\ s.faults \in Nat /\ s.self \in BOOLEAN
  /\ s.state \in {"THAWED", "FREEZING", "FROZEN"}
  /\ s.conf.freezer \in {"", "THAWED", "FROZEN"} /\ s.conf.frozen \in BOOLEAN
  /\ Writers(s) = {a} => Alone(s, s.act[a]) /\ s.act[a].prog # "state"
Local(s, t, a, r, q) ==
  /\ Runs(s.conf, q) /\ t.faults \in Nat /\ (s.faults # 0 => t.faults # 0)
  /\ t.self \in BOOLEAN /\ t.state \in {"THAWED", "FREEZING", "FROZEN"}
  /\ r.prog = "state" => SameCgroup(s, t)
  /\ Writers(s) = {a} => Alone(t, q)
  /\ s.conf.freezer = "" /\ r.prog = "update" /\ Rests(s, r) =>
       /\ Rests(t, q)
       /\ ~s.conf.frozen /\ t.self => Pending(q) \/ (s.self /\ (Pending(r) => Pending(q)))

LEMMA fzHere == ASSUME fzInv, NEW a \in DOMAIN fz.act PROVE Here(fz, a)
  BY fzAssumption DEF fzInv, fzGood, fzShaped, Here, Ok, Writers

LEMMA fzMoves ==
  ASSUME NEW s, NEW t, NEW a \in DOMAIN s.act, NEW F, "prog" \notin F, fzGood(s), Only(s, t, a, F),
         Local(s, t, a, s.act[a], t.act[a])
  PROVE  fzGood(t)
<1> USE DEF Local
<1>1. /\ DOMAIN t = DOMAIN s /\ t.pc = s.pc /\ t.conf = s.conf /\ DOMAIN t.act = DOMAIN s.act
      /\ \A b \in DOMAIN s.act \ {a} : t.act[b] = s.act[b]
      /\ DOMAIN t.act[a] = DOMAIN s.act[a] /\ t.act[a].prog = s.act[a].prog
  BY DEF Only, actFields
<1>2. Writers(t) = Writers(s) BY <1>1 DEF Writers
<1>3. fzShaped(t) BY <1>1 DEF fzGood, fzShaped
<1>4. Restoring(t)
  <2> SUFFICES ASSUME s.conf.freezer = "", \A b \in Writers(t) : t.act[b].prog = "update"
               PROVE  /\ \A b \in Writers(t) : Rests(t, t.act[b])
                      /\ t.conf.frozen => t.self /\ t.state = "FROZEN"
                      /\ ~t.conf.frozen /\ t.self => \E b \in Writers(t) : Pending(t.act[b])
    BY <1>1 DEF Restoring
  <2>1. \A b \in Writers(s) : s.act[b].prog = "update"
    <3> SUFFICES ASSUME NEW b \in Writers(s) PROVE s.act[b].prog = "update"
      OBVIOUS
    <3>1. b \in DOMAIN s.act BY DEF Writers
    <3>2. t.act[b].prog = "update" BY <1>2
    <3> QED BY <1>1, <3>1, <3>2
  <2>2. /\ \A b \in Writers(s) : Rests(s, s.act[b])
        /\ s.conf.frozen => s.self /\ s.state = "FROZEN"
        /\ ~s.conf.frozen /\ s.self => \E b \in Writers(s) : Pending(s.act[b])
    BY <2>1 DEF fzGood, Restoring
  <2>3. CASE a \notin Writers(s)
    <3>1. SameCgroup(s, t) /\ \A b \in Writers(s) : t.act[b] = s.act[b]
      BY <1>1, <2>3 DEF Writers
    <3>2. \A b \in Writers(s) : Rests(t, t.act[b])
      <4> SUFFICES ASSUME NEW b \in Writers(s) PROVE Rests(t, t.act[b])
        OBVIOUS
      <4>1. Rests(s, s.act[b]) /\ t.act[b] = s.act[b] BY <2>2, <3>1
      <4> QED BY <1>1, <3>1, <4>1 DEF Rests, SameCgroup
    <3>3. ~s.conf.frozen /\ t.self => \E b \in Writers(s) : Pending(t.act[b])
      BY <2>2, <3>1 DEF SameCgroup
    <3> QED BY <1>1, <1>2, <2>2, <3>1, <3>2, <3>3 DEF SameCgroup
  <2>4. CASE a \in Writers(s)
    <3>1. /\ Rests(t, t.act[a])
          /\ ~s.conf.frozen /\ t.self =>
                Pending(t.act[a]) \/ (s.self /\ (Pending(s.act[a]) => Pending(t.act[a])))
      BY <2>1, <2>2, <2>4
    <3>2. \A b \in Writers(s) \ {a} : t.act[b] = s.act[b] BY <1>1 DEF Writers
    <3>3. s.conf.frozen => t.self /\ t.state = "FROZEN" BY <1>1, <3>1 DEF Rests
    <3>4. \A b \in Writers(s) : Rests(t, t.act[b])
      <4> SUFFICES ASSUME NEW b \in Writers(s), b # a PROVE Rests(t, t.act[b])
        BY <3>1
      <4>1. Rests(s, s.act[b]) /\ t.act[b] = s.act[b] BY <2>2, <3>2
      <4> QED BY <1>1, <3>3, <4>1 DEF Rests
    <3>5. ~s.conf.frozen /\ t.self => \E b \in Writers(s) : Pending(t.act[b])
      BY <2>2, <2>4, <3>1, <3>2
    <3> QED BY <1>1, <1>2, <3>3, <3>4, <3>5
  <2> QED BY <2>3, <2>4
<1>5. ASSUME NEW b \in Writers(t), Writers(t) = {b} PROVE Alone(t, t.act[b])
  <2>1. CASE a = b
    <3>1. Writers(s) = {a} BY <1>2, <1>5, <2>1
    <3> QED BY <2>1, <3>1
  <2>2. CASE a # b
    <3>1. SameCgroup(s, t) /\ t.act[b] = s.act[b] /\ Alone(s, s.act[b])
      BY <1>1, <1>2, <1>5, <2>2 DEF Writers, fzGood
    <3> QED BY <1>1, <3>1 DEF SameCgroup, Alone
  <2> QED BY <2>1, <2>2
<1> QED BY <1>3, <1>4, <1>5 DEF fzGood

LEMMA freezeAttemptStep == ASSUME fzInv, NEW a \in DOMAIN fz.act, freezeAttempt(a) PROVE fzInv'
<1> DEFINE r == fz.act[a]
           q == fz'.act[a]
<1> USE DEF fzInv
<1>0. Here(fz, a) /\ r.pc = "attempt" BY fzHere DEF freezeAttempt, fzAt
<1>1. CASE fz' = To(fz, a, "giveup")
  <2>1. /\ Only(fz, fz', a, {"pc"}) /\ q.pc = "giveup" /\ SameCgroup(fz, fz')
        /\ fz'.faults = fz.faults
    BY <1>0, <1>1 DEF Here, Ok, Only, SameCgroup, To, fzFields, actFields
  <2>2. /\ q.prog = r.prog /\ q.ret = r.ret /\ q.thaw = r.thaw /\ q.seen = r.seen
        /\ q.result = r.result /\ fz'.conf = fz.conf
    BY <2>1 DEF Only, actFields
  <2>3. Local(fz, fz', a, r, q)
    BY <1>0, <2>1, <2>2 DEF Local, Here, Runs, Freezing, Alone, Rests, Pending, SameCgroup
  <2> QED BY <2>1, <2>3, fzMoves
<1>2. CASE fz' = To(fz, a, "write")
  <2>1. /\ Only(fz, fz', a, {"pc"}) /\ q.pc = "write" /\ SameCgroup(fz, fz')
        /\ fz'.faults = fz.faults
    BY <1>0, <1>2 DEF Here, Ok, Only, SameCgroup, To, fzFields, actFields
  <2>2. /\ q.prog = r.prog /\ q.ret = r.ret /\ q.thaw = r.thaw /\ q.seen = r.seen
        /\ q.result = r.result /\ fz'.conf = fz.conf
    BY <2>1 DEF Only, actFields
  <2>3. Local(fz, fz', a, r, q)
    BY <1>0, <2>1, <2>2 DEF Local, Here, Runs, Freezing, Alone, Rests, Pending, SameCgroup
  <2> QED BY <2>1, <2>3, fzMoves
<1>3. CASE fz' = To(Written(fz, "THAWED"), a, "write")
  <2>1. /\ Only(fz, fz', a, {"pc"}) /\ q.pc = "write" /\ fz'.self = FALSE
        /\ fz'.state \in {"THAWED", "FREEZING", "FROZEN"} /\ fz'.faults = fz.faults
    BY <1>0, <1>3 DEF Here, Ok, Only, Written, To, fzFields, actFields
  <2>2. /\ q.prog = r.prog /\ q.ret = r.ret /\ q.thaw = r.thaw /\ q.seen = r.seen
        /\ q.result = r.result /\ fz'.conf = fz.conf
    BY <2>1 DEF Only, actFields
  <2>3. Local(fz, fz', a, r, q)
    BY <1>0, <2>1, <2>2 DEF Local, Here, Runs, Freezing, Alone, Rests, Pending, SameCgroup
  <2> QED BY <2>1, <2>3, fzMoves
<1> QED BY <1>1, <1>2, <1>3 DEF freezeAttempt

LEMMA freezeWriteStep == ASSUME fzInv, NEW a \in DOMAIN fz.act, freezeWrite(a) PROVE fzInv'
<1> DEFINE r == fz.act[a]
           q == fz'.act[a]
<1> USE DEF fzInv
<1>0. Here(fz, a) /\ r.pc = "write" BY fzHere DEF freezeWrite, fzAt
<1>1. CASE fz' = Faulty(To(fz, a, "giveup"))
  <2>1. /\ Only(fz, fz', a, {"pc"}) /\ q.pc = "giveup" /\ SameCgroup(fz, fz')
        /\ fz'.faults \in Nat \ {0}
    <3> DEFINE u == To(fz, a, "giveup")
    <3>1. Ok(fz, a) /\ fz.faults \in Nat /\ fz' = Faulty(u) BY <1>0, <1>1 DEF Here
    <3>2. /\ Only(fz, u, a, {"pc"}) /\ u.act[a].pc = "giveup" /\ SameCgroup(fz, u)
          /\ u.faults = fz.faults
      BY SMT, <3>1, ToIs
    <3> HIDE DEF u
    <3> QED BY SMT, <3>1, <3>2, FaultyAfter
  <2>2. /\ q.prog = r.prog /\ q.ret = r.ret /\ q.thaw = r.thaw /\ q.seen = r.seen
        /\ q.result = r.result /\ fz'.conf = fz.conf
    BY <2>1 DEF Only, actFields
  <2>3. Local(fz, fz', a, r, q)
    BY <1>0, <2>1, <2>2 DEF Local, Here, Runs, Freezing, Alone, Rests, Pending, SameCgroup
  <2> QED BY <2>1, <2>3, fzMoves
<1>2. CASE fz' = To(Written(fz, "FROZEN"), a, "read")
  <2>1. /\ Only(fz, fz', a, {"pc"}) /\ q.pc = "read" /\ fz'.self = TRUE
        /\ fz'.state \in {"THAWED", "FREEZING", "FROZEN"} /\ fz'.faults = fz.faults
    BY <1>0, <1>2 DEF Here, Ok, Only, Written, To, fzFields, actFields
  <2>2. /\ q.prog = r.prog /\ q.ret = r.ret /\ q.thaw = r.thaw /\ q.seen = r.seen
        /\ q.result = r.result /\ fz'.conf = fz.conf
    BY <2>1 DEF Only, actFields
  <2>3. Local(fz, fz', a, r, q)
    BY <1>0, <2>1, <2>2 DEF Local, Here, Runs, Freezing, Alone, Rests, Pending, SameCgroup
  <2> QED BY <2>1, <2>3, fzMoves
<1> QED BY <1>1, <1>2 DEF freezeWrite

\* A call that fails ends the process, and leaves the cgroup alone.
LEMMA fzErrs ==
  ASSUME fzInv, NEW a \in DOMAIN fz.act, ~Pending(fz.act[a]), fz.act[a].pc \notin Freezing,
         fz.act[a].prog = "pause" => fz.conf.v # 1,
         NEW res, fz.act[a].prog \in {"pause", "update"} => res = "error"
  PROVE  fzGood(Faulty(Finish(fz, a, res)))
<1> DEFINE u == Finish(fz, a, res)
           t == Faulty(u)
           r == fz.act[a]
           q == t.act[a]
<1>0. Here(fz, a) BY fzHere
<1>1. Ok(fz, a) /\ fz.faults \in Nat BY <1>0 DEF Here
<1>2. /\ Only(fz, u, a, {"pc", "result"}) /\ u.act[a].pc = "done" /\ u.act[a].result = res
      /\ SameCgroup(fz, u) /\ u.faults = fz.faults
  BY SMT, <1>1, FinishIs
<1> HIDE DEF u
<1>3. /\ Only(fz, t, a, {"pc", "result"}) /\ q.pc = "done" /\ q.result = res
      /\ SameCgroup(fz, t) /\ t.faults \in Nat \ {0}
  BY SMT, <1>1, <1>2, FaultyAfter
<1> HIDE DEF t
<1>4. q.prog = r.prog /\ q.ret = r.ret /\ q.thaw = r.thaw /\ q.seen = r.seen /\ t.conf = fz.conf
  BY <1>3 DEF Only, actFields
<1> HIDE DEF r, q
<1>5. Local(fz, t, a, r, q)
  <2>1. Runs(fz.conf, q) BY <1>0, <1>3, <1>4 DEF Here, Runs, Freezing, r
  <2>2. Writers(fz) = {a} => Alone(t, q)
    BY <1>0, <1>3, <1>4 DEF Here, Alone, SameCgroup, r
  <2>3. fz.conf.freezer = "" /\ r.prog = "update" /\ Rests(fz, r) => Rests(t, q)
    BY <1>3, <1>4 DEF Rests, Freezing, SameCgroup
  <2> QED BY <1>0, <1>3, <2>1, <2>2, <2>3 DEF Local, Here, SameCgroup, r
<1> QED BY <1>3, <1>5, fzMoves DEF fzInv, t, u, r, q

LEMMA freezeReadStep == ASSUME fzInv, NEW a \in DOMAIN fz.act, freezeRead(a) PROVE fzInv'
<1> DEFINE r == fz.act[a]
           q == fz'.act[a]
<1> USE DEF fzInv
<1>0. Here(fz, a) /\ r.pc = "read" BY fzHere DEF freezeRead, fzAt
<1>1. CASE fz' = Faulty(To(fz, a, "giveup"))
  <2>1. /\ Only(fz, fz', a, {"pc"}) /\ q.pc = "giveup" /\ SameCgroup(fz, fz')
        /\ fz'.faults \in Nat \ {0}
    <3> DEFINE u == To(fz, a, "giveup")
    <3>1. Ok(fz, a) /\ fz.faults \in Nat /\ fz' = Faulty(u) BY <1>0, <1>1 DEF Here
    <3>2. /\ Only(fz, u, a, {"pc"}) /\ u.act[a].pc = "giveup" /\ SameCgroup(fz, u)
          /\ u.faults = fz.faults
      BY SMT, <3>1, ToIs
    <3> HIDE DEF u
    <3> QED BY SMT, <3>1, <3>2, FaultyAfter
  <2>2. /\ q.prog = r.prog /\ q.ret = r.ret /\ q.thaw = r.thaw /\ q.seen = r.seen
        /\ q.result = r.result /\ fz'.conf = fz.conf
    BY <2>1 DEF Only, actFields
  <2>3. Local(fz, fz', a, r, q)
    BY <1>0, <2>1, <2>2 DEF Local, Here, Runs, Freezing, Alone, Rests, Pending, SameCgroup
  <2> QED BY <2>1, <2>3, fzMoves
<1>2. CASE fz' = [To(fz, a, "attempt") EXCEPT !.act[a].i = @ + 1]
  <2>1. /\ Only(fz, fz', a, {"pc", "i"}) /\ q.pc = "attempt" /\ SameCgroup(fz, fz')
        /\ fz'.faults = fz.faults
    BY <1>0, <1>2 DEF Here, Ok, Only, SameCgroup, To, fzFields, actFields
  <2>2. /\ q.prog = r.prog /\ q.ret = r.ret /\ q.thaw = r.thaw /\ q.seen = r.seen
        /\ q.result = r.result /\ fz'.conf = fz.conf
    BY <2>1 DEF Only, actFields
  <2>3. Local(fz, fz', a, r, q)
    BY <1>0, <2>1, <2>2 DEF Local, Here, Runs, Freezing, Alone, Rests, Pending, SameCgroup
  <2> QED BY <2>1, <2>3, fzMoves
<1>3. CASE fz.state = "FROZEN" /\ r.ret = "done" /\ fz' = Finish(fz, a, "ok")
  <2>1. /\ Only(fz, fz', a, {"pc", "result"}) /\ q.pc = "done" /\ q.result = "ok"
        /\ SameCgroup(fz, fz') /\ fz'.faults = fz.faults
    BY <1>0, <1>3 DEF Here, Ok, Only, SameCgroup, Finish, fzFields, actFields
  <2>2. /\ q.prog = r.prog /\ q.ret = r.ret /\ q.thaw = r.thaw /\ q.seen = r.seen
        /\ fz'.conf = fz.conf
    BY <2>1 DEF Only, actFields
  <2>3. Local(fz, fz', a, r, q)
    <3>1. Runs(fz.conf, q) BY <1>0, <1>3, <2>1, <2>2 DEF Here, Runs, Freezing
    <3>2. ASSUME Writers(fz) = {a} PROVE Alone(fz', q)
      <4>1. fz.self = TRUE BY <1>0, <3>2 DEF Here, Alone
      <4>2. r.prog # "resume" /\ (r.prog = "update" => fz.conf.freezer = "FROZEN")
        BY <1>0, <1>3 DEF Here, Runs, Freezing
      <4> QED BY <1>3, <2>1, <2>2, <4>1, <4>2 DEF Alone, SameCgroup
    <3>3. fz.conf.freezer = "" /\ r.prog = "update" /\ Rests(fz, r) =>
            /\ Rests(fz', q)
            /\ ~fz.conf.frozen /\ fz'.self => Pending(q) \/ (fz.self /\ (Pending(r) => Pending(q)))
      BY <1>0, <1>3, <2>1, <2>2 DEF Here, Runs, Freezing, Rests, Pending, SameCgroup
    <3> QED BY <1>0, <2>1, <3>1, <3>2, <3>3 DEF Local, Here, SameCgroup
  <2> QED BY <2>1, <2>3, fzMoves
<1>4. CASE r.ret # "done" /\ fz' = To(fz, a, r.ret)
  <2>1. /\ Only(fz, fz', a, {"pc"}) /\ q.pc = r.ret /\ SameCgroup(fz, fz')
        /\ fz'.faults = fz.faults
    BY <1>0, <1>4 DEF Here, Ok, Only, SameCgroup, To, fzFields, actFields
  <2>2. /\ q.prog = r.prog /\ q.ret = r.ret /\ q.thaw = r.thaw /\ q.seen = r.seen
        /\ q.result = r.result /\ fz'.conf = fz.conf
    BY <2>1 DEF Only, actFields
  <2>3. Local(fz, fz', a, r, q)
    BY <1>0, <1>4, <2>1, <2>2 DEF Local, Here, Runs, Freezing, Alone, Rests, Pending, SameCgroup
  <2> QED BY <2>1, <2>3, fzMoves
<1>5. CASE fz' = To(fz, a, "giveup")
  <2>1. /\ Only(fz, fz', a, {"pc"}) /\ q.pc = "giveup" /\ SameCgroup(fz, fz')
        /\ fz'.faults = fz.faults
    BY <1>0, <1>5 DEF Here, Ok, Only, SameCgroup, To, fzFields, actFields
  <2>2. /\ q.prog = r.prog /\ q.ret = r.ret /\ q.thaw = r.thaw /\ q.seen = r.seen
        /\ q.result = r.result /\ fz'.conf = fz.conf
    BY <2>1 DEF Only, actFields
  <2>3. Local(fz, fz', a, r, q)
    BY <1>0, <2>1, <2>2 DEF Local, Here, Runs, Freezing, Alone, Rests, Pending, SameCgroup
  <2> QED BY <2>1, <2>3, fzMoves
<1> QED BY <1>1, <1>2, <1>3, <1>4, <1>5 DEF freezeRead, Frozen

LEMMA freezeGiveUpStep == ASSUME fzInv, NEW a \in DOMAIN fz.act, freezeGiveUp(a) PROVE fzInv'
<1> DEFINE r == fz.act[a]
           q == fz'.act[a]
<1> USE DEF fzInv
<1>0. Here(fz, a) /\ r.pc = "giveup" BY fzHere DEF freezeGiveUp, fzAt
<1>w. Written(fz, "THAWED").act = fz.act BY <1>0 DEF Here, Ok, Written, fzFields
<1>1. CASE r.ret = "done" /\ fz' = Finish(Written(fz, "THAWED"), a, "error")
  <2>1. /\ Only(fz, fz', a, {"pc", "result"}) /\ q.pc = "done" /\ q.result = "error"
        /\ fz'.self = FALSE /\ fz'.state \in {"THAWED", "FREEZING", "FROZEN"}
        /\ fz'.faults = fz.faults
    BY <1>0, <1>1 DEF Here, Ok, Only, Written, Finish, fzFields, actFields
  <2>2. /\ q.prog = r.prog /\ q.ret = r.ret /\ q.thaw = r.thaw /\ q.seen = r.seen
        /\ fz'.conf = fz.conf
    BY <2>1 DEF Only, actFields
  <2>3. Local(fz, fz', a, r, q)
    BY <1>0, <1>1, <2>1, <2>2 DEF Local, Here, Runs, Freezing, Alone, Rests, Pending, SameCgroup
  <2> QED BY <2>1, <2>3, fzMoves
<1>2. CASE r.ret # "done" /\ fz' = To(Written(fz, "THAWED"), a, r.ret)
  <2>1. /\ Only(fz, fz', a, {"pc"}) /\ q.pc = r.ret /\ fz'.self = FALSE
        /\ fz'.state \in {"THAWED", "FREEZING", "FROZEN"} /\ fz'.faults = fz.faults
    BY <1>0, <1>2 DEF Here, Ok, Only, Written, To, fzFields, actFields
  <2>2. /\ q.prog = r.prog /\ q.ret = r.ret /\ q.thaw = r.thaw /\ q.seen = r.seen
        /\ q.result = r.result /\ fz'.conf = fz.conf
    BY <2>1 DEF Only, actFields
  <2>3. Local(fz, fz', a, r, q)
    BY <1>0, <1>2, <2>1, <2>2 DEF Local, Here, Runs, Freezing, Alone, Rests, Pending, SameCgroup
  <2> QED BY <2>1, <2>3, fzMoves
<1> QED BY <1>w, <1>1, <1>2 DEF freezeGiveUp, Frozen

LEMMA readFreezer2Step == ASSUME fzInv, NEW a \in DOMAIN fz.act, readFreezer2(a) PROVE fzInv'
<1> DEFINE r == fz.act[a]
           q == fz'.act[a]
<1> USE DEF fzInv
<1>0. Here(fz, a) /\ r.pc = "readback" BY fzHere DEF readFreezer2, fzAt
<1>1. CASE fz.self /\ fz' = To(fz, a, "poll")
  <2>1. /\ Only(fz, fz', a, {"pc"}) /\ q.pc = "poll" /\ SameCgroup(fz, fz')
        /\ fz'.faults = fz.faults
    BY <1>0, <1>1 DEF Here, Ok, Only, SameCgroup, To, fzFields, actFields
  <2>2. /\ q.prog = r.prog /\ q.ret = r.ret /\ q.thaw = r.thaw /\ q.seen = r.seen
        /\ q.result = r.result /\ fz'.conf = fz.conf
    BY <2>1 DEF Only, actFields
  <2>3. Local(fz, fz', a, r, q)
    BY <1>0, <1>1, <2>1, <2>2 DEF Local, Here, Runs, Freezing, Alone, Rests, Pending, SameCgroup
  <2> QED BY <2>1, <2>3, fzMoves
<1>2. CASE ~fz.self /\ fz' = Finish(fz, a, IF r.seen \in {"THAWED", "any"} THEN "ok" ELSE "error")
  <2>1. /\ Only(fz, fz', a, {"pc", "result"}) /\ q.pc = "done"
        /\ q.result = (IF r.seen \in {"THAWED", "any"} THEN "ok" ELSE "error")
        /\ SameCgroup(fz, fz') /\ fz'.faults = fz.faults
    BY <1>0, <1>2 DEF Here, Ok, Only, SameCgroup, Finish, fzFields, actFields
  <2>2. /\ q.prog = r.prog /\ q.ret = r.ret /\ q.thaw = r.thaw /\ q.seen = r.seen
        /\ fz'.conf = fz.conf
    BY <2>1 DEF Only, actFields
  <2>3. Local(fz, fz', a, r, q)
    BY <1>0, <1>2, <2>1, <2>2 DEF Local, Here, Runs, Freezing, Alone, Rests, Pending, SameCgroup
  <2> QED BY <2>1, <2>3, fzMoves
<1> QED BY <1>1, <1>2 DEF readFreezer2

LEMMA waitFrozenStep == ASSUME fzInv, NEW a \in DOMAIN fz.act, waitFrozen(a) PROVE fzInv'
<1> DEFINE r == fz.act[a]
           q == fz'.act[a]
<1> USE DEF fzInv
<1>0. Here(fz, a) /\ r.pc = "poll" BY fzHere DEF waitFrozen, fzAt
<1>1. CASE fz' = Finish(fz, a, "error")
  <2>1. /\ Only(fz, fz', a, {"pc", "result"}) /\ q.pc = "done" /\ q.result = "error"
        /\ SameCgroup(fz, fz') /\ fz'.faults = fz.faults
    BY <1>0, <1>1 DEF Here, Ok, Only, SameCgroup, Finish, fzFields, actFields
  <2>2. /\ q.prog = r.prog /\ q.ret = r.ret /\ q.thaw = r.thaw /\ q.seen = r.seen
        /\ fz'.conf = fz.conf
    BY <2>1 DEF Only, actFields
  <2>3. Local(fz, fz', a, r, q)
    BY <1>0, <2>1, <2>2 DEF Local, Here, Runs, Freezing, Alone, Rests, Pending, SameCgroup
  <2> QED BY <2>1, <2>3, fzMoves
<1>2. CASE /\ fz.state = "FROZEN"
           /\ fz' = Finish(fz, a, IF r.seen \in {"FROZEN", "any"} THEN "ok" ELSE "error")
  <2>1. /\ Only(fz, fz', a, {"pc", "result"}) /\ q.pc = "done"
        /\ q.result = (IF r.seen \in {"FROZEN", "any"} THEN "ok" ELSE "error")
        /\ SameCgroup(fz, fz') /\ fz'.faults = fz.faults
    BY <1>0, <1>2 DEF Here, Ok, Only, SameCgroup, Finish, fzFields, actFields
  <2>2. /\ q.prog = r.prog /\ q.ret = r.ret /\ q.thaw = r.thaw /\ q.seen = r.seen
        /\ fz'.conf = fz.conf
    BY <2>1 DEF Only, actFields
  <2>3. Local(fz, fz', a, r, q)
    BY <1>0, <1>2, <2>1, <2>2 DEF Local, Here, Runs, Freezing, Alone, Rests, Pending, SameCgroup
  <2> QED BY <2>1, <2>3, fzMoves
<1>3. CASE fz' = [fz EXCEPT !.act[a].i = @ + 1]
  <2>1. /\ Only(fz, fz', a, {"pc", "i"}) /\ q.pc = r.pc /\ SameCgroup(fz, fz')
        /\ fz'.faults = fz.faults
    BY <1>0, <1>3 DEF Here, Ok, Only, SameCgroup, fzFields, actFields
  <2>2. /\ q.prog = r.prog /\ q.ret = r.ret /\ q.thaw = r.thaw /\ q.seen = r.seen
        /\ q.result = r.result /\ fz'.conf = fz.conf
    BY <2>1 DEF Only, actFields
  <2>3. Local(fz, fz', a, r, q)
    BY <1>0, <2>1, <2>2 DEF Local, Here, Runs, Freezing, Alone, Rests, Pending, SameCgroup
  <2> QED BY <2>1, <2>3, fzMoves
<1> QED BY <1>1, <1>2, <1>3 DEF waitFrozen

LEMMA pauseContainerStep == ASSUME fzInv, NEW a \in DOMAIN fz.act, pauseContainer(a) PROVE fzInv'
<1> DEFINE r == fz.act[a]
           q == fz'.act[a]
<1> USE DEF fzInv
<1>0. Here(fz, a) /\ r.pc = "pause" BY fzHere DEF pauseContainer, fzAt
<1>1. CASE fz.conf.v = 1 /\ fz' = To(fz, a, "attempt")
  <2>1. /\ Only(fz, fz', a, {"pc"}) /\ q.pc = "attempt" /\ SameCgroup(fz, fz')
        /\ fz'.faults = fz.faults
    BY <1>0, <1>1 DEF Here, Ok, Only, SameCgroup, To, fzFields, actFields
  <2>2. /\ q.prog = r.prog /\ q.ret = r.ret /\ q.thaw = r.thaw /\ q.seen = r.seen
        /\ q.result = r.result /\ fz'.conf = fz.conf
    BY <2>1 DEF Only, actFields
  <2>3. Local(fz, fz', a, r, q)
    BY <1>0, <1>1, <2>1, <2>2 DEF Local, Here, Runs, Freezing, Alone, Rests, Pending, SameCgroup
  <2> QED BY <2>1, <2>3, fzMoves
<1>2. CASE fz.conf.v # 1 /\ fz' = [To(Written(fz, "FROZEN"), a, "readback") EXCEPT !.act[a].seen = "FROZEN"]
  <2>1. /\ Only(fz, fz', a, {"pc", "seen"}) /\ q.pc = "readback" /\ q.seen = "FROZEN"
        /\ fz'.self = TRUE /\ fz'.state \in {"THAWED", "FREEZING", "FROZEN"}
        /\ fz'.faults = fz.faults
    BY <1>0, <1>2 DEF Here, Ok, Only, Written, To, fzFields, actFields
  <2>2. /\ q.prog = r.prog /\ q.ret = r.ret /\ q.thaw = r.thaw /\ q.result = r.result
        /\ fz'.conf = fz.conf
    BY <2>1 DEF Only, actFields
  <2>3. Local(fz, fz', a, r, q)
    BY <1>0, <1>2, <2>1, <2>2 DEF Local, Here, Runs, Freezing, Alone, Rests, Pending, SameCgroup
  <2> QED BY <2>1, <2>3, fzMoves
<1>3. CASE fz.conf.v # 1 /\ fz' = Faulty(Finish(fz, a, "error"))
  <2>1. ~Pending(r) /\ r.pc \notin Freezing /\ (r.prog = "pause" => fz.conf.v # 1)
        /\ (r.prog = "update" => fz' = Faulty(Finish(fz, a, "error")))
        /\ (r.prog = "pause" => fz' = Faulty(Finish(fz, a, "error")))
    BY <1>0, <1>3 DEF Here, Runs, Pending, Freezing
  <2> QED BY <1>0, <1>3, <2>1, fzErrs DEF Here, Runs
<1> QED BY <1>1, <1>2, <1>3 DEF pauseContainer, setFreezer2

LEMMA resumeContainerStep == ASSUME fzInv, NEW a \in DOMAIN fz.act, resumeContainer(a) PROVE fzInv'
<1> DEFINE r == fz.act[a]
           q == fz'.act[a]
<1> USE DEF fzInv
<1>0. Here(fz, a) /\ r.pc = "resume" BY fzHere DEF resumeContainer, fzAt
<1>1. CASE fz' = [To(Written(fz, "THAWED"), a, "readback") EXCEPT !.act[a].seen = "THAWED"]
  <2>1. /\ Only(fz, fz', a, {"pc", "seen"}) /\ q.pc = "readback" /\ q.seen = "THAWED"
        /\ fz'.self = FALSE /\ fz'.state \in {"THAWED", "FREEZING", "FROZEN"}
        /\ fz'.faults = fz.faults
    BY <1>0, <1>1 DEF Here, Ok, Only, Written, To, fzFields, actFields
  <2>2. /\ q.prog = r.prog /\ q.ret = r.ret /\ q.thaw = r.thaw /\ q.result = r.result
        /\ fz'.conf = fz.conf
    BY <2>1 DEF Only, actFields
  <2>3. Local(fz, fz', a, r, q)
    BY <1>0, <2>1, <2>2 DEF Local, Here, Runs, Freezing, Alone, Rests, Pending, SameCgroup
  <2> QED BY <2>1, <2>3, fzMoves
<1>2. CASE fz' = Finish(Written(fz, "THAWED"), a, "ok")
  <2>1. /\ Only(fz, fz', a, {"pc", "result"}) /\ q.pc = "done" /\ q.result = "ok"
        /\ fz'.self = FALSE /\ fz'.state \in {"THAWED", "FREEZING", "FROZEN"}
        /\ fz'.faults = fz.faults
    BY <1>0, <1>2 DEF Here, Ok, Only, Written, Finish, fzFields, actFields
  <2>2. /\ q.prog = r.prog /\ q.ret = r.ret /\ q.thaw = r.thaw /\ q.seen = r.seen
        /\ fz'.conf = fz.conf
    BY <2>1 DEF Only, actFields
  <2>3. Local(fz, fz', a, r, q)
    BY <1>0, <2>1, <2>2 DEF Local, Here, Runs, Freezing, Alone, Rests, Pending, SameCgroup
  <2> QED BY <2>1, <2>3, fzMoves
<1>3. CASE fz' = Faulty(Finish(fz, a, "error")) \/ fz' = Faulty(Finish(fz, a, "ok"))
  <2>1. ~Pending(r) /\ r.pc \notin Freezing /\ (r.prog = "pause" => fz.conf.v # 1)
        /\ (r.prog = "update" => fz' = Faulty(Finish(fz, a, "error")))
        /\ (r.prog = "pause" => fz' = Faulty(Finish(fz, a, "error")))
    BY <1>0, <1>3 DEF Here, Runs, Pending, Freezing
  <2> QED BY <1>0, <1>3, <2>1, fzErrs DEF Here, Runs
<1> QED BY <1>1, <1>2, <1>3 DEF resumeContainer, setFreezer2

LEMMA GetStateStep == ASSUME fzInv, NEW a \in DOMAIN fz.act, GetState(a) PROVE fzInv'
<1> DEFINE r == fz.act[a]
           q == fz'.act[a]
<1> USE DEF fzInv
<1>0. Here(fz, a) /\ r.pc = "query" BY fzHere DEF GetState, fzAt
<1>1. CASE fz' = Faulty(Finish(fz, a, "error"))
  <2>1. ~Pending(r) /\ r.pc \notin Freezing /\ (r.prog = "pause" => fz.conf.v # 1)
        /\ (r.prog = "update" => fz' = Faulty(Finish(fz, a, "error")))
        /\ (r.prog = "pause" => fz' = Faulty(Finish(fz, a, "error")))
    BY <1>0, <1>1 DEF Here, Runs, Pending, Freezing
  <2> QED BY <1>0, <1>1, <2>1, fzErrs DEF Here, Runs
<1>2. CASE fz' = To(fz, a, "self")
  <2>1. /\ Only(fz, fz', a, {"pc"}) /\ q.pc = "self" /\ SameCgroup(fz, fz')
        /\ fz'.faults = fz.faults
    BY <1>0, <1>2 DEF Here, Ok, Only, SameCgroup, To, fzFields, actFields
  <2>2. /\ q.prog = r.prog /\ q.ret = r.ret /\ q.thaw = r.thaw /\ q.seen = r.seen
        /\ q.result = r.result /\ fz'.conf = fz.conf
    BY <2>1 DEF Only, actFields
  <2>3. Local(fz, fz', a, r, q)
    BY <1>0, <2>1, <2>2 DEF Local, Here, Runs, Freezing, Alone, Rests, Pending, SameCgroup
  <2> QED BY <2>1, <2>3, fzMoves
<1>3. CASE fz.state = "THAWED" /\ fz' = [To(fz, a, "queried") EXCEPT !.act[a].seen = "THAWED"]
  <2>1. /\ Only(fz, fz', a, {"pc", "seen"}) /\ q.pc = "queried" /\ q.seen = "THAWED"
        /\ SameCgroup(fz, fz') /\ fz'.faults = fz.faults
    BY <1>0, <1>3 DEF Here, Ok, Only, SameCgroup, To, fzFields, actFields
  <2>2. /\ q.prog = r.prog /\ q.ret = r.ret /\ q.thaw = r.thaw /\ q.result = r.result
        /\ fz'.conf = fz.conf
    BY <2>1 DEF Only, actFields
  <2>3. Local(fz, fz', a, r, q)
    BY <1>0, <1>3, <2>1, <2>2 DEF Local, Here, Runs, Freezing, Alone, Rests, Pending, SameCgroup
  <2> QED BY <2>1, <2>3, fzMoves
<1> QED BY <1>1, <1>2, <1>3 DEF GetState

LEMMA selfFreezingStep == ASSUME fzInv, NEW a \in DOMAIN fz.act, selfFreezing(a) PROVE fzInv'
<1> DEFINE r == fz.act[a]
           q == fz'.act[a]
<1> USE DEF fzInv
<1>0. Here(fz, a) /\ r.pc = "self" BY fzHere DEF selfFreezing, fzAt
<1>1. CASE fz' = Faulty(Finish(fz, a, "error"))
  <2>1. ~Pending(r) /\ r.pc \notin Freezing /\ (r.prog = "pause" => fz.conf.v # 1)
        /\ (r.prog = "update" => fz' = Faulty(Finish(fz, a, "error")))
        /\ (r.prog = "pause" => fz' = Faulty(Finish(fz, a, "error")))
    BY <1>0, <1>1 DEF Here, Runs, Pending, Freezing
  <2> QED BY <1>0, <1>1, <2>1, fzErrs DEF Here, Runs
<1>2. CASE fz' = [To(fz, a, "queried") EXCEPT
                    !.act[a].seen = IF fz.self \/ fz.conf.old THEN "FROZEN" ELSE "THAWED"]
  <2>1. /\ Only(fz, fz', a, {"pc", "seen"}) /\ q.pc = "queried"
        /\ q.seen = (IF fz.self \/ fz.conf.old THEN "FROZEN" ELSE "THAWED")
        /\ SameCgroup(fz, fz') /\ fz'.faults = fz.faults
    BY <1>0, <1>2 DEF Here, Ok, Only, SameCgroup, To, fzFields, actFields
  <2>2. /\ q.prog = r.prog /\ q.ret = r.ret /\ q.thaw = r.thaw /\ q.result = r.result
        /\ fz'.conf = fz.conf
    BY <2>1 DEF Only, actFields
  <2>3. Local(fz, fz', a, r, q)
    BY <1>0, <2>1, <2>2 DEF Local, Here, Runs, Freezing, Alone, Rests, Pending, SameCgroup
  <2> QED BY <2>1, <2>3, fzMoves
<1> QED BY <1>1, <1>2 DEF selfFreezing

LEMMA getFreezerStateStep == ASSUME fzInv, NEW a \in DOMAIN fz.act, getFreezerState(a) PROVE fzInv'
<1> DEFINE r == fz.act[a]
           q == fz'.act[a]
<1> USE DEF fzInv
<1>0. Here(fz, a) /\ (r.pc = "state" \/ r.pc = "queried") BY fzHere DEF getFreezerState, fzAt
<1>1. CASE r.pc = "state" /\ fz' = To(fz, a, "query")
  <2>1. /\ Only(fz, fz', a, {"pc"}) /\ q.pc = "query" /\ SameCgroup(fz, fz')
        /\ fz'.faults = fz.faults
    BY <1>0, <1>1 DEF Here, Ok, Only, SameCgroup, To, fzFields, actFields
  <2>2. /\ q.prog = r.prog /\ q.ret = r.ret /\ q.thaw = r.thaw /\ q.seen = r.seen
        /\ q.result = r.result /\ fz'.conf = fz.conf
    BY <2>1 DEF Only, actFields
  <2>3. Local(fz, fz', a, r, q)
    BY <1>0, <1>1, <2>1, <2>2 DEF Local, Here, Runs, Freezing, Alone, Rests, Pending, SameCgroup
  <2> QED BY <2>1, <2>3, fzMoves
<1>2. CASE r.prog = "state" /\ fz' = Finish(fz, a, "ok")
  <2>1. /\ Only(fz, fz', a, {"pc", "result"}) /\ q.pc = "done" /\ q.result = "ok"
        /\ SameCgroup(fz, fz') /\ fz'.faults = fz.faults
    BY <1>0, <1>2 DEF Here, Ok, Only, SameCgroup, Finish, fzFields, actFields
  <2>2. /\ q.prog = r.prog /\ q.ret = r.ret /\ q.thaw = r.thaw /\ q.seen = r.seen
        /\ fz'.conf = fz.conf
    BY <2>1 DEF Only, actFields
  <2>3. Local(fz, fz', a, r, q)
    BY <1>0, <1>2, <2>1, <2>2 DEF Local, Here, Runs, Freezing, Alone, Rests, Pending, SameCgroup
  <2> QED BY <2>1, <2>3, fzMoves
<1>3. CASE r.pc = "state" /\ fz' = Faulty(Finish(fz, a, "error"))
  <2>1. ~Pending(r) /\ r.pc \notin Freezing /\ (r.prog = "pause" => fz.conf.v # 1)
        /\ (r.prog = "update" => fz' = Faulty(Finish(fz, a, "error")))
        /\ (r.prog = "pause" => fz' = Faulty(Finish(fz, a, "error")))
    BY <1>0, <1>3 DEF Here, Runs, Pending, Freezing
  <2> QED BY <1>0, <1>3, <2>1, fzErrs DEF Here, Runs
<1>4. CASE r.pc = "state" /\ fz' = [To(fz, a, "readback") EXCEPT !.act[a].seen = "any"]
  <2>1. /\ Only(fz, fz', a, {"pc", "seen"}) /\ q.pc = "readback" /\ q.seen = "any"
        /\ SameCgroup(fz, fz') /\ fz'.faults = fz.faults
    BY <1>0, <1>4 DEF Here, Ok, Only, SameCgroup, To, fzFields, actFields
  <2>2. /\ q.prog = r.prog /\ q.ret = r.ret /\ q.thaw = r.thaw /\ q.result = r.result
        /\ fz'.conf = fz.conf
    BY <2>1 DEF Only, actFields
  <2>3. Local(fz, fz', a, r, q)
    BY <1>0, <1>4, <2>1, <2>2 DEF Local, Here, Runs, Freezing, Alone, Rests, Pending, SameCgroup
  <2> QED BY <2>1, <2>3, fzMoves
<1> QED BY <1>1, <1>2, <1>3, <1>4 DEF getFreezerState, fzAt

LEMMA freezeBeforeSetStep == ASSUME fzInv, NEW a \in DOMAIN fz.act, freezeBeforeSet(a) PROVE fzInv'
<1> DEFINE r == fz.act[a]
           q == fz'.act[a]
<1> USE DEF fzInv
<1>0. Here(fz, a) /\ r.pc = "update" BY fzHere DEF freezeBeforeSet, fzAt
<1>1. CASE fz' = To(fz, a, "props")
  <2>1. /\ Only(fz, fz', a, {"pc"}) /\ q.pc = "props" /\ SameCgroup(fz, fz')
        /\ fz'.faults = fz.faults
    BY <1>0, <1>1 DEF Here, Ok, Only, SameCgroup, To, fzFields, actFields
  <2>2. /\ q.prog = r.prog /\ q.ret = r.ret /\ q.thaw = r.thaw /\ q.seen = r.seen
        /\ q.result = r.result /\ fz'.conf = fz.conf
    BY <2>1 DEF Only, actFields
  <2>3. Local(fz, fz', a, r, q)
    BY <1>0, <2>1, <2>2 DEF Local, Here, Runs, Freezing, Alone, Rests, Pending, SameCgroup
  <2> QED BY <2>1, <2>3, fzMoves
<1>2. CASE fz' = To(fz, a, "query")
  <2>1. /\ Only(fz, fz', a, {"pc"}) /\ q.pc = "query" /\ SameCgroup(fz, fz')
        /\ fz'.faults = fz.faults
    BY <1>0, <1>2 DEF Here, Ok, Only, SameCgroup, To, fzFields, actFields
  <2>2. /\ q.prog = r.prog /\ q.ret = r.ret /\ q.thaw = r.thaw /\ q.seen = r.seen
        /\ q.result = r.result /\ fz'.conf = fz.conf
    BY <2>1 DEF Only, actFields
  <2>3. Local(fz, fz', a, r, q)
    BY <1>0, <2>1, <2>2 DEF Local, Here, Runs, Freezing, Alone, Rests, Pending, SameCgroup
  <2> QED BY <2>1, <2>3, fzMoves
<1> QED BY <1>1, <1>2 DEF freezeBeforeSet

LEMMA freezeForSetStep == ASSUME fzInv, NEW a \in DOMAIN fz.act, freezeForSet(a) PROVE fzInv'
<1> DEFINE r == fz.act[a]
           q == fz'.act[a]
<1> USE DEF fzInv
<1>0. Here(fz, a) /\ r.pc = "queried" /\ r.prog = "update" BY fzHere DEF freezeForSet, fzAt
<1>1. CASE fz' = [To(fz, a, IF r.seen = "FROZEN" THEN "props" ELSE "attempt") EXCEPT
                    !.act[a].ret = "props", !.act[a].thaw = needsThaw(r.seen, fz.conf.freezer)]
  <2>1. /\ Only(fz, fz', a, {"pc", "ret", "thaw"})
        /\ q.pc = (IF r.seen = "FROZEN" THEN "props" ELSE "attempt") /\ q.ret = "props"
        /\ q.thaw = needsThaw(r.seen, fz.conf.freezer) /\ SameCgroup(fz, fz')
        /\ fz'.faults = fz.faults
    BY <1>0, <1>1 DEF Here, Ok, Only, SameCgroup, To, fzFields, actFields
  <2>2. /\ q.prog = r.prog /\ q.seen = r.seen /\ q.result = r.result
        /\ fz'.conf = fz.conf
    BY <2>1 DEF Only, actFields
  <2>3. Local(fz, fz', a, r, q)
    <3>1. Runs(fz.conf, q) BY <1>0, <2>1, <2>2 DEF Here, Runs, Freezing
    <3>2. Writers(fz) = {a} => Alone(fz', q)
      BY <1>0, <2>1, <2>2 DEF Alone
    <3>3. fz.conf.freezer = "" /\ r.prog = "update" /\ Rests(fz, r) =>
            /\ Rests(fz', q)
            /\ ~fz.conf.frozen /\ fz'.self => Pending(q) \/ (fz.self /\ (Pending(r) => Pending(q)))
      BY <1>0, <2>1, <2>2 DEF Here, Runs, Freezing, Rests, Pending, SameCgroup, needsThaw
    <3> QED BY <1>0, <2>1, <3>1, <3>2, <3>3 DEF Local, Here, SameCgroup
  <2> QED BY <2>1, <2>3, fzMoves
<1> QED BY <1>1 DEF freezeForSet

LEMMA setUnitPropsStep == ASSUME fzInv, NEW a \in DOMAIN fz.act, setUnitProps(a) PROVE fzInv'
<1> DEFINE r == fz.act[a]
           q == fz'.act[a]
<1> USE DEF fzInv
<1>0. Here(fz, a) /\ r.pc = "props" BY fzHere DEF setUnitProps, fzAt
<1>1. CASE fz' = [Faulty(To(fz, a, "thaw")) EXCEPT !.act[a].result = "error"]
  <2>1. /\ Only(fz, fz', a, {"pc", "result"}) /\ q.pc = "thaw" /\ q.result = "error"
        /\ SameCgroup(fz, fz') /\ fz'.faults \in Nat \ {0}
    <3> DEFINE u == To(fz, a, "thaw")
               v == Faulty(u)
    <3>1. Ok(fz, a) /\ fz.faults \in Nat /\ fz' = [v EXCEPT !.act[a].result = "error"]
      BY <1>0, <1>1 DEF Here
    <3>2. /\ Only(fz, u, a, {"pc"}) /\ u.act[a].pc = "thaw" /\ SameCgroup(fz, u)
          /\ u.faults = fz.faults
      BY SMT, <3>1, ToIs
    <3> HIDE DEF u
    <3>3. /\ Only(fz, v, a, {"pc"}) /\ v.act[a].pc = "thaw" /\ SameCgroup(fz, v)
          /\ v.faults \in Nat \ {0}
      BY SMT, <3>1, <3>2, FaultyAfter
    <3> HIDE DEF v
    <3>4. /\ Only(v, fz', a, {"result"}) /\ q.result = "error" /\ SameCgroup(v, fz')
          /\ fz'.faults = v.faults /\ q.pc = v.act[a].pc
      BY <3>1, <3>3 DEF Ok, Only, SameCgroup, fzFields, actFields
    <3>5. Only(fz, fz', a, {"pc", "result"}) BY <3>1, <3>3, <3>4 DEF Ok, Only
    <3> QED BY <3>3, <3>4, <3>5 DEF SameCgroup
  <2>2. /\ q.prog = r.prog /\ q.ret = r.ret /\ q.thaw = r.thaw /\ q.seen = r.seen
        /\ fz'.conf = fz.conf
    BY <2>1 DEF Only, actFields
  <2>3. Local(fz, fz', a, r, q)
    <3>1. Runs(fz.conf, q) BY <1>0, <2>1, <2>2 DEF Here, Runs, Freezing
    <3>2. Writers(fz) = {a} => Alone(fz', q)
      BY <1>0, <2>1, <2>2 DEF Here, Runs, Freezing, Alone, SameCgroup
    <3>3. fz.conf.freezer = "" /\ r.prog = "update" /\ Rests(fz, r) =>
            /\ Rests(fz', q)
            /\ ~fz.conf.frozen /\ fz'.self => Pending(q) \/ (fz.self /\ (Pending(r) => Pending(q)))
      BY <1>0, <2>1, <2>2 DEF Here, Runs, Freezing, Rests, Pending, SameCgroup
    <3> QED BY <1>0, <2>1, <3>1, <3>2, <3>3 DEF Local, Here, SameCgroup
  <2> QED BY <2>1, <2>3, fzMoves
<1>2. CASE fz' = To(fz, a, "thaw")
  <2>1. /\ Only(fz, fz', a, {"pc"}) /\ q.pc = "thaw" /\ SameCgroup(fz, fz')
        /\ fz'.faults = fz.faults
    BY <1>0, <1>2 DEF Here, Ok, Only, SameCgroup, To, fzFields, actFields
  <2>2. /\ q.prog = r.prog /\ q.ret = r.ret /\ q.thaw = r.thaw /\ q.seen = r.seen
        /\ q.result = r.result /\ fz'.conf = fz.conf
    BY <2>1 DEF Only, actFields
  <2>3. Local(fz, fz', a, r, q)
    BY <1>0, <2>1, <2>2 DEF Local, Here, Runs, Freezing, Alone, Rests, Pending, SameCgroup
  <2> QED BY <2>1, <2>3, fzMoves
<1> QED BY <1>1, <1>2 DEF setUnitProps

LEMMA thawAfterSetStep == ASSUME fzInv, NEW a \in DOMAIN fz.act, thawAfterSet(a) PROVE fzInv'
<1> DEFINE r == fz.act[a]
           q == fz'.act[a]
<1> USE DEF fzInv
<1>0. Here(fz, a) /\ r.pc = "thaw" BY fzHere DEF thawAfterSet, fzAt
<1>w. Written(fz, "THAWED").act = fz.act BY <1>0 DEF Here, Ok, Written, fzFields
<1>1. CASE r.thaw /\ r.result = "error" /\ fz' = Finish(Written(fz, "THAWED"), a, "error")
  <2>1. /\ Only(fz, fz', a, {"pc", "result"}) /\ q.pc = "done" /\ q.result = "error"
        /\ fz'.self = FALSE /\ fz'.state \in {"THAWED", "FREEZING", "FROZEN"}
        /\ fz'.faults = fz.faults
    BY <1>0, <1>1 DEF Here, Ok, Only, Written, Finish, fzFields, actFields
  <2>2. /\ q.prog = r.prog /\ q.ret = r.ret /\ q.thaw = r.thaw /\ q.seen = r.seen
        /\ fz'.conf = fz.conf
    BY <2>1 DEF Only, actFields
  <2>3. Local(fz, fz', a, r, q)
    BY <1>0, <1>1, <2>1, <2>2 DEF Local, Here, Runs, Freezing, Alone, Rests, Pending, SameCgroup
  <2> QED BY <2>1, <2>3, fzMoves
<1>2. CASE r.thaw /\ r.result # "error" /\ fz' = To(Written(fz, "THAWED"), a, "subsystems")
  <2>1. /\ Only(fz, fz', a, {"pc"}) /\ q.pc = "subsystems" /\ fz'.self = FALSE
        /\ fz'.state \in {"THAWED", "FREEZING", "FROZEN"} /\ fz'.faults = fz.faults
    BY <1>0, <1>2 DEF Here, Ok, Only, Written, To, fzFields, actFields
  <2>2. /\ q.prog = r.prog /\ q.ret = r.ret /\ q.thaw = r.thaw /\ q.seen = r.seen
        /\ q.result = r.result /\ fz'.conf = fz.conf
    BY <2>1 DEF Only, actFields
  <2>3. Local(fz, fz', a, r, q)
    BY <1>0, <1>2, <2>1, <2>2 DEF Local, Here, Runs, Freezing, Alone, Rests, Pending, SameCgroup
  <2> QED BY <2>1, <2>3, fzMoves
<1>3. CASE ~r.thaw /\ r.result = "error" /\ fz' = Finish(fz, a, "error")
  <2>1. /\ Only(fz, fz', a, {"pc", "result"}) /\ q.pc = "done" /\ q.result = "error"
        /\ SameCgroup(fz, fz') /\ fz'.faults = fz.faults
    BY <1>0, <1>3 DEF Here, Ok, Only, SameCgroup, Finish, fzFields, actFields
  <2>2. /\ q.prog = r.prog /\ q.ret = r.ret /\ q.thaw = r.thaw /\ q.seen = r.seen
        /\ fz'.conf = fz.conf
    BY <2>1 DEF Only, actFields
  <2>3. Local(fz, fz', a, r, q)
    <3>0. r.thaw # TRUE BY <1>3
    <3>1. Runs(fz.conf, q) BY <1>0, <1>3, <2>1, <2>2 DEF Here, Runs, Freezing
    <3>2. Writers(fz) = {a} => Alone(fz', q)
      BY <1>0, <1>3, <2>1, <2>2 DEF Here, Runs, Freezing, Alone, SameCgroup
    <3>3. fz.conf.freezer = "" /\ r.prog = "update" /\ Rests(fz, r) =>
            /\ Rests(fz', q)
            /\ ~fz.conf.frozen /\ fz'.self => Pending(q) \/ (fz.self /\ (Pending(r) => Pending(q)))
      BY <1>0, <3>0, <2>1, <2>2 DEF Freezing, Rests, Pending, SameCgroup
    <3> QED BY <1>0, <2>1, <3>1, <3>2, <3>3 DEF Local, Here, SameCgroup
  <2> QED BY <2>1, <2>3, fzMoves
<1>4. CASE ~r.thaw /\ r.result # "error" /\ fz' = To(fz, a, "subsystems")
  <2>1. /\ Only(fz, fz', a, {"pc"}) /\ q.pc = "subsystems" /\ SameCgroup(fz, fz')
        /\ fz'.faults = fz.faults
    BY <1>0, <1>4 DEF Here, Ok, Only, SameCgroup, To, fzFields, actFields
  <2>2. /\ q.prog = r.prog /\ q.ret = r.ret /\ q.thaw = r.thaw /\ q.seen = r.seen
        /\ q.result = r.result /\ fz'.conf = fz.conf
    BY <2>1 DEF Only, actFields
  <2>3. Local(fz, fz', a, r, q)
    <3>1. Runs(fz.conf, q) BY <1>0, <1>4, <2>1, <2>2 DEF Here, Runs, Freezing
    <3>2. Writers(fz) = {a} => Alone(fz', q)
      BY <1>0, <1>4, <2>1, <2>2 DEF Here, Runs, Freezing, Alone, SameCgroup
    <3>3. fz.conf.freezer = "" /\ r.prog = "update" /\ Rests(fz, r) =>
            /\ Rests(fz', q)
            /\ ~fz.conf.frozen /\ fz'.self => Pending(q) \/ (fz.self /\ (Pending(r) => Pending(q)))
      BY <1>0, <1>4, <2>1, <2>2 DEF Freezing, Rests, Pending, SameCgroup
    <3> QED BY <1>0, <2>1, <3>1, <3>2, <3>3 DEF Local, Here, SameCgroup
  <2> QED BY <2>1, <2>3, fzMoves
<1> QED BY SMT, <1>w, <1>1, <1>2, <1>3, <1>4 DEF thawAfterSet

LEMMA setSubsystemsStep == ASSUME fzInv, NEW a \in DOMAIN fz.act, setSubsystems(a) PROVE fzInv'
<1> DEFINE r == fz.act[a]
           q == fz'.act[a]
<1> USE DEF fzInv
<1>0. Here(fz, a) /\ r.pc = "subsystems" BY fzHere DEF setSubsystems, fzAt
<1>w. Here(fz, a) BY <1>0
<1>1. CASE fz.conf.freezer = "" /\ fz' = Finish(fz, a, "ok")
  <2>1. /\ Only(fz, fz', a, {"pc", "result"}) /\ q.pc = "done" /\ q.result = "ok"
        /\ SameCgroup(fz, fz') /\ fz'.faults = fz.faults
    BY <1>0, <1>1 DEF Here, Ok, Only, SameCgroup, Finish, fzFields, actFields
  <2>2. /\ q.prog = r.prog /\ q.ret = r.ret /\ q.thaw = r.thaw /\ q.seen = r.seen
        /\ fz'.conf = fz.conf
    BY <2>1 DEF Only, actFields
  <2>3. Local(fz, fz', a, r, q)
    <3>1. Runs(fz.conf, q) BY <1>0, <1>1, <2>1, <2>2 DEF Here, Runs, Freezing
    <3>2. Writers(fz) = {a} => Alone(fz', q)
      BY <1>0, <1>1, <2>1, <2>2 DEF Here, Runs, Freezing, Alone, SameCgroup
    <3>3. fz.conf.freezer = "" /\ r.prog = "update" /\ Rests(fz, r) =>
            /\ Rests(fz', q)
            /\ ~fz.conf.frozen /\ fz'.self => Pending(q) \/ (fz.self /\ (Pending(r) => Pending(q)))
      BY <1>0, <2>1, <2>2 DEF Freezing, Rests, Pending, SameCgroup
    <3> QED BY <1>0, <2>1, <3>1, <3>2, <3>3 DEF Local, Here, SameCgroup
  <2> QED BY <2>1, <2>3, fzMoves
<1>2. CASE fz.conf.freezer = "THAWED" /\ fz' = Finish(Written(fz, "THAWED"), a, "ok")
  <2>1. /\ Only(fz, fz', a, {"pc", "result"}) /\ q.pc = "done" /\ q.result = "ok"
        /\ fz'.self = FALSE /\ fz'.state \in {"THAWED", "FREEZING", "FROZEN"}
        /\ fz'.faults = fz.faults
    BY <1>0, <1>2 DEF Here, Ok, Only, Written, Finish, fzFields, actFields
  <2>2. /\ q.prog = r.prog /\ q.ret = r.ret /\ q.thaw = r.thaw /\ q.seen = r.seen
        /\ fz'.conf = fz.conf
    BY <2>1 DEF Only, actFields
  <2>3. Local(fz, fz', a, r, q)
    BY <1>0, <1>2, <2>1, <2>2 DEF Local, Here, Runs, Freezing, Alone, Rests, Pending, SameCgroup
  <2> QED BY <2>1, <2>3, fzMoves
<1>3. CASE /\ fz.conf.freezer = "FROZEN"
           /\ fz' = [To(fz, a, "attempt") EXCEPT !.act[a].ret = "done", !.act[a].i = 0]
  <2>1. /\ Only(fz, fz', a, {"pc", "i", "ret"}) /\ q.pc = "attempt" /\ q.ret = "done"
        /\ SameCgroup(fz, fz') /\ fz'.faults = fz.faults
    BY <1>0, <1>3 DEF Here, Ok, Only, SameCgroup, To, fzFields, actFields
  <2>2. /\ q.prog = r.prog /\ q.thaw = r.thaw /\ q.seen = r.seen /\ q.result = r.result
        /\ fz'.conf = fz.conf
    BY <2>1 DEF Only, actFields
  <2>3. Local(fz, fz', a, r, q)
    BY <1>0, <1>3, <2>1, <2>2 DEF Local, Here, Runs, Freezing, Alone, Rests, Pending, SameCgroup
  <2> QED BY <2>1, <2>3, fzMoves
<1> QED BY <1>w, <1>1, <1>2, <1>3 DEF Here, setSubsystems
LEMMA kernelFreezesStep == ASSUME fzInv, kernelFreezes PROVE fzInv'
<1> USE DEF fzInv
<1>1. /\ DOMAIN fz' = DOMAIN fz /\ fz'.pc = fz.pc /\ fz'.conf = fz.conf /\ fz'.self = fz.self
      /\ fz'.act = fz.act /\ fz'.faults = fz.faults /\ fz'.state = "FROZEN"
  BY DEF kernelFreezes, fzGood, fzShaped, fzFields
<1>2. Writers(fz') = Writers(fz) BY <1>1 DEF Writers
<1>3. fzShaped(fz') BY <1>1 DEF fzGood, fzShaped
<1>4. Restoring(fz')
  <2>1. \A r : Rests(fz, r) => Rests(fz', r) BY <1>1 DEF Rests
  <2> QED BY <1>1, <1>2, <2>1 DEF fzGood, Restoring
<1>5. \A r : Alone(fz, r) => Alone(fz', r) BY <1>1 DEF Alone
<1> QED BY <1>1, <1>2, <1>3, <1>4, <1>5 DEF fzGood

LEMMA fzInitHolds == fzInit => fzInv
<1> SUFFICES ASSUME fzInit PROVE fzInv
  OBVIOUS
<1>1. PICK conf \in fzConfs :
        fz = [pc |-> "on", conf |-> conf, self |-> conf.frozen,
              state |-> IF conf.frozen \/ conf.parent THEN "FROZEN" ELSE "THAWED",
              act |-> [a \in DOMAIN conf.progs |-> fzStart(conf.progs[a])], faults |-> 0]
  BY DEF fzInit
<1>2. /\ fzFields \subseteq DOMAIN fz /\ fz.pc = "on" /\ fz.conf = conf /\ fz.self = conf.frozen
      /\ fz.state = (IF conf.frozen \/ conf.parent THEN "FROZEN" ELSE "THAWED")
      /\ fz.act = [a \in DOMAIN conf.progs |-> fzStart(conf.progs[a])] /\ fz.faults = 0
  BY <1>1 DEF fzFields
<1>3. /\ conf.frozen \in BOOLEAN
      /\ \A b \in DOMAIN conf.progs : conf.progs[b] \in {"pause", "resume", "state", "update"}
  BY fzAssumption
<1>4. DOMAIN fz.act = DOMAIN conf.progs BY <1>2
<1>5. \A b \in DOMAIN fz.act :
        /\ actFields \subseteq DOMAIN fz.act[b] /\ fz.act[b].pc = fz.act[b].prog
        /\ fz.act[b].prog \in {"pause", "resume", "state", "update"}
        /\ fz.act[b].ret = "done" /\ fz.act[b].thaw = FALSE
  BY SMT, <1>2, <1>3, <1>4 DEF fzStart, actFields
<1>6. fzShaped(fz)
  <2>1. \A b \in DOMAIN fz.act : Runs(fz.conf, fz.act[b]) BY <1>5 DEF Runs, Freezing
  <2>2. fz.state \in {"THAWED", "FREEZING", "FROZEN"} /\ fz.self \in BOOLEAN /\ fz.faults \in Nat
    BY SMT, <1>2, <1>3
  <2> QED BY <1>2, <1>5, <2>1, <2>2, Zenon DEF fzShaped
<1>7. Restoring(fz) BY <1>2, <1>5 DEF Restoring, Rests, Writers, Freezing
<1>8. \A b \in Writers(fz) : Alone(fz, fz.act[b]) BY <1>5 DEF Alone, Writers
<1> QED BY <1>6, <1>7, <1>8 DEF fzInv, fzGood

LEMMA fzNextHolds == fzInv /\ [fzNext]_fz => fzInv'
<1> SUFFICES ASSUME fzInv, [fzNext]_fz PROVE fzInv'
  OBVIOUS
<1>1. CASE UNCHANGED fz BY <1>1 DEF fzInv
<1>2. CASE kernelFreezes BY <1>2, kernelFreezesStep
<1>3. ASSUME NEW a \in DOMAIN fz.act, fzStep(a) PROVE fzInv'
  BY ZenonT(20), <1>3, freezeAttemptStep, freezeWriteStep, freezeReadStep, freezeGiveUpStep, readFreezer2Step,
     waitFrozenStep, pauseContainerStep, resumeContainerStep, GetStateStep, selfFreezingStep,
     getFreezerStateStep, freezeBeforeSetStep, freezeForSetStep, setUnitPropsStep,
     thawAfterSetStep, setSubsystemsStep DEF fzStep
<1> QED BY <1>1, <1>2, <1>3 DEF fzNext

\* Updates put the container back as they found it, and a pause or a resume that is
\* alone gets what it asked for, for every bound on the attempts and on the failing
\* accesses, every mix of overlapping programs and however slow the kernel is.
THEOREM FreezerRestores == fzSpec => []FreezerRestored
<1>1. fzInv => FreezerRestored
  <2> SUFFICES ASSUME fzInv, FreezerDone PROVE FreezerRestored
    BY DEF FreezerRestored
  <2>1. FreezerWriters = Writers(fz) /\ \A b \in Writers(fz) : fz.act[b].pc = "done"
    BY DEF FreezerWriters, Writers, FreezerDone
  <2>2. fz.conf \in fzConfs /\ fz.self \in BOOLEAN /\ fz.conf.frozen \in BOOLEAN
    BY fzAssumption DEF fzInv, fzGood, fzShaped
  <2>3. ASSUME fz.conf.freezer = "", \A b \in Writers(fz) : fz.act[b].prog = "update"
        PROVE  fz.self = fz.conf.frozen
    <3>1. ~\E b \in Writers(fz) : Pending(fz.act[b]) BY <2>1 DEF Pending, Freezing
    <3>2. /\ fz.conf.frozen => fz.self
          /\ ~fz.conf.frozen /\ fz.self => \E b \in Writers(fz) : Pending(fz.act[b])
      BY <2>3 DEF fzInv, fzGood, Restoring
    <3> QED BY SMT, <2>2, <3>1, <3>2
  <2>4. \A b \in Writers(fz) : Writers(fz) = {b} => Alone(fz, fz.act[b]) /\ fz.act[b].pc = "done"
    BY <2>1 DEF fzInv, fzGood
  <2>5. Writers(fz) = {1} => Alone(fz, fz.act[1]) /\ fz.act[1].pc = "done" BY <2>4
  <2> QED BY <2>1, <2>3, <2>4, <2>5 DEF FreezerRestored, Alone
<1> QED BY <1>1, fzInitHolds, fzNextHolds, PTL DEF fzSpec
=============================================================================
