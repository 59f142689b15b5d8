----------------------------- MODULE ClonedBinary ---------------------------
(***************************************************************************)
(* runc init runs a copy of its own binary (cloned_binary.c): a read-only   *)
(* bind mount of it if that can be made, else a memfd, a nameless file or a *)
(* file that is unlinked, which it fills and executes in its place.  The    *)
(* new program starts over and must find that it is the copy.               *)
(*                                                                          *)
(* A file that can be executed has its seals, whether it is on a read-only  *)
(* mount, its number of links and how much of the binary it holds.          *)
(***************************************************************************)
EXTENDS Integers

CONSTANTS cbConfs,  \* the kernels and binaries to consider: see cbInit
          cbSize,   \* size of the binary
          cbFaults  \* bound: failing calls

\* The binary is whole, and sealed only if it is a memfd of clone_binary.
ASSUME cbAssumption ==
  /\ cbSize \in Nat \ {0} /\ cbFaults \in Nat
  /\ cbConfs \subseteq [exe : [seals : {"no", "all"}, ro : BOOLEAN, links : {0, 1}, size : {cbSize}],
                        env : BOOLEAN, priv : BOOLEAN, memfd : BOOLEAN, tmpfile : BOOLEAN]

VARIABLE cb

cbOff == [pc |-> "off"]
NoFile == [seals |-> "no", ro |-> FALSE, links |-> 0, size |-> 0]
cbInit == \E c \in cbConfs :
  cb = [pc |-> "check", conf |-> c, exe |-> c.exe, env |-> c.env, fd |-> NoFile, type |-> "none",
        mounted |-> FALSE, named |-> FALSE, left |-> {}, execs |-> 0, faults |-> 0]

cbAt(l) == cb.pc = l
cbGo(s, l) == [s EXCEPT !.pc = l]
cbFail(s, l) == cb.faults < cbFaults /\ cb' = [s EXCEPT !.pc = l, !.faults = @ + 1]
cbStep(s, l, err) == cb' = cbGo(s, l) \/ cbFail(cb, err)

\* mutant of is_self_cloned: only a sealed memfd is a copy
is_self_clonedSeals(exe, env, ro, links) == exe.seals = "all"

\* A sealed memfd is one whoever made it; else the environment must say so, and
\* the file is on a read-only mount or has no name.
is_self_cloned(exe, env, ro, links) ==
  IF exe.seals # "no" THEN exe.seals = "all" ELSE env /\ (ro \/ links = 0)

\* fstatfs and fstat may fail, which is not an error
checkCloned ==
  /\ cbAt("check")
  /\ \/ \E ro \in BOOLEAN, links \in 0 .. 1 :
          LET lost == ro # cb.exe.ro \/ links # cb.exe.links
              s == [cb EXCEPT !.faults = IF lost THEN @ + 1 ELSE @]
          IN /\ ro => cb.exe.ro
             /\ links = 0 => cb.exe.links = 0
             /\ lost => cb.faults < cbFaults
             /\ cb' = IF is_self_cloned(cb.exe, cb.env, ro, links) THEN cbGo(s, "done")
                      ELSE cbGo(s, "argv")
     \/ cbFail(cb, "failed")

fetchve == cbAt("argv") /\ cbStep(cb, "mkstemp", "failed")

----------------------------------------------------------------------------
(* try_bindfd.                                                              *)

bindTemplate == cbAt("mkstemp") /\ cbStep([cb EXCEPT !.named = TRUE], "bind", "memfd")
bindMount ==
  /\ cbAt("bind")
  /\ IF cb.conf.priv THEN cbStep([cb EXCEPT !.mounted = TRUE], "remount", "unlink")
     ELSE cb' = cbGo(cb, "unlink")
bindReadonly == cbAt("remount") /\ cbStep(cb, "openPath", "umount")
bindOpen == /\ cbAt("openPath")
            /\ cbStep([cb EXCEPT !.fd = [cb.exe EXCEPT !.ro = TRUE], !.type = "bind"],
                      "umount", "umount")
\* a mount that cannot be detached could be made writable again: not used
bindUmount ==
  /\ cbAt("umount")
  /\ \/ cb' = [cb EXCEPT !.pc = "unlink", !.mounted = FALSE]
     \/ cbFail([cb EXCEPT !.fd = NoFile, !.type = "none", !.left = @ \cup {"mount"}], "unlink")
bindUnlink ==
  LET next == IF cb.type = "bind" THEN "exec" ELSE "memfd" IN
  /\ cbAt("unlink")
  /\ \/ cb' = [cb EXCEPT !.pc = next, !.named = FALSE]
     \/ cbFail([cb EXCEPT !.left = @ \cup {"file"}], next)

----------------------------------------------------------------------------
(* clone_binary: a file of its own, filled and sealed.                      *)

make_execfd ==
  \/ /\ cbAt("memfd")
     /\ IF cb.conf.memfd
        THEN cbStep([cb EXCEPT !.type = "memfd", !.fd = [NoFile EXCEPT !.seals = "some"]],
                    "copy", "failed")
        ELSE cb' = cbGo(cb, "tmpfile")
  \/ /\ cbAt("tmpfile")
     /\ IF cb.conf.tmpfile THEN cbStep([cb EXCEPT !.type = "file", !.fd = NoFile], "copy", "failed")
        ELSE cbStep([cb EXCEPT !.type = "file", !.named = TRUE], "unlinkCopy", "failed")
  \/ /\ cbAt("unlinkCopy")
     /\ \/ cb' = [cb EXCEPT !.pc = "copy", !.named = FALSE, !.fd = NoFile]
        \/ cbFail([cb EXCEPT !.left = @ \cup {"file"}], "failed")

\* read and write until the end of the binary
fd_to_fd(s) == [s EXCEPT !.fd.size = cbSize]
\* sendfile sends some of the rest; when it fails, all of it is read and written
copyBinary ==
  /\ cbAt("copy") /\ cb.fd.size < cbSize
  /\ \/ \E n \in 1 .. cbSize - cb.fd.size : cb' = [cb EXCEPT !.fd.size = @ + n]
     \/ cbFail(fd_to_fd(cb), "copy")
     \/ cbFail(cb, "failed")
seal_execfd ==
  /\ cbAt("copy") /\ cb.fd.size = cbSize
  /\ cbStep(IF cb.type = "memfd" THEN [cb EXCEPT !.fd.seals = "all"] ELSE cb, "exec", "failed")

\* putenv and fexecve: the copy starts with the environment set
execClone ==
  /\ cbAt("exec")
  /\ \/ cb' = [cb EXCEPT !.pc = "check", !.exe = cb.fd, !.env = TRUE, !.fd = NoFile,
                         !.type = "none", !.execs = @ + 1]
     \/ cbFail(cb, "failed")

cbNext == checkCloned \/ fetchve \/ bindTemplate \/ bindMount \/ bindReadonly \/ bindOpen
          \/ bindUmount \/ bindUnlink \/ make_execfd \/ copyBinary \/ seal_execfd \/ execClone

cbSpec == cbInit /\ [][cbNext]_cb

----------------------------------------------------------------------------
\* runc init runs from a whole copy that nobody can reach or write to, or was
\* started from one; it is executed once, and again only when a call failed that
\* tells a copy from the binary; and neither the mount nor a file that was made
\* on the way stays behind unless the call that removes it failed
\* (is_self_cloned knows whatever clone_binary makes).
RunsFromCopy ==
  /\ cb.pc = "done" => /\ cb.exe.size = cbSize
                       /\ cb.exe.seals = "all" \/ cb.exe.ro \/ cb.exe.links = 0
  /\ cb.pc # "off" => cb.execs <= 1 + cb.faults
  /\ cb.pc \in {"done", "failed"} => /\ cb.mounted => "mount" \in cb.left
                                     /\ cb.named => "file" \in cb.left
=============================================================================
