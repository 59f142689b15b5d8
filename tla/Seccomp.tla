------------------------------ MODULE Seccomp ------------------------------
(***************************************************************************)
(* The seccomp filter of a container: specconv.SetupSeccomp, InitSeccomp    *)
(* (libcontainer/seccomp) and the stub that patchbpf puts in front of the   *)
(* filter of libseccomp, so that system calls newer than the profile give   *)
(* ENOSYS.  libseccomp is external: it knows the number of a name on each   *)
(* architecture (negative: the architecture lacks the call) and its filter  *)
(* is what its rules say.                                                   *)
(***************************************************************************)
EXTENDS Integers, Sequences, FiniteSets, FiniteSetsExt

CONSTANTS scConfs,      \* the configurations to consider: see scInit
          scNumbers,    \* libseccomp's tables: architecture -> name -> number
          scNative,     \* the architecture of the machine
          scBit,        \* the bit that marks a system call of x32 (1 << 30)
          scSkip,       \* the longest conditional jump (255)
          scPipe,       \* the capacity of a pipe, in units of the exported filter
          scSize,       \* the size of the exported filter
          scFaults      \* bound: calls that fail

VARIABLE sc             \* the state of one call of InitSeccomp

\* the ENOSYS return value: a whole action, not an errno
retErrnoEnosys == "ACT_ERRNO|ENOSYS"

----------------------------------------------------------------------------
(* The filter.                                                              *)

\* an action with its errno, EPERM unless the profile gives one
getAction(act, errnoRet) ==
  CASE act \in {"kill", "killThread"} -> <<"killThread">>
    [] act \in {"errno", "trace"} -> <<act, IF errnoRet = "nil" THEN "EPERM" ELSE errnoRet>>
    [] OTHER -> <<act>>

DefaultAction(conf) == getAction(conf.default, conf.errnoRet)

\* the conditions of a call, all of which a rule demands; two on the same
\* argument make a rule of each
Conditions(args) ==
  IF \E i, j \in DOMAIN args : i # j /\ args[i].index = args[j].index
  THEN {{args[i]} : i \in DOMAIN args}
  ELSE {{args[i] : i \in DOMAIN args}}

\* a rule that does what the default does is skipped, as is one whose name
\* this libseccomp does not know
matchCall(conf, call) ==
  IF getAction(call.act, call.errnoRet) # DefaultAction(conf)
     /\ call.name \in DOMAIN scNumbers[scNative]
  THEN {[name |-> call.name, act |-> getAction(call.act, call.errnoRet), conds |-> c] :
          c \in Conditions(call.args)}
  ELSE {}

\* what the filter of libseccomp does: the architecture of the machine is
\* always part of it
filterDoes(conf, rules, arch, nr, args) ==
  IF arch \notin {scNative} \cup {conf.archs[i] : i \in DOMAIN conf.archs} THEN <<"badArch">>
  ELSE LET hit == {r \in rules : /\ r.name \in DOMAIN scNumbers[arch]
                                 /\ scNumbers[arch][r.name] = nr
                                 /\ \A c \in r.conds : args[c.index] = c.value}
       IN IF hit = {} THEN DefaultAction(conf) ELSE (CHOOSE r \in hit : TRUE).act

----------------------------------------------------------------------------
(* The stub.                                                                *)

isAllowAction(act) == act \in {"allow", "log", "trace"}

archToNative(arch) == IF arch \in {"amd64", "x32"} THEN "x86_64" ELSE arch

\* the largest number that the profile names on an architecture
LargestSyscall(conf, arch) ==
  Max({0} \cup {scNumbers[arch][conf.calls[i].name] :
                  i \in {j \in DOMAIN conf.calls : conf.calls[j].name \in DOMAIN scNumbers[arch]}})

\* for each kernel architecture its libseccomp architectures and their largest
\* numbers; one without any is left without an entry
findLastSyscalls(conf) ==
  LET archs == {conf.archs[i] : i \in DOMAIN conf.archs}
  IN [a \in {archToNative(s) : s \in archs} |->
        [s \in {t \in archs : archToNative(t) = a /\ LargestSyscall(conf, t) # 0}
           |-> LargestSyscall(conf, s)]]

Load(field) == [op |-> "ld", field |-> field]
Ja(skip) == [op |-> "ja", skip |-> skip]
Ret(val) == [op |-> "ret", val |-> val]
uint8(n) == n % (scSkip + 1)
JumpIf(cond, val, t, f) == [op |-> "jif", cond |-> cond, val |-> val,
                            t |-> uint8(t), f |-> uint8(f)]

\* one libseccomp architecture: numbers above the largest give ENOSYS
oneArch(s, largest, enosys) ==
  LET jgt == IF enosys + 1 <= scSkip
             THEN <<JumpIf("gt", largest, enosys + 1, 0), Ja(enosys + 1)>>
             ELSE <<JumpIf("le", largest, 1, 0), Ja(enosys + 1), Ja(enosys + 1)>>
      setup == IF s \in {"s390", "s390x"} THEN <<JumpIf("ne", 0, 1, 0), Ret(retErrnoEnosys)>> ELSE <<>>
      mode == CASE s = "amd64" -> <<JumpIf("set", scBit, Len(jgt) - 1, 0)>>
                [] s = "x32" -> <<JumpIf("clear", scBit, Len(jgt) - 1, 0)>>
                [] OTHER -> <<>>
  IN setup \o mode \o jgt

\* mutant of twoArchs: the distance is that of the second comparison
twoArchsShort(last, enosys) ==
  <<JumpIf("set", scBit, 1, 0),
    JumpIf("gt", last["amd64"], enosys + 1, 1),
    JumpIf("gt", last["x32"], enosys + 1, 0),
    Ja(enosys + 1)>>

\* amd64 and x32 together
twoArchs(last, enosys) ==
  IF enosys + 2 <= scSkip
  THEN <<JumpIf("set", scBit, 1, 0),
         JumpIf("gt", last["amd64"], enosys + 2, 1),
         JumpIf("gt", last["x32"], enosys + 1, 0),
         Ja(enosys + 1)>>
  ELSE <<JumpIf("set", scBit, 1, 0),
         JumpIf("gt", last["amd64"], 1, 2),
         JumpIf("le", last["x32"], 1, 0),
         Ja(enosys + 1), Ja(enosys + 1)>>

\* the section of a kernel architecture, in front of the tail
Section(last, tail) ==
  LET enosys == Len(tail) - 1
      s == CHOOSE x \in DOMAIN last : TRUE
  IN <<Load("nr")>> \o (IF Cardinality(DOMAIN last) = 1 THEN oneArch(s, last[s], enosys)
                        ELSE twoArchs(last, enosys))

\* the jump to a section, in front of the tail; distances are counted from the end
ArchJump(a, jump) ==
  IF jump <= scSkip THEN <<JumpIf("eq", a, jump, 0)>>
  ELSE <<JumpIf("ne", a, 1, 0), Ja(jump)>>

----------------------------------------------------------------------------
(* The kernel runs a program on a system call; a program that ends in a jump *)
(* behind its last instruction goes on with the filter.                     *)

Holds(cond, acc, val) == CASE cond = "eq" -> acc = val
                           [] cond = "ne" -> acc # val
                           [] cond = "gt" -> acc > val
                           [] cond = "le" -> acc <= val
                           [] cond = "set" -> (acc \div val) % 2 = 1
                           [] cond = "clear" -> (acc \div val) % 2 = 0

RECURSIVE Exec(_, _, _, _)
Exec(prog, i, acc, data) ==
  IF i = Len(prog) + 1 THEN "filter"
  ELSE IF i > Len(prog) THEN "invalid"
  ELSE LET insn == prog[i] IN
       CASE insn.op = "ret" -> insn.val
         [] insn.op = "ld" -> Exec(prog, i + 1, data[insn.field], data)
         [] insn.op = "ja" -> Exec(prog, i + 1 + insn.skip, acc, data)
         [] insn.op = "jif" -> Exec(prog, i + 1 + (IF Holds(insn.cond, acc, insn.val)
                                                   THEN insn.t ELSE insn.f), acc, data)

----------------------------------------------------------------------------
scOff == [pc |-> "off"]
scInit ==
  \E conf \in scConfs :
    sc = [pc |-> "spec", conf |-> conf, rules |-> {}, sent |-> 0, pipe |-> 0, got |-> 0,
          writer |-> "none", copy |-> "none", last |-> <<>>, todo |-> {}, tail |-> <<>>,
          table |-> <<>>, fd |-> FALSE, faults |-> 0]

scAt(l) == sc.pc = l
scFail == sc.faults < scFaults
          /\ sc' = [sc EXCEPT !.pc = "error", !.faults = @ + 1, !.writer = "closed"]

\* the profile of the OCI configuration, which may be no profile at all
SetupSeccomp ==
  /\ scAt("spec")
  /\ sc' = [sc EXCEPT !.pc = CASE sc.conf.default = "" /\ sc.conf.calls = <<>> -> "disabled"
                               [] sc.conf.flags \/ sc.conf.default = "" -> "error"
                               [] OTHER -> "init"]

Notifies(conf) == {conf.calls[i].name : i \in {j \in DOMAIN conf.calls : conf.calls[j].act = "notify"}}

\* the checks on notifications and the rules of the filter; AddArch and
\* AddRule may fail
InitSeccomp ==
  LET conf == sc.conf
      refused == \/ Notifies(conf) # {} /\ conf.api < 6
                 \/ "write" \in Notifies(conf)
                 \/ conf.default = "notify" IN
  /\ scAt("init")
  /\ \/ refused /\ sc' = [sc EXCEPT !.pc = "error"]
     \/ scFail
     \/ /\ ~refused
        /\ sc' = [sc EXCEPT !.pc = "export", !.writer = "open", !.copy = "running",
                            !.rules = UNION {matchCall(conf, conf.calls[i]) : i \in DOMAIN conf.calls}]

\* disassembleFilter: libseccomp writes the filter into a pipe that a
\* goroutine empties
ExportBPF ==
  /\ scAt("export")
  /\ \/ scFail
     \/ /\ sc.sent < scSize /\ sc.pipe < scPipe
        /\ sc' = [sc EXCEPT !.sent = @ + 1, !.pipe = @ + 1]
     \/ /\ sc.sent = scSize
        /\ sc' = [sc EXCEPT !.pc = "join", !.writer = "closed"]

ioCopy ==
  /\ sc.pc # "off" /\ sc.copy = "running"
  /\ \/ /\ sc.pc # "error" /\ sc.pipe > 0
        /\ sc' = [sc EXCEPT !.pipe = @ - 1, !.got = @ + 1]
     \/ /\ sc.pc = "error" \/ (sc.pipe = 0 /\ sc.writer = "closed")
        /\ sc' = [sc EXCEPT !.copy = "ended"]

\* <-errChan; then generatePatch decides whether a stub is needed
generatePatch ==
  LET conf == sc.conf
      last == findLastSyscalls(conf) IN
  /\ scAt("join") /\ sc.copy = "ended"
  /\ \/ scFail
     \/ IF conf.errnoRet = retErrnoEnosys \/ isAllowAction(conf.default)
        THEN sc' = [sc EXCEPT !.pc = "load"]
        ELSE sc' = [sc EXCEPT !.pc = "sections", !.last = last, !.todo = DOMAIN last,
                              !.table = [a \in DOMAIN last |-> 0],
                              !.tail = <<Ja(1), Ret(retErrnoEnosys)>>]

\* generateEnosysStub: one section for each architecture, in the order of a Go map
stubSection ==
  /\ scAt("sections")
  /\ \/ \E a \in sc.todo :
          LET tail == IF DOMAIN sc.last[a] = {} THEN sc.tail
                      ELSE Section(sc.last[a], sc.tail) \o sc.tail
          IN sc' = [sc EXCEPT !.todo = @ \ {a}, !.tail = tail,
                              !.table[a] = IF DOMAIN sc.last[a] = {} THEN 0 ELSE Len(tail)]
     \/ /\ sc.todo = {}
        /\ sc' = [sc EXCEPT !.pc = "jumps", !.todo = DOMAIN sc.last,
                            !.tail = <<Ja(Len(sc.tail))>> \o sc.tail]

\* ... and one jump for each, in another order
stubJump ==
  /\ scAt("jumps")
  /\ \/ \E a \in sc.todo :
          sc' = [sc EXCEPT !.todo = @ \ {a},
                           !.tail = ArchJump(a, Len(sc.tail) - sc.table[a]) \o sc.tail]
     \/ /\ sc.todo = {}
        /\ sc' = [sc EXCEPT !.pc = "load", !.tail = <<Load("arch")>> \o sc.tail]

\* PatchAndLoad: the flags, and the listener's descriptor if one was asked for
PatchAndLoad ==
  /\ scAt("load")
  /\ \/ scFail
     \/ sc' = [sc EXCEPT !.pc = "loaded", !.fd = Notifies(sc.conf) # {}]

\* what the loaded filter does with a system call of a libseccomp architecture
loadedDoes(arch, nr, args) ==
  LET stub == Exec(sc.tail, 1, 0, [arch |-> archToNative(arch), nr |-> nr])
  IN IF stub = "filter" THEN filterDoes(sc.conf, sc.rules, arch, nr, args)
     ELSE IF stub = retErrnoEnosys THEN <<"errno", "ENOSYS">> ELSE <<stub>>

scNext == SetupSeccomp \/ InitSeccomp \/ ExportBPF \/ ioCopy \/ generatePatch
          \/ stubSection \/ stubJump \/ PatchAndLoad
scFairness == WF_sc(ioCopy)
              /\ WF_sc(SetupSeccomp \/ InitSeccomp \/ ExportBPF \/ generatePatch
                       \/ stubSection \/ stubJump \/ PatchAndLoad)
=============================================================================
