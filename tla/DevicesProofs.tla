---------------------------- MODULE DevicesProofs ---------------------------
(***************************************************************************)
(* Proofs about Devices, for any rules, cgroups, programs, bounds and      *)
(* failing calls: dvInv is inductive and gives SetTakesEffect and          *)
(* DevicesWindow.                                                          *)
(***************************************************************************)
EXTENDS Devices, SequenceTheorems, TLAPS

USE ZenonT(3), SMT

IsSeq(s) == s \in Seq({s[i] : i \in DOMAIN s})
dvFields == {"pc", "conf", "round", "i", "emu", "cur", "todo", "old", "size", "tries", "replace",
             "kernel", "progs", "before", "result", "faults", "foreign"}
IsKernel(k) == DOMAIN k = {"allow", "rules"} /\ k.allow \in BOOLEAN /\ DOMAIN k.rules = dvMetas
IsEmulator(e) ==
  DOMAIN e = {"allow", "rules", "made"} /\ e.allow \in BOOLEAN /\ DOMAIN e.rules = dvMetas

\* Before the new program is attached, and before anything is written.
Quiet == {"props", "set", "build"}
Early == Quiet \cup {"write", "check", "filter", "query", "attach"}

dvShape ==
  /\ DOMAIN dv = dvFields
  /\ dv.conf \in dvConfs /\ dv.round \in 1 .. Len(dv.conf.sets)
  /\ dv.i \in 1 .. Len(dvRules) + 1
  /\ dv.foreign \in 0 .. Len(dv.conf.foreign)
  /\ dv.pc \in Early \cup {"detach", "returned"}
  /\ dv.pc \in {"write", "check"} => dv.conf.v = 1
  /\ dv.pc \in {"filter", "query", "attach", "detach"} => dv.conf.v = 2
  /\ DOMAIN dv.todo = 1 .. 3
  /\ DOMAIN dv.before = {"kernel", "progs"}
  /\ IsKernel(dv.kernel) /\ IsKernel(dv.before.kernel) /\ IsEmulator(dv.emu)
  /\ IsSeq(dv.progs) /\ IsSeq(dv.before.progs)

\* The emulator is what the first n rules say: after the last rule for all
\* devices, number `from', the exceptions that no later rule took back.
Excepts(rules, n, default, k, m, x) ==
  /\ rules[k].allow # default /\ Meta(rules[k]) = m /\ x \in rules[k].perms
  /\ \A j \in k + 1 .. n :
       Meta(rules[j]) = m /\ rules[j].allow = default => x \notin rules[j].perms
BuiltFrom(rules, n, e, from) ==
  /\ from \in 0 .. n
  /\ from > 0 => rules[from].node = "a"
  /\ \A j \in from + 1 .. n : rules[j].node \in {"b", "c"}
  /\ e.allow <=> from > 0 /\ rules[from].allow
  /\ \A m \in dvMetas : \A x : x \in e.rules[m] <=>
       \E k \in from + 1 .. n : Excepts(rules, n, e.allow, k, m, x)
Built(n) == \E from \in 0 .. n : BuiltFrom(dvRules, n, dv.emu, from)

dvBuilt ==
  /\ dv.pc \in {"props", "set"} => dv.i = 1
  /\ dv.pc \in Early \cup {"detach"} => Built(dv.i - 1)
  /\ dv.pc \in {"write", "check", "filter", "query", "attach", "detach"} => dv.i = Len(dvRules) + 1
  /\ dv.pc = "returned" /\ dv.result = "ok" => dv.i = Len(dvRules) + 1 /\ Built(dv.i - 1)

----------------------------------------------------------------------------
(* Version 1.                                                               *)

SameRules(k, e) == k.allow = e.allow /\ \A m \in dvMetas : k.rules[m] = e.rules[m]

\* The writes that are left take the controller to the emulator.
Drops(e, m) == Meta(e) = m /\ dv.before.kernel.rules[m] \ dv.emu.rules[m] \subseteq e.perms
Gains(e, m) == Meta(e) = m /\ dv.emu.rules[m] \subseteq e.perms
dvWriting ==
  LET b == dv.before.kernel
      t == dv.emu.rules
      k == dv.kernel
  IN /\ dv.todo[1] # {} => /\ dv.todo[1] = {AllRule(dv.emu.allow)} /\ dv.todo[2] = {} /\ k = b
                           /\ b.allow \/ dv.emu.allow
     /\ dv.todo[2] # {} => ~b.allow /\ ~dv.emu.allow
     /\ \A e \in dv.todo[2] : /\ Meta(e) \in dvMetas /\ e.allow = dv.emu.allow
                              /\ e.perms \cap t[Meta(e)] = {}
     /\ \A e \in dv.todo[3] : /\ Meta(e) \in dvMetas /\ e.allow = ~dv.emu.allow
                              /\ e.perms \subseteq t[Meta(e)]
     /\ dv.todo[1] = {} =>
          /\ k.allow = dv.emu.allow
          /\ \A m \in dvMetas :
               \/ k.rules[m] \subseteq t[m]
               \/ /\ ~b.allow /\ k.rules[m] \subseteq b.rules[m]
                  /\ \E e \in dv.todo[2] : Drops(e, m)
     /\ dv.emu.allow => \A m \in dvMetas :
          \/ t[m] = {}
          \/ \E e \in dv.todo[3] : Gains(e, m)
          \/ dv.todo[1] = {} /\ t[m] \subseteq k.rules[m]
     /\ ~b.allow /\ ~dv.emu.allow =>
          dv.todo[1] = {} /\ \A m \in dvMetas : b.rules[m] \cap t[m] \subseteq k.rules[m]

dvList ==
  dv.conf.v = 1 =>
    /\ dv.pc \in Quiet => dv.kernel = dv.before.kernel
    /\ dv.pc = "build" => /\ dv.cur.allow = dv.kernel.allow
                          /\ ~dv.kernel.allow =>
                               \A m \in dvMetas : dv.cur.rules[m] = dv.kernel.rules[m]
    /\ dv.pc = "write" => dvWriting
    /\ dv.pc = "check" /\ dv.emu.allow => SameRules(dv.kernel, dv.emu)
    /\ dv.pc = "returned" /\ dv.result = "ok" => SameRules(dv.kernel, dv.emu)

----------------------------------------------------------------------------
(* Version 2.                                                               *)

Attached(p) == \E i \in DOMAIN dv.progs : dv.progs[i] = p
New == DeviceFilter(dv.emu, dv.round)

\* No two programs have the same id, and those to come have theirs.
dvIds ==
  /\ \A i, j \in DOMAIN dv.progs : dv.progs[i].id = dv.progs[j].id => i = j
  /\ \A i \in DOMAIN dv.progs :
       /\ \A n \in dv.round + 1 .. Len(dv.conf.sets) : dv.progs[i].id # n
       /\ dv.pc \in Early => dv.progs[i].id # dv.round
       /\ \A k \in dv.foreign + 1 .. Len(dv.conf.foreign) : dv.progs[i].id # dv.conf.foreign[k].id

Kept == \A i \in DOMAIN dv.before.progs : Attached(dv.before.progs[i])
Sole == \E i \in DOMAIN dv.progs :
          dv.progs[i] = New /\ \A j \in DOMAIN dv.progs \ {i} : dv.progs[j].owner # "runc"
dvPrograms ==
  /\ dv.pc \in Early => Kept
  /\ dv.pc = "attach" =>
       /\ \A p \in dv.old : Attached(p)
       /\ \A i \in DOMAIN dv.progs : dv.progs[i].owner = "runc" => dv.progs[i] \in dv.old
       /\ dv.replace => \E p \in dv.old : dv.old = {p}
  /\ dv.pc = "detach" =>
       /\ Attached(New)
       /\ \A p \in dv.old : Attached(p) /\ p # New
       /\ \A i \in DOMAIN dv.progs :
            dv.progs[i].owner = "runc" => dv.progs[i] = New \/ dv.progs[i] \in dv.old
  /\ dv.pc = "returned" /\ dv.conf.v = 2 => Kept \/ Attached(New)
  /\ dv.pc = "returned" /\ dv.conf.v = 2 /\ dv.result = "ok" => Sole

dvInv == dvShape /\ dvBuilt /\ dvList /\ dvIds /\ dvPrograms

----------------------------------------------------------------------------
(* What a step changes.                                                     *)

Only(F) == DOMAIN dv' = dvFields /\ \A f \in dvFields \ F : dv'[f] = dv[f]

LEMMA FieldsIn ==
  /\ "pc" \in dvFields /\ "conf" \in dvFields /\ "round" \in dvFields /\ "i" \in dvFields
  /\ "emu" \in dvFields /\ "cur" \in dvFields /\ "todo" \in dvFields /\ "old" \in dvFields
  /\ "size" \in dvFields /\ "tries" \in dvFields /\ "replace" \in dvFields
  /\ "kernel" \in dvFields /\ "progs" \in dvFields /\ "before" \in dvFields
  /\ "result" \in dvFields /\ "faults" \in dvFields /\ "foreign" \in dvFields
BY DEF dvFields

LEMMA ConfIs ==
  ASSUME dvShape
  PROVE  /\ dv.conf.v \in {1, 2}
         /\ Len(dv.conf.sets) \in Nat /\ dv.round \in Nat /\ dv.i \in Nat
         /\ Len(dvRules) \in Nat /\ DOMAIN dvRules = 1 .. Len(dvRules)
         /\ \A k \in 1 .. Len(dvRules) :
              /\ dvRules[k].allow \in BOOLEAN
              /\ dvRules[k].node \in {"b", "c"} => Meta(dvRules[k]) \in dvMetas
  <1>1. dv.conf \in dvConfs BY DEF dvShape
  <1>2. dv.conf.v \in {1, 2} /\ Len(dv.conf.sets) \in Nat BY <1>1, dvAssumption, Zenon
  <1>3. dv.round \in 1 .. Len(dv.conf.sets) BY DEF dvShape
  <1>4. /\ Len(dvRules) \in Nat /\ DOMAIN dvRules = 1 .. Len(dvRules)
        /\ \A k \in 1 .. Len(dvRules) :
              /\ dvRules[k].allow \in BOOLEAN
              /\ dvRules[k].node \in {"b", "c"} => Meta(dvRules[k]) \in dvMetas
    <2>1. \A n \in 1 .. Len(dv.conf.sets) :
            /\ Len(dv.conf.sets[n]) \in Nat /\ DOMAIN dv.conf.sets[n] = 1 .. Len(dv.conf.sets[n])
            /\ \A i \in DOMAIN dv.conf.sets[n] :
                 /\ dv.conf.sets[n][i].allow \in BOOLEAN
                 /\ dv.conf.sets[n][i].node \in {"b", "c"} => Meta(dv.conf.sets[n][i]) \in dvMetas
      BY <1>1, dvAssumption, Zenon
    <2> QED BY <1>3, <2>1, Zenon DEF dvRules
  <1>5. dv.round \in Nat BY <1>2, <1>3, SMT
  <1>6. dv.i \in Nat BY <1>4, SMT DEF dvShape
  <1> QED BY <1>2, <1>4, <1>5, <1>6

LEMMA ReturnDoes ==
  ASSUME DOMAIN dv = dvFields, NEW res, dvReturn(res)
  PROVE  Only({"pc", "result"}) /\ dv'.pc = "returned" /\ dv'.result = res
BY FieldsIn, Zenon DEF dvReturn, Only

LEMMA FailDoes ==
  ASSUME DOMAIN dv = dvFields, dvFail
  PROVE  Only({"pc", "result", "faults"}) /\ dv'.pc = "returned" /\ dv'.result = "error"
BY FieldsIn, Zenon DEF dvFail, Only

LEMMA bpfErrDoes ==
  ASSUME DOMAIN dv = dvFields, NEW charge, bpfErr(charge)
  PROVE  /\ Only({"pc", "result", "faults"}) /\ dv'.pc = "returned"
         /\ dv'.result \in {"ignored", "error"}
BY FieldsIn, Zenon DEF bpfErr, Only

\* What the parts of the invariant depend on.
SameSet == dv'.conf = dv.conf /\ dv'.round = dv.round
SameBuild == SameSet /\ dv'.i = dv.i /\ dv'.emu = dv.emu
SamePrograms == SameSet /\ dv'.progs = dv.progs /\ dv'.before = dv.before /\ dv'.foreign = dv.foreign

LEMMA IdsSame ==
  ASSUME dvIds, SamePrograms, dv'.pc \in Early => dv.pc \in Early
  PROVE  dvIds'
  <1>1. \A i, j \in DOMAIN dv'.progs : dv'.progs[i].id = dv'.progs[j].id => i = j
    BY Zenon DEF dvIds, SamePrograms
  <1>2. ASSUME NEW i \in DOMAIN dv'.progs
        PROVE  /\ \A n \in dv'.round + 1 .. Len(dv'.conf.sets) : dv'.progs[i].id # n
               /\ dv'.pc \in Early => dv'.progs[i].id # dv'.round
               /\ \A k \in dv'.foreign + 1 .. Len(dv'.conf.foreign) :
                    dv'.progs[i].id # dv'.conf.foreign[k].id
    BY SMT DEF dvIds, SamePrograms, SameSet
  <1> QED BY <1>1, <1>2, Zenon DEF dvIds

LEMMA BuiltSame == ASSUME SameBuild, Built(dv.i - 1) PROVE Built(dv.i - 1)'
BY Zenon DEF SameBuild, SameSet, Built, dvRules

LEMMA KeptSame == ASSUME SamePrograms, Kept PROVE Kept'
BY Zenon DEF SamePrograms, Kept, Attached

LEMMA ShapeSame ==
  ASSUME dvShape, SameBuild, SamePrograms, dv'.kernel = dv.kernel, dv'.todo = dv.todo,
         DOMAIN dv' = dvFields, dv'.pc \in Early \cup {"detach", "returned"},
         dv'.pc \in {"write", "check"} => dv.conf.v = 1,
         dv'.pc \in {"filter", "query", "attach", "detach"} => dv.conf.v = 2
  PROVE  dvShape'
BY Zenon DEF dvShape, SameBuild, SamePrograms, SameSet, dvRules

\* A Set that returns without success.
LEMMA EndStep ==
  ASSUME dvInv, Only({"pc", "result", "faults", "size", "tries"}),
         dv'.pc = "returned", dv'.result # "ok"
  PROVE  dvInv'
  <1>1. /\ SameBuild /\ SamePrograms /\ dv'.todo = dv.todo /\ dv'.kernel = dv.kernel
        /\ DOMAIN dv' = dvFields
    BY FieldsIn, Zenon DEF Only, SameBuild, SamePrograms, SameSet
  <1>2. dv'.pc \notin Early \cup {"detach"} BY DEF Early, Quiet
  <1>3. dvShape' BY <1>1, ShapeSame DEF dvInv
  <1>4. dvBuilt' BY <1>2 DEF dvBuilt, Quiet, Early
  <1>5. dvList' BY <1>2 DEF dvList, Quiet
  <1>6. dvIds' BY <1>1, <1>2, IdsSame DEF dvInv
  <1>7. dvPrograms'
    <2>1. dv.conf.v = 2 => Kept \/ Attached(New) BY DEF dvInv, dvShape, dvPrograms
    <2>2. dv'.conf.v = 2 => Kept' \/ Attached(New)'
      BY <1>1, <2>1, KeptSame, Zenon DEF Attached, New, SameBuild, SamePrograms, SameSet
    <2> QED BY <1>2, <2>2 DEF dvPrograms
  <1> QED BY <1>3, <1>4, <1>5, <1>6, <1>7 DEF dvInv

\* A step of a Set that changes neither the controller nor the programs.
LEMMA CalmStep ==
  ASSUME dvInv, Only({"pc", "cur", "size", "tries"}),
         dv.pc \in Early, dv'.pc \in {"set", "build", "filter", "query"},
         dv'.pc = "set" => dv.pc = "props",
         dv'.pc = "build" => dv.pc = "set",
         dv'.pc = "build" /\ dv.conf.v = 1 =>
           /\ dv'.cur.allow = dv.kernel.allow
           /\ ~dv.kernel.allow => \A m \in dvMetas : dv'.cur.rules[m] = dv.kernel.rules[m],
         dv'.pc \in {"filter", "query"} => dv.conf.v = 2 /\ dv.i = Len(dvRules) + 1
  PROVE  dvInv'
  <1>1. /\ SameBuild /\ SamePrograms /\ dv'.todo = dv.todo /\ dv'.kernel = dv.kernel
        /\ DOMAIN dv' = dvFields
    BY FieldsIn, Zenon DEF Only, SameBuild, SamePrograms, SameSet
  <1>2. dv'.pc \in Early /\ dv.pc \notin {"detach", "returned"} BY DEF Early, Quiet
  <1>3. dvShape' BY <1>1, <1>2, ShapeSame DEF dvInv
  <1>4. dvBuilt'
    <2>1. Built(dv.i - 1)' BY <1>1, <1>2, BuiltSame DEF dvInv, dvBuilt
    <2>2. dvRules' = dvRules /\ dv'.i = dv.i
      BY <1>1, Zenon DEF dvRules, SameBuild, SameSet
    <2> QED BY <2>1, <2>2 DEF dvBuilt, dvInv
  <1>5. dvList'
    <2>1. dv.conf.v = 1 /\ dv'.pc \in Quiet => dv.kernel = dv.before.kernel
      BY DEF dvInv, dvList, Quiet
    <2> QED BY <1>1, <2>1 DEF dvList, Quiet, SamePrograms, SameSet
  <1>6. dvIds' BY <1>1, <1>2, IdsSame DEF dvInv
  <1>7. dvPrograms'
    <2>1. Kept' BY <1>1, <1>2, KeptSame DEF dvInv, dvPrograms
    <2> QED BY <2>1 DEF dvPrograms
  <1> QED BY <1>3, <1>4, <1>5, <1>6, <1>7 DEF dvInv

----------------------------------------------------------------------------
(* The emulator.                                                            *)

\* What devices.list shows of a white-list is all of it.
LEMMA ListRead ==
  ASSUME NEW k, IsKernel(k)
  PROVE  LET e == EmulatorFromList(DevicesList(k)) IN
         /\ e.allow = k.allow
         /\ ~k.allow => \A m \in dvMetas : e.rules[m] = k.rules[m]
  <1> DEFINE lines == DevicesList(k)
             parsed == {parseLine(l) : l \in lines}
             shown == {n \in dvMetas : k.rules[n] # {}}
  <1>1. CASE k.allow
    <2>1. Line([node |-> "a", major |-> Wildcard, minor |-> Wildcard], Perms) \in lines
      BY <1>1 DEF DevicesList
    <2> DEFINE l == Line([node |-> "a", major |-> Wildcard, minor |-> Wildcard], Perms)
    <2>4. l.node = "a" BY SMT DEF Line
    <2> HIDE DEF l, lines
    <2>5. parseLine(l).node = "a" BY <2>4, Zenon DEF parseLine
    <2>2. \E r \in parsed : r.node = "a" BY <2>1, <2>5, Zenon DEF l
    <2>3. EmulatorFromList(lines) = Reset(TRUE) BY <2>2, Zenon DEF EmulatorFromList
    <2> QED BY <1>1, <2>3 DEF lines, Reset
  <1>2. CASE ~k.allow
    <2>1. lines = {Line(m, k.rules[m]) : m \in shown} BY <1>2, Zenon DEF DevicesList
    <2> HIDE DEF lines
    <2>2. ASSUME NEW m \in dvMetas, NEW ps
          PROVE  parseLine(Line(m, ps)) = [node |-> m.node, major |-> m.major, minor |-> m.minor,
                                           perms |-> ps]
      <3>1. m \in [node : {"b", "c"}, major : Int, minor : Int] BY dvAssumption, Zenon
      <3>2. ASSUME NEW n PROVE parseNumber(Number(n)) = n
        <4> DEFINE f == Number(n)
        <4>1. (f.star <=> n = Wildcard) /\ f.num = IF n = Wildcard THEN 0 ELSE n
          BY Zenon DEF Number
        <4> HIDE DEF f
        <4>2. parseNumber(f) = n BY <4>1, Zenon DEF parseNumber
        <4> QED BY <4>2 DEF f
      <3>3. m.major \in Int /\ m.minor \in Int BY <3>1, SMT
      <3> DEFINE l == Line(m, ps)
      <3>4. /\ l.node = m.node /\ l.major = Number(m.major) /\ l.minor = Number(m.minor)
            /\ l.perms = ps
        BY Zenon DEF Line
      <3> HIDE DEF l
      <3>5. parseLine(l) = [node |-> m.node, major |-> m.major, minor |-> m.minor, perms |-> ps]
        BY <3>2, <3>3, <3>4, Zenon DEF parseLine
      <3> QED BY <3>5 DEF l
    <2>3. \A r \in parsed : \E m \in shown : r = [node |-> m.node, major |-> m.major,
                                                  minor |-> m.minor, perms |-> k.rules[m]]
      <3> SUFFICES ASSUME NEW r \in parsed
                   PROVE  \E m \in shown : r = [node |-> m.node, major |-> m.major,
                                                minor |-> m.minor, perms |-> k.rules[m]]
        OBVIOUS
      <3>1. PICK l \in lines : r = parseLine(l) BY Zenon
      <3>2. PICK m \in shown : l = Line(m, k.rules[m]) BY <2>1, Zenon
      <3> QED BY <2>2, <3>1, <3>2
    <2>4. \A m \in shown : [node |-> m.node, major |-> m.major, minor |-> m.minor,
                            perms |-> k.rules[m]] \in parsed
      BY <2>1, <2>2, Zenon
    <2>5. \A m \in dvMetas : /\ m.node # "a"
                             /\ m = [node |-> m.node, major |-> m.major, minor |-> m.minor]
      BY dvAssumption, SMT
    <2> HIDE DEF parsed
    <2>6. ~\E r \in parsed : r.node = "a" BY <2>3, <2>5, SMT
    <2>7. /\ EmulatorFromList(lines).allow = FALSE
          /\ \A m \in dvMetas : EmulatorFromList(lines).rules[m] =
               UNION {r.perms : r \in {q \in parsed : Meta(q) = m}}
      BY <2>6, SMT DEF EmulatorFromList, parsed
    <2>8. ASSUME NEW m \in dvMetas
          PROVE  UNION {r.perms : r \in {q \in parsed : Meta(q) = m}} = k.rules[m]
      <3>1. \A q \in parsed : Meta(q) = m => q.perms = k.rules[m]
        BY <2>3, <2>5, SMT DEF Meta
      <3>2. m \in shown => \E q \in parsed : Meta(q) = m /\ q.perms = k.rules[m]
        <4> DEFINE q == [node |-> m.node, major |-> m.major, minor |-> m.minor,
                         perms |-> k.rules[m]]
        <4>1. m \in shown => q \in parsed BY <2>4, Zenon
        <4>2. q.perms = k.rules[m] /\ Meta(q) = m BY <2>5, Zenon DEF Meta
        <4> QED BY <4>1, <4>2, Zenon
      <3>3. m \notin shown => k.rules[m] = {} BY Zenon
      <3> HIDE DEF shown
      <3>4. \A x : x \in UNION {r.perms : r \in {q \in parsed : Meta(q) = m}} => x \in k.rules[m]
        BY <3>1, Zenon
      <3>5. \A x : x \in k.rules[m] => x \in UNION {r.perms : r \in {q \in parsed : Meta(q) = m}}
        BY <3>2, <3>3, Zenon
      <3> QED BY <3>4, <3>5, Zenon
    <2>9. /\ EmulatorFromList(lines).allow = k.allow
          /\ \A m \in dvMetas : EmulatorFromList(lines).rules[m] = k.rules[m]
      <3>1. k.allow = FALSE BY <1>2 DEF IsKernel
      <3> QED BY <2>7, <2>8, <3>1, Zenon
    <2> QED BY <2>9, Zenon DEF lines
  <1>3. k.allow \in BOOLEAN BY DEF IsKernel
  <1> QED BY <1>1, <1>2, <1>3

LEMMA UpTo ==
  ASSUME NEW n \in Nat, NEW k \in 0 .. n
  PROVE  k + 1 .. n + 1 = (k + 1 .. n) \cup {n + 1}
BY SMT

\* One more rule.
LEMMA ExceptsNext ==
  ASSUME NEW rules, NEW n \in Nat, NEW d, NEW m, NEW x, NEW k \in 0 .. n
  PROVE  Excepts(rules, n + 1, d, k, m, x) <=>
           /\ Excepts(rules, n, d, k, m, x)
           /\ ~(Meta(rules[n + 1]) = m /\ rules[n + 1].allow = d /\ x \in rules[n + 1].perms)
  <1>1. k + 1 .. n + 1 = (k + 1 .. n) \cup {n + 1} BY UpTo
  <1> QED BY <1>1, Zenon DEF Excepts

LEMMA ExceptsLast ==
  ASSUME NEW rules, NEW n \in Nat, NEW d, NEW m, NEW x
  PROVE  Excepts(rules, n, d, n, m, x) <=>
           rules[n].allow # d /\ Meta(rules[n]) = m /\ x \in rules[n].perms
  <1>1. n + 1 .. n = {} BY SMT
  <1> QED BY <1>1, Zenon DEF Excepts

LEMMA ApplyBuilds ==
  ASSUME NEW rules, NEW n \in Nat, NEW e, IsEmulator(e), NEW from \in 0 .. n,
         BuiltFrom(rules, n, e, from), ~ApplyErr(e, rules[n + 1]),
         rules[n + 1].allow \in BOOLEAN,
         rules[n + 1].node \in {"b", "c"} => Meta(rules[n + 1]) \in dvMetas
  PROVE  /\ IsEmulator(ApplyRule(e, rules[n + 1]))
         /\ \E f \in 0 .. n + 1 : BuiltFrom(rules, n + 1, ApplyRule(e, rules[n + 1]), f)
  <1> DEFINE r == rules[n + 1]
             a == ApplyRule(e, r)
  <1>1. CASE r.node = "a"
    <2>1. a = [allow |-> r.allow, rules |-> NoRules, made |-> FALSE]
      BY <1>1, Zenon DEF ApplyRule, Reset
    <2> HIDE DEF a
    <2>2. IsEmulator(a) BY <2>1 DEF IsEmulator, NoRules
    <2>3. BuiltFrom(rules, n + 1, a, n + 1)
      <3>1. n + 1 \in 0 .. n + 1 /\ n + 1 > 0 /\ (n + 1) + 1 .. n + 1 = {} BY SMT
      <3>2. a.allow = r.allow /\ \A m \in dvMetas : a.rules[m] = {} BY <2>1 DEF NoRules
      <3> QED BY <1>1, <3>1, <3>2, Zenon DEF BuiltFrom
    <2>4. n + 1 \in 0 .. n + 1 BY SMT
    <2> QED BY <2>2, <2>3, <2>4, Zenon DEF a
  <1>2. CASE r.node # "a"
    <2>1. r.node \in {"b", "c"} /\ Meta(r) \in dvMetas
      BY <1>2 DEF ApplyErr, CanCgroup
    <2>2. /\ IsEmulator(a) /\ a.allow = e.allow
          /\ \A m \in dvMetas \ {Meta(r)} : a.rules[m] = e.rules[m]
          /\ r.allow = e.allow => a.rules[Meta(r)] = e.rules[Meta(r)] \ r.perms
          /\ r.allow # e.allow => a.rules[Meta(r)] = e.rules[Meta(r)] \cup r.perms
      <3> DEFINE mr == Meta(r)
      <3> HIDE DEF mr, r
      <3>1. CASE r.allow = e.allow
        <4>1. a = [e EXCEPT !.rules[mr] = @ \ r.perms]
          BY <1>2, <3>1, Zenon DEF ApplyRule, rmRule, mr
        <4> QED BY <2>1, <3>1, <4>1 DEF IsEmulator, mr
      <3>2. CASE r.allow # e.allow
        <4>1. a = [e EXCEPT !.rules[mr] = @ \cup r.perms, !.made = TRUE]
          BY <1>2, <3>2, Zenon DEF ApplyRule, addRule, mr
        <4> QED BY <2>1, <3>2, <4>1 DEF IsEmulator, mr
      <3> QED BY <3>1, <3>2
    <2> HIDE DEF a
    <2>3. from + 1 .. n + 1 = (from + 1 .. n) \cup {n + 1} BY UpTo
    <2>4. ASSUME NEW m \in dvMetas, NEW x
          PROVE  x \in a.rules[m] <=> \E k \in from + 1 .. n + 1 : Excepts(rules, n + 1, e.allow, k, m, x)
      <3>1. \A k \in from + 1 .. n :
              Excepts(rules, n + 1, e.allow, k, m, x) <=>
                Excepts(rules, n, e.allow, k, m, x)
                  /\ ~(Meta(r) = m /\ r.allow = e.allow /\ x \in r.perms)
        <4>1. \A k \in from + 1 .. n : k \in 0 .. n BY SMT
        <4> QED BY <4>1, ExceptsNext, Zenon
      <3>2. Excepts(rules, n + 1, e.allow, n + 1, m, x) <=>
              r.allow # e.allow /\ Meta(r) = m /\ x \in r.perms
        <4>1. n + 1 \in Nat BY SMT
        <4> QED BY <4>1, ExceptsLast, Zenon
      <3>3. x \in e.rules[m] <=> \E k \in from + 1 .. n : Excepts(rules, n, e.allow, k, m, x)
        BY Zenon DEF BuiltFrom
      <3> HIDE DEF r
      <3>4. x \in a.rules[m] <=> \/ x \in e.rules[m] /\ ~(Meta(r) = m /\ r.allow = e.allow /\ x \in r.perms)
                                 \/ r.allow # e.allow /\ Meta(r) = m /\ x \in r.perms
        BY <2>2, Zenon
      <3> QED BY <2>3, <3>1, <3>2, <3>3, <3>4, Zenon
    <2>5. BuiltFrom(rules, n + 1, a, from)
      <3>1. from \in 0 .. n + 1 BY SMT
      <3>2. \A j \in from + 1 .. n + 1 : rules[j].node \in {"b", "c"}
        BY <2>1, <2>3, Zenon DEF BuiltFrom
      <3>3. /\ from > 0 => rules[from].node = "a"
            /\ a.allow <=> from > 0 /\ rules[from].allow
        BY <2>2, Zenon DEF BuiltFrom
      <3> QED BY <2>2, <2>4, <3>1, <3>2, <3>3, Zenon DEF BuiltFrom
    <2>6. from \in 0 .. n + 1 BY SMT
    <2> QED BY <2>2, <2>5, <2>6, Zenon DEF a
  <1> QED BY <1>1, <1>2

LEMMA ApplyStep ==
  ASSUME dvInv, dv.pc = "build", dv.i <= Len(dvRules), ~ApplyErr(dv.emu, dvRules[dv.i]),
         dv' = [dv EXCEPT !.emu = ApplyRule(@, dvRules[dv.i]), !.i = @ + 1]
  PROVE  dvInv'
  <1> DEFINE rules == dvRules
             n == dv.i - 1
  <1>1. /\ Only({"emu", "i"}) /\ dv'.emu = ApplyRule(dv.emu, rules[dv.i]) /\ dv'.i = dv.i + 1
    BY FieldsIn, Zenon DEF dvInv, dvShape, Only
  <1>2. /\ SameSet /\ SamePrograms /\ dv'.todo = dv.todo /\ dv'.kernel = dv.kernel
        /\ dv'.cur = dv.cur /\ dv'.pc = "build" /\ DOMAIN dv' = dvFields
    BY <1>1, FieldsIn, Zenon DEF Only, SamePrograms, SameSet
  <1>3. /\ n \in Nat /\ dv.i = n + 1 /\ dv.i \in 1 .. Len(rules) /\ dv'.i \in 1 .. Len(rules) + 1
        /\ dv'.i - 1 = n + 1
    <2>1. Len(rules) \in Nat /\ dv.i \in 1 .. Len(rules) + 1 BY ConfIs DEF dvInv, dvShape
    <2> HIDE DEF rules
    <2> QED BY <1>1, <2>1, SMT DEF rules
  <1>4. dvRules' = rules BY <1>2, Zenon DEF dvRules, SameSet
  <1>5. PICK from \in 0 .. n : BuiltFrom(rules, n, dv.emu, from)
    BY DEF dvInv, dvBuilt, Built, Early, Quiet
  <1>6. /\ IsEmulator(dv'.emu)
        /\ \E f \in 0 .. n + 1 : BuiltFrom(rules, n + 1, dv'.emu, f)
    <2>1. /\ rules[dv.i].allow \in BOOLEAN
          /\ rules[dv.i].node \in {"b", "c"} => Meta(rules[dv.i]) \in dvMetas
      BY <1>3, ConfIs DEF dvInv
    <2>2. IsEmulator(dv.emu) BY DEF dvInv, dvShape
    <2> HIDE DEF n, rules
    <2> QED BY <1>1, <1>3, <1>5, <2>1, <2>2, ApplyBuilds, Zenon DEF rules
  <1>7. dvShape'
    BY <1>2, <1>3, <1>4, <1>6, Zenon DEF dvInv, dvShape, SamePrograms, SameSet, Early, Quiet
  <1>8. dvBuilt'
    <2>1. Built(dv.i - 1)' BY <1>3, <1>4, <1>6, Zenon DEF Built
    <2> QED BY <1>2, <2>1 DEF dvBuilt
  <1>9. dvList' BY <1>2 DEF dvInv, dvList, SamePrograms, SameSet, Quiet
  <1>10. dvIds' BY <1>2, IdsSame DEF dvInv
  <1>11. dvPrograms' BY <1>2, KeptSame DEF dvInv, dvPrograms
  <1> QED BY <1>7, <1>8, <1>9, <1>10, <1>11 DEF dvInv

----------------------------------------------------------------------------
(* The writes of version 1.                                                 *)

LEMMA EntryIs ==
  ASSUME NEW m \in dvMetas, NEW ps, NEW a
  PROVE  /\ Meta(Entry(m, ps, a)) = m /\ Entry(m, ps, a).perms = ps /\ Entry(m, ps, a).allow = a
         /\ Entry(m, ps, a).node # "a"
  <1>1. m \in [node : {"b", "c"}, major : Int, minor : Int] BY dvAssumption, Zenon
  <1>2. m = [node |-> m.node, major |-> m.major, minor |-> m.minor] /\ m.node # "a" BY <1>1, SMT
  <1>3. /\ Entry(m, ps, a).node = m.node /\ Entry(m, ps, a).major = m.major
        /\ Entry(m, ps, a).minor = m.minor /\ Entry(m, ps, a).perms = ps
        /\ Entry(m, ps, a).allow = a
    BY Zenon DEF Entry
  <1> QED BY <1>2, <1>3, Zenon DEF Meta

\* The rules that Transition gives.
GivesRules(src, tgt, t) ==
  LET D == src.allow \/ tgt.allow
      Old(m) == IF D THEN {} ELSE src.rules[m]
  IN /\ DOMAIN t = 1 .. 3
     /\ t[1] = IF D THEN {AllRule(tgt.allow)} ELSE {}
     /\ \A e \in t[2] : \E m \in dvMetas : e = Entry(m, Old(m) \ tgt.rules[m], tgt.allow)
     /\ \A m \in dvMetas : Old(m) \ tgt.rules[m] # {} =>
          Entry(m, Old(m) \ tgt.rules[m], tgt.allow) \in t[2]
     /\ D => t[2] = {}
     /\ \A e \in t[3] : \E m \in dvMetas : e = Entry(m, tgt.rules[m] \ Old(m), ~tgt.allow)
     /\ \A m \in dvMetas : tgt.rules[m] \ Old(m) # {} =>
          Entry(m, tgt.rules[m] \ Old(m), ~tgt.allow) \in t[3]

LEMMA TransitionIs ==
  ASSUME NEW src, NEW tgt, src.allow \in BOOLEAN, tgt.allow \in BOOLEAN
  PROVE  GivesRules(src, tgt, Transition(src, tgt))
  <1> DEFINE D == src.allow \/ tgt.allow
             Old(m) == IF D THEN {} ELSE src.rules[m]
             old == IF Disruptive(src, tgt) THEN NoRules ELSE src.rules
             t1 == IF Disruptive(src, tgt) THEN {AllRule(tgt.allow)} ELSE {}
             t2 == {Entry(m, old[m] \ tgt.rules[m], tgt.allow) :
                      m \in {n \in dvMetas : old[n] \ tgt.rules[n] # {}}}
             t3 == {Entry(m, tgt.rules[m] \ old[m], ~tgt.allow) :
                      m \in {n \in dvMetas : tgt.rules[n] \ old[n] # {}}}
  <1>1. Transition(src, tgt) = <<t1, t2, t3>> BY Zenon DEF Transition
  <1>2. Disruptive(src, tgt) <=> D BY DEF Disruptive
  <1>3. \A m \in dvMetas : old[m] = Old(m) BY <1>2, Zenon DEF NoRules
  <1>4. t1 = IF D THEN {AllRule(tgt.allow)} ELSE {} BY <1>2, Zenon
  <1> HIDE DEF old, Old, D
  <1>5. \A e \in t2 : \E m \in dvMetas : e = Entry(m, Old(m) \ tgt.rules[m], tgt.allow)
    BY <1>3, Zenon
  <1>6. \A m \in dvMetas : Old(m) \ tgt.rules[m] # {} =>
          Entry(m, Old(m) \ tgt.rules[m], tgt.allow) \in t2
    BY <1>3, Zenon
  <1>7. D => t2 = {}
    <2>1. D => \A m \in dvMetas : Old(m) \ tgt.rules[m] = {} BY Zenon DEF Old
    <2> QED BY <1>3, <2>1, Zenon
  <1>8. \A e \in t3 : \E m \in dvMetas : e = Entry(m, tgt.rules[m] \ Old(m), ~tgt.allow)
    BY <1>3, Zenon
  <1>9. \A m \in dvMetas : tgt.rules[m] \ Old(m) # {} =>
          Entry(m, tgt.rules[m] \ Old(m), ~tgt.allow) \in t3
    BY <1>3, Zenon
  <1> HIDE DEF t1, t2, t3
  <1>10. DOMAIN <<t1, t2, t3>> = 1 .. 3 /\ <<t1, t2, t3>>[1] = t1 /\ <<t1, t2, t3>>[2] = t2
         /\ <<t1, t2, t3>>[3] = t3
    BY SMT
  <1> QED BY <1>1, <1>4, <1>5, <1>6, <1>7, <1>8, <1>9, <1>10, Zenon DEF GivesRules, Old, D

LEMMA WritingStarts ==
  ASSUME dvInv, dv.pc = "build", dv.conf.v = 1, dv'.todo = Transition(dv.cur, dv.emu),
         dv'.emu = dv.emu, dv'.kernel = dv.kernel, dv'.before = dv.before
  PROVE  dvWriting' /\ DOMAIN dv'.todo = 1 .. 3
  <1> DEFINE b == dv.before.kernel
             t == dv.emu.rules
             D == dv.cur.allow \/ dv.emu.allow
             Old(m) == IF D THEN {} ELSE dv.cur.rules[m]
             td == Transition(dv.cur, dv.emu)
  <1>1. /\ dv.kernel = b /\ dv.cur.allow = b.allow
        /\ ~b.allow => \A m \in dvMetas : dv.cur.rules[m] = b.rules[m]
    BY DEF dvInv, dvList, Quiet
  <1>2. b.allow \in BOOLEAN /\ dv.emu.allow \in BOOLEAN
    BY DEF dvInv, dvShape, IsKernel, IsEmulator
  <1>3. /\ DOMAIN td = 1 .. 3
        /\ td[1] = IF D THEN {AllRule(dv.emu.allow)} ELSE {}
        /\ \A e \in td[2] : \E m \in dvMetas : e = Entry(m, Old(m) \ t[m], dv.emu.allow)
        /\ \A m \in dvMetas : Old(m) \ t[m] # {} => Entry(m, Old(m) \ t[m], dv.emu.allow) \in td[2]
        /\ D => td[2] = {}
        /\ \A e \in td[3] : \E m \in dvMetas : e = Entry(m, t[m] \ Old(m), ~dv.emu.allow)
        /\ \A m \in dvMetas : t[m] \ Old(m) # {} => Entry(m, t[m] \ Old(m), ~dv.emu.allow) \in td[3]
    <2>1. dv.cur.allow \in BOOLEAN BY <1>1, <1>2, Zenon
    <2>2. GivesRules(dv.cur, dv.emu, td) BY <1>2, <2>1, TransitionIs
    <2> HIDE DEF td
    <2> QED BY <2>2, Zenon DEF GivesRules
  <1>4. D <=> b.allow \/ dv.emu.allow BY <1>1, Zenon
  <1>5. ~D => \A m \in dvMetas : Old(m) = b.rules[m] BY <1>1, Zenon
  <1>6. D => \A m : Old(m) = {} BY Zenon
  <1> HIDE DEF D, Old, td, b, t
  <1>7. \A e \in td[2] : /\ Meta(e) \in dvMetas /\ e.allow = dv.emu.allow
                         /\ e.perms \cap t[Meta(e)] = {}
    <2> SUFFICES ASSUME NEW e \in td[2]
                 PROVE  Meta(e) \in dvMetas /\ e.allow = dv.emu.allow /\ e.perms \cap t[Meta(e)] = {}
      OBVIOUS
    <2>1. PICK m \in dvMetas : e = Entry(m, Old(m) \ t[m], dv.emu.allow) BY <1>3
    <2>2. Meta(e) = m /\ e.perms = Old(m) \ t[m] /\ e.allow = dv.emu.allow BY <2>1, EntryIs, SMT
    <2> QED BY <2>2
  <1>8. \A e \in td[3] : /\ Meta(e) \in dvMetas /\ e.allow = ~dv.emu.allow
                         /\ e.perms \subseteq t[Meta(e)]
    <2> SUFFICES ASSUME NEW e \in td[3]
                 PROVE  Meta(e) \in dvMetas /\ e.allow = ~dv.emu.allow /\ e.perms \subseteq t[Meta(e)]
      OBVIOUS
    <2>1. PICK m \in dvMetas : e = Entry(m, t[m] \ Old(m), ~dv.emu.allow) BY <1>3
    <2>2. Meta(e) = m /\ e.perms = t[m] \ Old(m) /\ e.allow = ~dv.emu.allow BY <2>1, EntryIs, SMT
    <2> QED BY <2>2
  <1>9. ~D => \A m \in dvMetas :
          \/ b.rules[m] \subseteq t[m]
          \/ \E e \in td[2] : Meta(e) = m /\ b.rules[m] \ t[m] \subseteq e.perms
    <2>1. SUFFICES ASSUME ~D, NEW m \in dvMetas, ~(b.rules[m] \subseteq t[m])
                   PROVE  \E e \in td[2] : Meta(e) = m /\ b.rules[m] \ t[m] \subseteq e.perms
      BY Zenon
    <2>2. Old(m) \ t[m] = b.rules[m] \ t[m] /\ Old(m) \ t[m] # {} BY <1>5, <2>1, Zenon
    <2> DEFINE e == Entry(m, Old(m) \ t[m], dv.emu.allow)
    <2>3. e \in td[2] BY <1>3, <2>2, Zenon
    <2>4. Meta(e) = m /\ e.perms = Old(m) \ t[m] BY EntryIs, SMT
    <2> HIDE DEF e
    <2> QED BY <2>2, <2>3, <2>4, Zenon
  <1>10. D => \A m \in dvMetas : t[m] = {} \/ \E e \in td[3] : Meta(e) = m /\ t[m] \subseteq e.perms
    <2>1. SUFFICES ASSUME D, NEW m \in dvMetas, t[m] # {}
                   PROVE  \E e \in td[3] : Meta(e) = m /\ t[m] \subseteq e.perms
      BY Zenon
    <2>2. t[m] \ Old(m) = t[m] BY <1>6, <2>1, Zenon
    <2> DEFINE e == Entry(m, t[m] \ Old(m), ~dv.emu.allow)
    <2>3. e \in td[3] BY <1>3, <2>1, <2>2, Zenon
    <2>4. Meta(e) = m /\ e.perms = t[m] \ Old(m) BY EntryIs, SMT
    <2> HIDE DEF e
    <2> QED BY <2>2, <2>3, <2>4, Zenon
  <1>11. /\ td[1] # {} => D /\ td[1] = {AllRule(dv.emu.allow)} /\ td[2] = {}
         /\ td[1] = {} => ~D
         /\ td[2] # {} => ~D
    BY <1>3, Zenon
  <1>12. dv'.kernel = b /\ dv'.before.kernel = b /\ dv'.emu = dv.emu /\ dv'.emu.rules = t
    BY <1>1, Zenon DEF b, t
  <1>13. DOMAIN td = 1 .. 3 BY <1>3
  <1>14. dv'.todo = td BY Zenon DEF td
  <1>15. dvWriting'
    <2>1. /\ dv'.todo[1] # {} =>
               /\ dv'.todo[1] = {AllRule(dv'.emu.allow)} /\ dv'.todo[2] = {}
               /\ dv'.kernel = dv'.before.kernel
               /\ dv'.before.kernel.allow \/ dv'.emu.allow
          /\ dv'.todo[2] # {} => ~dv'.before.kernel.allow /\ ~dv'.emu.allow
      BY <1>4, <1>11, <1>12, <1>14, Zenon
    <2>2. \A e \in dv'.todo[2] : /\ Meta(e) \in dvMetas /\ e.allow = dv'.emu.allow
                                 /\ e.perms \cap dv'.emu.rules[Meta(e)] = {}
      BY <1>7, <1>12, <1>14
    <2>3. \A e \in dv'.todo[3] : /\ Meta(e) \in dvMetas /\ e.allow = ~dv'.emu.allow
                                 /\ e.perms \subseteq dv'.emu.rules[Meta(e)]
      BY <1>8, <1>12, <1>14
    <2>4. dv'.todo[1] = {} => dv'.kernel.allow = dv'.emu.allow /\ ~dv'.before.kernel.allow
      BY <1>2, <1>4, <1>11, <1>12, <1>14, Zenon
    <2>5. ASSUME dv'.todo[1] = {}, NEW m \in dvMetas
          PROVE  \/ dv'.kernel.rules[m] \subseteq dv'.emu.rules[m]
                 \/ /\ dv'.kernel.rules[m] \subseteq dv'.before.kernel.rules[m]
                    /\ \E e \in dv'.todo[2] : Drops(e, m)'
      <3>1. ~D BY <1>11, <1>14, <2>5
      <3>2. \/ b.rules[m] \subseteq t[m]
            \/ \E e \in td[2] : Meta(e) = m /\ b.rules[m] \ t[m] \subseteq e.perms
        BY <1>9, <3>1
      <3> QED BY <1>12, <1>14, <3>2, Zenon DEF Drops
    <2>6. dv'.emu.allow => \A m \in dvMetas :
            dv'.emu.rules[m] = {} \/ \E e \in dv'.todo[3] : Gains(e, m)'
      <3>1. SUFFICES ASSUME dv'.emu.allow, NEW m \in dvMetas
                     PROVE  dv'.emu.rules[m] = {} \/ \E e \in dv'.todo[3] : Gains(e, m)'
        OBVIOUS
      <3>2. D BY <1>4, <1>12, <3>1
      <3>3. t[m] = {} \/ \E e \in td[3] : Meta(e) = m /\ t[m] \subseteq e.perms BY <1>10, <3>2
      <3> QED BY <1>12, <1>14, <3>3, Zenon DEF Gains
    <2>7. ~dv'.before.kernel.allow /\ ~dv'.emu.allow =>
            /\ dv'.todo[1] = {}
            /\ \A m \in dvMetas : dv'.before.kernel.rules[m] \cap dv'.emu.rules[m]
                                   \subseteq dv'.kernel.rules[m]
      BY <1>4, <1>11, <1>12, <1>14
    <2> QED BY <2>1, <2>2, <2>3, <2>4, <2>5, <2>6, <2>7, ZenonT(20) DEF dvWriting
  <1> QED BY <1>13, <1>14, <1>15

LEMMA BuildEnds ==
  ASSUME dvInv, dv.pc = "build", ~(dv.i <= Len(dvRules)),
         dv' = [dv EXCEPT !.pc = IF dv.conf.v = 1 THEN "write" ELSE "filter",
                          !.todo = IF dv.conf.v = 1 THEN Transition(dv.cur, dv.emu) ELSE @]
  PROVE  dvInv'
  <1>1. /\ Only({"pc", "todo"})
        /\ dv'.pc = IF dv.conf.v = 1 THEN "write" ELSE "filter"
        /\ dv'.todo = IF dv.conf.v = 1 THEN Transition(dv.cur, dv.emu) ELSE dv.todo
    BY FieldsIn, Zenon DEF dvInv, dvShape, Only
  <1>2. /\ SameBuild /\ SamePrograms /\ dv'.kernel = dv.kernel /\ DOMAIN dv' = dvFields
    BY <1>1, FieldsIn, Zenon DEF Only, SameBuild, SamePrograms, SameSet
  <1>3. dv.i = Len(dvRules) + 1
    BY ConfIs, SMT DEF dvInv, dvShape
  <1>4. dv.conf.v \in {1, 2} BY ConfIs DEF dvInv
  <1>5. dv.conf.v = 1 => dvWriting' /\ DOMAIN dv'.todo = 1 .. 3
    BY <1>1, <1>2, WritingStarts DEF SameBuild, SamePrograms
  <1>6. dvRules' = dvRules BY <1>2, Zenon DEF dvRules, SameBuild, SameSet
  <1>7. dvShape'
    <2>1. DOMAIN dv'.todo = 1 .. 3 BY <1>1, <1>5, Zenon DEF dvInv, dvShape
    <2>2. /\ dv'.pc \in Early
          /\ dv'.pc \in {"write", "check"} => dv.conf.v = 1
          /\ dv'.pc \in {"filter", "query", "attach", "detach"} => dv.conf.v = 2
      BY <1>1, <1>4 DEF Early
    <2> QED BY <1>2, <1>6, <2>1, <2>2, Zenon DEF dvInv, dvShape, SameBuild, SamePrograms, SameSet
  <1>8. dvBuilt'
    <2>1. Built(dv.i - 1)' BY <1>2, BuiltSame DEF dvInv, dvBuilt, Early, Quiet
    <2>2. dv'.i = dv.i BY <1>2 DEF SameBuild
    <2> QED BY <1>1, <1>3, <1>6, <2>1, <2>2 DEF dvBuilt, Quiet
  <1>9. dvList' BY <1>1, <1>2, <1>5 DEF dvList, Quiet, SameBuild, SameSet
  <1>10. dvIds' BY <1>2, IdsSame DEF dvInv, Early, Quiet
  <1>11. dvPrograms'
    <2>1. Kept' BY <1>2, KeptSame DEF dvInv, dvPrograms, Early, Quiet
    <2> QED BY <1>1, <2>1 DEF dvPrograms
  <1> QED BY <1>7, <1>8, <1>9, <1>10, <1>11 DEF dvInv

\* What a write does to the controller.
Written(k, r, after) ==
  /\ IsKernel(after) /\ after.allow = k.allow
  /\ \A m \in dvMetas \ {Meta(r)} : after.rules[m] = k.rules[m]
  /\ r.allow = k.allow => after.rules[Meta(r)] = k.rules[Meta(r)] \ r.perms
  /\ r.allow # k.allow => after.rules[Meta(r)] = k.rules[Meta(r)] \cup r.perms

LEMMA WriteDoes ==
  ASSUME NEW k, IsKernel(k), NEW r, r.node # "a", Meta(r) \in dvMetas
  PROVE  Written(k, r, KernelWrite(k, r))
  <1> DEFINE mr == Meta(r)
  <1> HIDE DEF mr
  <1>1. CASE r.allow = k.allow
    <2>1. KernelWrite(k, r) = [k EXCEPT !.rules[mr] = @ \ r.perms]
      BY <1>1, Zenon DEF KernelWrite, mr
    <2> QED BY <1>1, <2>1, SMT DEF Written, IsKernel, mr
  <1>2. CASE r.allow # k.allow
    <2>1. KernelWrite(k, r) = [k EXCEPT !.rules[mr] = @ \cup r.perms]
      BY <1>2, Zenon DEF KernelWrite, mr
    <2> QED BY <1>2, <2>1, SMT DEF Written, IsKernel, mr
  <1> QED BY <1>1, <1>2

LEMMA NotAll == ASSUME NEW r, Meta(r) \in dvMetas PROVE r.node # "a"
  <1>1. Meta(r) \in [node : {"b", "c"}, major : Int, minor : Int] BY dvAssumption, Zenon
  <1>2. Meta(r).node # "a" BY <1>1, SMT
  <1>3. Meta(r).node = r.node BY Zenon DEF Meta
  <1> QED BY <1>2, <1>3

LEMMA WritesAll ==
  ASSUME dvShape, dvWriting, NEW r \in dv.todo[1],
         dv'.todo = [dv.todo EXCEPT ![1] = @ \ {r}], dv'.kernel = KernelWrite(dv.kernel, r),
         dv'.emu = dv.emu, dv'.before = dv.before
  PROVE  dvWriting' /\ IsKernel(dv'.kernel)
  <1>1. /\ r = AllRule(dv.emu.allow) /\ dv.todo[1] = {r} /\ dv.todo[2] = {}
        /\ dv.before.kernel.allow \/ dv.emu.allow
    <2>1. dv.todo[1] = {AllRule(dv.emu.allow)} /\ dv.todo[2] = {}
      BY Zenon DEF dvWriting
    <2>2. dv.before.kernel.allow \/ dv.emu.allow BY Zenon DEF dvWriting
    <2> QED BY <2>1, <2>2, Zenon
  <1>2. dv'.kernel = [allow |-> dv.emu.allow, rules |-> NoRules]
    <2>1. r.node = "a" /\ r.allow = dv.emu.allow BY <1>1, SMT DEF AllRule
    <2> QED BY <2>1, Zenon DEF KernelWrite
  <1>3. dv'.todo[1] = {} /\ dv'.todo[2] = {} /\ dv'.todo[3] = dv.todo[3]
    BY <1>1, SMT DEF dvShape
  <1>4. dv.emu.allow \in BOOLEAN BY DEF dvShape, IsEmulator
  <1>5. dv'.kernel.allow = dv.emu.allow /\ \A m \in dvMetas : dv'.kernel.rules[m] = {}
    BY <1>2, SMT DEF NoRules
  <1>6. IsKernel(dv'.kernel) BY <1>2, <1>4 DEF IsKernel, NoRules
  <1>7. ~(~dv.before.kernel.allow /\ ~dv.emu.allow) BY <1>1
  <1>8. dvWriting'
    <2>1. \A e \in dv'.todo[3] : /\ Meta(e) \in dvMetas /\ e.allow = ~dv'.emu.allow
                                 /\ e.perms \subseteq dv'.emu.rules[Meta(e)]
      BY <1>3, Zenon DEF dvWriting
    <2>2. dv'.emu.allow => \A m \in dvMetas :
          dv'.emu.rules[m] = {} \/ \E e \in dv'.todo[3] : Gains(e, m)'
      BY <1>1, <1>3, Zenon DEF dvWriting, Gains
    <2> QED BY <1>3, <1>5, <1>7, <2>1, <2>2, Zenon DEF dvWriting
  <1> QED BY <1>6, <1>8

LEMMA WritesDrop ==
  ASSUME dvShape, dvWriting, NEW r \in dv.todo[2],
         dv'.todo = [dv.todo EXCEPT ![2] = @ \ {r}], dv'.kernel = KernelWrite(dv.kernel, r),
         dv'.emu = dv.emu, dv'.before = dv.before
  PROVE  dvWriting' /\ IsKernel(dv'.kernel)
  <1> DEFINE b == dv.before.kernel
             t == dv.emu.rules
             k == dv.kernel.rules
             mr == Meta(r)
  <1>1. /\ ~b.allow /\ ~dv.emu.allow /\ dv.todo[1] = {} /\ dv.kernel.allow = dv.emu.allow
        /\ mr \in dvMetas /\ r.allow = dv.emu.allow /\ r.perms \cap t[mr] = {}
    BY Zenon DEF dvWriting
  <1>2. r.node # "a" /\ IsKernel(dv.kernel) BY <1>1, NotAll DEF dvShape
  <1>3. /\ IsKernel(dv'.kernel) /\ dv'.kernel.allow = dv.kernel.allow
        /\ \A m \in dvMetas \ {mr} : dv'.kernel.rules[m] = k[m]
        /\ dv'.kernel.rules[mr] = k[mr] \ r.perms
    <2>1. Written(dv.kernel, r, dv'.kernel) BY <1>1, <1>2, WriteDoes
    <2> QED BY <1>1, <2>1, Zenon DEF Written
  <1>4. dv'.todo[1] = {} /\ dv'.todo[2] = dv.todo[2] \ {r} /\ dv'.todo[3] = dv.todo[3]
    BY <1>1, SMT DEF dvShape
  <1>5. ASSUME NEW m \in dvMetas
        PROVE  /\ \/ dv'.kernel.rules[m] \subseteq t[m]
                  \/ /\ dv'.kernel.rules[m] \subseteq b.rules[m]
                     /\ \E e \in dv'.todo[2] : Drops(e, m)
               /\ b.rules[m] \cap t[m] \subseteq dv'.kernel.rules[m]
    <2>1. /\ \/ k[m] \subseteq t[m]
             \/ k[m] \subseteq b.rules[m] /\ \E e \in dv.todo[2] : Drops(e, m)
          /\ b.rules[m] \cap t[m] \subseteq k[m]
      BY <1>1, Zenon DEF dvWriting
    <2> HIDE DEF b, t, k, mr
    <2>2. CASE m # mr
      <3>1. dv'.kernel.rules[m] = k[m] BY <1>3, <2>2, Zenon
      <3>2. \A e \in dv.todo[2] : Drops(e, m) => e \in dv'.todo[2]
        BY <1>4, <2>2, Zenon DEF Drops, mr
      <3> QED BY <2>1, <3>1, <3>2, Zenon
    <2>3. CASE m = mr
      <3>1. dv'.kernel.rules[m] = k[m] \ r.perms BY <1>3, <2>3, Zenon
      <3>2. b.rules[m] \cap t[m] \subseteq dv'.kernel.rules[m] BY <1>1, <2>1, <2>3, <3>1, Zenon
      <3>3. CASE k[m] \subseteq t[m] BY <3>1, <3>2, <3>3, Zenon
      <3>4. CASE ~(k[m] \subseteq t[m])
        <4>1. PICK e \in dv.todo[2] : k[m] \subseteq b.rules[m] /\ Drops(e, m)
          BY <2>1, <3>4, Zenon
        <4>2. CASE e = r
          <5>1. b.rules[m] \ t[m] \subseteq r.perms BY <4>1, <4>2, Zenon DEF Drops, b, t
          <5> QED BY <3>1, <3>2, <4>1, <5>1, Zenon
        <4>3. CASE e # r
          <5>1. e \in dv'.todo[2] BY <1>4, <4>3, Zenon
          <5> QED BY <3>1, <3>2, <4>1, <5>1, Zenon
        <4> QED BY <4>2, <4>3
      <3> QED BY <3>3, <3>4
    <2> QED BY <2>2, <2>3
  <1>6. dvWriting'
    <2>1. \A e \in dv'.todo[3] : /\ Meta(e) \in dvMetas /\ e.allow = ~dv'.emu.allow
                                 /\ e.perms \subseteq dv'.emu.rules[Meta(e)]
      BY <1>4, Zenon DEF dvWriting
    <2>2. \A e \in dv'.todo[2] : /\ Meta(e) \in dvMetas /\ e.allow = dv'.emu.allow
                                 /\ e.perms \cap dv'.emu.rules[Meta(e)] = {}
      BY <1>4, Zenon DEF dvWriting
    <2>3. \A m \in dvMetas : \A e : Drops(e, m)' <=> Drops(e, m) BY Zenon DEF Drops
    <2>4. ~dv'.emu.allow /\ ~dv'.before.kernel.allow /\ dv'.kernel.allow = dv'.emu.allow
      BY <1>1, <1>3
    <2>5. \A m \in dvMetas :
            /\ \/ dv'.kernel.rules[m] \subseteq dv'.emu.rules[m]
               \/ /\ dv'.kernel.rules[m] \subseteq dv'.before.kernel.rules[m]
                  /\ \E e \in dv'.todo[2] : Drops(e, m)'
            /\ dv'.before.kernel.rules[m] \cap dv'.emu.rules[m] \subseteq dv'.kernel.rules[m]
      BY <1>5, <2>3, Zenon
    <2> QED BY <1>4, <2>1, <2>2, <2>4, <2>5, ZenonT(20) DEF dvWriting
  <1> QED BY <1>3, <1>6

\* The parts that a step of the writing loop leaves alone.
LEMMA WritePart ==
  ASSUME dvInv, dv.pc \in {"write", "check"}, dv'.pc \in {"write", "check"},
         SameBuild, SamePrograms, dvList', DOMAIN dv' = dvFields, DOMAIN dv'.todo = 1 .. 3,
         IsKernel(dv'.kernel)
  PROVE  dvInv'
  <1>1. dv.pc \in Early /\ dv'.pc \in Early BY DEF Early
  <1>2. dvRules' = dvRules /\ dv'.i = dv.i BY Zenon DEF dvRules, SameBuild, SameSet
  <1>3. dv.conf.v = 1 BY DEF dvInv, dvShape
  <1>4. dvShape'
    BY <1>1, <1>2, <1>3 DEF dvInv, dvShape, SameBuild, SamePrograms, SameSet
  <1>5. dvBuilt'
    <2>1. Built(dv.i - 1)' /\ dv.i = Len(dvRules) + 1
      BY <1>1, BuiltSame DEF dvInv, dvBuilt
    <2> QED BY <1>2, <2>1 DEF dvBuilt
  <1>6. dvIds' BY <1>1, IdsSame DEF dvInv
  <1>7. dvPrograms'
    <2>1. Kept' BY <1>1, KeptSame DEF dvInv, dvPrograms
    <2> QED BY <2>1 DEF dvPrograms
  <1> QED BY <1>4, <1>5, <1>6, <1>7 DEF dvInv

LEMMA EndOnly ==
  ASSUME dvInv, Only({"pc", "result", "faults"}), dv'.pc = "returned", dv'.result # "ok"
  PROVE  dvInv'
  <1>1. Only({"pc", "result", "faults", "size", "tries"}) BY Zenon DEF Only
  <1> QED BY <1>1, EndStep

LEMMA WritesGain ==
  ASSUME dvShape, dvWriting, NEW r \in dv.todo[3], dv.todo[1] = {}, dv.todo[2] = {},
         dv'.todo = [dv.todo EXCEPT ![3] = @ \ {r}], dv'.kernel = KernelWrite(dv.kernel, r),
         dv'.emu = dv.emu, dv'.before = dv.before
  PROVE  dvWriting' /\ IsKernel(dv'.kernel)
  <1> DEFINE b == dv.before.kernel
             t == dv.emu.rules
             k == dv.kernel.rules
             mr == Meta(r)
  <1>1. /\ dv.kernel.allow = dv.emu.allow
        /\ mr \in dvMetas /\ r.allow = ~dv.emu.allow /\ r.perms \subseteq t[mr]
    BY Zenon DEF dvWriting
  <1>2. r.node # "a" /\ IsKernel(dv.kernel) BY <1>1, NotAll DEF dvShape
  <1>3. /\ IsKernel(dv'.kernel) /\ dv'.kernel.allow = dv.kernel.allow
        /\ \A m \in dvMetas \ {mr} : dv'.kernel.rules[m] = k[m]
        /\ dv'.kernel.rules[mr] = k[mr] \cup r.perms
    <2>1. Written(dv.kernel, r, dv'.kernel) BY <1>1, <1>2, WriteDoes
    <2>2. r.allow # dv.kernel.allow
      <3>1. dv.emu.allow \in BOOLEAN BY DEF dvShape, IsEmulator
      <3> QED BY <1>1, <3>1
    <2> QED BY <2>1, <2>2, Zenon DEF Written
  <1>4. dv'.todo[1] = {} /\ dv'.todo[2] = {} /\ dv'.todo[3] = dv.todo[3] \ {r}
    BY <1>1, SMT DEF dvShape
  <1>5. ASSUME NEW m \in dvMetas
        PROVE  /\ k[m] \subseteq dv'.kernel.rules[m] /\ dv'.kernel.rules[m] \subseteq t[m]
               /\ \A e \in dv.todo[3] : Gains(e, m) =>
                    e \in dv'.todo[3] \/ t[m] \subseteq dv'.kernel.rules[m]
    <2>1. k[m] \subseteq t[m] BY Zenon DEF dvWriting
    <2> HIDE DEF t, k, mr
    <2>2. k[m] \subseteq dv'.kernel.rules[m] /\ dv'.kernel.rules[m] \subseteq t[m]
      BY <1>1, <1>3, <2>1, Zenon
    <2>3. Gains(r, m) => t[m] \subseteq dv'.kernel.rules[m]
      <3>1. Gains(r, m) => m = mr /\ t[m] \subseteq r.perms BY Zenon DEF Gains, t, mr
      <3> QED BY <1>3, <3>1, Zenon
    <2> QED BY <1>4, <2>2, <2>3, Zenon
  <1>6. dvWriting'
    <2>1. \A e \in dv'.todo[3] : /\ Meta(e) \in dvMetas /\ e.allow = ~dv'.emu.allow
                                 /\ e.perms \subseteq dv'.emu.rules[Meta(e)]
      BY <1>4, Zenon DEF dvWriting
    <2>2. \A m \in dvMetas : \A e : Gains(e, m)' <=> Gains(e, m) BY Zenon DEF Gains
    <2>3. dv'.emu.allow => \A m \in dvMetas :
            \/ dv'.emu.rules[m] = {}
            \/ \E e \in dv'.todo[3] : Gains(e, m)'
            \/ dv'.emu.rules[m] \subseteq dv'.kernel.rules[m]
      <3> SUFFICES ASSUME dv.emu.allow, NEW m \in dvMetas
                   PROVE  \/ t[m] = {}
                          \/ \E e \in dv'.todo[3] : Gains(e, m)
                          \/ t[m] \subseteq dv'.kernel.rules[m]
        BY <2>2, Zenon
      <3>1. t[m] = {} \/ (\E e \in dv.todo[3] : Gains(e, m)) \/ t[m] \subseteq k[m]
        BY Zenon DEF dvWriting
      <3> HIDE DEF t, k
      <3> QED BY <1>5, <3>1, Zenon
    <2>4. \A m \in dvMetas : dv'.kernel.rules[m] \subseteq dv'.emu.rules[m] BY <1>5, Zenon
    <2>5. ~dv'.before.kernel.allow /\ ~dv'.emu.allow => \A m \in dvMetas :
            dv'.before.kernel.rules[m] \cap dv'.emu.rules[m] \subseteq dv'.kernel.rules[m]
      <3>1. ~b.allow /\ ~dv.emu.allow =>
              \A m \in dvMetas : b.rules[m] \cap t[m] \subseteq k[m]
        BY Zenon DEF dvWriting
      <3> HIDE DEF t, k
      <3> QED BY <1>5, <3>1, Zenon DEF t
    <2>6. dv'.kernel.allow = dv'.emu.allow BY <1>1, <1>3
    <2> QED BY <1>4, <2>1, <2>3, <2>4, <2>5, <2>6, Zenon DEF dvWriting
  <1> QED BY <1>3, <1>6

\* writeRules keeps the invariant: one write, the last one, or an error.
LEMMA writeRulesStep == ASSUME dvInv, writeRules PROVE dvInv'
  <1>1. dv.pc = "write" /\ dv.conf.v = 1 /\ DOMAIN dv = dvFields /\ DOMAIN dv.todo = 1 .. 3
    BY DEF writeRules, dvAt, dvInv, dvShape
  <1>2. dvWriting BY <1>1 DEF dvInv, dvList
  <1>3. CASE dvFail BY <1>1, <1>3, FailDoes, EndOnly DEF dvInv
  <1>4. ASSUME \A g \in 1..3 : dv.todo[g] = {}, dv' = [dv EXCEPT !.pc = "check"]
        PROVE  dvInv'
    <2>1. Only({"pc"}) /\ dv'.pc = "check" BY <1>1, <1>4, FieldsIn, Zenon DEF Only
    <2>2. /\ SameBuild /\ SamePrograms /\ dv'.kernel = dv.kernel /\ dv'.todo = dv.todo
          /\ DOMAIN dv' = dvFields
      BY <2>1, FieldsIn, Zenon DEF Only, SameBuild, SamePrograms, SameSet
    <2>3. dv.todo[1] = {} /\ dv.todo[2] = {} /\ dv.todo[3] = {} BY <1>4, SMT
    <2>4. dv.emu.allow => SameRules(dv.kernel, dv.emu)
      BY <1>2, <2>3, Zenon DEF dvWriting, SameRules
    <2>5. dvList'
      BY <2>1, <2>2, <2>4 DEF dvList, Quiet, SameRules, SameBuild, SameSet
    <2>6. IsKernel(dv'.kernel) BY <2>2 DEF dvInv, dvShape
    <2> QED BY <1>1, <2>1, <2>2, <2>5, <2>6, WritePart
  <1>5. ASSUME NEW g \in 1..3, \A l \in 1..(g-1) : dv.todo[l] = {}, NEW r \in dv.todo[g],
               dv' = [dv EXCEPT !.todo[g] = @ \ {r}, !.kernel = KernelWrite(@, r)]
        PROVE  dvInv'
    <2>1. /\ Only({"todo", "kernel"}) /\ dv'.kernel = KernelWrite(dv.kernel, r)
          /\ dv'.todo = [dv.todo EXCEPT ![g] = @ \ {r}]
      BY <1>1, <1>5, FieldsIn, Zenon DEF Only
    <2>2. SameBuild /\ SamePrograms /\ dv'.pc = "write" /\ DOMAIN dv' = dvFields
      BY <1>1, <2>1, FieldsIn, Zenon DEF Only, SameBuild, SamePrograms, SameSet
    <2>3. dv'.emu = dv.emu /\ dv'.before = dv.before BY <2>2 DEF SameBuild, SamePrograms
    <2>4. dvWriting' /\ IsKernel(dv'.kernel)
      <3>1. CASE g = 1 BY <1>2, <1>5, <2>1, <2>3, <3>1, WritesAll DEF dvInv
      <3>2. CASE g = 2 BY <1>2, <1>5, <2>1, <2>3, <3>2, WritesDrop DEF dvInv
      <3>3. CASE g = 3
        <4>1. dv.todo[1] = {} /\ dv.todo[2] = {} BY <1>5, <3>3, SMT
        <4> QED BY <1>2, <1>5, <2>1, <2>3, <3>3, <4>1, WritesGain DEF dvInv
      <3> QED BY <3>1, <3>2, <3>3, SMT
    <2>5. DOMAIN dv'.todo = 1 .. 3 BY <1>1, <2>1
    <2>6. dvList' BY <2>2, <2>4 DEF dvList, Quiet
    <2> QED BY <1>1, <2>2, <2>4, <2>5, <2>6, WritePart
  <1>6. \/ dvFail
        \/ (\A g \in 1..3 : dv.todo[g] = {}) /\ dv' = [dv EXCEPT !.pc = "check"]
        \/ \E g \in 1..3 : /\ \A l \in 1..(g-1) : dv.todo[l] = {}
                           /\ \E r \in dv.todo[g] :
                                dv' = [dv EXCEPT !.todo[g] = @ \ {r},
                                                 !.kernel = KernelWrite(@, r)]
    BY Zenon DEF writeRules, First
  <1> QED BY <1>3, <1>4, <1>5, <1>6, Zenon

\* finalCheck keeps the invariant: what it accepts is what the emulator has.
LEMMA finalCheckStep == ASSUME dvInv, finalCheck PROVE dvInv'
  <1> DEFINE after == EmulatorFromList(DevicesList(dv.kernel))
  <1>1. dv.pc = "check" /\ dv.conf.v = 1 /\ DOMAIN dv = dvFields
    BY DEF finalCheck, dvAt, dvInv, dvShape
  <1>2. CASE dvFail BY <1>1, <1>2, FailDoes, EndOnly
  <1>3. CASE dvReturn("error")
    <2>1. Only({"pc", "result"}) /\ dv'.pc = "returned" /\ dv'.result = "error"
      BY <1>1, <1>3, ReturnDoes
    <2>2. Only({"pc", "result", "faults"}) BY <2>1, Zenon DEF Only
    <2> QED BY <2>1, <2>2, EndOnly
  <1>4. ASSUME dvReturn("ok"), ~((~dv.emu.allow /\ after # dv.emu) \/ dv.emu.allow # after.allow)
        PROVE  dvInv'
    <2>1. Only({"pc", "result"}) /\ dv'.pc = "returned" /\ dv'.result = "ok"
      BY <1>1, <1>4, ReturnDoes
    <2>2. /\ SameBuild /\ SamePrograms /\ dv'.todo = dv.todo /\ dv'.kernel = dv.kernel
          /\ DOMAIN dv' = dvFields
      BY <2>1, FieldsIn, Zenon DEF Only, SameBuild, SamePrograms, SameSet
    <2>3. SameRules(dv.kernel, dv.emu)
      <3>1. IsKernel(dv.kernel) BY DEF dvInv, dvShape
      <3>2. /\ after.allow = dv.kernel.allow
            /\ ~dv.kernel.allow => \A m \in dvMetas : after.rules[m] = dv.kernel.rules[m]
        BY <3>1, ListRead
      <3>3. dv.emu.allow => SameRules(dv.kernel, dv.emu) BY <1>1 DEF dvInv, dvList
      <3> HIDE DEF after
      <3> QED BY <1>4, <3>2, <3>3, Zenon DEF SameRules
    <2>4. dv'.pc \notin Early \cup {"detach"} BY <2>1 DEF Early, Quiet
    <2>5. dvShape' BY <2>1, <2>2, <2>4, ShapeSame DEF dvInv
    <2>6. dvBuilt'
      <3>1. Built(dv.i - 1)' /\ dv.i = Len(dvRules) + 1
        BY <1>1, <2>2, BuiltSame DEF dvInv, dvBuilt, Early
      <3>2. dvRules' = dvRules /\ dv'.i = dv.i BY <2>2, Zenon DEF dvRules, SameBuild, SameSet
      <3> QED BY <2>1, <2>4, <3>1, <3>2 DEF dvBuilt, Early, Quiet
    <2>7. dvList'
      <3>1. SameRules(dv.kernel, dv.emu)' BY <2>2, <2>3, Zenon DEF SameRules, SameBuild
      <3> QED BY <2>1, <2>4, <3>1 DEF dvList, Early, Quiet
    <2>8. dvIds' BY <2>2, <2>4, IdsSame DEF dvInv
    <2>9. dvPrograms'
      <3>1. dv'.conf.v = 1 BY <1>1, <2>2 DEF SameBuild, SameSet
      <3> QED BY <2>1, <2>4, <3>1 DEF dvPrograms
    <2> QED BY <2>5, <2>6, <2>7, <2>8, <2>9 DEF dvInv
  <1> QED BY <1>2, <1>3, <1>4, Zenon DEF finalCheck

\* SetDevices keeps the invariant: it reads devices.list or gives up.
LEMMA SetDevicesStep == ASSUME dvInv, SetDevices PROVE dvInv'
  <1> DEFINE c == IF dv.conf.v = 1 THEN EmulatorFromList(DevicesList(dv.kernel)) ELSE dv.cur
  <1>1. dv.pc = "set" /\ DOMAIN dv = dvFields BY DEF SetDevices, dvAt, dvInv, dvShape
  <1>2. CASE dvFail BY <1>1, <1>2, FailDoes, EndOnly
  <1>3. CASE dvReturn("skipped")
    <2>1. Only({"pc", "result"}) /\ dv'.pc = "returned" /\ dv'.result = "skipped"
      BY <1>1, <1>3, ReturnDoes
    <2>2. Only({"pc", "result", "faults"}) BY <2>1, Zenon DEF Only
    <2> QED BY <2>1, <2>2, EndOnly
  <1>4. ASSUME dv' = [dv EXCEPT !.pc = "build", !.cur = c]
        PROVE  dvInv'
    <2> HIDE DEF c
    <2>1. Only({"pc", "cur"}) /\ dv'.pc = "build" /\ dv'.cur = c
      BY <1>1, <1>4, FieldsIn, Zenon DEF Only
    <2>2. Only({"pc", "cur", "size", "tries"}) BY <2>1, Zenon DEF Only
    <2>3. IsKernel(dv.kernel) BY DEF dvInv, dvShape
    <2>4. dv.conf.v = 1 =>
            /\ c.allow = dv.kernel.allow
            /\ ~dv.kernel.allow => \A m \in dvMetas : c.rules[m] = dv.kernel.rules[m]
      BY <2>3, ListRead DEF c
    <2>5. dv.pc \in Early BY <1>1 DEF Early, Quiet
    <2> QED BY <1>1, <2>1, <2>2, <2>4, <2>5, CalmStep
  <1> QED BY <1>2, <1>3, <1>4, Zenon DEF SetDevices

\* buildEmulator keeps the invariant.
LEMMA buildEmulatorStep == ASSUME dvInv, buildEmulator PROVE dvInv'
  <1>1. dv.pc = "build" /\ DOMAIN dv = dvFields BY DEF buildEmulator, dvAt, dvInv, dvShape
  <1>2. CASE dvReturn("error")
    <2>1. Only({"pc", "result"}) /\ dv'.pc = "returned" /\ dv'.result = "error"
      BY <1>1, <1>2, ReturnDoes
    <2>2. Only({"pc", "result", "faults"}) BY <2>1, Zenon DEF Only
    <2> QED BY <2>1, <2>2, EndOnly
  <1>3. dv.i > Len(dvRules) <=> ~(dv.i <= Len(dvRules)) BY ConfIs, SMT DEF dvInv
  <1> QED BY <1>1, <1>2, <1>3, ApplyStep, BuildEnds, Zenon DEF buildEmulator

\* filterDevices keeps the invariant.
LEMMA filterDevicesStep == ASSUME dvInv, filterDevices PROVE dvInv'
  <1>1. dv.pc = "filter" /\ DOMAIN dv = dvFields /\ dv.conf.v = 2 /\ dv.i = Len(dvRules) + 1
    BY DEF filterDevices, dvAt, dvInv, dvShape, dvBuilt
  <1>2. CASE dvFail BY <1>1, <1>2, FailDoes, EndOnly
  <1>3. ASSUME dv' = [dv EXCEPT !.pc = IF FilterErr(dv.emu) THEN "returned" ELSE "query",
                                !.result = IF FilterErr(dv.emu) THEN "internal" ELSE @,
                                !.size = dvQuerySize, !.tries = 0]
        PROVE  dvInv'
    <2>1. /\ Only({"pc", "result", "size", "tries"})
          /\ dv'.pc = IF FilterErr(dv.emu) THEN "returned" ELSE "query"
          /\ dv'.result = IF FilterErr(dv.emu) THEN "internal" ELSE dv.result
      BY <1>1, <1>3, FieldsIn, Zenon DEF Only
    <2>2. CASE FilterErr(dv.emu)
      <3>1. Only({"pc", "result", "faults", "size", "tries"}) BY <2>1, Zenon DEF Only
      <3> QED BY <2>1, <2>2, <3>1, EndStep
    <2>3. CASE ~FilterErr(dv.emu)
      <3>1. Only({"pc", "cur", "size", "tries"}) BY <2>1, <2>3, Zenon DEF Only
      <3> QED BY <1>1, <2>1, <2>3, <3>1, CalmStep DEF Early
    <2> QED BY <2>2, <2>3
  <1> QED BY <1>2, <1>3, Zenon DEF filterDevices

----------------------------------------------------------------------------
(* The programs of a cgroup.                                                *)

LEMMA SeqOwn == ASSUME NEW S, NEW s \in Seq(S) PROVE IsSeq(s)
  <1>1. Len(s) \in Nat /\ DOMAIN s = 1 .. Len(s) /\ s = [i \in 1 .. Len(s) |-> s[i]] BY SMT
  <1> DEFINE T == {s[i] : i \in DOMAIN s}
  <1>2. s \in [1 .. Len(s) -> T] BY <1>1, Zenon
  <1>3. s \in Seq(T) BY <1>1, <1>2, SMT
  <1> QED BY <1>3 DEF IsSeq

LEMMA SeqDomain == ASSUME NEW s, IsSeq(s) PROVE Len(s) \in Nat /\ DOMAIN s = 1 .. Len(s)
BY SMT DEF IsSeq

\* q is s with p at its end; q is s without its element number at.
Appends(s, p, q) ==
  /\ \A i \in DOMAIN s : i \in DOMAIN q /\ q[i] = s[i]
  /\ \E e \in DOMAIN q \ DOMAIN s : q[e] = p /\ DOMAIN q = DOMAIN s \cup {e}
Place(at, k) == IF k < at THEN k ELSE k + 1
Removes(s, at, q) ==
  /\ \A k \in DOMAIN q : Place(at, k) \in DOMAIN s \ {at} /\ q[k] = s[Place(at, k)]
  /\ \A k, l \in DOMAIN q : Place(at, k) = Place(at, l) => k = l
  /\ \A j \in DOMAIN s \ {at} : \E k \in DOMAIN q : q[k] = s[j]

LEMMA AppendIs ==
  ASSUME NEW s, IsSeq(s), NEW p
  PROVE  IsSeq(Append(s, p)) /\ Appends(s, p, Append(s, p))
  <1> DEFINE T == {s[i] : i \in DOMAIN s} \cup {p}
             q == Append(s, p)
  <1>1. s \in Seq(T)
    <2>1. s \in Seq({s[i] : i \in DOMAIN s}) BY DEF IsSeq
    <2> QED BY <2>1, SMT
  <1>2. /\ q \in Seq(T) /\ Len(s) \in Nat /\ DOMAIN s = 1 .. Len(s) /\ Len(q) = Len(s) + 1
        /\ DOMAIN q = 1 .. Len(s) + 1 /\ q[Len(s) + 1] = p /\ \A i \in 1 .. Len(s) : q[i] = s[i]
    <2>1. p \in T OBVIOUS
    <2> HIDE DEF T
    <2>2. Len(s) \in Nat /\ DOMAIN s = 1 .. Len(s) BY <1>1, SMT
    <2>3. /\ q \in Seq(T) /\ Len(q) = Len(s) + 1 /\ q[Len(s) + 1] = p
          /\ \A i \in 1 .. Len(s) : q[i] = s[i]
      BY <1>1, <2>1, AppendProperties
    <2> HIDE DEF q
    <2> QED BY <2>2, <2>3, SMT
  <1>3. IsSeq(q) BY <1>2, SeqOwn
  <1> HIDE DEF q
  <1>4. Appends(s, p, q) BY <1>2, SMT DEF Appends
  <1> QED BY <1>3, <1>4 DEF q

LEMMA DetachedIs ==
  ASSUME NEW s, IsSeq(s), NEW at \in DOMAIN s
  PROVE  IsSeq(Detached(s, at)) /\ Removes(s, at, Detached(s, at))
  <1> DEFINE T == {s[i] : i \in DOMAIN s}
             q == Detached(s, at)
  <1>1. s \in Seq(T) BY DEF IsSeq
  <1>2. /\ q \in Seq(T) /\ Len(s) \in Nat /\ DOMAIN s = 1 .. Len(s) /\ Len(q) = Len(s) - 1
        /\ DOMAIN q = 1 .. Len(s) - 1
        /\ \A k \in 1 .. Len(s) - 1 : q[k] = s[Place(at, k)]
    <2> HIDE DEF T
    <2>1. Len(s) \in Nat /\ DOMAIN s = 1 .. Len(s) /\ at \in 1 .. Len(s) BY <1>1, SMT
    <2> DEFINE u == SubSeq(s, 1, at - 1)
               w == SubSeq(s, at + 1, Len(s))
    <2>2. u \in Seq(T) /\ Len(u) = at - 1 /\ \A k \in 1 .. at - 1 : u[k] = s[k]
      BY <1>1, <2>1, SMT
    <2>3. w \in Seq(T) /\ Len(w) = Len(s) - at /\ \A k \in 1 .. Len(s) - at : w[k] = s[at + k]
      BY <1>1, <2>1, SMT
    <2> HIDE DEF u, w
    <2>4. q = u \o w BY DEF Detached, u, w
    <2> HIDE DEF q
    <2>5. /\ q \in Seq(T) /\ Len(q) = Len(u) + Len(w)
          /\ \A k \in 1 .. Len(u) + Len(w) : q[k] = IF k <= Len(u) THEN u[k] ELSE w[k - Len(u)]
      BY <2>2, <2>3, <2>4, ConcatProperties
    <2>6. q \in Seq(T) /\ Len(q) = Len(s) - 1 /\ DOMAIN q = 1 .. Len(s) - 1
      BY <2>1, <2>2, <2>3, <2>5, SMT
    <2>7. ASSUME NEW k \in 1 .. Len(s) - 1 PROVE q[k] = s[Place(at, k)]
      <3>1. CASE k < at BY <2>1, <2>2, <2>3, <2>5, <3>1, SMT DEF Place
      <3>2. CASE ~(k < at)
        <4>1. q[k] = w[k - (at - 1)] BY <2>1, <2>2, <2>3, <2>5, <3>2, SMT
        <4>2. k - (at - 1) \in 1 .. Len(s) - at /\ at + (k - (at - 1)) = k + 1
          BY <2>1, <3>2, SMT
        <4>3. w[k - (at - 1)] = s[at + (k - (at - 1))] BY <2>3, <4>2, Zenon
        <4> QED BY <3>2, <4>1, <4>2, <4>3 DEF Place
      <3> QED BY <3>1, <3>2
    <2> QED BY <2>1, <2>6, <2>7
  <1>3. IsSeq(q) BY <1>2, SeqOwn
  <1> HIDE DEF q
  <1>4. Removes(s, at, q)
    <2>1. \A k \in DOMAIN q : Place(at, k) \in DOMAIN s \ {at} /\ q[k] = s[Place(at, k)]
      BY <1>2, SMT DEF Place
    <2>2. ASSUME NEW k \in DOMAIN q, NEW l \in DOMAIN q, Place(at, k) = Place(at, l) PROVE k = l
      <3>1. k \in Int /\ l \in Int /\ at \in Int BY <1>2, SMT
      <3> QED BY <2>2, <3>1, SMT DEF Place
    <2>3. ASSUME NEW j \in DOMAIN s \ {at} PROVE \E k \in DOMAIN q : q[k] = s[j]
      <3> DEFINE k == IF j < at THEN j ELSE j - 1
      <3>1. k \in DOMAIN q /\ Place(at, k) = j BY <1>2, SMT DEF Place
      <3> HIDE DEF k
      <3> QED BY <2>1, <3>1
    <2> QED BY <2>1, <2>2, <2>3 DEF Removes
  <1> QED BY <1>3, <1>4 DEF q

\* The ids stay apart when a program is attached, or one is detached.
FreshId(id) ==
  /\ \A i \in DOMAIN dv.progs : dv.progs[i].id # id
  /\ \A n \in dv'.round + 1 .. Len(dv'.conf.sets) : id # n
  /\ dv'.pc \in Early => id # dv'.round
  /\ \A k \in dv'.foreign + 1 .. Len(dv'.conf.foreign) : id # dv'.conf.foreign[k].id
LessToCome ==
  /\ dv'.conf = dv.conf /\ dv'.round = dv.round
  /\ dv'.pc \in Early => dv.pc \in Early
  /\ dv'.foreign = dv.foreign \/ dv'.foreign = dv.foreign + 1

LEMMA IdsOf ==
  ASSUME dvShape, dvIds, LessToCome, NEW i \in DOMAIN dv.progs
  PROVE  /\ \A n \in dv'.round + 1 .. Len(dv'.conf.sets) : dv.progs[i].id # n
         /\ dv'.pc \in Early => dv.progs[i].id # dv'.round
         /\ \A k \in dv'.foreign + 1 .. Len(dv'.conf.foreign) :
              dv.progs[i].id # dv'.conf.foreign[k].id
  <1>1. dv.foreign \in Int /\ Len(dv.conf.foreign) \in Int
    <2>1. dv.conf \in dvConfs BY DEF dvShape
    <2>2. Len(dv.conf.foreign) \in Nat BY <2>1, dvAssumption, Zenon
    <2> QED BY <2>2, SMT DEF dvShape
  <1>2. \A k \in dv'.foreign + 1 .. Len(dv'.conf.foreign) :
          k \in dv.foreign + 1 .. Len(dv.conf.foreign)
    BY <1>1, SMT DEF LessToCome
  <1> QED BY <1>2, Zenon DEF dvIds, LessToCome

LEMMA IdsAppend ==
  ASSUME dvShape, dvIds, LessToCome, NEW p, Appends(dv.progs, p, dv'.progs), FreshId(p.id)
  PROVE  dvIds'
  <1>1. PICK e \in DOMAIN dv'.progs \ DOMAIN dv.progs :
          dv'.progs[e] = p /\ DOMAIN dv'.progs = DOMAIN dv.progs \cup {e}
    BY Zenon DEF Appends
  <1>2. \A i \in DOMAIN dv.progs : dv'.progs[i] = dv.progs[i] BY Zenon DEF Appends
  <1>3. \A i, j \in DOMAIN dv'.progs : dv'.progs[i].id = dv'.progs[j].id => i = j
    BY <1>1, <1>2, SMT DEF dvIds, FreshId
  <1>4. ASSUME NEW i \in DOMAIN dv'.progs
        PROVE  /\ \A n \in dv'.round + 1 .. Len(dv'.conf.sets) : dv'.progs[i].id # n
               /\ dv'.pc \in Early => dv'.progs[i].id # dv'.round
               /\ \A k \in dv'.foreign + 1 .. Len(dv'.conf.foreign) :
                    dv'.progs[i].id # dv'.conf.foreign[k].id
    <2>1. CASE i = e BY <1>1, <2>1, Zenon DEF FreshId
    <2>2. CASE i \in DOMAIN dv.progs BY <1>2, <2>2, IdsOf, Zenon
    <2> QED BY <1>1, <2>1, <2>2
  <1> QED BY <1>3, <1>4, Zenon DEF dvIds

LEMMA IdsRemove ==
  ASSUME dvShape, dvIds, LessToCome, NEW at, Removes(dv.progs, at, dv'.progs)
  PROVE  dvIds'
  <1>1. \A k \in DOMAIN dv'.progs : /\ Place(at, k) \in DOMAIN dv.progs
                                    /\ dv'.progs[k] = dv.progs[Place(at, k)]
    BY Zenon DEF Removes
  <1>2. \A i, j \in DOMAIN dv'.progs : dv'.progs[i].id = dv'.progs[j].id => i = j
    <2> SUFFICES ASSUME NEW i \in DOMAIN dv'.progs, NEW j \in DOMAIN dv'.progs,
                        dv'.progs[i].id = dv'.progs[j].id
                 PROVE  i = j
      OBVIOUS
    <2>1. /\ Place(at, i) \in DOMAIN dv.progs /\ Place(at, j) \in DOMAIN dv.progs
          /\ dv.progs[Place(at, i)].id = dv.progs[Place(at, j)].id
      BY <1>1
    <2>2. Place(at, i) = Place(at, j) BY <2>1, Zenon DEF dvIds
    <2> QED BY <2>2, Zenon DEF Removes
  <1>3. ASSUME NEW i \in DOMAIN dv'.progs
        PROVE  /\ \A n \in dv'.round + 1 .. Len(dv'.conf.sets) : dv'.progs[i].id # n
               /\ dv'.pc \in Early => dv'.progs[i].id # dv'.round
               /\ \A k \in dv'.foreign + 1 .. Len(dv'.conf.foreign) :
                    dv'.progs[i].id # dv'.conf.foreign[k].id
    <2>1. /\ Place(at, i) \in DOMAIN dv.progs /\ dv'.progs[i] = dv.progs[Place(at, i)]
      BY <1>1, Zenon
    <2> QED BY <2>1, IdsOf, Zenon
  <1> QED BY <1>2, <1>3, Zenon DEF dvIds

\* A step of LoadAttachCgroupDeviceFilter, or of a third party: what is left to
\* show is about the programs.
LEMMA FilterStep ==
  ASSUME dvInv, DOMAIN dv' = dvFields, SameBuild, dv'.todo = dv.todo, dv'.kernel = dv.kernel,
         dv'.before = dv.before, dv'.foreign \in 0 .. Len(dv.conf.foreign),
         dv.pc \in {"query", "attach", "detach"},
         dv'.pc \in {"query", "attach", "detach", "returned"},
         IsSeq(dv'.progs), dvIds', dvPrograms'
  PROVE  dvInv'
  <1>1. dv.conf.v = 2 /\ dv'.conf.v = 2 /\ dv.i = Len(dvRules) + 1
    BY DEF dvInv, dvShape, dvBuilt, SameBuild, SameSet
  <1>2. dvRules' = dvRules /\ dv'.i = dv.i BY Zenon DEF dvRules, SameBuild, SameSet
  <1>3. dvShape'
    <2>1. dv'.pc \in Early \cup {"detach", "returned"} /\ dv'.pc \notin {"write", "check"}
      BY DEF Early, Quiet
    <2> QED BY <1>1, <1>2, <2>1, Zenon DEF dvInv, dvShape, SameBuild, SameSet
  <1>4. dvBuilt'
    <2>1. Built(dv.i - 1)' BY BuiltSame DEF dvInv, dvBuilt, Early
    <2> QED BY <1>1, <1>2, <2>1 DEF dvBuilt
  <1>5. dvList' BY <1>1 DEF dvList
  <1> QED BY <1>3, <1>4, <1>5 DEF dvInv

\* findAttached keeps the invariant.
LEMMA findAttachedStep == ASSUME dvInv, findAttached PROVE dvInv'
  <1> DEFINE old == {i \in DOMAIN dv.progs : dv.progs[i].owner # "hidden"}
             ps == {dv.progs[i] : i \in old}
             rp == dv.conf.canReplace /\ \E i \in old : old = {i}
  <1>1. /\ dv.pc = "query" /\ DOMAIN dv = dvFields /\ dv.conf.v = 2 /\ dv.i = Len(dvRules) + 1
        /\ dv.pc \in Early /\ Kept
    BY DEF findAttached, dvAt, dvInv, dvShape, dvBuilt, dvPrograms, Early
  <1>2. ASSUME NEW charge, bpfErr(charge) PROVE dvInv' BY <1>1, <1>2, bpfErrDoes, EndOnly
  <1>3. ASSUME dv' = [dv EXCEPT !.size = Len(dv.progs), !.tries = @ + 1] PROVE dvInv'
    <2>1. Only({"pc", "cur", "size", "tries"}) /\ dv'.pc = dv.pc
      BY <1>1, <1>3, FieldsIn, Zenon DEF Only
    <2> QED BY <1>1, <2>1, CalmStep
  <1>4. ASSUME dv' = [dv EXCEPT !.pc = "attach", !.old = ps, !.replace = rp] PROVE dvInv'
    <2> HIDE DEF ps, rp
    <2>1. /\ Only({"pc", "old", "replace"})
          /\ dv'.pc = "attach" /\ dv'.old = ps /\ dv'.replace = rp
      BY <1>1, <1>4, FieldsIn, Zenon DEF Only
    <2>2. /\ DOMAIN dv' = dvFields /\ SameBuild /\ SamePrograms /\ dv'.todo = dv.todo
          /\ dv'.kernel = dv.kernel
      BY <2>1, FieldsIn, Zenon DEF Only, SameBuild, SamePrograms, SameSet
    <2>3. dvIds' BY <1>1, <2>2, IdsSame DEF dvInv
    <2>4. dvPrograms'
      <3>1. Kept' BY <1>1, <2>2, KeptSame
      <3>2. dv'.progs = dv.progs BY <2>2 DEF SamePrograms
      <3>3. \A p \in dv'.old : Attached(p)' BY <2>1, <3>2, Zenon DEF Attached, ps
      <3>4. \A i \in DOMAIN dv'.progs : dv'.progs[i].owner = "runc" => dv'.progs[i] \in dv'.old
        BY <2>1, <3>2 DEF ps
      <3>5. dv'.replace => \E p \in dv'.old : dv'.old = {p}
        <4>1. ASSUME NEW i \in old, old = {i} PROVE ps = {dv.progs[i]} /\ dv.progs[i] \in ps
          BY <4>1, Zenon DEF ps
        <4> QED BY <2>1, <4>1, Zenon DEF rp
      <3> QED BY <2>1, <3>1, <3>3, <3>4, <3>5 DEF dvPrograms
    <2>5. /\ dv'.before = dv.before /\ dv'.foreign \in 0 .. Len(dv.conf.foreign)
          /\ IsSeq(dv'.progs)
      BY <2>2, Zenon DEF SamePrograms, dvInv, dvShape
    <2> QED BY <1>1, <2>1, <2>2, <2>3, <2>4, <2>5, FilterStep
  <1> QED BY <1>2, <1>3, <1>4, Zenon DEF findAttached

\* What the new program is, and that it is not there yet.
LEMMA NewId == New.id = dv.round /\ New.owner = "runc"
  <1> DEFINE bs == [i \in DOMAIN SelectSeq(CleanRules(dv.emu), LAMBDA r : r.node # "a") |->
                      appendRule(SelectSeq(CleanRules(dv.emu), LAMBDA r : r.node # "a")[i])]
  <1>1. New = [id |-> dv.round, owner |-> "runc", allow |-> dv.emu.allow, blocks |-> bs]
    BY Zenon DEF New, DeviceFilter
  <1> HIDE DEF bs
  <1> QED BY <1>1, SMT

LEMMA NewFresh ==
  ASSUME dvShape, dvIds, dv.pc \in Early, LessToCome, dv'.foreign = dv.foreign,
         dv'.pc \notin Early
  PROVE  FreshId(New.id)
  <1>1. dv.conf \in dvConfs BY DEF dvShape
  <1>2. /\ Len(dv.conf.foreign) \in Nat /\ Len(dv.conf.sets) \in Nat
        /\ \A k \in 1 .. Len(dv.conf.foreign) :
             dv.conf.foreign[k].id \notin 0 .. Len(dv.conf.sets)
    BY <1>1, dvAssumption, Zenon
  <1>3. dv.round \in 1 .. Len(dv.conf.sets) /\ dv.foreign \in Nat BY <1>2, SMT DEF dvShape
  <1>4. \A k \in dv.foreign + 1 .. Len(dv.conf.foreign) : dv.round # dv.conf.foreign[k].id
    <2>1. \A k \in dv.foreign + 1 .. Len(dv.conf.foreign) : k \in 1 .. Len(dv.conf.foreign)
      BY <1>2, <1>3, SMT
    <2>2. dv.round \in 0 .. Len(dv.conf.sets) BY <1>2, <1>3, SMT
    <2> QED BY <1>2, <2>1, <2>2, Zenon
  <1>5. \A n \in dv.round + 1 .. Len(dv.conf.sets) : dv.round # n BY <1>2, <1>3, SMT
  <1>6. \A i \in DOMAIN dv.progs : dv.progs[i].id # dv.round BY Zenon DEF dvIds
  <1> QED BY <1>4, <1>5, <1>6, NewId, Zenon DEF FreshId, LessToCome

LEMMA NewSame == ASSUME SameBuild PROVE New' = New
BY Zenon DEF SameBuild, SameSet, New

\* The new program takes the place of the single old one.
LEMMA ReplaceStep ==
  ASSUME dvInv, dv.pc = "attach", dv.replace, DOMAIN dv' = dvFields,
         Only({"pc", "result", "progs"}), dv'.pc = "returned",
         dv'.progs = [i \in DOMAIN dv.progs |->
                        IF dv.progs[i] \in dv.old THEN New ELSE dv.progs[i]]
  PROVE  dvInv'
  <1>1. /\ SameBuild /\ dv'.todo = dv.todo /\ dv'.kernel = dv.kernel /\ dv'.before = dv.before
        /\ dv'.foreign = dv.foreign
    BY FieldsIn, Zenon DEF Only, SameBuild, SameSet
  <1>2. /\ \A p \in dv.old : Attached(p)
        /\ \A i \in DOMAIN dv.progs : dv.progs[i].owner = "runc" => dv.progs[i] \in dv.old
        /\ \E p \in dv.old : dv.old = {p}
    BY DEF dvInv, dvPrograms
  <1>3. PICK p \in dv.old : dv.old = {p} BY <1>2
  <1>4. PICK o \in DOMAIN dv.progs : dv.progs[o] = p BY <1>2, <1>3, Zenon DEF Attached
  <1>5. \A i \in DOMAIN dv.progs : dv.progs[i] \in dv.old <=> i = o
    BY <1>3, <1>4, Zenon DEF dvInv, dvIds
  <1>6. /\ DOMAIN dv'.progs = DOMAIN dv.progs /\ dv'.progs[o] = New
        /\ \A i \in DOMAIN dv.progs \ {o} : dv'.progs[i] = dv.progs[i]
    BY <1>4, <1>5, Zenon
  <1>7. IsSeq(dv'.progs)
    <2> DEFINE T == {dv'.progs[i] : i \in DOMAIN dv'.progs}
    <2>1. IsSeq(dv.progs) BY DEF dvInv, dvShape
    <2>2. Len(dv.progs) \in Nat /\ DOMAIN dv.progs = 1 .. Len(dv.progs) BY <2>1, SeqDomain
    <2>3. dv'.progs \in [1 .. Len(dv.progs) -> T] BY <2>2, Zenon
    <2> HIDE DEF T
    <2>4. dv'.progs \in Seq(T) BY <2>2, <2>3, SMT
    <2> QED BY <2>4 DEF IsSeq, T
  <1>8. LessToCome /\ dv.pc \in Early /\ dv'.pc \notin Early
    BY <1>1 DEF LessToCome, Early, Quiet, SameBuild, SameSet
  <1>9. FreshId(New.id) BY <1>1, <1>8, NewFresh DEF dvInv
  <1>10. dvIds'
    <2>1. ASSUME NEW i \in DOMAIN dv'.progs, NEW j \in DOMAIN dv'.progs, i # j
          PROVE  dv'.progs[i].id # dv'.progs[j].id
      <3>1. i \in DOMAIN dv.progs /\ j \in DOMAIN dv.progs BY <1>6
      <3>2. \A k \in DOMAIN dv.progs : dv.progs[k].id # New.id BY <1>9 DEF FreshId
      <3>3. CASE i = o
        <4>1. dv'.progs[i] = New /\ dv'.progs[j] = dv.progs[j] BY <1>6, <2>1, <3>1, <3>3
        <4> QED BY <3>1, <3>2, <4>1, Zenon
      <3>4. CASE j = o
        <4>1. dv'.progs[j] = New /\ dv'.progs[i] = dv.progs[i] BY <1>6, <2>1, <3>1, <3>4
        <4> QED BY <3>1, <3>2, <4>1, Zenon
      <3>5. CASE i # o /\ j # o
        <4>1. dv'.progs[i] = dv.progs[i] /\ dv'.progs[j] = dv.progs[j] BY <1>6, <3>1, <3>5
        <4> QED BY <2>1, <3>1, <4>1, Zenon DEF dvInv, dvIds
      <3> QED BY <3>3, <3>4, <3>5
    <2>2. ASSUME NEW i \in DOMAIN dv'.progs
          PROVE  /\ \A n \in dv'.round + 1 .. Len(dv'.conf.sets) : dv'.progs[i].id # n
                 /\ dv'.pc \in Early => dv'.progs[i].id # dv'.round
                 /\ \A k \in dv'.foreign + 1 .. Len(dv'.conf.foreign) :
                      dv'.progs[i].id # dv'.conf.foreign[k].id
      <3>1. CASE i = o BY <1>6, <1>9, <3>1, Zenon DEF FreshId
      <3>2. CASE i # o
        <4>1. i \in DOMAIN dv.progs /\ dv'.progs[i] = dv.progs[i] BY <1>6, <3>2
        <4>2. dvShape /\ dvIds BY DEF dvInv
        <4>3. /\ \A n \in dv'.round + 1 .. Len(dv'.conf.sets) : dv.progs[i].id # n
              /\ \A k \in dv'.foreign + 1 .. Len(dv'.conf.foreign) :
                   dv.progs[i].id # dv'.conf.foreign[k].id
          BY <1>8, <4>1, <4>2, IdsOf
        <4> QED BY <1>8, <4>1, <4>3
      <3> QED BY <3>1, <3>2
    <2>3. \A i, j \in DOMAIN dv'.progs : dv'.progs[i].id = dv'.progs[j].id => i = j BY <2>1, Zenon
    <2> QED BY <2>2, <2>3, Zenon DEF dvIds
  <1>11. dvPrograms'
    <2>1. New' = New BY <1>1, NewSame
    <2>2. Attached(New)' BY <1>4, <1>6, <2>1, Zenon DEF Attached
    <2>3. Sole'
      <3>1. \A j \in DOMAIN dv'.progs \ {o} : dv'.progs[j].owner # "runc"
        BY <1>2, <1>5, <1>6, Zenon
      <3> QED BY <1>4, <1>6, <2>1, <3>1, Zenon DEF Sole
    <2> QED BY <1>8, <2>2, <2>3 DEF dvPrograms
  <1>12. dv'.foreign \in 0 .. Len(dv.conf.foreign) BY <1>1 DEF dvInv, dvShape
  <1> QED BY <1>1, <1>7, <1>10, <1>11, <1>12, FilterStep

\* The new program is attached beside the old ones.
LEMMA AttachStep ==
  ASSUME dvInv, dv.pc = "attach", DOMAIN dv' = dvFields,
         Only({"pc", "result", "progs"}), dv'.pc = "detach", dv'.progs = Append(dv.progs, New)
  PROVE  dvInv'
  <1>1. /\ SameBuild /\ dv'.todo = dv.todo /\ dv'.kernel = dv.kernel /\ dv'.before = dv.before
        /\ dv'.foreign = dv.foreign /\ dv'.old = dv.old
    BY FieldsIn, Zenon DEF Only, SameBuild, SameSet
  <1>2. /\ \A p \in dv.old : Attached(p)
        /\ \A i \in DOMAIN dv.progs : dv.progs[i].owner = "runc" => dv.progs[i] \in dv.old
    BY DEF dvInv, dvPrograms
  <1>3. IsSeq(dv'.progs) /\ Appends(dv.progs, New, dv'.progs) BY AppendIs DEF dvInv, dvShape
  <1>4. LessToCome /\ dv.pc \in Early /\ dv'.pc \notin Early
    BY <1>1 DEF LessToCome, Early, Quiet, SameBuild, SameSet
  <1>5. FreshId(New.id) BY <1>1, <1>4, NewFresh DEF dvInv
  <1>6. dvIds' BY <1>3, <1>4, <1>5, IdsAppend DEF dvInv
  <1>7. dvPrograms'
    <2>1. New' = New BY <1>1, NewSame
    <2>2. PICK e \in DOMAIN dv'.progs \ DOMAIN dv.progs :
            dv'.progs[e] = New /\ DOMAIN dv'.progs = DOMAIN dv.progs \cup {e}
      BY <1>3, Zenon DEF Appends
    <2>3. \A i \in DOMAIN dv.progs : i \in DOMAIN dv'.progs /\ dv'.progs[i] = dv.progs[i]
      BY <1>3, Zenon DEF Appends
    <2>4. Attached(New)' BY <2>1, <2>2, Zenon DEF Attached
    <2>5. \A p \in dv'.old : Attached(p)' /\ p # New'
      <3> SUFFICES ASSUME NEW p \in dv.old PROVE Attached(p)' /\ p # New BY <1>1, <2>1, Zenon
      <3>1. PICK i \in DOMAIN dv.progs : dv.progs[i] = p BY <1>2, Zenon DEF Attached
      <3>2. p # New BY <1>5, <3>1, Zenon DEF FreshId
      <3> QED BY <2>3, <3>1, <3>2, Zenon DEF Attached
    <2>6. \A i \in DOMAIN dv'.progs : dv'.progs[i].owner = "runc" =>
            dv'.progs[i] = New' \/ dv'.progs[i] \in dv'.old
      BY <1>1, <1>2, <2>1, <2>2, <2>3, SMT
    <2> QED BY <1>4, <2>4, <2>5, <2>6 DEF dvPrograms
  <1>8. dv'.foreign \in 0 .. Len(dv.conf.foreign) BY <1>1 DEF dvInv, dvShape
  <1> QED BY <1>1, <1>3, <1>6, <1>7, <1>8, FilterStep

\* attachFilter keeps the invariant.
LEMMA attachFilterStep == ASSUME dvInv, attachFilter PROVE dvInv'
  <1>1. dv.pc = "attach" /\ DOMAIN dv = dvFields BY DEF attachFilter, dvAt, dvInv, dvShape
  <1>2. CASE bpfErr(1) BY <1>1, <1>2, bpfErrDoes, EndOnly
  <1> DEFINE replaced == [i \in DOMAIN dv.progs |->
                            IF dv.progs[i] \in dv.old THEN New ELSE dv.progs[i]]
             np == IF dv.replace THEN replaced ELSE Append(dv.progs, New)
  <1>3. ASSUME dv' = [dv EXCEPT !.pc = IF dv.replace THEN "returned" ELSE "detach",
                                !.result = IF dv.replace THEN "ok" ELSE @,
                                !.progs = np]
        PROVE  dvInv'
    <2> HIDE DEF np
    <2>1. /\ Only({"pc", "result", "progs"}) /\ DOMAIN dv' = dvFields
          /\ dv'.pc = (IF dv.replace THEN "returned" ELSE "detach") /\ dv'.progs = np
      BY <1>1, <1>3, FieldsIn, Zenon DEF Only
    <2>2. CASE dv.replace BY <1>1, <2>1, <2>2, ReplaceStep DEF np
    <2>3. CASE ~dv.replace BY <1>1, <2>1, <2>3, AttachStep DEF np
    <2> QED BY <2>2, <2>3
  <1> QED BY <1>2, <1>3, Zenon DEF attachFilter, New

\* One old program is detached.
LEMMA DetachStep ==
  ASSUME dvInv, dv.pc = "detach", Only({"old", "progs"}), NEW p \in dv.old,
         dv'.old = dv.old \ {p},
         dv'.progs = Detached(dv.progs, CHOOSE i \in DOMAIN dv.progs : dv.progs[i] = p)
  PROVE  dvInv'
  <1>1. /\ SameBuild /\ dv'.todo = dv.todo /\ dv'.kernel = dv.kernel /\ dv'.before = dv.before
        /\ dv'.foreign = dv.foreign /\ dv'.pc = "detach" /\ DOMAIN dv' = dvFields
    BY FieldsIn, Zenon DEF Only, SameBuild, SameSet
  <1>2. /\ Attached(New)
        /\ \A q \in dv.old : Attached(q) /\ q # New
        /\ \A i \in DOMAIN dv.progs :
             dv.progs[i].owner = "runc" => dv.progs[i] = New \/ dv.progs[i] \in dv.old
    BY DEF dvInv, dvPrograms
  <1> DEFINE at == CHOOSE i \in DOMAIN dv.progs : dv.progs[i] = p
  <1>3. at \in DOMAIN dv.progs /\ dv.progs[at] = p
    <2>1. \E i \in DOMAIN dv.progs : dv.progs[i] = p BY <1>2, Zenon DEF Attached
    <2> QED BY <2>1, Zenon
  <1>4. dv'.progs = Detached(dv.progs, at) OBVIOUS
  <1> HIDE DEF at
  <1>5. IsSeq(dv'.progs) /\ Removes(dv.progs, at, dv'.progs)
    BY <1>3, <1>4, DetachedIs DEF dvInv, dvShape
  <1>6. LessToCome /\ dv'.pc \notin Early
    BY <1>1 DEF LessToCome, Early, Quiet, SameBuild, SameSet
  <1>7. dvIds' BY <1>5, <1>6, IdsRemove DEF dvInv
  <1>8. \A q : Attached(q) /\ q # p => Attached(q)'
    <2> SUFFICES ASSUME NEW q, Attached(q), q # p PROVE Attached(q)' OBVIOUS
    <2>1. PICK j \in DOMAIN dv.progs : dv.progs[j] = q BY Zenon DEF Attached
    <2>2. j \in DOMAIN dv.progs \ {at} BY <1>3, <2>1
    <2>3. \E k \in DOMAIN dv'.progs : dv'.progs[k] = dv.progs[j] BY <1>5, <2>2, Zenon DEF Removes
    <2> QED BY <2>1, <2>3, Zenon DEF Attached
  <1>9. \A k \in DOMAIN dv'.progs : /\ Place(at, k) \in DOMAIN dv.progs
                                    /\ dv'.progs[k] = dv.progs[Place(at, k)] /\ dv'.progs[k] # p
    <2> SUFFICES ASSUME NEW k \in DOMAIN dv'.progs
                 PROVE  /\ Place(at, k) \in DOMAIN dv.progs
                        /\ dv'.progs[k] = dv.progs[Place(at, k)] /\ dv'.progs[k] # p
      OBVIOUS
    <2>1. Place(at, k) \in DOMAIN dv.progs \ {at} /\ dv'.progs[k] = dv.progs[Place(at, k)]
      BY <1>5, Zenon DEF Removes
    <2> QED BY <1>3, <2>1, Zenon DEF dvInv, dvIds
  <1>10. dvPrograms'
    <2>1. New' = New BY <1>1, NewSame
    <2>2. Attached(New)'
      <3>1. \A q : q = New => Attached(q)' BY <1>2, <1>8, Zenon
      <3> QED BY <2>1, <3>1, Zenon DEF Attached
    <2>3. \A q \in dv'.old : Attached(q)' /\ q # New'
      <3> SUFFICES ASSUME NEW q \in dv'.old PROVE Attached(q)' /\ q # New' OBVIOUS
      <3>1. q \in dv.old /\ q # p OBVIOUS
      <3> QED BY <1>2, <1>8, <2>1, <3>1, Zenon
    <2>4. ASSUME NEW k \in DOMAIN dv'.progs, dv'.progs[k].owner = "runc"
          PROVE  dv'.progs[k] = New' \/ dv'.progs[k] \in dv'.old
      <3>1. dv'.progs[k] = New \/ dv'.progs[k] \in dv.old BY <1>2, <1>9, <2>4, Zenon
      <3>2. dv'.progs[k] # p BY <1>9
      <3> QED BY <2>1, <3>1, <3>2
    <2> QED BY <1>1, <1>6, <2>2, <2>3, <2>4, Zenon DEF dvPrograms
  <1>11. dv'.foreign \in 0 .. Len(dv.conf.foreign) BY <1>1 DEF dvInv, dvShape
  <1> QED BY <1>1, <1>5, <1>7, <1>10, <1>11, FilterStep

\* detachFilters keeps the invariant: it succeeds when no old program is left.
LEMMA detachFiltersStep == ASSUME dvInv, detachFilters PROVE dvInv'
  <1>1. dv.pc = "detach" /\ DOMAIN dv = dvFields BY DEF detachFilters, dvAt, dvInv, dvShape
  <1>2. CASE bpfErr(1) BY <1>1, <1>2, bpfErrDoes, EndOnly
  <1>3. ASSUME dv.old = {}, dvReturn("ok") PROVE dvInv'
    <2>1. Only({"pc", "result"}) /\ dv'.pc = "returned" /\ dv'.result = "ok"
      BY <1>1, <1>3, ReturnDoes
    <2>2. /\ DOMAIN dv' = dvFields /\ SameBuild /\ SamePrograms /\ dv'.todo = dv.todo
          /\ dv'.kernel = dv.kernel
      BY <2>1, FieldsIn, Zenon DEF Only, SameBuild, SamePrograms, SameSet
    <2>3. dv'.pc \notin Early BY <2>1 DEF Early, Quiet
    <2>4. dvIds' BY <2>2, <2>3, IdsSame DEF dvInv
    <2>5. Attached(New) /\ \A i \in DOMAIN dv.progs : dv.progs[i].owner = "runc" => dv.progs[i] = New
      BY <1>1, <1>3 DEF dvInv, dvPrograms
    <2>6. PICK o \in DOMAIN dv.progs : dv.progs[o] = New BY <2>5, Zenon DEF Attached
    <2>7. \A j \in DOMAIN dv.progs \ {o} : dv.progs[j].owner # "runc"
      <3> SUFFICES ASSUME NEW j \in DOMAIN dv.progs, j # o, dv.progs[j].owner = "runc"
                   PROVE  FALSE
        OBVIOUS
      <3>1. dv.progs[j] = dv.progs[o] BY <2>5, <2>6
      <3> QED BY <3>1, Zenon DEF dvInv, dvIds
    <2>8. dvPrograms'
      <3>1. New' = New /\ dv'.progs = dv.progs BY <2>2, NewSame DEF SamePrograms
      <3>2. Sole' BY <2>6, <2>7, <3>1, Zenon DEF Sole
      <3>3. Attached(New)' BY <2>6, <3>1, Zenon DEF Attached
      <3> QED BY <2>1, <2>3, <3>2, <3>3 DEF dvPrograms
    <2>9. /\ dv'.before = dv.before /\ dv'.foreign \in 0 .. Len(dv.conf.foreign)
          /\ IsSeq(dv'.progs)
      BY <2>2, Zenon DEF SamePrograms, dvInv, dvShape
    <2> QED BY <1>1, <2>1, <2>2, <2>4, <2>8, <2>9, FilterStep
  <1>4. ASSUME NEW p \in dv.old,
               dv' = [dv EXCEPT !.old = @ \ {p},
                                !.progs = Detached(@, CHOOSE i \in DOMAIN dv.progs : dv.progs[i] = p)]
        PROVE  dvInv'
    <2>1. /\ Only({"old", "progs"}) /\ dv'.old = dv.old \ {p}
          /\ dv'.progs = Detached(dv.progs, CHOOSE i \in DOMAIN dv.progs : dv.progs[i] = p)
      BY <1>1, <1>4, FieldsIn, Zenon DEF Only
    <2> QED BY <1>1, <2>1, DetachStep
  <1> QED BY <1>2, <1>3, <1>4, Zenon DEF detachFilters

\* A third party's program keeps the invariant.
LEMMA foreignAttachStep == ASSUME dvInv, foreignAttach PROVE dvInv'
  <1> DEFINE f == dv.conf.foreign[dv.foreign + 1]
  <1>1. /\ dv.pc \in {"query", "attach", "detach"} /\ DOMAIN dv = dvFields
        /\ dv.foreign < Len(dv.conf.foreign)
    BY DEF foreignAttach, dvInv, dvShape
  <1>2. /\ Only({"foreign", "progs"}) /\ dv'.foreign = dv.foreign + 1
        /\ dv'.progs = Append(dv.progs, f)
    BY <1>1, FieldsIn, Zenon DEF Only, foreignAttach
  <1>3. /\ SameBuild /\ dv'.todo = dv.todo /\ dv'.kernel = dv.kernel /\ dv'.before = dv.before
        /\ dv'.pc = dv.pc /\ dv'.old = dv.old /\ dv'.replace = dv.replace /\ DOMAIN dv' = dvFields
    BY <1>2, FieldsIn, Zenon DEF Only, SameBuild, SameSet
  <1>4. IsSeq(dv'.progs) /\ Appends(dv.progs, f, dv'.progs) BY <1>2, AppendIs DEF dvInv, dvShape
  <1>5. LessToCome BY <1>2, <1>3 DEF LessToCome, SameBuild, SameSet
  <1>6. /\ Len(dv.conf.foreign) \in Nat /\ Len(dv.conf.sets) \in Nat
        /\ \A i \in 1 .. Len(dv.conf.foreign) :
             /\ dv.conf.foreign[i].id \notin 0 .. Len(dv.conf.sets)
             /\ dv.conf.foreign[i].owner # "runc"
             /\ \A j \in 1 .. Len(dv.conf.foreign) \ {i} :
                  dv.conf.foreign[j].id # dv.conf.foreign[i].id
    <2>1. dv.conf \in dvConfs BY DEF dvInv, dvShape
    <2> QED BY <2>1, dvAssumption, Zenon
  <1>7. /\ dv.foreign \in Nat /\ dv.foreign + 1 \in 1 .. Len(dv.conf.foreign)
        /\ dv.foreign + 1 \in dv.foreign + 1 .. Len(dv.conf.foreign)
        /\ dv.round \in 1 .. Len(dv.conf.sets)
    BY <1>1, <1>6, SMT DEF dvInv, dvShape
  <1>8. f.owner # "runc" BY <1>6, <1>7, Zenon
  <1>9. FreshId(f.id)
    <2>1. \A i \in DOMAIN dv.progs : dv.progs[i].id # f.id BY <1>7, Zenon DEF dvInv, dvIds
    <2>2. f.id \notin 0 .. Len(dv.conf.sets) BY <1>6, <1>7, Zenon
    <2> HIDE DEF f
    <2>3. (\A n \in dv.round + 1 .. Len(dv.conf.sets) : f.id # n) /\ f.id # dv.round
      BY <1>6, <1>7, <2>2, SMT
    <2>4. \A k \in dv.foreign + 1 + 1 .. Len(dv.conf.foreign) : f.id # dv.conf.foreign[k].id
      <3>1. \A k \in dv.foreign + 1 + 1 .. Len(dv.conf.foreign) :
              k \in 1 .. Len(dv.conf.foreign) \ {dv.foreign + 1}
        BY <1>6, <1>7, SMT
      <3> QED BY <1>6, <1>7, <3>1, Zenon DEF f
    <2> QED BY <1>2, <1>3, <2>1, <2>3, <2>4, Zenon DEF FreshId, SameBuild, SameSet
  <1> HIDE DEF f
  <1>10. dvIds' BY <1>4, <1>5, <1>9, IdsAppend DEF dvInv
  <1>11. dvPrograms'
    <2>1. New' = New BY <1>3, NewSame
    <2>2. PICK e \in DOMAIN dv'.progs \ DOMAIN dv.progs :
            dv'.progs[e] = f /\ DOMAIN dv'.progs = DOMAIN dv.progs \cup {e}
      BY <1>4, Zenon DEF Appends
    <2>3. \A i \in DOMAIN dv.progs : i \in DOMAIN dv'.progs /\ dv'.progs[i] = dv.progs[i]
      BY <1>4, Zenon DEF Appends
    <2>4. \A p : Attached(p) => Attached(p)' BY <2>3, Zenon DEF Attached
    <2>5. ASSUME Kept PROVE Kept'
      <3>1. \A i \in DOMAIN dv.before.progs : \E j \in DOMAIN dv.progs :
              dv.progs[j] = dv.before.progs[i]
        BY <2>5, Zenon DEF Kept, Attached
      <3>2. \A i \in DOMAIN dv.before.progs : \E j \in DOMAIN dv'.progs :
              dv'.progs[j] = dv.before.progs[i]
        BY <2>3, <3>1, Zenon
      <3> QED BY <1>3, <3>2, Zenon DEF Kept, Attached
    <2>6. Attached(New) => Attached(New)'
      <3>1. \A p : p = New /\ Attached(New) => Attached(p)' BY <2>4, Zenon
      <3> QED BY <2>1, <3>1, Zenon DEF Attached
    <2>7. ASSUME NEW i \in DOMAIN dv'.progs, dv'.progs[i].owner = "runc"
          PROVE  i \in DOMAIN dv.progs /\ dv'.progs[i] = dv.progs[i]
      <3>1. i # e BY <1>8, <2>2, <2>7
      <3> QED BY <2>2, <2>3, <3>1
    <2>8. dv'.pc \in Early => Kept' BY <1>3, <2>5 DEF dvInv, dvPrograms
    <2>9. dv'.pc = "attach" =>
            /\ \A p \in dv'.old : Attached(p)'
            /\ \A i \in DOMAIN dv'.progs : dv'.progs[i].owner = "runc" => dv'.progs[i] \in dv'.old
            /\ dv'.replace => \E p \in dv'.old : dv'.old = {p}
      BY <1>3, <2>4, <2>7, Zenon DEF dvInv, dvPrograms
    <2>10. dv'.pc = "detach" =>
            /\ Attached(New)'
            /\ \A p \in dv'.old : Attached(p)' /\ p # New'
            /\ \A i \in DOMAIN dv'.progs : dv'.progs[i].owner = "runc" =>
                 dv'.progs[i] = New' \/ dv'.progs[i] \in dv'.old
      BY <1>3, <2>1, <2>4, <2>6, <2>7, Zenon DEF dvInv, dvPrograms
    <2>11. dv'.pc # "returned" BY <1>1, <1>3
    <2> QED BY <2>8, <2>9, <2>10, <2>11, Zenon DEF dvPrograms
  <1>12. dv'.foreign \in 0 .. Len(dv.conf.foreign) /\ dv'.pc \in {"query", "attach", "detach", "returned"}
    BY <1>1, <1>2, <1>3, <1>6, <1>7, SMT
  <1> QED BY <1>1, <1>3, <1>4, <1>10, <1>11, <1>12, FilterStep

----------------------------------------------------------------------------
(* The start of a Set.                                                      *)

\* Nothing is built yet, and what is there is what was there before.
LEMMA NothingBuilt ==
  ASSUME NEW rules
  PROVE  BuiltFrom(rules, 0, ZeroEmulator, 0)
  <1>1. /\ ZeroEmulator.allow = FALSE /\ \A m \in dvMetas : ZeroEmulator.rules[m] = {}
    BY DEF ZeroEmulator, NoRules
  <1>2. 0 \in 0 .. 0 /\ ~(0 > 0) /\ 0 + 1 .. 0 = {} BY SMT
  <1> QED BY <1>1, <1>2, Zenon DEF BuiltFrom

LEMMA FreshStart ==
  ASSUME DOMAIN dv' = dvFields, dv'.conf \in dvConfs, dv'.round \in 1 .. Len(dv'.conf.sets),
         dv'.foreign \in 0 .. Len(dv'.conf.foreign),
         dv'.pc \in {"props", "set"}, dv'.i = 1, dv'.emu = ZeroEmulator, DOMAIN dv'.todo = 1 .. 3,
         dv'.before = [kernel |-> dv'.kernel, progs |-> dv'.progs],
         IsKernel(dv'.kernel), IsSeq(dv'.progs), dvIds'
  PROVE  dvInv'
  <1>1. dv'.before.kernel = dv'.kernel /\ dv'.before.progs = dv'.progs
        /\ DOMAIN dv'.before = {"kernel", "progs"}
    BY SMT
  <1>2. Len(dv'.conf.sets[dv'.round]) \in Nat BY dvAssumption, Zenon
  <1>3. dvShape'
    <2>1. dv'.i \in 1 .. Len(dvRules') + 1 BY <1>2, SMT DEF dvRules
    <2>2. IsEmulator(dv'.emu) BY DEF IsEmulator, ZeroEmulator, NoRules
    <2>3. /\ dv'.pc \in Early \cup {"detach", "returned"} /\ dv'.pc \notin {"write", "check"}
          /\ dv'.pc \notin {"filter", "query", "attach", "detach"}
      BY DEF Early, Quiet
    <2> QED BY <1>1, <2>1, <2>2, <2>3, Zenon DEF dvShape
  <1>4. dvBuilt'
    <2>1. BuiltFrom(dvRules', 0, dv'.emu, 0) BY NothingBuilt
    <2>2. dv'.i - 1 = 0 /\ 0 \in 0 .. 0 BY SMT
    <2>3. Built(dv.i - 1)' BY <2>1, <2>2, Zenon DEF Built
    <2> QED BY <2>3 DEF dvBuilt
  <1>5. dvList' BY <1>1 DEF dvList
  <1>6. dvPrograms'
    <2>1. Kept' BY <1>1, Zenon DEF Kept, Attached
    <2> QED BY <2>1 DEF dvPrograms
  <1> QED BY <1>3, <1>4, <1>5, <1>6 DEF dvInv

LEMMA InitHolds == ASSUME dvInit PROVE dvInv
  <1>1. PICK conf \in dvConfs :
          dv = [pc |-> IF conf.systemd THEN "props" ELSE "set", conf |-> conf, round |-> 1, i |-> 1,
                emu |-> ZeroEmulator, cur |-> ZeroEmulator, todo |-> <<{}, {}, {}>>, old |-> {},
                size |-> 0, tries |-> 0, replace |-> FALSE, kernel |-> conf.kernel,
                progs |-> conf.progs, before |-> [kernel |-> conf.kernel, progs |-> conf.progs],
                result |-> "none", faults |-> 0, foreign |-> 0]
    BY Zenon DEF dvInit
  <1>2. /\ dv.conf = conf /\ dv.round = 1 /\ dv.i = 1 /\ dv.emu = ZeroEmulator
        /\ dv.todo = <<{}, {}, {}>> /\ dv.kernel = conf.kernel /\ dv.progs = conf.progs
        /\ dv.before = [kernel |-> conf.kernel, progs |-> conf.progs] /\ dv.foreign = 0
        /\ dv.pc = IF conf.systemd THEN "props" ELSE "set"
    BY <1>1, Zenon
  <1>3. DOMAIN dv = dvFields BY <1>1, Zenon DEF dvFields
  <1>4. dv.pc \in {"props", "set"} BY <1>2
  <1>5. dv.before.kernel = dv.kernel /\ dv.before.progs = dv.progs
        /\ DOMAIN dv.before = {"kernel", "progs"}
    BY <1>2, SMT
  <1>6. /\ Len(conf.sets) \in Nat \ {0} /\ Len(conf.sets[1]) \in Nat /\ Len(conf.foreign) \in Nat
        /\ IsSeq(conf.progs) /\ IsKernel(conf.kernel)
    <2>1. Len(conf.sets) \in Nat \ {0} BY dvAssumption, Zenon
    <2>2. 1 \in 1 .. Len(conf.sets) BY <2>1, SMT
    <2> QED BY <2>1, <2>2, dvAssumption, Zenon DEF IsSeq, IsKernel
  <1>7. dvShape
    <2>1. /\ dv.i \in 1 .. Len(dvRules) + 1 /\ dv.round \in 1 .. Len(dv.conf.sets)
          /\ dv.foreign \in 0 .. Len(dv.conf.foreign)
      BY <1>2, <1>6, SMT DEF dvRules
    <2>2. IsEmulator(dv.emu) BY <1>2 DEF IsEmulator, ZeroEmulator, NoRules
    <2>3. DOMAIN dv.todo = 1 .. 3 BY <1>2, SMT
    <2>4. /\ dv.pc \in Early \cup {"detach", "returned"} /\ dv.pc \notin {"write", "check"}
          /\ dv.pc \notin {"filter", "query", "attach", "detach"}
      BY <1>4 DEF Early, Quiet
    <2> QED BY <1>2, <1>3, <1>5, <1>6, <2>1, <2>2, <2>3, <2>4, Zenon DEF dvShape
  <1>8. dvBuilt
    <2>1. BuiltFrom(dvRules, 0, dv.emu, 0) BY <1>2, NothingBuilt
    <2>2. dv.i - 1 = 0 /\ 0 \in 0 .. 0 BY <1>2, SMT
    <2>3. Built(dv.i - 1) BY <2>1, <2>2, Zenon DEF Built
    <2> QED BY <1>2, <1>4, <2>3 DEF dvBuilt
  <1>9. dvList BY <1>4, <1>5 DEF dvList
  <1>10. dvIds
    <2>1. \A i \in DOMAIN conf.progs :
            /\ conf.progs[i].id \notin 0 .. Len(conf.sets)
            /\ \A j \in DOMAIN conf.progs \ {i} : conf.progs[j].id # conf.progs[i].id
            /\ \A j \in 1 .. Len(conf.foreign) : conf.foreign[j].id # conf.progs[i].id
      BY dvAssumption, Zenon
    <2>2. \A i, j \in DOMAIN conf.progs : conf.progs[i].id = conf.progs[j].id => i = j
      BY <2>1, Zenon
    <2>3. \A n \in dv.round + 1 .. Len(conf.sets) : n \in 0 .. Len(conf.sets)
      BY <1>2, <1>6, SMT
    <2>4. dv.round \in 0 .. Len(conf.sets) /\ dv.foreign + 1 = 1 BY <1>2, <1>6, SMT
    <2>5. ASSUME NEW i \in DOMAIN dv.progs
          PROVE  /\ \A n \in dv.round + 1 .. Len(dv.conf.sets) : dv.progs[i].id # n
                 /\ dv.progs[i].id # dv.round
                 /\ \A k \in dv.foreign + 1 .. Len(dv.conf.foreign) :
                      dv.progs[i].id # dv.conf.foreign[k].id
      <3>1. i \in DOMAIN conf.progs /\ dv.progs = conf.progs /\ dv.conf = conf BY <1>2
      <3>2. \A n \in dv.round + 1 .. Len(dv.conf.sets) : dv.progs[i].id # n
        BY <2>1, <2>3, <3>1, Zenon
      <3>3. dv.progs[i].id # dv.round BY <2>1, <2>4, <3>1, Zenon
      <3>4. \A k \in 1 .. Len(conf.foreign) : conf.progs[i].id # conf.foreign[k].id
        BY <2>1, <3>1, Zenon
      <3> QED BY <2>4, <3>1, <3>2, <3>3, <3>4
    <2> QED BY <1>2, <2>2, <2>5, Zenon DEF dvIds
  <1>11. dvPrograms
    <2>1. Kept BY <1>5, Zenon DEF Kept, Attached
    <2> QED BY <1>4, <2>1 DEF dvPrograms
  <1> QED BY <1>7, <1>8, <1>9, <1>10, <1>11 DEF dvInv

\* nextSet keeps the invariant.
LEMMA nextSetStep == ASSUME dvInv, nextSet PROVE dvInv'
  <1>1. dv.pc = "returned" /\ DOMAIN dv = dvFields /\ dv.round < Len(dv.conf.sets)
    BY DEF nextSet, dvAt, dvInv, dvShape
  <1>2. /\ Only({"pc", "round", "i", "emu", "result", "before"})
        /\ dv'.pc = (IF dv.conf.systemd THEN "props" ELSE "set") /\ dv'.round = dv.round + 1
        /\ dv'.i = 1 /\ dv'.emu = ZeroEmulator
        /\ dv'.before = [kernel |-> dv.kernel, progs |-> dv.progs]
    BY <1>1, FieldsIn, Zenon DEF Only, nextSet
  <1>3. /\ dv'.conf = dv.conf /\ dv'.foreign = dv.foreign /\ dv'.todo = dv.todo
        /\ dv'.kernel = dv.kernel /\ dv'.progs = dv.progs /\ DOMAIN dv' = dvFields
    BY <1>2, FieldsIn, Zenon DEF Only
  <1>4. Len(dv.conf.sets) \in Nat /\ dv.round \in Nat BY ConfIs DEF dvInv
  <1>5. dv'.round \in 1 .. Len(dv'.conf.sets)
    BY <1>1, <1>2, <1>3, <1>4, SMT
  <1>6. dvIds'
    <2>1. \A i, j \in DOMAIN dv'.progs : dv'.progs[i].id = dv'.progs[j].id => i = j
      BY <1>3, Zenon DEF dvInv, dvIds
    <2>2. /\ dv'.round \in dv.round + 1 .. Len(dv.conf.sets)
          /\ \A n \in dv'.round + 1 .. Len(dv.conf.sets) : n \in dv.round + 1 .. Len(dv.conf.sets)
      BY <1>1, <1>2, <1>4, SMT
    <2>3. ASSUME NEW i \in DOMAIN dv'.progs
          PROVE  /\ \A n \in dv'.round + 1 .. Len(dv'.conf.sets) : dv'.progs[i].id # n
                 /\ dv'.pc \in Early => dv'.progs[i].id # dv'.round
                 /\ \A k \in dv'.foreign + 1 .. Len(dv'.conf.foreign) :
                      dv'.progs[i].id # dv'.conf.foreign[k].id
      <3>1. i \in DOMAIN dv.progs /\ dv'.progs[i] = dv.progs[i] BY <1>3
      <3>2. /\ \A n \in dv.round + 1 .. Len(dv.conf.sets) : dv.progs[i].id # n
            /\ \A k \in dv.foreign + 1 .. Len(dv.conf.foreign) :
                 dv.progs[i].id # dv.conf.foreign[k].id
        BY <3>1, Zenon DEF dvInv, dvIds
      <3>3. \A n \in dv'.round + 1 .. Len(dv'.conf.sets) : dv'.progs[i].id # n
        BY <1>3, <2>2, <3>1, <3>2
      <3>4. dv'.progs[i].id # dv'.round BY <2>2, <3>1, <3>2
      <3> QED BY <1>3, <3>1, <3>2, <3>3, <3>4
    <2> QED BY <2>1, <2>3, Zenon DEF dvIds
  <1>7. dv'.pc \in {"props", "set"} BY <1>2
  <1>8. /\ dv'.conf \in dvConfs /\ dv'.foreign \in 0 .. Len(dv'.conf.foreign)
        /\ DOMAIN dv'.todo = 1 .. 3 /\ IsKernel(dv'.kernel) /\ IsSeq(dv'.progs)
    BY <1>3, Zenon DEF dvInv, dvShape
  <1> QED BY <1>2, <1>3, <1>5, <1>6, <1>7, <1>8, FreshStart

\* What the systemd managers put in place keeps the invariant.
LEMMA PolicyIs == ASSUME NEW conf, NEW props PROVE IsKernel(Policy(conf, props))
  <1> DEFINE rs == [m \in dvMetas |->
                      UNION {e.perms : e \in {x \in props.allow : m \in EntryMetas(conf, x)}}]
  <1>1. Policy(conf, props) = [allow |-> props.policy = "auto", rules |-> rs] BY Zenon DEF Policy
  <1>2. DOMAIN rs = dvMetas BY Zenon
  <1> HIDE DEF rs
  <1> QED BY <1>1, <1>2, SMT DEF IsKernel

LEMMA UnitProgramId == ASSUME NEW e PROVE [DeviceFilter(e, 0) EXCEPT !.owner = "systemd"].id = 0
  <1> DEFINE bs == [i \in DOMAIN SelectSeq(CleanRules(e), LAMBDA r : r.node # "a") |->
                      appendRule(SelectSeq(CleanRules(e), LAMBDA r : r.node # "a")[i])]
  <1>1. DeviceFilter(e, 0) = [id |-> 0, owner |-> "runc", allow |-> e.allow, blocks |-> bs]
    BY Zenon DEF DeviceFilter
  <1> HIDE DEF bs
  <1> QED BY <1>1, SMT

\* The programs of the step: systemd's own one is gone, and may be attached anew.
WithoutUnit ==
  LET own == {i \in DOMAIN dv.progs : dv.progs[i].id = 0}
  IN IF own = {} THEN dv.progs ELSE Detached(dv.progs, CHOOSE i \in own : TRUE)

LEMMA UnitPrograms ==
  ASSUME dvInv, NEW others, others = WithoutUnit
  PROVE  /\ IsSeq(others)
         /\ \A i, j \in DOMAIN others : others[i].id = others[j].id => i = j
         /\ \A k \in DOMAIN others : others[k].id # 0
         /\ \A k \in DOMAIN others : \E j \in DOMAIN dv.progs : others[k] = dv.progs[j]
  <1> DEFINE own == {i \in DOMAIN dv.progs : dv.progs[i].id = 0}
  <1>1. IsSeq(dv.progs) BY DEF dvInv, dvShape
  <1>2. \A i, j \in DOMAIN dv.progs : dv.progs[i].id = dv.progs[j].id => i = j
    BY Zenon DEF dvInv, dvIds
  <1>3. CASE own = {}
    <2>1. others = dv.progs BY <1>3, Zenon DEF WithoutUnit
    <2>2. \A i \in DOMAIN dv.progs : dv.progs[i].id # 0 BY <1>3
    <2> QED BY <1>1, <1>2, <2>1, <2>2, Zenon
  <1>4. CASE own # {}
    <2> DEFINE at == CHOOSE i \in own : TRUE
    <2>1. at \in own /\ others = Detached(dv.progs, at) BY <1>4, Zenon DEF WithoutUnit
    <2> HIDE DEF at
    <2>2. at \in DOMAIN dv.progs /\ dv.progs[at].id = 0 BY <2>1
    <2>3. IsSeq(others) /\ Removes(dv.progs, at, others) BY <1>1, <2>1, <2>2, DetachedIs
    <2>4. \A k \in DOMAIN others : Place(at, k) \in DOMAIN dv.progs \ {at}
                                   /\ others[k] = dv.progs[Place(at, k)]
      BY <2>3, Zenon DEF Removes
    <2>5. ASSUME NEW k \in DOMAIN others PROVE others[k].id # 0
      <3>1. Place(at, k) \in DOMAIN dv.progs /\ Place(at, k) # at
            /\ others[k] = dv.progs[Place(at, k)]
        BY <2>4
      <3> QED BY <1>2, <2>2, <3>1, Zenon
    <2>6. ASSUME NEW i \in DOMAIN others, NEW j \in DOMAIN others, others[i].id = others[j].id
          PROVE  i = j
      <3>1. Place(at, i) = Place(at, j) BY <1>2, <2>4, <2>6
      <3> QED BY <2>3, <3>1, Zenon DEF Removes
    <2>7. \A k \in DOMAIN others : \E j \in DOMAIN dv.progs : others[k] = dv.progs[j] BY <2>4
    <2> QED BY <2>3, <2>5, <2>6, <2>7
  <1> QED BY <1>3, <1>4

\* setDeviceProperties keeps the invariant.
LEMMA UnitStep ==
  ASSUME dvInv, dv.pc = "props", Only({"pc", "kernel", "progs", "before"}), dv'.pc = "set",
         IsKernel(dv'.kernel), dv'.before = [kernel |-> dv'.kernel, progs |-> dv'.progs],
         NEW others, others = WithoutUnit, NEW p, p.id = 0,
         dv'.progs = others \/ dv'.progs = Append(others, p)
  PROVE  dvInv'
  <1>1. /\ SameBuild /\ dv'.foreign = dv.foreign /\ dv'.todo = dv.todo /\ DOMAIN dv' = dvFields
    BY FieldsIn, Zenon DEF Only, SameBuild, SameSet
  <1>2. /\ IsSeq(others)
        /\ \A i, j \in DOMAIN others : others[i].id = others[j].id => i = j
        /\ \A k \in DOMAIN others : others[k].id # 0
        /\ \A k \in DOMAIN others : \E j \in DOMAIN dv.progs : others[k] = dv.progs[j]
    BY UnitPrograms
  <1>3. LessToCome /\ dv.pc \in Early
    BY <1>1 DEF LessToCome, SameBuild, SameSet, Early, Quiet
  <1>4. /\ Len(dv.conf.foreign) \in Nat /\ Len(dv.conf.sets) \in Nat
        /\ \A k \in 1 .. Len(dv.conf.foreign) :
             dv.conf.foreign[k].id \notin 0 .. Len(dv.conf.sets)
    <2>1. dv.conf \in dvConfs BY DEF dvInv, dvShape
    <2> QED BY <2>1, dvAssumption, Zenon
  <1>5. dv.foreign \in Nat /\ dv.round \in 1 .. Len(dv.conf.sets)
    BY <1>4, SMT DEF dvInv, dvShape
  <1> DEFINE Apart(id) ==
        /\ \A n \in dv'.round + 1 .. Len(dv'.conf.sets) : id # n
        /\ dv'.pc \in Early => id # dv'.round
        /\ \A k \in dv'.foreign + 1 .. Len(dv'.conf.foreign) : id # dv'.conf.foreign[k].id
  <1>6. \A k \in DOMAIN others : Apart(others[k].id)
    <2>1. ASSUME NEW j \in DOMAIN dv.progs PROVE Apart(dv.progs[j].id)
      <3>1. dvShape /\ dvIds /\ LessToCome BY <1>3 DEF dvInv
      <3> QED BY <3>1, IdsOf, Zenon
    <2> HIDE DEF Apart
    <2> QED BY <1>2, <2>1, Zenon
  <1>7. Apart(p.id)
    <2>1. \A n \in dv.round + 1 .. Len(dv.conf.sets) : 0 # n BY <1>4, <1>5, SMT
    <2>2. 0 # dv.round /\ 0 \in 0 .. Len(dv.conf.sets) BY <1>4, <1>5, SMT
    <2>3. \A k \in dv.foreign + 1 .. Len(dv.conf.foreign) : k \in 1 .. Len(dv.conf.foreign)
      BY <1>4, <1>5, SMT
    <2>4. \A k \in dv.foreign + 1 .. Len(dv.conf.foreign) : 0 # dv.conf.foreign[k].id
      BY <1>4, <2>2, <2>3, Zenon
    <2> QED BY <1>1, <2>1, <2>2, <2>4, Zenon DEF SameBuild, SameSet
  <1>8. /\ IsSeq(dv'.progs)
        /\ \A i, j \in DOMAIN dv'.progs : dv'.progs[i].id = dv'.progs[j].id => i = j
        /\ \A i \in DOMAIN dv'.progs : Apart(dv'.progs[i].id)
    <2> HIDE DEF Apart
    <2>1. CASE dv'.progs = others BY <1>2, <1>6, <2>1, Zenon
    <2>2. CASE dv'.progs = Append(others, p)
      <3>1. IsSeq(dv'.progs) /\ Appends(others, p, dv'.progs) BY <1>2, <2>2, AppendIs
      <3>2. PICK e \in DOMAIN dv'.progs \ DOMAIN others :
              dv'.progs[e] = p /\ DOMAIN dv'.progs = DOMAIN others \cup {e}
        BY <3>1, Zenon DEF Appends
      <3>3. \A i \in DOMAIN others : dv'.progs[i] = others[i] BY <3>1, Zenon DEF Appends
      <3>4. ASSUME NEW i \in DOMAIN dv'.progs, NEW j \in DOMAIN dv'.progs,
                   dv'.progs[i].id = dv'.progs[j].id
            PROVE  i = j
        <4>1. CASE i = e /\ j = e BY <4>1
        <4>2. ASSUME NEW k \in DOMAIN others PROVE dv'.progs[k].id = others[k].id /\ others[k].id # 0
          BY <1>2, <3>3
        <4>3. dv'.progs[e].id = 0 BY <3>2
        <4>4. CASE i = e /\ j \in DOMAIN others BY <3>4, <4>2, <4>3, <4>4
        <4>5. CASE i \in DOMAIN others /\ j = e BY <3>4, <4>2, <4>3, <4>5
        <4>6. CASE i \in DOMAIN others /\ j \in DOMAIN others
          <5>1. others[i].id = others[j].id BY <3>4, <4>2, <4>6
          <5> QED BY <1>2, <4>6, <5>1
        <4> QED BY <3>2, <4>1, <4>4, <4>5, <4>6
      <3>5. ASSUME NEW i \in DOMAIN dv'.progs PROVE Apart(dv'.progs[i].id)
        <4>1. CASE i = e BY <1>7, <3>2, <4>1
        <4>2. CASE i \in DOMAIN others BY <1>6, <3>3, <4>2
        <4> QED BY <3>2, <4>1, <4>2
      <3> QED BY <3>1, <3>4, <3>5
    <2> QED BY <2>1, <2>2
  <1>9. dvIds' BY <1>8, Zenon DEF dvIds
  <1> HIDE DEF Apart
  <1>10. dvShape'
    <2>1. dv'.before.kernel = dv'.kernel /\ dv'.before.progs = dv'.progs
          /\ DOMAIN dv'.before = {"kernel", "progs"}
      BY SMT
    <2>2. dvRules' = dvRules BY <1>1, Zenon DEF SameBuild, SameSet, dvRules
    <2>3. dv'.pc \in Early \cup {"detach", "returned"} /\ dv'.pc \notin {"write", "check"}
          /\ dv'.pc \notin {"filter", "query", "attach", "detach"}
      BY DEF Early, Quiet
    <2> QED BY <1>1, <1>8, <2>1, <2>2, <2>3, Zenon DEF dvInv, dvShape, SameBuild, SameSet
  <1>11. dvBuilt'
    <2>1. Built(dv.i - 1)' /\ dv.i = 1 BY <1>1, <1>3, BuiltSame DEF dvInv, dvBuilt
    <2>2. dv'.i = dv.i BY <1>1 DEF SameBuild
    <2> QED BY <2>1, <2>2 DEF dvBuilt
  <1>12. dv'.before.kernel = dv'.kernel /\ dv'.before.progs = dv'.progs BY SMT
  <1>13. dvList' BY <1>12 DEF dvList
  <1>14. dvPrograms'
    <2>1. Kept' BY <1>12, Zenon DEF Kept, Attached
    <2> QED BY <2>1 DEF dvPrograms
  <1> QED BY <1>9, <1>10, <1>11, <1>13, <1>14 DEF dvInv

LEMMA setDevicePropertiesStep == ASSUME dvInv, setDeviceProperties PROVE dvInv'
  <1> DEFINE props == generateDeviceProperties(dv.conf, dvRules)
             policy == Policy(dv.conf, props)
             own == {i \in DOMAIN dv.progs : dv.progs[i].id = 0}
             others == IF own = {} THEN dv.progs ELSE Detached(dv.progs, CHOOSE i \in own : TRUE)
             p == [DeviceFilter(policy, 0) EXCEPT !.owner = "systemd"]
             k == IF dv.conf.v = 1 THEN policy ELSE dv.kernel
             progs == IF dv.conf.v = 1 \/ policy.allow THEN others ELSE Append(others, p)
  <1>1. dv.pc = "props" /\ DOMAIN dv = dvFields BY DEF setDeviceProperties, dvAt, dvInv, dvShape
  <1>2. CASE dvFail BY <1>1, <1>2, FailDoes, EndOnly
  <1>3. CASE dvReturn("error")
    <2>1. Only({"pc", "result"}) /\ dv'.pc = "returned" /\ dv'.result = "error"
      BY <1>1, <1>3, ReturnDoes
    <2>2. Only({"pc", "result", "faults"}) BY <2>1, Zenon DEF Only
    <2> QED BY <2>1, <2>2, EndOnly
  <1>4. ASSUME dv' = [dv EXCEPT !.pc = "set"] PROVE dvInv'
    <2>1. Only({"pc", "cur", "size", "tries"}) /\ dv'.pc = "set"
      BY <1>1, <1>4, FieldsIn, Zenon DEF Only
    <2>2. dv.pc \in Early BY <1>1 DEF Early, Quiet
    <2> QED BY <1>1, <2>1, <2>2, CalmStep
  <1>5. ASSUME dv' = [dv EXCEPT !.pc = "set", !.kernel = k, !.progs = progs,
                                !.before = [kernel |-> k, progs |-> progs]]
        PROVE  dvInv'
    <2>1. p.id = 0 BY UnitProgramId, Zenon
    <2>2. IsKernel(k) BY PolicyIs, Zenon DEF dvInv, dvShape
    <2>3. progs = others \/ progs = Append(others, p) BY Zenon
    <2> HIDE DEF k, progs, p
    <2>4. /\ Only({"pc", "kernel", "progs", "before"}) /\ dv'.pc = "set" /\ dv'.kernel = k
          /\ dv'.progs = progs /\ dv'.before = [kernel |-> k, progs |-> progs]
      BY <1>1, <1>5, FieldsIn, Zenon DEF Only
    <2>5. dv'.progs = others \/ dv'.progs = Append(others, p) BY <2>3, <2>4
    <2>6. IsKernel(dv'.kernel) /\ dv'.before = [kernel |-> dv'.kernel, progs |-> dv'.progs]
      BY <2>2, <2>4
    <2>7. others = WithoutUnit BY Zenon DEF WithoutUnit
    <2> HIDE DEF others
    <2> QED BY <1>1, <2>1, <2>4, <2>5, <2>6, <2>7, UnitStep
  <1>6. \/ dv' = [dv EXCEPT !.pc = "set"]
        \/ dvReturn("error")
        \/ dvFail
        \/ dv' = [dv EXCEPT !.pc = "set", !.kernel = k, !.progs = progs,
                            !.before = [kernel |-> k, progs |-> progs]]
    BY Zenon DEF setDeviceProperties
  <1> QED BY <1>2, <1>3, <1>4, <1>5, <1>6

----------------------------------------------------------------------------
(* The invariant is inductive.                                              *)

LEMMA NextHolds == ASSUME dvInv, [dvNext]_dv PROVE dvInv'
  <1>1. ASSUME UNCHANGED dv PROVE dvInv'
    <2>1. dvShape' BY <1>1, ZenonT(20) DEF dvInv, dvShape, dvRules
    <2>2. dvBuilt' BY <1>1, ZenonT(20) DEF dvInv, dvBuilt, Built, dvRules
    <2>3. dvList' BY <1>1, ZenonT(20) DEF dvInv, dvList, dvWriting, Drops, Gains
    <2>4. dvIds' BY <1>1, ZenonT(20) DEF dvInv, dvIds
    <2>5. dvPrograms'
      <3>1. New' = New BY <1>1, Zenon DEF New
      <3>2. Kept' <=> Kept BY <1>1, Zenon DEF Kept, Attached
      <3>3. Sole' <=> Sole BY <1>1, <3>1, Zenon DEF Sole
      <3>4. Attached(New)' <=> Attached(New) BY <1>1, <3>1, Zenon DEF Attached
      <3>5. \A p : Attached(p)' <=> Attached(p) BY <1>1, Zenon DEF Attached
      <3> QED BY <1>1, <3>1, <3>2, <3>3, <3>4, <3>5, ZenonT(20) DEF dvInv, dvPrograms
    <2> QED BY <2>1, <2>2, <2>3, <2>4, <2>5 DEF dvInv
  <1> QED BY <1>1, setDevicePropertiesStep, SetDevicesStep, buildEmulatorStep, writeRulesStep,
             finalCheckStep, filterDevicesStep, findAttachedStep, attachFilterStep,
             detachFiltersStep, nextSetStep, foreignAttachStep, Zenon DEF dvNext

\* dvInv holds of every series of Sets: what is built of the rules, what is left
\* to write to the v1 controller, and which v2 programs are attached.
THEOREM DevicesInductive == dvSpec => []dvInv
  <1>1. dvInit => dvInv BY InitHolds
  <1>2. dvInv /\ [dvNext]_dv => dvInv' BY NextHolds
  <1> QED BY <1>1, <1>2, PTL DEF dvSpec

----------------------------------------------------------------------------
(* What the invariant gives.                                                *)

AreRules(rules) ==
  /\ Len(rules) \in Nat /\ DOMAIN rules = 1 .. Len(rules)
  /\ \A k \in 1 .. Len(rules) : /\ rules[k].allow \in BOOLEAN
                                /\ rules[k].node \in {"b", "c"} => Meta(rules[k]) \in dvMetas

AllowsAsRules(e, rules) ==
  \A d, mode : KernelAllows(e, d, {mode}) <=> RulesAllow(rules, d, mode)

\* What RulesAllow reads in the rules is what the emulator was built from.
LEMMA BuiltAllows ==
  ASSUME NEW rules, AreRules(rules), NEW e, e.allow \in BOOLEAN,
         NEW from \in 0 .. Len(rules), BuiltFrom(rules, Len(rules), e, from)
  PROVE  AllowsAsRules(e, rules)
  <1> SUFFICES ASSUME NEW d, NEW mode
               PROVE  KernelAllows(e, d, {mode}) <=> RulesAllow(rules, d, mode)
    BY DEF AllowsAsRules
  <1> DEFINE n == Len(rules)
             resets == {i \in DOMAIN rules : rules[i].node = "a"}
             start == IF resets = {} THEN 0 ELSE CHOOSE i \in resets : \A j \in resets : j <= i
             Excepted == \E i \in from + 1 .. n :
               /\ rules[i].allow # e.allow /\ Covers(rules[i], d) /\ mode \in rules[i].perms
               /\ \A j \in i + 1 .. n :
                    Meta(rules[j]) = Meta(rules[i]) /\ rules[j].allow = e.allow
                      => mode \notin rules[j].perms
  <1> USE DEF AreRules
  <1>1. start = from
    <2>1. \A i \in resets : i \in 1 .. n /\ i <= from
      <3> SUFFICES ASSUME NEW i \in resets, ~(i <= from) PROVE FALSE OBVIOUS
      <3>1. i \in 1 .. n /\ rules[i].node = "a" OBVIOUS
      <3>2. i \in from + 1 .. n BY <3>1, SMT
      <3>3. rules[i].node \in {"b", "c"} BY <3>2, Zenon DEF BuiltFrom
      <3> QED BY <3>1, <3>3
    <2>2. CASE from = 0
      <3>1. resets = {} BY <2>1, <2>2, SMT
      <3> QED BY <2>2, <3>1
    <2>3. CASE from # 0
      <3>1. from \in 1 .. n /\ from > 0 BY <2>3, SMT
      <3>2. from \in resets BY <3>1, Zenon DEF BuiltFrom
      <3> HIDE DEF resets
      <3>3. \A j \in resets : j <= from BY <2>1
      <3>4. start \in resets /\ from <= start BY <3>2, <3>3, Zenon
      <3>5. start \in 1 .. n /\ start <= from BY <2>1, <3>4
      <3> HIDE DEF start
      <3> QED BY <3>1, <3>4, <3>5, SMT
    <2> QED BY <2>2, <2>3
  <1>2. e.allow <=> from > 0 /\ rules[from].allow BY Zenon DEF BuiltFrom
  <1>3. (from > 0 /\ rules[from].allow) = e.allow
    <2>1. from > 0 => rules[from].allow \in BOOLEAN BY SMT
    <2> QED BY <1>2, <2>1
  <1>4. RulesAllow(rules, d, mode) <=> IF Excepted THEN ~e.allow ELSE e.allow
    <2>1. RulesAllow(rules, d, mode) =
            LET default == start > 0 /\ rules[start].allow
                excepted == \E i \in (start + 1)..Len(rules) :
                  /\ rules[i].allow # default /\ Covers(rules[i], d) /\ mode \in rules[i].perms
                  /\ \A j \in (i + 1)..Len(rules) :
                       Meta(rules[j]) = Meta(rules[i]) /\ rules[j].allow = default
                         => mode \notin rules[j].perms
            IN IF excepted THEN ~default ELSE default
      BY Zenon DEF RulesAllow
    <2> HIDE DEF start
    <2> QED BY <1>1, <1>3, <2>1, Zenon
  <1>5. \A i \in 1 .. n : Covers(Meta(rules[i]), d) <=> Covers(rules[i], d)
    <2>1. \A r : Meta(r).node = r.node /\ Meta(r).major = r.major /\ Meta(r).minor = r.minor
      BY Zenon DEF Meta
    <2> QED BY <2>1, Zenon DEF Covers
  <1>6. \A i \in from + 1 .. n : i \in 1 .. n /\ Meta(rules[i]) \in dvMetas
    <2> SUFFICES ASSUME NEW i \in from + 1 .. n PROVE i \in 1 .. n /\ Meta(rules[i]) \in dvMetas
      OBVIOUS
    <2>1. i \in 1 .. n BY SMT
    <2>2. rules[i].node \in {"b", "c"} BY Zenon DEF BuiltFrom
    <2> QED BY <2>1, <2>2, Zenon
  <1>7. \A m \in dvMetas : mode \in e.rules[m] <=>
          \E k \in from + 1 .. n : Excepts(rules, n, e.allow, k, m, mode)
    BY Zenon DEF BuiltFrom
  <1>8. Excepted <=> \E m \in dvMetas : Covers(m, d) /\ mode \in e.rules[m]
    <2>1. ASSUME NEW i \in from + 1 .. n,
                 rules[i].allow # e.allow, Covers(rules[i], d), mode \in rules[i].perms,
                 \A j \in i + 1 .. n : Meta(rules[j]) = Meta(rules[i]) /\ rules[j].allow = e.allow
                                         => mode \notin rules[j].perms
          PROVE  \E m \in dvMetas : Covers(m, d) /\ mode \in e.rules[m]
      <3>1. Excepts(rules, n, e.allow, i, Meta(rules[i]), mode) BY <2>1, Zenon DEF Excepts
      <3>2. Meta(rules[i]) \in dvMetas /\ Covers(Meta(rules[i]), d) BY <1>5, <1>6, <2>1, Zenon
      <3> QED BY <1>7, <3>1, <3>2, Zenon
    <2>2. ASSUME NEW m \in dvMetas, Covers(m, d), mode \in e.rules[m] PROVE Excepted
      <3>1. PICK k \in from + 1 .. n : Excepts(rules, n, e.allow, k, m, mode) BY <1>7, <2>2, Zenon
      <3>2. Meta(rules[k]) = m BY <3>1, Zenon DEF Excepts
      <3>3. Covers(rules[k], d) BY <1>5, <1>6, <2>2, <3>2, Zenon
      <3> QED BY <3>1, <3>2, <3>3, Zenon DEF Excepts
    <2> QED BY <2>1, <2>2, Zenon
  <1> HIDE DEF Excepted
  <1>9. KernelAllows(e, d, {mode}) <=> IF Excepted THEN ~e.allow ELSE e.allow
    <2>1. CASE e.allow
      <3>1. \A m \in dvMetas : e.rules[m] \cap {mode} = {} <=> mode \notin e.rules[m] OBVIOUS
      <3> QED BY <1>8, <2>1, <3>1, Zenon DEF KernelAllows
    <2>2. CASE ~e.allow
      <3>1. \A m \in dvMetas : {mode} \subseteq e.rules[m] <=> mode \in e.rules[m] OBVIOUS
      <3> QED BY <1>8, <2>2, <3>1, Zenon DEF KernelAllows
    <2> QED BY <2>1, <2>2
  <1> QED BY <1>4, <1>9

LEMMA SetEffect == ASSUME dvInv PROVE SetTakesEffect
  <1> SUFFICES ASSUME dv.pc = "returned", dv.result = "ok"
               PROVE  /\ \A d \in dvDevices, mode \in Perms :
                           KernelAllows(IF dv.conf.v = 1 THEN dv.kernel ELSE dv.emu, d, {mode})
                             <=> RulesAllow(dvRules, d, mode)
                      /\ dv.conf.v = 2 => \E i \in DOMAIN dv.progs :
                           /\ dv.progs[i] = DeviceFilter(dv.emu, dv.round)
                           /\ \A j \in DOMAIN dv.progs \ {i} : dv.progs[j].owner # "runc"
    BY Zenon DEF SetTakesEffect
  <1>1. AreRules(dvRules) /\ Len(dvRules) \in Nat BY ConfIs DEF dvInv, AreRules
  <1>2. dv.i - 1 = Len(dvRules) /\ Built(dv.i - 1)
    <2>1. dv.i = Len(dvRules) + 1 /\ Built(dv.i - 1) BY DEF dvInv, dvBuilt
    <2>2. dv.i - 1 = Len(dvRules) BY <1>1, <2>1, SMT
    <2> QED BY <2>1, <2>2
  <1>3. PICK from \in 0 .. Len(dvRules) : BuiltFrom(dvRules, Len(dvRules), dv.emu, from)
    BY <1>2, Zenon DEF Built
  <1>4. dv.emu.allow \in BOOLEAN BY DEF dvInv, dvShape, IsEmulator
  <1>5. AllowsAsRules(dv.emu, dvRules) BY <1>1, <1>3, <1>4, BuiltAllows
  <1>6. ASSUME NEW d, NEW mode, dv.conf.v = 1
        PROVE  KernelAllows(dv.kernel, d, {mode}) <=> KernelAllows(dv.emu, d, {mode})
    <2>1. SameRules(dv.kernel, dv.emu) BY <1>6 DEF dvInv, dvList
    <2> QED BY <2>1, Zenon DEF SameRules, KernelAllows
  <1>7. dv.conf.v = 2 => Sole BY DEF dvInv, dvPrograms
  <1> QED BY <1>5, <1>6, <1>7, Zenon DEF AllowsAsRules, Sole, New

\* A Set that succeeds takes effect, for any rules and whatever was there
\* before it: see SetTakesEffect.
THEOREM SetsTakeEffect == dvSpec => []SetTakesEffect
BY DevicesInductive, SetEffect, PTL

\* Attaching before detaching, and the order of the writes.
LEMMA WindowHolds == ASSUME dvInv PROVE DevicesWindow
  <1>1. ASSUME dv.pc \in {"detach", "returned"}, dv.conf.v = 2,
               NEW d, NEW acc, ProgramsAllow(dv.progs, d, acc)
        PROVE  \/ ProgramsAllow(dv.before.progs, d, acc)
               \/ ProgramsAllow(<<DeviceFilter(dv.emu, 0)>>, d, acc)
    <2>1. Kept \/ Attached(New) BY <1>1 DEF dvInv, dvPrograms
    <2>2. CASE Kept
      <3>1. ASSUME NEW i \in DOMAIN dv.before.progs
            PROVE  ProgramAllows(dv.before.progs[i], d, acc)
        <4>1. PICK j \in DOMAIN dv.progs : dv.progs[j] = dv.before.progs[i]
          BY <2>2, Zenon DEF Kept, Attached
        <4>2. ProgramAllows(dv.progs[j], d, acc) BY <1>1, Zenon DEF ProgramsAllow
        <4> QED BY <4>1, <4>2
      <3> QED BY <3>1, Zenon DEF ProgramsAllow
    <2>3. CASE Attached(New)
      <3>1. ProgramAllows(New, d, acc) BY <1>1, <2>3, Zenon DEF Attached, ProgramsAllow
      <3> DEFINE bs == [i \in DOMAIN SelectSeq(CleanRules(dv.emu), LAMBDA r : r.node # "a") |->
                          appendRule(SelectSeq(CleanRules(dv.emu), LAMBDA r : r.node # "a")[i])]
                 q == DeviceFilter(dv.emu, 0)
      <3>2. /\ New = [id |-> dv.round, owner |-> "runc", allow |-> dv.emu.allow, blocks |-> bs]
            /\ q = [id |-> 0, owner |-> "runc", allow |-> dv.emu.allow, blocks |-> bs]
        BY Zenon DEF New, DeviceFilter
      <3> HIDE DEF bs, q
      <3>3. New.blocks = q.blocks /\ New.allow = q.allow BY <3>2, SMT
      <3> DEFINE A(blocks, allow) ==
                   LET hits == {j \in DOMAIN blocks :
                                  /\ blocks[j].type = d.node
                                  /\ blocks[j].access = {} \/ acc \subseteq blocks[j].access
                                  /\ blocks[j].major \in {Wildcard, d.major}
                                  /\ blocks[j].minor \in {Wildcard, d.minor}}
                   IN IF hits = {} THEN allow
                      ELSE blocks[CHOOSE j \in hits : \A k \in hits : j <= k].allow
      <3>4. ProgramAllows(New, d, acc) = A(New.blocks, New.allow)
        BY Zenon DEF ProgramAllows
      <3>5. ProgramAllows(q, d, acc) = A(q.blocks, q.allow)
        BY Zenon DEF ProgramAllows
      <3> HIDE DEF A
      <3>6. ProgramAllows(q, d, acc) BY <3>1, <3>3, <3>4, <3>5
      <3>7. DOMAIN <<q>> = {1} /\ <<q>>[1] = q BY SMT
      <3>8. ProgramsAllow(<<q>>, d, acc) BY <3>6, <3>7, Zenon DEF ProgramsAllow
      <3> QED BY <3>8 DEF q
    <2> QED BY <2>1, <2>2, <2>3
  <1>2. ASSUME dv.pc = "write", ~dv.emu.allow
        PROVE  /\ \A d \in dvDevices, acc \in SUBSET Perms \ {{}} :
                    KernelAllows(dv.kernel, d, acc) =>
                      KernelAllows(dv.before.kernel, d, acc) \/ KernelAllows(dv.emu, d, acc)
               /\ ~dv.before.kernel.allow =>
                    \A m \in dvMetas : dv.before.kernel.rules[m] \cap dv.emu.rules[m]
                                         \subseteq dv.kernel.rules[m]
    <2>1. dvWriting BY <1>2 DEF dvInv, dvShape, dvList
    <2>2. ASSUME NEW d, NEW acc, KernelAllows(dv.kernel, d, acc)
          PROVE  KernelAllows(dv.before.kernel, d, acc) \/ KernelAllows(dv.emu, d, acc)
      <3>1. CASE dv.todo[1] # {} BY <2>1, <2>2, <3>1 DEF dvWriting
      <3>2. CASE dv.todo[1] = {}
        <4>1. /\ dv.kernel.allow = dv.emu.allow
              /\ \A m \in dvMetas :
                   \/ dv.kernel.rules[m] \subseteq dv.emu.rules[m]
                   \/ /\ ~dv.before.kernel.allow
                      /\ dv.kernel.rules[m] \subseteq dv.before.kernel.rules[m]
          BY <2>1, <3>2, Zenon DEF dvWriting
        <4>2. PICK m \in dvMetas : Covers(m, d) /\ acc \subseteq dv.kernel.rules[m]
          BY <1>2, <2>2, <4>1, Zenon DEF KernelAllows
        <4>3. CASE acc \subseteq dv.emu.rules[m] BY <1>2, <4>2, <4>3, Zenon DEF KernelAllows
        <4>4. CASE ~dv.before.kernel.allow /\ acc \subseteq dv.before.kernel.rules[m]
          BY <4>2, <4>4, Zenon DEF KernelAllows
        <4> QED BY <4>1, <4>2, <4>3, <4>4
      <3> QED BY <3>1, <3>2
    <2>3. ~dv.before.kernel.allow =>
            \A m \in dvMetas : dv.before.kernel.rules[m] \cap dv.emu.rules[m]
                                 \subseteq dv.kernel.rules[m]
      BY <1>2, <2>1, Zenon DEF dvWriting
    <2> QED BY <2>2, <2>3
  <1> QED BY <1>1, <1>2, Zenon DEF DevicesWindow

\* No moment of a Set opens or drops what it should not, for any rules and
\* whichever call fails: see DevicesWindow.
THEOREM WindowClosed == dvSpec => []DevicesWindow
BY DevicesInductive, WindowHolds, PTL
=============================================================================
