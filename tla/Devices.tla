------------------------------ MODULE Devices -------------------------------
(***************************************************************************)
(* The devices controller: DevicesGroup.Set on cgroup v1 (cgroups/fs), and  *)
(* setDevices with its eBPF program on cgroup v2 (cgroups/fs2, cgroups/     *)
(* ebpf), both on top of the emulator of cgroups/devices.                   *)
(*                                                                          *)
(* One record follows a series of Set calls on one cgroup.  The kernel is   *)
(* external: the v1 controller with its list of exceptions, and the list of *)
(* v2 programs attached to the cgroup.  A third party (systemd) may attach  *)
(* a program at any time.                                                   *)
(***************************************************************************)
EXTENDS Integers, Sequences, FiniteSets

CONSTANTS dvConfs,    \* the configurations to consider: see dvInit
          dvMetas,    \* the device numbers and wildcards that occur in rules
          dvDevices,  \* the devices that processes of the cgroup may open
          dvQuerySize,\* room for program ids in the first query (64 in the code)
          dvRetries,  \* queries before giving up (10 in the code)
          dvFaults    \* bound: failing reads, writes and bpf calls

VARIABLE dv

Wildcard == -1
Perms == {"r", "w", "m"}
Meta(r) == [node |-> r.node, major |-> r.major, minor |-> r.minor]
NoRules == [m \in dvMetas |-> {}]

\* A configuration has the cgroup version, the rules of each Set, and what the
\* kernel has at first.  Every program has an id of its own: that of systemd's
\* unit is 0, that of a Set its number.  What a third party attaches is not runc's.
ASSUME dvAssumption ==
  /\ dvMetas \subseteq [node : {"b", "c"}, major : Int, minor : Int]
  /\ \A conf \in dvConfs :
       /\ conf.v \in {1, 2}
       /\ DOMAIN conf.kernel = {"allow", "rules"} /\ conf.kernel.allow \in BOOLEAN
       /\ DOMAIN conf.kernel.rules = dvMetas
       /\ Len(conf.sets) \in Nat \ {0}
       /\ \A n \in 1 .. Len(conf.sets) :
            /\ Len(conf.sets[n]) \in Nat /\ DOMAIN conf.sets[n] = 1 .. Len(conf.sets[n])
            /\ \A i \in DOMAIN conf.sets[n] :
                 LET r == conf.sets[n][i] IN
                 r.allow \in BOOLEAN /\ (r.node \in {"b", "c"} => Meta(r) \in dvMetas)
       /\ conf.progs \in Seq({conf.progs[i] : i \in DOMAIN conf.progs})
       /\ Len(conf.foreign) \in Nat
       /\ \A i \in DOMAIN conf.progs :
            /\ conf.progs[i].id \notin 0 .. Len(conf.sets)
            /\ \A j \in DOMAIN conf.progs \ {i} : conf.progs[j].id # conf.progs[i].id
            /\ \A j \in 1 .. Len(conf.foreign) : conf.foreign[j].id # conf.progs[i].id
       /\ \A i \in 1 .. Len(conf.foreign) :
            /\ conf.foreign[i].id \notin 0 .. Len(conf.sets) /\ conf.foreign[i].owner # "runc"
            /\ \A j \in 1 .. Len(conf.foreign) \ {i} : conf.foreign[j].id # conf.foreign[i].id

----------------------------------------------------------------------------
(* The emulator.  A meta without an entry has no permissions; `made' tells  *)
(* an empty Go map from a nil one.                                          *)

ZeroEmulator == [allow |-> FALSE, rules |-> NoRules, made |-> FALSE]
\* allow and deny of an `a' rule: the whole emulator is reset
Reset(allow) == [allow |-> allow, rules |-> NoRules, made |-> FALSE]

addRule(e, r) == [e EXCEPT !.rules[Meta(r)] = @ \cup r.perms, !.made = TRUE]

\* rmRule's error: a hole in a wider rule
Partial(r) == {[Meta(r) EXCEPT !.major = Wildcard], [Meta(r) EXCEPT !.minor = Wildcard],
               [Meta(r) EXCEPT !.major = Wildcard, !.minor = Wildcard]} \ {Meta(r)}
Hole(e, r) == \E m \in Partial(r) : e.rules[m] \cap r.perms # {}
rmRule(e, r) == [e EXCEPT !.rules[Meta(r)] = @ \ r.perms]

\* Apply, with allow and deny
CanCgroup(r) == r.node \in {"a", "b", "c"}
ApplyErr(e, r) ==
  ~CanCgroup(r) \/ (r.node # "a" /\ r.allow = e.allow /\ Hole(e, r))
ApplyRule(e, r) ==
  IF r.node = "a" THEN Reset(r.allow)
  ELSE IF r.allow = e.allow THEN rmRule(e, r) ELSE addRule(e, r)

\* the lines of devices.list: CgroupString's stars are parsed back by parseLine
Number(n) == [star |-> n = Wildcard, num |-> IF n = Wildcard THEN 0 ELSE n]
parseNumber(f) == IF f.star THEN Wildcard ELSE f.num
Line(m, perms) == [node |-> m.node, major |-> Number(m.major), minor |-> Number(m.minor),
                   perms |-> perms]
parseLine(l) == [node |-> l.node, major |-> parseNumber(l.major),
                 minor |-> parseNumber(l.minor), perms |-> l.perms]

\* EmulatorFromList: the line "a *:* rwm" resets to allow-all, the others are
\* exceptions to deny-all
EmulatorFromList(lines) ==
  LET parsed == {parseLine(l) : l \in lines} IN
  IF \E r \in parsed : r.node = "a" THEN Reset(TRUE)
  ELSE [allow |-> FALSE, made |-> lines # {},
        rules |-> [m \in dvMetas |-> UNION {r.perms : r \in {q \in parsed : Meta(q) = m}}]]

AllRule(allow) == [node |-> "a", major |-> Wildcard, minor |-> Wildcard, perms |-> Perms,
                   allow |-> allow]
Entry(m, perms, allow) == [node |-> m.node, major |-> m.major, minor |-> m.minor,
                           perms |-> perms, allow |-> allow]

\* mutant of Disruptive: a black-list's unknown exceptions are trusted
DisruptiveOnChange(src, tgt) == src.allow # tgt.allow
\* mutant of Disruptive: every transition starts from scratch
DisruptiveAlways(src, tgt) == src.allow \in BOOLEAN

\* Transition's first question: is an `a' rule needed?
Disruptive(src, tgt) == src.allow \/ src.allow # tgt.allow

\* Transition: the rules to write, as three groups written one after another
Transition(src, tgt) ==
  LET old == IF Disruptive(src, tgt) THEN NoRules ELSE src.rules
      dropped(m) == old[m] \ tgt.rules[m]
      gained(m) == tgt.rules[m] \ old[m]
  IN << IF Disruptive(src, tgt) THEN {AllRule(tgt.allow)} ELSE {},
        {Entry(m, dropped(m), tgt.allow) : m \in {n \in dvMetas : dropped(n) # {}}},
        {Entry(m, gained(m), ~tgt.allow) : m \in {n \in dvMetas : gained(n) # {}}} >>

\* orderedEntries: by major, minor, type
NodeRank == [a |-> 0, b |-> 1, c |-> 2]
Before(a, b) ==
  \/ a.major < b.major
  \/ a.major = b.major /\ a.minor < b.minor
  \/ a.major = b.major /\ a.minor = b.minor /\ NodeRank[a.node] < NodeRank[b.node]
First(rules) == {r \in rules : \A o \in rules \ {r} : Before(r, o)}

----------------------------------------------------------------------------
(* The kernel (external).                                                   *)

Covers(m, d) == /\ m.node = d.node
                /\ m.major \in {Wildcard, d.major}
                /\ m.minor \in {Wildcard, d.minor}

\* the v1 controller: exceptions to its default; an access needs one matching
\* exception to a deny, and no overlapping one to an allow
KernelAllows(k, d, acc) ==
  IF k.allow THEN \A m \in dvMetas : Covers(m, d) => k.rules[m] \cap acc = {}
             ELSE \E m \in dvMetas : Covers(m, d) /\ acc \subseteq k.rules[m]

\* a write to devices.allow or devices.deny; removing part of a wider
\* exception is silently ignored
KernelWrite(k, r) ==
  IF r.node = "a" THEN [allow |-> r.allow, rules |-> NoRules]
  ELSE IF r.allow = k.allow THEN [k EXCEPT !.rules[Meta(r)] = @ \ r.perms]
  ELSE [k EXCEPT !.rules[Meta(r)] = @ \cup r.perms]

\* devices.list: the exceptions of a black-list are not shown
DevicesList(k) ==
  IF k.allow THEN {Line([node |-> "a", major |-> Wildcard, minor |-> Wildcard], Perms)}
  ELSE {Line(m, k.rules[m]) : m \in {n \in dvMetas : k.rules[n] # {}}}

\* the v2 programs attached to a cgroup all have to agree
ProgramAllows(p, d, acc) ==
  LET hits == {j \in DOMAIN p.blocks :
                 /\ p.blocks[j].type = d.node
                 /\ p.blocks[j].access = {} \/ acc \subseteq p.blocks[j].access
                 /\ p.blocks[j].major \in {Wildcard, d.major}
                 /\ p.blocks[j].minor \in {Wildcard, d.minor}}
  IN IF hits = {} THEN p.allow
     ELSE p.blocks[CHOOSE j \in hits : \A k \in hits : j <= k].allow
ProgramsAllow(progs, d, acc) == \A i \in DOMAIN progs : ProgramAllows(progs[i], d, acc)
Detached(progs, i) == SubSeq(progs, 1, i - 1) \o SubSeq(progs, i + 1, Len(progs))

----------------------------------------------------------------------------
(* The eBPF program.                                                        *)

\* appendRule: a block per rule; {} for an access check that is left out
appendRule(r) == [type |-> r.node, access |-> IF r.perms = Perms THEN {} ELSE r.perms,
                  major |-> r.major, minor |-> r.minor, allow |-> r.allow]

\* DeviceFilter: the clean rules in order; the `a' rule is the default of the
\* program, and a rule that says what the default says is an internal error
Ordered(rules) ==
  [i \in 1..Cardinality(rules) |->
     CHOOSE r \in rules : Cardinality({o \in rules : Before(o, r)}) = i - 1]
CleanRules(e) == LET t == Transition(ZeroEmulator, e)
                 IN Ordered(t[1]) \o Ordered(t[2]) \o Ordered(t[3])
FilterErr(e) ==
  \E i \in DOMAIN CleanRules(e) :
    LET r == CleanRules(e)[i] IN
    IF r.node = "a" THEN i # 1 \/ r.allow # e.allow ELSE r.allow = e.allow
DeviceFilter(e, id) ==
  LET rules == SelectSeq(CleanRules(e), LAMBDA r : r.node # "a")
  IN [id |-> id, owner |-> "runc", allow |-> e.allow,
      blocks |-> [i \in DOMAIN rules |-> appendRule(rules[i])]]

\* canSkipEBPFError: only when the filter would not have denied anything that
\* was asked for
canSkipEBPFError(conf, rules) ==
  conf.userns \/ \A i \in DOMAIN rules : rules[i].allow /\ rules[i].perms = Perms

----------------------------------------------------------------------------
(* systemd's DevicePolicy and DeviceAllow.                                  *)

Emulated(rules) ==
  LET e[n \in 0..Len(rules)] == IF n = 0 THEN ZeroEmulator ELSE ApplyRule(e[n - 1], rules[n])
  IN e
EmulateErr(rules) == \E n \in DOMAIN rules : ApplyErr(Emulated(rules)[n - 1], rules[n])

\* findDeviceGroup: the name of the first line of /proc/devices that matches
Groups(conf, node, major) ==
  {i \in DOMAIN conf.proc : conf.proc[i].node = node /\ conf.proc[i].major = major}
findDeviceGroup(conf, r) ==
  LET lines == Groups(conf, r.node, r.major)
  IN conf.proc[CHOOSE i \in lines : \A j \in lines : i <= j].name
\* the rules that DeviceAllow can express; the others are left to Set
CanExpress(conf, r) ==
  IF r.major = Wildcard THEN r.minor = Wildcard
  ELSE IF r.minor = Wildcard THEN Groups(conf, r.node, r.major) # {}
  ELSE Meta(r) \in conf.nodes
deviceAllowEntry(conf, r) ==
  [node |-> r.node, perms |-> r.perms,
   kind |-> IF r.major = Wildcard THEN "all" ELSE IF r.minor = Wildcard THEN "group" ELSE "path",
   path |-> Meta(r),
   group |-> IF r.major # Wildcard /\ r.minor = Wildcard THEN findDeviceGroup(conf, r) ELSE ""]

\* generateDeviceProperties: a black-list with exceptions becomes deny-all
generateDeviceProperties(conf, rules) ==
  LET e == Emulated(rules)[Len(rules)]
      clean == {CleanRules(e)[i] : i \in DOMAIN CleanRules(e)}
  IN IF e.allow THEN [policy |-> IF e.rules = NoRules THEN "auto" ELSE "strict", allow |-> {}]
     ELSE [policy |-> "strict",
           allow |-> {deviceAllowEntry(conf, r) : r \in {c \in clean : CanExpress(conf, c)}}]

\* systemd: what an entry stands for, and the policy as a list of exceptions
EntryMetas(conf, e) ==
  IF e.kind # "group" THEN {e.path}
  ELSE {[node |-> e.node, major |-> conf.proc[i].major, minor |-> Wildcard] :
          i \in {j \in DOMAIN conf.proc : conf.proc[j].node = e.node /\ conf.proc[j].name = e.group}}
Policy(conf, props) ==
  [allow |-> props.policy = "auto",
   rules |-> [m \in dvMetas |-> UNION {e.perms : e \in {x \in props.allow : m \in EntryMetas(conf, x)}}]]

----------------------------------------------------------------------------
(* Set.                                                                     *)

dvOff == [pc |-> "off"]
dvInit ==
  \E conf \in dvConfs :
    dv = [pc |-> IF conf.systemd THEN "props" ELSE "set", conf |-> conf, round |-> 1, i |-> 1, emu |-> ZeroEmulator,
          cur |-> ZeroEmulator, todo |-> <<{}, {}, {}>>, old |-> {}, size |-> 0, tries |-> 0,
          replace |-> FALSE, kernel |-> conf.kernel, progs |-> conf.progs,
          before |-> [kernel |-> conf.kernel, progs |-> conf.progs],
          result |-> "none", faults |-> 0, foreign |-> 0]

dvAt(l) == dv.pc = l
dvRules == dv.conf.sets[dv.round]
dvReturn(res) == dv' = [dv EXCEPT !.pc = "returned", !.result = res]
dvFail == dv.faults < dvFaults
          /\ dv' = [dv EXCEPT !.pc = "returned", !.result = "error", !.faults = @ + 1]

\* the systemd managers set the unit's properties first, which systemd applies
\* to the v1 controller, or with a program of its own
setDeviceProperties ==
  LET props == generateDeviceProperties(dv.conf, dvRules)
      policy == Policy(dv.conf, props)
      own == {i \in DOMAIN dv.progs : dv.progs[i].id = 0}
      others == IF own = {} THEN dv.progs ELSE Detached(dv.progs, CHOOSE i \in own : TRUE)
  IN
  /\ dvAt("props")
  /\ \/ dv.conf.skip /\ dv' = [dv EXCEPT !.pc = "set"]
     \/ ~dv.conf.skip /\ EmulateErr(dvRules) /\ dvReturn("error")
     \/ ~dv.conf.skip /\ ~EmulateErr(dvRules) /\ dvFail
     \/ /\ ~dv.conf.skip /\ ~EmulateErr(dvRules)
        /\ LET k == IF dv.conf.v = 1 THEN policy ELSE dv.kernel
               progs == IF dv.conf.v = 1 \/ policy.allow THEN others
                        ELSE Append(others, [DeviceFilter(policy, 0) EXCEPT !.owner = "systemd"])
           IN dv' = [dv EXCEPT !.pc = "set", !.kernel = k, !.progs = progs,
                               !.before = [kernel |-> k, progs |-> progs]]

\* the guards at the head of DevicesGroup.Set and setDevices; v1 then reads
\* devices.list (loadEmulator)
SetDevices ==
  /\ dvAt("set")
  /\ \/ /\ dv.conf.skip \/ (dv.conf.v = 1 /\ dv.conf.userns)
        /\ dvReturn("skipped")
     \/ /\ ~dv.conf.skip
        /\ dv.conf.v = 1 => ~dv.conf.userns
        /\ \/ dv.conf.v = 1 /\ dvFail
           \/ dv' = [dv EXCEPT !.pc = "build",
                               !.cur = IF dv.conf.v = 1
                                       THEN EmulatorFromList(DevicesList(dv.kernel)) ELSE @]

\* buildEmulator, and the same loop in DeviceFilter: one rule after another
buildEmulator ==
  /\ dvAt("build")
  /\ IF dv.i > Len(dvRules)
     THEN dv' = [dv EXCEPT !.pc = IF dv.conf.v = 1 THEN "write" ELSE "filter",
                           !.todo = IF dv.conf.v = 1 THEN Transition(dv.cur, dv.emu) ELSE @]
     ELSE IF ApplyErr(dv.emu, dvRules[dv.i]) THEN dvReturn("error")
     ELSE dv' = [dv EXCEPT !.emu = ApplyRule(@, dvRules[dv.i]), !.i = @ + 1]

\* the loop over the transition rules: one write each, in order
writeRules ==
  /\ dvAt("write")
  /\ IF \A g \in 1..3 : dv.todo[g] = {} THEN dv' = [dv EXCEPT !.pc = "check"]
     ELSE \E g \in {n \in 1..3 : \A l \in 1..(n-1) : dv.todo[l] = {}} : \E r \in First(dv.todo[g]) :
            dvFail \/ dv' = [dv EXCEPT !.todo[g] = @ \ {r}, !.kernel = KernelWrite(@, r)]

\* the final check: devices.list again; reflect.DeepEqual tells a nil map
\* from an empty one
finalCheck ==
  LET after == EmulatorFromList(DevicesList(dv.kernel)) IN
  /\ dvAt("check")
  /\ \/ dvFail
     \/ IF (~dv.emu.allow /\ after # dv.emu) \/ dv.emu.allow # after.allow
        THEN dvReturn("error") ELSE dvReturn("ok")

\* setDevices: the program, and the cgroup's directory
filterDevices ==
  /\ dvAt("filter")
  /\ \/ dvFail
     \/ dv' = [dv EXCEPT !.pc = IF FilterErr(dv.emu) THEN "returned" ELSE "query",
                         !.result = IF FilterErr(dv.emu) THEN "internal" ELSE @,
                         !.size = dvQuerySize, !.tries = 0]

\* an error of LoadAttachCgroupDeviceFilter
bpfErr(charge) ==
  /\ dv.faults + charge <= dvFaults
  /\ dv' = [dv EXCEPT !.pc = "returned", !.faults = @ + charge,
                      !.result = IF canSkipEBPFError(dv.conf, dvRules) THEN "ignored" ELSE "error"]

\* findAttachedCgroupDeviceFilters: a query that has too little room tells how
\* much it needs; programs runc may not open are left alone
findAttached ==
  /\ dvAt("query")
  /\ \/ bpfErr(1)
     \/ IF dv.tries >= dvRetries THEN bpfErr(0)
        ELSE IF Len(dv.progs) > dv.size
        THEN dv' = [dv EXCEPT !.size = Len(dv.progs), !.tries = @ + 1]
        ELSE LET old == {i \in DOMAIN dv.progs : dv.progs[i].owner # "hidden"}
             IN dv' = [dv EXCEPT !.pc = "attach", !.old = {dv.progs[i] : i \in old},
                                 !.replace = dv.conf.canReplace /\ \E i \in old : old = {i}]

\* the new program is loaded and attached, replacing a single old one
attachFilter ==
  LET new == DeviceFilter(dv.emu, dv.round) IN
  /\ dvAt("attach")
  /\ \/ bpfErr(1)
     \/ dv' = [dv EXCEPT
          !.pc = IF dv.replace THEN "returned" ELSE "detach",
          !.result = IF dv.replace THEN "ok" ELSE @,
          !.progs = IF dv.replace
                    THEN [i \in DOMAIN @ |-> IF @[i] \in dv.old THEN new ELSE @[i]]
                    ELSE Append(@, new)]

\* the old programs are detached one after another
detachFilters ==
  /\ dvAt("detach")
  /\ IF dv.old = {} THEN dvReturn("ok")
     ELSE bpfErr(1) \/ \E p \in dv.old :
       LET at == CHOOSE i \in DOMAIN dv.progs : dv.progs[i] = p
       IN dv' = [dv EXCEPT !.old = @ \ {p}, !.progs = Detached(@, at)]

\* the caller sets the next resources, whatever came of the last
nextSet ==
  /\ dvAt("returned")
  /\ dv.round < Len(dv.conf.sets)
  /\ dv' = [dv EXCEPT !.pc = IF dv.conf.systemd THEN "props" ELSE "set", !.round = @ + 1, !.i = 1, !.emu = ZeroEmulator,
                      !.result = "none", !.before = [kernel |-> dv.kernel, progs |-> dv.progs]]

\* systemd attaches a program of its own (external)
foreignAttach ==
  /\ dv.pc \in {"query", "attach", "detach"}
  /\ dv.foreign < Len(dv.conf.foreign)
  /\ dv' = [dv EXCEPT !.foreign = @ + 1, !.progs = Append(@, dv.conf.foreign[dv.foreign + 1])]

dvNext == \/ setDeviceProperties \/ SetDevices \/ buildEmulator \/ writeRules \/ finalCheck \/ filterDevices
          \/ findAttached \/ attachFilter \/ detachFilters \/ nextSet \/ foreignAttach

dvSpec == dvInit /\ [][dvNext]_dv

----------------------------------------------------------------------------
(* Properties.                                                              *)

\* What a list of rules asks for, without an emulator: after the last rule for
\* all devices, the default is overridden by a matching rule unless a later
\* rule for the same numbers takes that mode back.
RulesAllow(rules, d, mode) ==
  LET resets == {i \in DOMAIN rules : rules[i].node = "a"}
      from == IF resets = {} THEN 0 ELSE CHOOSE i \in resets : \A j \in resets : j <= i
      default == from > 0 /\ rules[from].allow
      excepted == \E i \in (from + 1)..Len(rules) :
        /\ rules[i].allow # default /\ Covers(rules[i], d) /\ mode \in rules[i].perms
        /\ \A j \in (i + 1)..Len(rules) :
             Meta(rules[j]) = Meta(rules[i]) /\ rules[j].allow = default
               => mode \notin rules[j].perms
  IN IF excepted THEN ~default ELSE default

\* When Set succeeds, whatever was there before, an earlier Set that failed half
\* way included, the v1 controller allows exactly what the rules ask for
\* (emulator.Apply, Transition, the final check).  On v2 so does the emulator
\* that the program was made from, and of all the programs that runc attached
\* only this one is left (LoadAttachCgroupDeviceFilter).
SetTakesEffect ==
  dv.pc = "returned" /\ dv.result = "ok" =>
    /\ \A d \in dvDevices, mode \in Perms :
         KernelAllows(IF dv.conf.v = 1 THEN dv.kernel ELSE dv.emu, d, {mode})
           <=> RulesAllow(dvRules, d, mode)
    /\ dv.conf.v = 2 => \E i \in DOMAIN dv.progs :
         /\ dv.progs[i] = DeviceFilter(dv.emu, dv.round)
         /\ \A j \in DOMAIN dv.progs \ {i} : dv.progs[j].owner # "runc"

\* The devices of the groups by the same name.
SameGroup(d) ==
  {d} \cup {[d EXCEPT !.major = dv.conf.proc[j].major] : j \in {k \in DOMAIN dv.conf.proc :
             \E i \in Groups(dv.conf, d.node, d.major) :
               dv.conf.proc[k].node = d.node /\ dv.conf.proc[k].name = dv.conf.proc[i].name}}

\* SetTakesEffect, and on v2 the program allows exactly what the rules ask for.
\* No list of rules makes DeviceFilter report an internal error.  With systemd,
\* what the unit allows until then is never more than the rules do, other
\* numbers of a device group by the same name apart.
DevicesMatchRules ==
  /\ SetTakesEffect
  /\ dv.pc = "set" /\ dv.conf.systemd /\ ~dv.conf.skip =>
       \A d \in dvDevices, mode \in Perms :
         (IF dv.conf.v = 1 THEN KernelAllows(dv.kernel, d, {mode})
          ELSE ProgramsAllow(dv.progs, d, {mode})) =>
           \E o \in SameGroup(d) : RulesAllow(dvRules, o, mode)
  /\ dv.pc = "returned" => dv.result # "internal"
  /\ dv.pc = "returned" /\ dv.result = "ok" /\ dv.conf.v = 2 =>
       \A d \in dvDevices, mode \in Perms :
         ProgramsAllow(SelectSeq(dv.progs, LAMBDA p : p.owner = "runc"), d, {mode})
           <=> RulesAllow(dvRules, d, mode)

\* The update itself opens nothing and drops nothing: no moment of a Set allows
\* an access that neither the cgroup before it nor the new rules allow (on v1
\* when the rules are a white-list), and an exception that both have is never
\* gone in between (Transition's minimally disruptive order; attaching the new
\* program before detaching the old ones).
DevicesWindow ==
  /\ dv.pc \in {"detach", "returned"} /\ dv.conf.v = 2 =>
       \A d \in dvDevices, acc \in SUBSET Perms \ {{}} :
         ProgramsAllow(dv.progs, d, acc) =>
           \/ ProgramsAllow(dv.before.progs, d, acc)
           \/ ProgramsAllow(<<DeviceFilter(dv.emu, 0)>>, d, acc)
  /\ dv.pc = "write" /\ ~dv.emu.allow =>
       \A d \in dvDevices, acc \in SUBSET Perms \ {{}} :
         KernelAllows(dv.kernel, d, acc) =>
           KernelAllows(dv.before.kernel, d, acc) \/ KernelAllows(dv.emu, d, acc)
  /\ dv.pc = "write" /\ ~dv.emu.allow /\ ~dv.before.kernel.allow =>
       \A m \in dvMetas : dv.before.kernel.rules[m] \cap dv.emu.rules[m] \subseteq dv.kernel.rules[m]
=============================================================================
