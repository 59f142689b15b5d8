------------------------------ MODULE Resources -----------------------------
(***************************************************************************)
(* The resource limits of a container, from `runc update' over the managers *)
(* to the kernel's files and, with systemd, to the unit's properties: the   *)
(* merge with the saved configuration, the conversions between cgroup v1, v2*)
(* and systemd, and the order of the writes, which on v1 the kernel checks  *)
(* one by one.  A request holds 0, or no range, for what it does not name.  *)
(***************************************************************************)
EXTENDS Integers, Sequences, FiniteSets

CONSTANTS rsConfs,      \* how the container is created: see rsInit
          rsUpdates,    \* the requests an update may bring
          rsMaxUpdates, \* bound: updates of a container
          rsSecond, rsPercent, \* 1000000 and 10000 us, scaled down
          rsDefPeriod,  \* 100000 us: the period when none is given
          rsByte,       \* bits in a byte of a mask (8)
          rsMax,        \* more than any limit
          rsFaults      \* bound: failing calls

VARIABLE rs

OnV1(s) == s.driver \in {"fs", "sd1"}
WithSystemd(s) == s.driver \in {"sd1", "sd2"}
\* numToStr and the v1 files: -1 is no limit
Lim(v) == IF v = -1 THEN rsMax ELSE v
Or(v, old) == IF v = 0 THEN old ELSE v
None == [mem |-> 0, swap |-> 0, quota |-> 0, period |-> 0, pids |-> 0, cpus |-> <<>>,
         unified |-> <<>>]

rsOff == [pc |-> "off"]
\* the files and the unit of a cgroup nobody has set a limit for; `total' is
\* memory+swap on v1, swap alone on v2
FreshFiles == [mem |-> rsMax, total |-> rsMax, quota |-> -1, period |-> rsDefPeriod,
               pids |-> rsMax, cpus |-> {}]
FreshUnit == [mem |-> rsMax, swap |-> rsMax, perSec |-> rsMax * rsSecond, pids |-> rsMax,
              period |-> rsDefPeriod, cpus |-> {}]
rsInit == \E c \in rsConfs :
  rs = [pc |-> "props", driver |-> c.driver, version |-> c.version, usage |-> c.usage,
        parent |-> c.parent, conf |-> None, r |-> c.create, asked |-> c.create, known |-> TRUE,
        before |-> FreshFiles, file |-> FreshFiles, unit |-> FreshUnit, todo |-> <<>>,
        created |-> FALSE, back |-> FALSE, result |-> "none", clean |-> TRUE,
        updates |-> 0, faults |-> 0]

----------------------------------------------------------------------------
(* Conversions.                                                             *)

\* ConvertMemorySwapToCgroupV2Value
SwapErr(r) == /\ ~(r.mem = -1 /\ r.swap = 0) /\ r.swap \notin {-1, 0}
              /\ (r.mem \in {0, -1} \/ r.swap < r.mem)
ConvertSwap(r) == IF r.mem = -1 /\ r.swap = 0 THEN -1
                  ELSE IF r.swap \in {-1, 0} THEN r.swap ELSE r.swap - r.mem

\* mutant of quotaPerSec: rounded down to a percent
quotaPerSecDown(quota, period) ==
  IF quota <= 0 THEN rsMax * rsSecond
  ELSE (((quota * rsSecond) \div Or(period, rsDefPeriod)) \div rsPercent) * rsPercent
\* addCpuQuota: whole percents of a CPU, rounded up
quotaPerSec(quota, period) ==
  LET us == (quota * rsSecond) \div Or(period, rsDefPeriod) IN
  IF quota <= 0 THEN rsMax * rsSecond
  ELSE IF us % rsPercent # 0 THEN (us \div rsPercent + 1) * rsPercent ELSE us

\* what the kernel reads from a list of ranges
Cpus(ranges) == UNION {ranges[i][1]..ranges[i][2] : i \in DOMAIN ranges}
RangeErr(ranges) == \E i \in DOMAIN ranges : ranges[i][1] > ranges[i][2]
\* RangeToBits: the bytes of the mask as a big-endian number
Bytes(ranges) ==
  LET set == Cpus(ranges)
      n == CHOOSE k \in 1..(rsMax + 1) : /\ \A c \in set : c < k * rsByte
                                         /\ \E c \in set : c >= (k - 1) * rsByte
  IN [i \in 1..n |-> {b \in 0..(rsByte - 1) : (n - i) * rsByte + b \in set}]
\* systemd's reading of the bytes: the first one holds the first CPUs
MaskCpus(bytes) == UNION {{(i - 1) * rsByte + b : b \in bytes[i]} : i \in DOMAIN bytes}

----------------------------------------------------------------------------
(* The kernel's files.                                                      *)

\* v1: memory never exceeds memory+swap, no limit goes below the usage, and no
\* cgroup gets a larger share of the CPU than its parent
ShareOk(s, quota, period) == quota = -1 \/ quota * 100 <= s.parent * period
Accepts(s, f) ==
  OnV1(s) => /\ f.mem <= f.total
             /\ f.mem < s.file.mem => s.usage <= f.mem
             /\ f.total < s.file.total => s.usage <= f.total
             /\ ShareOk(s, f.quota, f.period)
\* a write: the values it changes, whether it can be read at all, and whether
\* it is written later again when it is refused
Write(set, ok, late) == <<[set |-> set, ok |-> ok, late |-> late]>>
W(f, v) == IF v = 0 THEN <<>> ELSE Write([x \in {f} |-> v], TRUE, FALSE)
WCpus(ranges) == IF ranges = <<>> THEN <<>>
                 ELSE Write([cpus |-> Cpus(ranges)], ~RangeErr(ranges), FALSE)
Wrote(s, w) == [x \in DOMAIN s.file |-> IF x \in DOMAIN w.set THEN w.set[x] ELSE s.file[x]]

\* MemoryGroup.Set: unlimited memory without a word on swap means both
SwapAlso(r) == IF r.mem = -1 /\ r.swap = 0 THEN -1 ELSE r.swap
\* mutant of swapFirst: always the memory limit first
swapFirstNever(s) == FALSE
\* setMemoryAndSwap: the sequence that the kernel accepts
swapFirst(s) == /\ s.r.mem # 0 /\ SwapAlso(s.r) # 0
                /\ SwapAlso(s.r) = -1 \/ s.file.mem < SwapAlso(s.r)
memoryV1(s) == LET m == W("mem", Lim(s.r.mem))
                   t == W("total", Lim(SwapAlso(s.r)))
               IN IF swapFirst(s) THEN t \o m ELSE m \o t
\* CpuGroup.Set: a period that is refused is written again after the quota
cpuV1(s) == (IF s.r.period = 0 THEN <<>>
             ELSE Write([period |-> s.r.period], TRUE, s.r.quota # 0)) \o W("quota", s.r.quota)

\* fs2: swap comes first, and nothing left for swap is a limit as well
memoryV2(s) ==
  (IF ConvertSwap(s.r) = 0 /\ s.r.swap > 0 THEN Write([total |-> 0], TRUE, FALSE)
   ELSE W("total", Lim(ConvertSwap(s.r)))) \o W("mem", Lim(s.r.mem))
cpuV2(s) == IF s.r.quota = 0 /\ s.r.period = 0 THEN <<>>
            ELSE Write([quota |-> IF s.r.quota > 0 THEN s.r.quota ELSE -1,
                        period |-> Or(s.r.period, rsDefPeriod)], TRUE, FALSE)
\* setUnified: the files by name, after all others
setUnified(s) == IF s.r.unified = <<>> THEN <<>> ELSE Write(s.r.unified[1], TRUE, FALSE)

----------------------------------------------------------------------------
(* systemd's unit.                                                          *)

\* the properties a set of limits becomes: genV1ResourcesProperties and
\* genV2ResourcesProperties
cpuProps(s, u, quota, period) ==
  IF quota = 0 /\ period = 0 THEN u
  ELSE [u EXCEPT !.perSec = quotaPerSec(quota, period),
                 !.period = IF s.version >= 242 THEN Or(period, @) ELSE @]
cpusetProps(s, u) == IF s.r.cpus = <<>> \/ s.version < 244 THEN u
                     ELSE [u EXCEPT !.cpus = MaskCpus(Bytes(s.r.cpus))]
genV1Props(s) ==
  LET u == cpuProps(s, s.unit, s.r.quota, s.r.period)
  IN cpusetProps(s, [u EXCEPT !.mem = Lim(Or(s.r.mem, @)), !.pids = Lim(Or(s.r.pids, @))])
genV2Props(s) ==
  LET u == genV1Props(s)
  IN [u EXCEPT !.swap = Lim(Or(ConvertSwap(s.r), @))]
\* unifiedResToSystemdProps: as the files, by name
Named(s, f, old) == IF s.r.unified # <<>> /\ f \in DOMAIN s.r.unified[1]
                    THEN s.r.unified[1][f] ELSE old
unifiedProps(s, u) ==
  LET v == [u EXCEPT !.mem = Named(s, "mem", @), !.swap = Named(s, "total", @),
                     !.pids = Named(s, "pids", @)]
  IN IF Named(s, "quota", 0) = 0 THEN v
     ELSE cpuProps(s, v, IF Named(s, "quota", 0) = -1 THEN 0 ELSE Named(s, "quota", 0),
                   Named(s, "period", rsDefPeriod))
Props(s) == IF OnV1(s) THEN genV1Props(s) ELSE unifiedProps(s, genV2Props(s))
\* what the manager refuses before it asks systemd
PropsErr(s) == \/ OnV1(s) /\ s.r.unified # <<>>
               \/ s.driver = "sd2" /\ SwapErr(s.r)
               \/ WithSystemd(s) /\ s.version >= 244 /\ RangeErr(s.r.cpus)

\* systemd writes the files of a changed unit, and does not mind a refusal
UnitQuota(u) == IF u.perSec >= rsMax * rsSecond THEN -1 ELSE (u.perSec * u.period) \div rsSecond
SystemdWrites(s, u) ==
  LET m == [s.file EXCEPT !.mem = u.mem, !.total = IF OnV1(s) THEN @ ELSE u.swap]
      c(f) == [f EXCEPT !.quota = UnitQuota(u), !.period = u.period]
      f1 == IF u.mem # s.unit.mem \/ u.swap # s.unit.swap
            THEN IF Accepts(s, m) THEN m ELSE s.file ELSE s.file
  IN IF u.perSec # s.unit.perSec \/ u.period # s.unit.period
     THEN IF Accepts(s, c(f1)) THEN c(f1) ELSE f1 ELSE f1

----------------------------------------------------------------------------
rsAt(l) == rs.pc = l
rsFault == rs.faults < rsFaults
rsFaulty(s) == [s EXCEPT !.faults = @ + 1]
\* Set failed.  An update tries to set the old resources again, which are the
\* object it has changed; a container that is created goes away
SetFailed(s) ==
  IF ~s.created THEN [s EXCEPT !.pc = "gone", !.result = "error"]
  ELSE IF s.back THEN [s EXCEPT !.pc = "idle", !.result = "error"]
  ELSE [s EXCEPT !.pc = "props", !.back = TRUE, !.todo = <<>>]
\* Set succeeded: linuxContainer.Set saves the resources in state.json
SetDone(s) ==
  IF s.back THEN [s EXCEPT !.pc = "idle", !.result = "error"]
  ELSE [s EXCEPT !.pc = "idle", !.result = "ok", !.created = TRUE, !.conf = s.r]

\* the unit's properties, which only systemd's managers set
setUnitProperties ==
  /\ rsAt("props")
  /\ \/ PropsErr(rs) /\ rs' = SetFailed(rs)
     \/ WithSystemd(rs) /\ rsFault /\ rs' = rsFaulty(SetFailed(rs))
     \/ /\ ~PropsErr(rs)
        /\ rs' = IF WithSystemd(rs)
                 THEN [rs EXCEPT !.pc = "plan", !.unit = Props(rs),
                                 !.file = SystemdWrites(rs, Props(rs))]
                 ELSE [rs EXCEPT !.pc = "plan"]

\* the writes of Set, in order
PlanErr(s) == s.driver = "fs2" /\ SwapErr(s.r)
planWrites ==
  /\ rsAt("plan")
  /\ \/ PlanErr(rs) /\ rs' = SetFailed(rs)
     \/ /\ ~PlanErr(rs)
        /\ rs' = [rs EXCEPT !.pc = "write", !.todo =
             IF OnV1(rs)
             THEN WCpus(rs.r.cpus) \o memoryV1(rs) \o cpuV1(rs) \o W("pids", Lim(rs.r.pids))
             ELSE W("pids", Lim(rs.r.pids)) \o memoryV2(rs) \o cpuV2(rs) \o WCpus(rs.r.cpus)
                  \o setUnified(rs)]

writeFile ==
  /\ rsAt("write")
  /\ IF rs.todo = <<>> THEN rs' = SetDone(rs)
     ELSE LET w == Head(rs.todo) IN
       \/ rsFault /\ rs' = rsFaulty(SetFailed(rs))
       \/ /\ w.ok /\ Accepts(rs, Wrote(rs, w))
          /\ rs' = [rs EXCEPT !.file = Wrote(rs, w), !.todo = Tail(@)]
       \/ /\ ~(w.ok /\ Accepts(rs, Wrote(rs, w)))
          /\ rs' = IF w.late
                   THEN [rs EXCEPT !.todo = <<@[2], [w EXCEPT !.late = FALSE]>> \o Tail(Tail(@))]
                   ELSE SetFailed(rs)

\* updateCommand: of quota and period, the one that is not given stays as saved
mergeCpu(conf, q) == IF (q.quota = 0) = (q.period = 0) THEN q
                     ELSE [q EXCEPT !.quota = Or(@, conf.quota), !.period = Or(@, conf.period)]
\* the saved quota and period are those of the files, which they no longer are
\* after an update that names neither
CpuKnown(s) == /\ Or(s.conf.quota, -1) = s.file.quota
               /\ Or(s.conf.period, rsDefPeriod) = s.file.period
CpuPartly(q) == (q.quota = 0) # (q.period = 0)
updateCommand ==
  /\ rsAt("idle") /\ rs.updates < rsMaxUpdates
  /\ \E q \in rsUpdates :
       rs' = [rs EXCEPT !.pc = "props", !.asked = q, !.r = mergeCpu(rs.conf, q),
                        !.known = @ /\ (CpuPartly(q) => CpuKnown(rs)),
                        !.clean = @ /\ rs.result = "ok", !.before = rs.file, !.back = FALSE,
                        !.result = "none", !.updates = @ + 1, !.faults = 0, !.todo = <<>>]

rsNext == setUnitProperties \/ planWrites \/ writeFile \/ updateCommand
=============================================================================
