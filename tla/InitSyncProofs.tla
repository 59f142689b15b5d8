--------------------------- MODULE InitSyncProofs ---------------------------
(***************************************************************************)
(* Proofs about the start of a container process: for every set of         *)
(* configurations and any number of faults, the stages stay inside the     *)
(* cgroup, init runs only once it is stored, the hooks keep their order, a *)
(* successful start leaves a finished init, and a failed one no cgroup.    *)
(***************************************************************************)
EXTENDS InitSync, TLAPS

USE ZenonT(3), SMT

-----------------------------------------------------------------------------
(* Types.                                                                  *)

Messages == {"inited", "pids", "procHooks", "procReady", "procSeccomp", "procError"}
Orders   == {"bootstrap", "config", "procResume", "procRun", "procSeccompDone"}
Requests == {"USERMAP_PLS", "MOUNTSOURCES_PLS", "RECVPID_PLS", "pid", "CHILD_FINISH"}
Events   == {"limits", "createRuntime", "createContainer", "changeRoot", "poststart"}

Before1 == {"none", "inform", "nl_parse", "spawn"}          \* no stage-1 yet
Labels0 == Before1 \cup {"loop1", "recvpid", "forward", "loop2", "wait2", "exited", "dead"}
Asking  == {"none", "join", "usermap"}                      \* the maps are not there yet
Before2 == Asking \cup {"unshare", "mountfds", "spawn"}     \* no stage-2 yet
After2  == {"recvpid", "pid", "pidack", "done", "leave", "exited"}
Labels1 == Before2 \cup After2 \cup {"dead"}
Nsenter == {"none", "born", "sync", "setup", "finish"}
Booting == Nsenter \cup {"boot"}                            \* no configuration yet
Told    == {"ready", "earlyAck", "finalize", "late", "lateAck", "close", "fifo", "running"}
Going   == {"rootfs", "awaitResume", "createContainer", "rootReady", "awaitRun"} \cup Told
Labels2 == Booting \cup Going \cup {"dead"}

Conv    == {"parseSync", "hooks", "resume", "save", "run"}  \* inside parseSync
Opening == {"start", "apply", "bootstrap", "waitInit", "childPid", "reap", "childExit",
            "joinCgroup", "config"}                         \* before it
Success == {"poststart", "logs", "done"}
Learnt  == Conv \cup Success \cup {"joinCgroup", "config", "synced", "waitChild"}
First   == {"start", "apply", "bootstrap", "waitInit", "fail", "dead"}
LabelsR == Learnt \cup First
           \cup {"childPid", "reap", "childExit", "terminate", "destroy", "failLogs", "failed"}
Labels  == Labels0 \cup Labels1 \cup Labels2 \cup LabelsR

TypeOK ==
  /\ conf \in Confs
  /\ pc \in [Stages \cup {"runc"} -> Labels]
  /\ pc["stage0"] \in Labels0 /\ pc["stage1"] \in Labels1 /\ pc["stage2"] \in Labels2
  /\ pc["runc"] \in LabelsR
  /\ up \in Seq(Messages) /\ down \in Seq(Orders) /\ parentEnd \in {"open", "shut", "closed"}
  /\ child = [to0 |-> child.to0, to1 |-> child.to1] /\ child.to0 \in Seq(Requests)
  /\ grand \in [to0 : Seq({"CHILD_FINISH"}), to2 : Seq({"GRANDCHILD"})]
  /\ members \subseteq Stages /\ mapped \in BOOLEAN /\ faults \in Nat
  /\ runc \in RuncLocals
  /\ cgroup \in BOOLEAN /\ saved \in BOOLEAN /\ fifo \in BOOLEAN /\ trace \in Seq(Events)

-----------------------------------------------------------------------------
(* The inductive invariant.                                                *)

Has(s, m)  == \E i \in DOMAIN s : s[i] = m
Once(s, m) == \A i, j \in DOMAIN s : s[i] = m /\ s[j] = m => i = j

\* The stages are born one from the other; stage-0 exits only once stage-2 has
\* left nsexec; the maps are acknowledged only after they are written.
StageInv ==
  /\ pc["stage0"] \in Before1 => pc["stage1"] = "none"
  /\ pc["stage1"] = "none" => pc["stage0"] \in Before1 \cup {"dead"}
  /\ pc["stage1"] \in Before2 => pc["stage2"] = "none"
  /\ pc["stage2"] = "none" => pc["stage1"] \in Before2 \cup {"dead"}
  /\ grand.to0 # <<>> \/ pc["stage0"] = "exited" => pc["stage2"] \notin Nsenter

MapInv ==
  /\ pc["stage1"] \in Asking =>
       /\ pc["stage0"] \notin {"recvpid", "forward", "loop2", "wait2", "exited"}
       /\ \A i \in DOMAIN child.to0 : child.to0[i] = "USERMAP_PLS"
       /\ child.to1 # <<>> => mapped
  /\ "user" \in config.cloneflags /\ pc["stage1"] \in (Before2 \ Asking) \cup After2 => mapped
  /\ MapsBeforeInit

\* The first message is the byte of stage-0, and any later one has come from a
\* process that lives after stage-1 was cloned.
UpInv ==
  /\ pc["stage0"] \in {"none", "inform"} => up = <<>> /\ ~runc.inited
  /\ ~runc.inited =>
       \/ pc["stage0"] \in {"none", "inform"}
       \/ up # <<>> /\ Head(up) = "inited"
       \/ up = <<>> /\ pc["stage0"] = "dead" /\ pc["stage1"] = "none"
  /\ Once(up, "inited") /\ (runc.inited => ~Has(up, "inited"))
  /\ \A m \in Messages \ {"inited"} : Has(up, m) => pc["stage1"] # "none"

\* Where runc is says how far the stages are; once cmd.Process is stage-2 the
\* other two have gone.
RuncInv ==
  /\ pc["runc"] = "start" <=> pc["stage0"] = "none"
  /\ pc["runc"] \notin First => runc.inited
  /\ pc["runc"] = "reap" => pc["stage1"] # "none"
  /\ conf.mode # "init" /\ pc["runc"] \in {"childPid", "reap"} => pc["stage0"] = "exited"
  /\ conf.mode = "init" /\ pc["runc"] = "childExit" => pc["stage1"] \in {"exited", "dead"}
  /\ runc.proc = "stage2" => pc["stage0"] = "exited" /\ pc["stage1"] \in {"exited", "dead"}
  /\ pc["runc"] \in Learnt => runc.proc = "stage2"
  /\ pc["runc"] \in Opening \cup Conv => ~runc.ierr /\ parentEnd = "open"

\* Nothing of a new container is cloned outside its cgroup.
CgroupInv ==
  /\ pc["runc"] \in {"start", "apply"} => members = {}
  /\ conf.mode = "init" =>
       /\ \/ down # <<>> \/ pc["runc"] = "bootstrap" \/ pc["stage1"] # "none"
          \/ pc["stage0"] \notin {"none", "inform", "nl_parse", "dead"}
          => "stage0" \in members
       /\ \A p \in {"stage1", "stage2"} : pc[p] # "none" => p \in members
  /\ Has(down, "config") \/ pc["runc"] = "config" \/ pc["stage2"] \in Going
       => "stage2" \in members

\* procRun is on its way only once the state is stored.
SavedInv ==
  /\ Has(down, "procRun") \/ pc["runc"] = "run" => saved
  /\ SavedBeforeRun

\* The handshake got through.
Through ==
  /\ ~runc.ierr
  /\ conf.mode = "init" => runc.sentRun /\ (ContainsNs(conf, "mnt") => runc.sentResume)

FailInv ==
  /\ pc["runc"] \in Success => Through
  /\ pc["runc"] = "destroy" /\ runc.proc = "stage2" => ~Alive("stage2")
  /\ pc["runc"] \in {"failLogs", "failed"} /\ conf.mode = "init" /\ runc.proc = "stage2"
       => ~cgroup \/ Through

\* Without a fault, init ends early only with a procError that runc will read.
Finished == pc["stage2"] \in {"fifo", "running"} \/ (pc["stage2"] = "dead" /\ faults > 0)

ResultInv ==
  /\ pc["runc"] \in Conv /\ pc["stage2"] = "dead" => faults > 0 \/ Has(up, "procError")
  /\ pc["runc"] = "synced" /\ ~runc.ierr => Finished
  /\ pc["runc"] \in Success => Finished

\* One token is handed back and forth between init and runc, and where it is
\* says how much of the order is done.
Tokens == {"early", "rootfs", "procHooks", "hooks", "resume", "procResume",
           "createContainer", "rootReady", "procReady", "over"}

Token(t) ==
  \/ t = "early" /\ pc["stage2"] \in Booting
  \/ t \in {"rootfs", "createContainer", "rootReady"} /\ pc["stage2"] = t
  \/ t \in {"procHooks", "procReady"} /\ Has(up, t)
  \/ t \in {"hooks", "resume"} /\ pc["runc"] = t
  \/ t = "procResume" /\ Has(down, t)
  \/ t = "over" /\ (pc["runc"] \in {"save", "run"} \/ runc.sentRun)

Full == Len(hookOrder) - 1

Reached(t) ==
  CASE t \in {"early", "rootfs", "procHooks"} -> {0}
    [] t = "hooks" -> {1}
    [] t \in {"resume", "procResume", "createContainer"} -> {2}
    [] t \in {"rootReady", "procReady"} -> {4}
    [] OTHER -> {Full, Full + 1}

HookInv ==
  /\ \A t, u \in Tokens : Token(t) /\ Token(u) => t = u
  /\ \A t \in Tokens : Token(t) => Len(trace) \in Reached(t)
  /\ Once(up, "procHooks") /\ Once(up, "procReady") /\ Once(down, "procResume")
  /\ pc["runc"] \notin {"logs", "done", "dead"} => Len(trace) <= Full
  /\ HookOrder

IInv ==
  /\ TypeOK /\ StageInv /\ MapInv /\ UpInv /\ RuncInv /\ CgroupInv /\ SavedInv
  /\ FailInv /\ ResultInv /\ HookInv

-----------------------------------------------------------------------------
(* Queues.                                                                 *)

\* What a queue holds after a message is put at its end.
LEMMA AppendSeq ==
  ASSUME NEW S, NEW s \in Seq(S), NEW e \in S
  PROVE  /\ Append(s, e) \in Seq(S) /\ Append(s, e) # <<>>
         /\ Head(Append(s, e)) = IF s = <<>> THEN e ELSE Head(s)
         /\ \A m : Has(Append(s, e), m) <=> Has(s, m) \/ m = e
         /\ \A m : Once(s, m) /\ (m # e \/ ~Has(s, m)) => Once(Append(s, e), m)
<1> DEFINE t == Append(s, e)
<1>1. /\ t \in Seq(S) /\ Len(t) = Len(s) + 1 /\ t[Len(t)] = e
      /\ \A i \in 1..Len(s) : t[i] = s[i]
  BY SMT
<1>2. Len(s) \in Nat /\ DOMAIN s = 1..Len(s) /\ DOMAIN t = 1..(Len(s) + 1)
  BY <1>1, SMT
<1> HIDE DEF t
<1>3. t # <<>> /\ Head(t) = IF s = <<>> THEN e ELSE Head(s)
  <2>1. Head(t) = t[1] /\ t # <<>>
    BY <1>1, <1>2, SMT
  <2>2. CASE s = <<>>
    BY <1>1, <1>2, <2>1, <2>2, SMT
  <2>3. CASE s # <<>>
    <3>1. Head(s) = s[1] /\ 1 \in 1..Len(s)
      BY <1>2, <2>3, SMT
    <3> QED BY <1>1, <2>1, <2>3, <3>1
  <2> QED BY <2>2, <2>3
<1>4. ASSUME NEW m PROVE Has(t, m) <=> Has(s, m) \/ m = e
  BY <1>1, <1>2, SMT DEF Has
<1>5. ASSUME NEW m, Once(s, m), m # e \/ ~Has(s, m) PROVE Once(t, m)
  BY <1>1, <1>2, <1>5, SMT DEF Once, Has
<1> QED BY <1>1, <1>3, <1>4, <1>5 DEF t

\* What it holds after the first one is taken.
LEMMA TailSeq ==
  ASSUME NEW S, NEW s \in Seq(S), s # <<>>
  PROVE  /\ Tail(s) \in Seq(S) /\ Head(s) \in S /\ Has(s, Head(s))
         /\ \A m : Has(Tail(s), m) => Has(s, m)
         /\ \A m : Has(s, m) => m = Head(s) \/ Has(Tail(s), m)
         /\ \A m : Once(s, m) => Once(Tail(s), m) /\ (Head(s) = m => ~Has(Tail(s), m))
<1> DEFINE t == Tail(s)
<1>1. /\ t \in Seq(S) /\ Len(s) \in Nat /\ Len(s) > 0 /\ Len(t) = Len(s) - 1
      /\ Head(s) = s[1] /\ s[1] \in S
      /\ \A i \in 1..Len(t) : t[i] = s[i + 1]
  BY SMT
<1>2. DOMAIN s = 1..Len(s) /\ DOMAIN t = 1..(Len(s) - 1)
  BY <1>1, SMT
<1> HIDE DEF t
<1>3. Has(s, Head(s))
  BY <1>1, <1>2, SMT DEF Has
<1>4. ASSUME NEW m, Has(t, m) PROVE Has(s, m)
  <2>1. PICK i \in DOMAIN t : t[i] = m
    BY <1>4 DEF Has
  <2>2. i + 1 \in DOMAIN s /\ s[i + 1] = m
    BY <1>1, <1>2, <2>1, SMT
  <2> QED BY <2>2 DEF Has
<1>5. ASSUME NEW m, Has(s, m) PROVE m = Head(s) \/ Has(t, m)
  <2>1. PICK i \in DOMAIN s : s[i] = m
    BY <1>5 DEF Has
  <2>2. i = 1 \/ (i - 1 \in DOMAIN t /\ t[i - 1] = m)
    BY <1>1, <1>2, <2>1, SMT
  <2> QED BY <1>1, <2>1, <2>2 DEF Has
<1>6. ASSUME NEW m, Once(s, m) PROVE Once(t, m)
  <2> SUFFICES ASSUME NEW i \in DOMAIN t, NEW j \in DOMAIN t, t[i] = m, t[j] = m PROVE i = j
    BY DEF Once
  <2>1. i + 1 \in DOMAIN s /\ s[i + 1] = m /\ j + 1 \in DOMAIN s /\ s[j + 1] = m
    BY <1>1, <1>2, SMT
  <2>2. i + 1 = j + 1
    BY <1>6, <2>1 DEF Once
  <2> QED BY <1>2, <2>2, SMT
<1>7. ASSUME NEW m, Once(s, m), Head(s) = m PROVE ~Has(t, m)
  <2> SUFFICES ASSUME NEW i \in DOMAIN t, t[i] = m PROVE FALSE
    BY DEF Has
  <2>1. i + 1 \in DOMAIN s /\ s[i + 1] = m /\ 1 \in DOMAIN s /\ s[1] = m /\ i + 1 # 1
    BY <1>1, <1>2, <1>7, SMT
  <2> QED BY <1>7, <2>1 DEF Once
<1> QED BY <1>1, <1>3, <1>4, <1>5, <1>6, <1>7 DEF t

\* A queue's emptiness and its contents.
LEMMA EmptySeq == \A m : ~Has(<<>>, m) /\ Once(<<>>, m)
BY SMT DEF Has, Once

-----------------------------------------------------------------------------
(* What steps leave alone.                                                 *)

USE DEF Before1, Labels0, Asking, Before2, After2, Labels1, Nsenter, Booting, Told, Going,
        Labels2, Conv, Opening, Success, Learnt, First, LabelsR

\* The token stays where it is, or is lost.
LEMMA HookStays ==
  ASSUME HookInv, UNCHANGED <<conf, trace>>,
         \A t \in Tokens : Token(t)' => Token(t),
         Once(up, "procHooks")', Once(up, "procReady")', Once(down, "procResume")',
         pc["runc"] \in {"logs", "done", "dead"} => pc'["runc"] \in {"logs", "done", "dead"}
  PROVE  HookInv'
<1>1. hookOrder' = hookOrder /\ Full' = Full
  BY DEF hookOrder, Full, ContainsNs
<1>2. HookOrder'
  BY <1>1 DEF HookInv, HookOrder
<1>3. \A t \in Tokens : Reached(t)' = Reached(t)
  BY <1>1 DEF Reached
<1>4. pc'["runc"] \notin {"logs", "done", "dead"} => Len(trace') <= Full'
  BY <1>1 DEF HookInv
<1>5. \A t \in Tokens : Token(t)' => Len(trace') \in Reached(t)'
  BY <1>3 DEF HookInv
<1>6. \A t, u \in Tokens : Token(t)' /\ Token(u)' => t = u
  BY DEF HookInv
<1> QED BY <1>2, <1>4, <1>5, <1>6 DEF HookInv

\* The token goes from o to n.
LEMMA HookMoves ==
  ASSUME HookInv, conf' = conf, NEW o \in Tokens, NEW n \in Tokens, Token(o),
         \A t \in Tokens : Token(t)' => t = n \/ (Token(t) /\ t # o),
         Once(up, "procHooks")', Once(up, "procReady")', Once(down, "procResume")',
         Len(trace') \in Reached(n), Len(trace') <= Full, HookOrder'
  PROVE  HookInv'
<1>1. hookOrder' = hookOrder /\ Full' = Full
  BY DEF hookOrder, Full, ContainsNs
<1>2. \A t \in Tokens : Token(t)' => t = n
  BY DEF HookInv
<1>3. \A t \in Tokens : Reached(t)' = Reached(t)
  BY <1>1 DEF Reached
<1>4. \A t, u \in Tokens : Token(t)' /\ Token(u)' => t = u
  BY <1>2
<1>5. \A t \in Tokens : Token(t)' => Len(trace') \in Reached(t)'
  BY <1>2, <1>3
<1>6. Len(trace') <= Full'
  BY <1>1
<1> QED BY <1>4, <1>5, <1>6 DEF HookInv

\* A message of nsexec neither is nor hides one of the Go part.
LEMMA UpPlain ==
  ASSUME TypeOK, up' = up \/ \E e \in {"inited", "pids"} : up' = Append(up, e)
  PROVE  /\ up' \in Seq(Messages)
         /\ \A m \in {"procHooks", "procReady", "procError"} : Has(up, m)' <=> Has(up, m)
         /\ \A m \in {"procHooks", "procReady"} : Once(up, m) => Once(up, m)'
<1>1. CASE up' = up
  BY <1>1 DEF TypeOK
<1>2. CASE \E e \in {"inited", "pids"} : up' = Append(up, e)
  <2>1. PICK e \in {"inited", "pids"} : up' = Append(up, e)
    BY <1>2
  <2>2. up \in Seq(Messages) /\ e \in Messages
    BY <2>1 DEF TypeOK, Messages
  <2> QED BY <2>1, <2>2, AppendSeq
<1> QED BY <1>1, <1>2

\* The queue towards the stages, when they take at most one message.
Shrinks == down' = down \/ (down # <<>> /\ down' = Tail(down))

LEMMA DownShrinks ==
  ASSUME TypeOK, Shrinks
  PROVE  /\ down' \in Seq(Orders) /\ (down' # <<>> => down # <<>>)
         /\ \A m : Has(down, m)' => Has(down, m)
         /\ \A m : Once(down, m) => Once(down, m)'
<1>1. CASE down' = down
  BY <1>1 DEF TypeOK
<1>2. CASE down # <<>> /\ down' = Tail(down)
  BY <1>2, TailSeq DEF TypeOK
<1> QED BY <1>1, <1>2 DEF Shrinks

\* Where the processes are after one of them moves.
LEMMA PcGoes ==
  ASSUME TypeOK, NEW p \in Stages \cup {"runc"}, NEW l \in Labels, pc' = [pc EXCEPT ![p] = l]
  PROVE  /\ pc' \in [Stages \cup {"runc"} -> Labels] /\ pc'[p] = l
         /\ \A q \in Stages \cup {"runc"} : q # p => pc'[q] = pc[q]
BY DEF TypeOK

\* Stages 0 and 1 do not touch what runc and stage-2 do together.
LEMMA StagesFrame ==
  ASSUME IInv, pc'["runc"] = pc["runc"], pc'["stage2"] = pc["stage2"],
         UNCHANGED <<conf, faults, runc, store>>, Shrinks,
         up' = up \/ \E e \in {"inited", "pids"} : up' = Append(up, e)
  PROVE  SavedInv' /\ FailInv' /\ ResultInv' /\ HookInv'
<1>1. SavedInv'
  BY DownShrinks DEF IInv, SavedInv, SavedBeforeRun, store
<1>2. FailInv'
  BY DEF IInv, FailInv, Through, Alive, store
<1>3. ResultInv'
  BY UpPlain DEF IInv, ResultInv, Finished
<1>4. HookInv'
  <2>1. \A t \in Tokens : Token(t)' => Token(t)
    BY UpPlain, DownShrinks DEF IInv, Token
  <2>2. HookInv /\ trace' = trace
    BY DEF IInv, store
  <2>3. Once(up, "procHooks")' /\ Once(up, "procReady")' /\ Once(down, "procResume")'
    BY <2>2, UpPlain, DownShrinks DEF IInv, HookInv
  <2> QED BY <2>1, <2>2, <2>3, HookStays
<1> QED BY <1>1, <1>2, <1>3, <1>4

\* Stage-0 in its loops, or its end there.
LEMMA Stage0Moves ==
  ASSUME IInv, pc["stage0"] \in {"loop1", "recvpid", "forward", "loop2", "wait2"},
         NEW l \in {"loop1", "recvpid", "forward", "loop2", "wait2", "dead"},
         pc' = [pc EXCEPT !["stage0"] = l],
         UNCHANGED <<conf, down, parentEnd, members, runc>>, grand'.to0 = grand.to0,
         up' = up \/ up' = Append(up, "pids")
  PROVE  StageInv' /\ UpInv' /\ RuncInv' /\ CgroupInv'
<1>0. /\ pc'["stage0"] = l /\ pc'["stage1"] = pc["stage1"] /\ pc'["stage2"] = pc["stage2"]
      /\ pc'["runc"] = pc["runc"]
  BY DEF IInv, TypeOK, Stages
<1>1. StageInv'
  BY <1>0 DEF IInv, StageInv
<1>2. pc["stage1"] # "none"
  BY DEF IInv, StageInv
<1>3. UpInv'
  <2>1. CASE up' = up
    BY <1>0, <1>2, <2>1 DEF IInv, UpInv
  <2>2. CASE up' = Append(up, "pids")
    <3>1. up \in Seq(Messages) /\ "pids" \in Messages
      BY DEF IInv, TypeOK, Messages
    <3>2. /\ up' # <<>> /\ Head(up') = IF up = <<>> THEN "pids" ELSE Head(up)
          /\ Has(up, "inited")' <=> Has(up, "inited")
          /\ Once(up, "inited") => Once(up, "inited")'
      BY SMT, <2>2, <3>1, AppendSeq
    <3> QED BY <1>0, <1>2, <3>2 DEF IInv, UpInv
  <2> QED BY <2>1, <2>2
<1>4. RuncInv'
  BY <1>0 DEF IInv, RuncInv
<1>5. CgroupInv'
  BY <1>0 DEF IInv, CgroupInv
<1> QED BY <1>1, <1>3, <1>4, <1>5

-----------------------------------------------------------------------------
(* Stage 0.                                                                *)

\* One step of stage-0 in its loops.
LEMMA Loop0 ==
  ASSUME IInv, pc["stage0"] \in {"loop1", "recvpid", "forward", "loop2", "wait2"},
         NEW l \in {"loop1", "recvpid", "forward", "loop2", "wait2", "dead"},
         pc' = [pc EXCEPT !["stage0"] = l],
         UNCHANGED <<conf, down, parentEnd, members, runc, faults, store>>,
         grand' \in [to0 : Seq({"CHILD_FINISH"}), to2 : Seq({"GRANDCHILD"})], grand'.to0 = grand.to0,
         up' = up \/ up' = Append(up, "pids"),
         child' = [to0 |-> child'.to0, to1 |-> child'.to1],
         child'.to0 = child.to0 \/ (child.to0 # <<>> /\ child'.to0 = Tail(child.to0)),
         mapped' \in BOOLEAN, mapped => mapped',
         pc["stage1"] \in Asking => l \in {"loop1", "dead"} /\ (child' = child \/ mapped')
  PROVE  IInv'
<1>0. /\ pc' \in [Stages \cup {"runc"} -> Labels] /\ pc'["stage0"] = l
      /\ pc'["stage1"] = pc["stage1"] /\ pc'["stage2"] = pc["stage2"] /\ pc'["runc"] = pc["runc"]
  <2>1. pc \in [Stages \cup {"runc"} -> Labels]
    BY DEF IInv, TypeOK
  <2>2. l \in Labels
    BY DEF Labels
  <2> QED BY <2>1, <2>2 DEF Stages
<1>1. StageInv' /\ UpInv' /\ RuncInv' /\ CgroupInv'
  BY Stage0Moves
<1>2. SavedInv' /\ FailInv' /\ ResultInv' /\ HookInv'
  BY <1>0, StagesFrame DEF Shrinks
<1>3. child.to0 \in Seq(Requests) /\ child'.to0 \in Seq(Requests)
  <2>1. child.to0 \in Seq(Requests)
    BY DEF IInv, TypeOK
  <2>2. child.to0 # <<>> => Tail(child.to0) \in Seq(Requests)
    BY <2>1, TailSeq
  <2> QED BY <2>1, <2>2
<1>4. TypeOK'
  <2>1. up' \in Seq(Messages)
    BY UpPlain DEF IInv
  <2> QED BY <1>0, <1>3, <2>1 DEF IInv, TypeOK, store
<1>5. MapInv'
  <2>1. config' = config
    BY DEF config
  <2>2. ASSUME \A i \in DOMAIN child.to0 : child.to0[i] = "USERMAP_PLS"
        PROVE  \A i \in DOMAIN child'.to0 : child'.to0[i] = "USERMAP_PLS"
    <3>1. CASE child'.to0 = child.to0
      BY <2>2, <3>1
    <3>2. CASE child.to0 # <<>> /\ child'.to0 = Tail(child.to0)
      BY <1>3, <2>2, <3>2, SMT
    <3> QED BY <3>1, <3>2
  <2>3. pc["stage1"] \in Asking => (child'.to1 # <<>> => mapped')
    BY DEF IInv, MapInv
  <2> QED BY <1>0, <2>1, <2>2, <2>3 DEF IInv, MapInv, MapsBeforeInit
<1> QED BY <1>1, <1>2, <1>4, <1>5 DEF IInv

\* Every step of stage-0 that leaves its loops' labels among themselves, or
\* ends it there.
LEMMA Loop0Steps ==
  ASSUME IInv, Boot,
         \/ usermapPls \/ mountsourcesPls \/ recvpidPls \/ recvpidAck \/ forwardPids
         \/ childFinish \/ stage1Gone \/ signalStage2
  PROVE  IInv'
<1> DEFINE Loops == {"loop1", "recvpid", "forward", "loop2", "wait2"}
           L(l) == /\ l \in Loops \cup {"dead"} /\ pc["stage0"] \in Loops
                   /\ pc' = [pc EXCEPT !["stage0"] = l]
                   /\ grand' \in [to0 : Seq({"CHILD_FINISH"}), to2 : Seq({"GRANDCHILD"})] /\ grand'.to0 = grand.to0
                   /\ up' = up \/ up' = Append(up, "pids")
                   /\ child' = [to0 |-> child'.to0, to1 |-> child'.to1]
                   /\ child'.to0 = child.to0 \/ (child.to0 # <<>> /\ child'.to0 = Tail(child.to0))
                   /\ mapped' \in BOOLEAN /\ (mapped => mapped')
                   /\ pc["stage1"] \in Asking =>
                        l \in {"loop1", "dead"} /\ (child' = child \/ mapped')
<1>1. UNCHANGED <<conf, down, parentEnd, members, runc, faults, store>>
  BY DEF Boot, usermapPls, mountsourcesPls, recvpidPls, recvpidAck, forwardPids, childFinish,
         stage1Gone, signalStage2, pipes, spaces
<1>2. /\ grand \in [to0 : Seq({"CHILD_FINISH"}), to2 : Seq({"GRANDCHILD"})] /\ mapped \in BOOLEAN
      /\ child = [to0 |-> child.to0, to1 |-> child.to1] /\ child.to0 \in Seq(Requests)
  BY DEF IInv, TypeOK
<1>3. pc["stage1"] \in Asking =>
        /\ pc["stage0"] \notin {"recvpid", "forward", "loop2", "wait2", "exited"}
        /\ \A i \in DOMAIN child.to0 : child.to0[i] = "USERMAP_PLS"
  BY DEF IInv, MapInv
<1>4. pc["stage1"] \in Asking /\ child.to0 # <<>> => Head(child.to0) = "USERMAP_PLS"
  BY <1>2, <1>3, SMT
<1>5. \E l : L(l)
  <2>1. CASE usermapPls
    <3>1. CASE ~(update_uidmap /\ update_gidmap) \/ ~ChildEnd0Held
      <4>1. L("dead")
        BY <1>2, <2>1, <3>1 DEF usermapPls, Answer, Goto, Bail
      <4> QED BY <4>1
    <3>2. CASE update_uidmap /\ update_gidmap /\ ChildEnd0Held
      <4>1. L("loop1")
        BY SMT, <1>2, <2>1, <3>2 DEF usermapPls, Answer, Goto, Bail
      <4> QED BY <4>1
    <3> QED BY <3>1, <3>2
  <2>2. CASE mountsourcesPls
    <3>1. CASE ~ChildEnd0Held
      <4>1. L("dead")
        BY <1>2, <2>2, <3>1 DEF mountsourcesPls, Answer, Goto, Bail
      <4> QED BY <4>1
    <3>2. CASE ChildEnd0Held
      <4>1. L("loop1")
        BY SMT, <1>2, <1>4, <2>2, <3>2 DEF mountsourcesPls, Answer, Goto, Bail
      <4> QED BY <4>1
    <3> QED BY <3>1, <3>2
  <2>3. CASE recvpidPls
    <3>1. L("recvpid")
      BY <1>2, <1>4, <2>3 DEF recvpidPls, Goto, spaces
    <3> QED BY <3>1
  <2>4. CASE recvpidAck
    <3>1. CASE ~ChildEnd0Held
      <4>1. L("dead")
        BY <1>2, <2>4, <3>1 DEF recvpidAck, Answer, Goto, Bail, spaces
      <4> QED BY <4>1
    <3>2. CASE ChildEnd0Held
      <4>1. L("forward")
        BY SMT, <1>2, <1>3, <2>4, <3>2 DEF recvpidAck, Answer, Goto, Bail, spaces
      <4> QED BY <4>1
    <3> QED BY <3>1, <3>2
  <2>5. CASE forwardPids
    BY <1>2, <1>3, <2>5 DEF forwardPids, spaces, Goto, Bail
  <2>6. CASE childFinish
    BY <1>2, <1>4, <2>6 DEF childFinish, spaces, Goto
  <2>7. CASE stage1Gone
    BY <1>2, <2>7 DEF stage1Gone, pipes, spaces, Goto, Bail
  <2>8. CASE signalStage2
    <3>1. CASE ~GrandEnd0Held
      <4>1. L("dead")
        BY <1>2, <2>8, <3>1 DEF signalStage2, spaces, Goto, Bail
      <4> QED BY <4>1
    <3>2. CASE GrandEnd0Held
      <4>1. grand' = [grand EXCEPT !.to2 = Append(@, "GRANDCHILD")]
        BY <2>8, <3>2 DEF signalStage2
      <4>2. /\ grand' \in [to0 : Seq({"CHILD_FINISH"}), to2 : Seq({"GRANDCHILD"})]
            /\ grand'.to0 = grand.to0
        <5>1. Append(grand.to2, "GRANDCHILD") \in Seq({"GRANDCHILD"})
          BY <1>2, AppendSeq
        <5> QED BY <1>2, <4>1, <5>1
      <4>3. L("wait2")
        BY <1>2, <1>3, <2>8, <3>2, <4>2 DEF signalStage2, spaces, Goto, Bail
      <4> QED BY <4>3
    <3> QED BY <3>1, <3>2
  <2> QED BY <2>1, <2>2, <2>3, <2>4, <2>5, <2>6, <2>7, <2>8
<1>6. PICK l : L(l)
  BY <1>5
<1> HIDE DEF Asking
<1> QED BY <1>1, <1>6, Loop0

LEMMA nsexecInformStep == ASSUME IInv, Boot, nsexecInform PROVE IInv'
<1>1. /\ UNCHANGED <<conf, down, parentEnd, child, grand, members, spaces, faults, runc, store>>
      /\ pc["stage0"] = "inform" /\ pc["stage1"] = "none" /\ up = <<>> /\ ~runc.inited
  BY DEF IInv, StageInv, UpInv, Boot, nsexecInform
<1>2. ASSUME NEW l \in {"nl_parse", "dead"}, pc' = [pc EXCEPT !["stage0"] = l],
             (l = "dead" /\ up' = up) \/ (l = "nl_parse" /\ up' = Append(up, "inited"))
      PROVE  IInv'
  <2>0. l \in Labels /\ "stage0" \in Stages \cup {"runc"}
    BY DEF Labels, Stages
  <2>1. /\ pc' \in [Stages \cup {"runc"} -> Labels] /\ pc'["stage0"] = l
        /\ pc'["stage1"] = pc["stage1"] /\ pc'["stage2"] = pc["stage2"] /\ pc'["runc"] = pc["runc"]
    BY <1>2, <2>0, PcGoes DEF IInv, Stages
  <2>2. /\ up' \in Seq(Messages)
        /\ l = "nl_parse" => /\ up' # <<>> /\ Head(up') = "inited" /\ Once(up, "inited")'
                             /\ \A m \in Messages \ {"inited"} : ~Has(up, m)'
    <3>1. up \in Seq(Messages) /\ "inited" \in Messages
      BY DEF IInv, TypeOK, Messages
    <3>2. /\ Append(up, "inited") \in Seq(Messages)
          /\ Append(up, "inited") # <<>> /\ Head(Append(up, "inited")) = "inited"
          /\ Once(Append(up, "inited"), "inited")
          /\ \A m : Has(Append(up, "inited"), m) <=> m = "inited"
      BY <1>1, <3>1, AppendSeq, EmptySeq
    <3> QED BY <1>2, <3>1, <3>2
  <2>3. SavedInv' /\ FailInv' /\ ResultInv' /\ HookInv'
    BY <1>1, <1>2, <2>1, StagesFrame DEF Shrinks
  <2>4. TypeOK'
    BY SMT, <1>1, <2>1, <2>2 DEF IInv, TypeOK, spaces, store
  <2>5. StageInv'
    BY <1>1, <2>1 DEF IInv, StageInv
  <2>6. MapInv'
    <3>1. config' = config
      BY <1>1 DEF config
    <3> QED BY <1>1, <2>1, <3>1 DEF IInv, MapInv, MapsBeforeInit, spaces
  <2>7. UpInv'
    BY <1>1, <1>2, <2>1, <2>2 DEF IInv, UpInv
  <2>8. RuncInv'
    BY <1>1, <2>1 DEF IInv, RuncInv
  <2>9. CgroupInv'
    BY <1>1, <2>1 DEF IInv, CgroupInv
  <2> QED BY <2>3, <2>4, <2>5, <2>6, <2>7, <2>8, <2>9 DEF IInv
<1> QED BY <1>2 DEF nsexecInform, Goto, Bail

LEMMA nl_parseStep == ASSUME IInv, Boot, nl_parse PROVE IInv'
<1>1. /\ UNCHANGED <<conf, up, parentEnd, child, grand, members, spaces, faults, runc, store>>
      /\ pc["stage0"] = "nl_parse" /\ pc["stage1"] = "none"
  BY DEF IInv, StageInv, Boot, nl_parse
<1>2. ASSUME NEW l \in {"spawn", "dead"}, pc' = [pc EXCEPT !["stage0"] = l], Shrinks,
             l = "spawn" => down # <<>>
      PROVE  IInv'
  <2>0. l \in Labels /\ "stage0" \in Stages \cup {"runc"}
    BY DEF Labels, Stages
  <2>1. /\ pc' \in [Stages \cup {"runc"} -> Labels] /\ pc'["stage0"] = l
        /\ pc'["stage1"] = pc["stage1"] /\ pc'["stage2"] = pc["stage2"] /\ pc'["runc"] = pc["runc"]
    BY <1>2, <2>0, PcGoes DEF IInv, Stages
  <2>2. /\ down' \in Seq(Orders) /\ (down' # <<>> => down # <<>>)
        /\ \A m : Has(down, m)' => Has(down, m)
    BY <1>2, DownShrinks DEF IInv
  <2>3. SavedInv' /\ FailInv' /\ ResultInv' /\ HookInv'
    BY <1>1, <1>2, <2>1, StagesFrame
  <2>4. TypeOK'
    BY SMT, <1>1, <2>1, <2>2 DEF IInv, TypeOK, spaces, store
  <2>5. StageInv'
    BY <1>1, <2>1 DEF IInv, StageInv
  <2>6. MapInv'
    <3>1. config' = config
      BY <1>1 DEF config
    <3> QED BY <1>1, <2>1, <3>1 DEF IInv, MapInv, MapsBeforeInit, spaces
  <2>7. UpInv'
    BY <1>1, <2>1 DEF IInv, UpInv
  <2>8. RuncInv'
    BY <1>1, <2>1 DEF IInv, RuncInv
  <2>9. CgroupInv'
    BY <1>1, <1>2, <2>1, <2>2 DEF IInv, CgroupInv
  <2> QED BY <2>3, <2>4, <2>5, <2>6, <2>7, <2>8, <2>9 DEF IInv
<1> QED BY <1>2 DEF nl_parse, Goto, Bail, Shrinks

LEMMA spawnStage1Step == ASSUME IInv, Boot, spawnStage1 PROVE IInv'
<1>1. /\ UNCHANGED <<conf, up, down, parentEnd, child, grand, spaces, faults, runc, store>>
      /\ pc["stage0"] = "spawn" /\ pc["stage1"] = "none" /\ pc["stage2"] = "none"
  BY DEF IInv, StageInv, Boot, spawnStage1, pipes
<1>2. /\ pc' \in [Stages \cup {"runc"} -> Labels] /\ pc'["stage0"] = "loop1"
      /\ pc'["stage1"] = "join" /\ pc'["stage2"] = pc["stage2"] /\ pc'["runc"] = pc["runc"]
  BY DEF IInv, TypeOK, spawnStage1, Stages, Labels
<1>3. /\ members' \subseteq Stages /\ members \subseteq members'
      /\ "stage0" \in members => "stage1" \in members'
      /\ members = {} => members' = {}
  BY DEF IInv, TypeOK, spawnStage1, Stages
<1>4. SavedInv' /\ FailInv' /\ ResultInv' /\ HookInv'
  BY <1>1, <1>2, StagesFrame DEF Shrinks
<1>5. TypeOK'
  BY SMT, <1>1, <1>2, <1>3 DEF IInv, TypeOK, spaces, store
<1>6. StageInv'
  BY <1>1, <1>2 DEF IInv, StageInv
<1>7. MapInv'
  <2>1. config' = config
    BY <1>1 DEF config
  <2> QED BY <1>1, <1>2, <2>1 DEF IInv, MapInv, MapsBeforeInit, spaces
<1>8. UpInv'
  BY <1>1, <1>2 DEF IInv, UpInv
<1>9. RuncInv'
  BY <1>1, <1>2 DEF IInv, RuncInv
<1>10. CgroupInv'
  BY <1>1, <1>2, <1>3 DEF IInv, CgroupInv
<1> QED BY <1>4, <1>5, <1>6, <1>7, <1>8, <1>9, <1>10 DEF IInv

LEMMA awaitStage2Step == ASSUME IInv, Boot, awaitStage2 PROVE IInv'
<1>1. /\ UNCHANGED <<conf, up, down, parentEnd, child, grand, members, spaces, faults, runc, store>>
      /\ pc["stage0"] = "wait2" /\ pc["stage1"] # "none"
  BY DEF IInv, StageInv, Boot, awaitStage2, pipes
<1>2. ASSUME NEW l \in {"exited", "dead"}, pc' = [pc EXCEPT !["stage0"] = l],
             l = "exited" => grand.to0 # <<>>
      PROVE  IInv'
  <2>0. l \in Labels /\ "stage0" \in Stages \cup {"runc"}
    BY DEF Labels, Stages
  <2>1. /\ pc' \in [Stages \cup {"runc"} -> Labels] /\ pc'["stage0"] = l
        /\ pc'["stage1"] = pc["stage1"] /\ pc'["stage2"] = pc["stage2"] /\ pc'["runc"] = pc["runc"]
    BY <1>2, <2>0, PcGoes DEF IInv, Stages
  <2>3. SavedInv' /\ FailInv' /\ ResultInv' /\ HookInv'
    BY <1>1, <2>1, StagesFrame DEF Shrinks
  <2>4. TypeOK'
    BY SMT, <1>1, <2>1 DEF IInv, TypeOK, spaces, store
  <2>5. StageInv'
    BY <1>1, <1>2, <2>1 DEF IInv, StageInv
  <2>6. MapInv'
    <3>1. config' = config
      BY <1>1 DEF config
    <3> QED BY <1>1, <2>1, <3>1 DEF IInv, MapInv, MapsBeforeInit, spaces
  <2>7. UpInv'
    BY <1>1, <2>1 DEF IInv, UpInv
  <2>8. RuncInv'
    BY <1>1, <2>1 DEF IInv, RuncInv
  <2>9. CgroupInv'
    BY <1>1, <2>1 DEF IInv, CgroupInv
  <2> QED BY <2>3, <2>4, <2>5, <2>6, <2>7, <2>8, <2>9 DEF IInv
<1> QED BY <1>2 DEF awaitStage2, Goto, Bail

-----------------------------------------------------------------------------
(* Stage 1.                                                                *)

\* What a step of stage-1 alone does: it goes on to l.
Goes1(l) ==
  /\ l \in Labels1 \ {"none"} /\ pc["stage1"] \notin {"none", "exited", "dead"}
  /\ pc' = [pc EXCEPT !["stage1"] = l]
  /\ pc["stage1"] \in Before2 => l \in Before2 \cup {"dead"}
  /\ pc["stage1"] \notin Before2 => l \notin Before2
  /\ child' = [to0 |-> child'.to0, to1 |-> child'.to1] /\ child'.to0 \in Seq(Requests)
  /\ l \in Asking => pc["stage1"] \in Asking /\ child'.to1 = child.to1
  /\ (\A i \in DOMAIN child.to0 : child.to0[i] = "USERMAP_PLS") /\ l \in Asking
       => \A i \in DOMAIN child'.to0 : child'.to0[i] = "USERMAP_PLS"
  /\ "user" \in config.cloneflags /\ l \in (Before2 \ Asking) \cup After2 => mapped

LEMMA Stage1Goes ==
  ASSUME IInv, NEW l, Goes1(l),
         UNCHANGED <<conf, up, down, parentEnd, grand, members, mapped, faults, runc, store>>
  PROVE  IInv'
<1>0. l \in Labels /\ "stage1" \in Stages \cup {"runc"}
  BY DEF Labels, Stages, Goes1
<1>1. /\ pc' \in [Stages \cup {"runc"} -> Labels] /\ pc'["stage1"] = l
      /\ pc'["stage0"] = pc["stage0"] /\ pc'["stage2"] = pc["stage2"] /\ pc'["runc"] = pc["runc"]
  BY <1>0, PcGoes DEF IInv, Stages, Goes1
<1>2. SavedInv' /\ FailInv' /\ ResultInv' /\ HookInv'
  BY <1>1, StagesFrame DEF Shrinks
<1>3. TypeOK'
  BY SMT, <1>1 DEF IInv, TypeOK, store, Goes1
<1>4. StageInv'
  BY <1>1 DEF IInv, StageInv, Goes1
<1>5. MapInv'
  <2>1. config' = config
    BY DEF config
  <2> QED BY <1>1, <2>1 DEF IInv, MapInv, MapsBeforeInit, Goes1
<1>6. UpInv'
  BY <1>1 DEF IInv, UpInv, Goes1
<1>7. RuncInv'
  BY <1>1 DEF IInv, RuncInv, Goes1
<1>8. CgroupInv'
  BY <1>1 DEF IInv, CgroupInv, Goes1
<1> QED BY <1>2, <1>3, <1>4, <1>5, <1>6, <1>7, <1>8 DEF IInv

\* What Ask and Await do to the pipe.
LEMMA AskPipe ==
  ASSUME TypeOK, NEW s \in Requests, NEW l, Ask(s, l)
  PROVE  \/ /\ pc' = [pc EXCEPT !["stage1"] = l] /\ child'.to1 = child.to1
            /\ child' = [to0 |-> child'.to0, to1 |-> child'.to1] /\ child'.to0 \in Seq(Requests)
            /\ (\A i \in DOMAIN child.to0 : child.to0[i] = s)
                 => \A i \in DOMAIN child'.to0 : child'.to0[i] = s
         \/ pc' = [pc EXCEPT !["stage1"] = "dead"] /\ child' = child
<1>1. CASE ~ChildEnd1Held
  BY <1>1 DEF Ask, Bail, Goto
<1>2. CASE ChildEnd1Held
  <2>1. pc' = [pc EXCEPT !["stage1"] = l] /\ child' = [child EXCEPT !.to0 = Append(@, s)]
    BY <1>2 DEF Ask, Goto
  <2>2. child = [to0 |-> child.to0, to1 |-> child.to1] /\ child.to0 \in Seq(Requests)
    BY DEF TypeOK
  <2>3. /\ child' = [to0 |-> child'.to0, to1 |-> child'.to1]
        /\ child'.to0 = Append(child.to0, s) /\ child'.to1 = child.to1
    BY <2>1, <2>2
  <2>4. child'.to0 \in Seq(Requests)
    BY SMT, <2>2, <2>3, AppendSeq
  <2>5. (\A i \in DOMAIN child.to0 : child.to0[i] = s)
          => \A i \in DOMAIN child'.to0 : child'.to0[i] = s
    BY <2>2, <2>3, SMT
  <2> QED BY <2>1, <2>3, <2>4, <2>5
<1> QED BY <1>1, <1>2

LEMMA AwaitPipe ==
  ASSUME TypeOK, NEW s, NEW l, Await(s, l)
  PROVE  /\ \/ pc' = [pc EXCEPT !["stage1"] = l] /\ child.to1 # <<>>
            \/ pc' = [pc EXCEPT !["stage1"] = "dead"]
         /\ child' = [to0 |-> child'.to0, to1 |-> child'.to1] /\ child'.to0 = child.to0
<1>1. child = [to0 |-> child.to0, to1 |-> child.to1]
  BY DEF TypeOK
<1>2. CASE child.to1 = <<>>
  BY <1>1, <1>2 DEF Await, Bail, Goto
<1>3. CASE child.to1 # <<>>
  <2>1. child' = [child EXCEPT !.to1 = Tail(@)]
    BY <1>3 DEF Await
  <2>2. child' = [to0 |-> child'.to0, to1 |-> child'.to1] /\ child'.to0 = child.to0
    BY <1>1, <2>1
  <2> QED BY <1>3, <2>2 DEF Await, Bail, Goto
<1> QED BY <1>2, <1>3

\* Every step of stage-1 but the ones that touch stage-2.
LEMMA Stage1Steps ==
  ASSUME IInv, Boot,
         \/ join_namespaces \/ awaitUsermap \/ unshareRest \/ receive_mountsources
         \/ askRecvpid \/ sendPid \/ finishStage1 \/ exitStage1
         \/ pc["stage1"] = "pidack" /\ Await("RECVPID_ACK", "done")
  PROVE  IInv'
<1>1. UNCHANGED <<conf, up, down, parentEnd, grand, members, mapped, faults, runc, store>>
  BY DEF Boot, join_namespaces, awaitUsermap, unshareRest, receive_mountsources, receive_fd,
         askRecvpid, sendPid, finishStage1, exitStage1, Ask, Await, pipes, spaces
<1>2. /\ child = [to0 |-> child.to0, to1 |-> child.to1] /\ child.to0 \in Seq(Requests) /\ TypeOK
  BY DEF IInv, TypeOK
<1>3. /\ "user" \in config.cloneflags /\ pc["stage1"] \in (Before2 \ Asking) \cup After2 => mapped
      /\ pc["stage1"] \in Asking /\ child.to1 # <<>> => mapped
  BY DEF IInv, MapInv
<1>4. \E l : Goes1(l)
  <2>1. CASE join_namespaces
    <3>1. CASE "user" \in config.cloneflags
      <4>1. Ask("USERMAP_PLS", "usermap") /\ "USERMAP_PLS" \in Requests /\ pc["stage1"] = "join"
        BY <2>1, <3>1 DEF join_namespaces, Requests
      <4>2. Goes1("usermap") \/ Goes1("dead")
        BY <1>2, <4>1, AskPipe DEF Goes1
      <4> QED BY <4>2
    <3>2. CASE "user" \notin config.cloneflags
      <4>1. Goes1("unshare")
        BY <1>2, <2>1, <3>2 DEF join_namespaces, Goes1, Goto, pipes
      <4> QED BY <4>1
    <3> QED BY <3>1, <3>2
  <2>2. CASE awaitUsermap
    <3>1. Goes1("unshare") \/ Goes1("dead")
      BY <1>2, <1>3, <2>2, AwaitPipe DEF awaitUsermap, Goes1
    <3> QED BY <3>1
  <2>3. CASE unshareRest
    <3>1. CASE config.mountsources # <<>>
      <4>1. Ask("MOUNTSOURCES_PLS", "mountfds") /\ "MOUNTSOURCES_PLS" \in Requests
            /\ pc["stage1"] = "unshare"
        BY <2>3, <3>1 DEF unshareRest, Requests
      <4>2. Goes1("mountfds") \/ Goes1("dead")
        BY <1>2, <1>3, <4>1, AskPipe DEF Goes1
      <4> QED BY <4>2
    <3>2. CASE ~(config.mountsources # <<>>)
      <4>1. Goes1("spawn")
        BY <1>2, <1>3, <2>3, <3>2 DEF unshareRest, Goes1, Goto, pipes
      <4> QED BY <4>1
    <3> QED BY <3>1, <3>2
  <2>4. CASE receive_mountsources
    <3>1. pc["stage1"] = "mountfds"
          /\ (Await("fd", "mountfds") \/ Await("MOUNTSOURCES_ACK", "spawn"))
      BY <2>4 DEF receive_mountsources, receive_fd
    <3>2. Goes1("mountfds") \/ Goes1("spawn") \/ Goes1("dead")
      BY <1>2, <1>3, <3>1, AwaitPipe DEF Goes1
    <3> QED BY <3>2
  <2>5. CASE askRecvpid
    <3>1. Goes1("pid") \/ Goes1("dead")
      BY <1>2, <1>3, <2>5, AskPipe DEF askRecvpid, Goes1, Requests
    <3> QED BY <3>1
  <2>6. CASE sendPid
    <3>1. Goes1("pidack") \/ Goes1("dead")
      BY <1>2, <1>3, <2>6, AskPipe DEF sendPid, Goes1, Requests
    <3> QED BY <3>1
  <2>7. CASE finishStage1
    <3>1. Goes1("leave") \/ Goes1("dead")
      BY <1>2, <1>3, <2>7, AskPipe DEF finishStage1, Goes1, Requests
    <3> QED BY <3>1
  <2>8. CASE exitStage1
    <3>1. Goes1("exited")
      BY <1>2, <1>3, <2>8 DEF exitStage1, Goes1, Goto, pipes
    <3> QED BY <3>1
  <2>9. CASE pc["stage1"] = "pidack" /\ Await("RECVPID_ACK", "done")
    <3>1. Goes1("done") \/ Goes1("dead")
      BY <1>2, <1>3, <2>9, AwaitPipe DEF Goes1
    <3> QED BY <3>1
  <2> QED BY <2>1, <2>2, <2>3, <2>4, <2>5, <2>6, <2>7, <2>8, <2>9
<1> QED BY <1>1, <1>4, Stage1Goes

LEMMA spawnStage2Step == ASSUME IInv, Boot, spawnStage2 PROVE IInv'
<1>1. /\ UNCHANGED <<conf, up, down, parentEnd, child, grand, mapped, faults, runc, store>>
      /\ pc["stage1"] = "spawn" /\ pc["stage2"] = "none"
  BY DEF IInv, StageInv, Boot, spawnStage2, pipes, spaces
<1>2. /\ pc' \in [Stages \cup {"runc"} -> Labels] /\ pc'["stage0"] = pc["stage0"]
      /\ pc'["stage1"] = "recvpid" /\ pc'["stage2"] = "born" /\ pc'["runc"] = pc["runc"]
  BY DEF IInv, TypeOK, spawnStage2, Stages, Labels
<1>3. /\ members' \subseteq Stages /\ members \subseteq members'
      /\ "stage1" \in members => "stage2" \in members'
      /\ members = {} => members' = {}
  BY DEF IInv, TypeOK, spawnStage2, Stages
<1>4. runc.proc # "stage2" /\ pc["runc"] \notin Learnt
  BY <1>1 DEF IInv, RuncInv
<1>5. TypeOK'
  BY SMT, <1>1, <1>2, <1>3 DEF IInv, TypeOK, store
<1>6. StageInv'
  BY <1>1, <1>2 DEF IInv, StageInv
<1>7. MapInv'
  <2>1. config' = config
    BY <1>1 DEF config
  <2> QED BY <1>1, <1>2, <2>1 DEF IInv, MapInv, MapsBeforeInit
<1>8. UpInv'
  BY <1>1, <1>2 DEF IInv, UpInv
<1>9. RuncInv'
  BY <1>1, <1>2 DEF IInv, RuncInv
<1>10. CgroupInv'
  BY <1>1, <1>2, <1>3 DEF IInv, CgroupInv
<1>11. SavedInv'
  BY <1>1, <1>2 DEF IInv, SavedInv, SavedBeforeRun, store
<1>12. FailInv' /\ ResultInv'
  BY <1>1, <1>2, <1>4 DEF IInv, FailInv, ResultInv, Through, store
<1>13. HookInv'
  <2>1. \A t \in Tokens : Token(t)' => Token(t)
    BY <1>1, <1>2 DEF Token
  <2> QED BY <1>1, <1>2, <2>1, HookStays DEF IInv, HookInv, store
<1> QED BY <1>5, <1>6, <1>7, <1>8, <1>9, <1>10, <1>11, <1>12, <1>13 DEF IInv

\* Stage-1 gives up on stage-0 and takes stage-2 with it.
LEMMA awaitRecvpidAckStep == ASSUME IInv, Boot, awaitRecvpidAck PROVE IInv'
<1>1. CASE Await("RECVPID_ACK", "done")
  BY <1>1, Stage1Steps DEF awaitRecvpidAck
<1>2. CASE ~Await("RECVPID_ACK", "done")
  <2>1. /\ UNCHANGED <<conf, up, down, parentEnd, child, grand, members, mapped, faults, runc, store>>
        /\ pc["stage1"] = "pidack" /\ pc["stage2"] # "none"
    BY <1>2 DEF IInv, StageInv, Boot, awaitRecvpidAck, pipes, spaces
  <2>2. /\ pc' \in [Stages \cup {"runc"} -> Labels] /\ pc'["stage0"] = pc["stage0"]
        /\ pc'["stage1"] = "dead" /\ pc'["runc"] = pc["runc"]
        /\ pc'["stage2"] = IF Alive("stage2") THEN "dead" ELSE pc["stage2"]
    <3>1. pc \in [Stages \cup {"runc"} -> Labels]
      BY DEF IInv, TypeOK
    <3>2. pc' = [pc EXCEPT !["stage1"] = "dead",
                           !["stage2"] = IF Alive("stage2") THEN "dead" ELSE @]
      BY <1>2 DEF awaitRecvpidAck
    <3> QED BY SMT, <3>1, <3>2 DEF Stages, Labels
  <2>3. pc'["stage2"] = "dead"
    BY <2>1, <2>2 DEF IInv, TypeOK, Alive
  <2>4. runc.proc # "stage2" /\ pc["runc"] \notin Learnt
    BY <2>1 DEF IInv, RuncInv
  <2>5. TypeOK'
    BY SMT, <2>1, <2>2, <2>3 DEF IInv, TypeOK, store
  <2>6. StageInv'
    BY <2>1, <2>2, <2>3 DEF IInv, StageInv
  <2>7. MapInv'
    <3>1. config' = config
      BY <2>1 DEF config
    <3> QED BY <2>1, <2>2, <2>3, <3>1 DEF IInv, MapInv, MapsBeforeInit
  <2>8. UpInv' /\ RuncInv'
    BY <2>1, <2>2 DEF IInv, UpInv, RuncInv
  <2>9. CgroupInv' /\ SavedInv'
    BY <2>1, <2>2, <2>3 DEF IInv, CgroupInv, SavedInv, SavedBeforeRun, store
  <2>10. FailInv' /\ ResultInv'
    BY <2>1, <2>2, <2>4 DEF IInv, FailInv, ResultInv, Through, store
  <2>11. HookInv'
    <3>1. \A t \in Tokens : Token(t)' => Token(t)
      BY <2>1, <2>2, <2>3 DEF Token
    <3> QED BY <2>1, <2>2, <3>1, HookStays DEF IInv, HookInv, store
  <2> QED BY <2>5, <2>6, <2>7, <2>8, <2>9, <2>10, <2>11 DEF IInv
<1> QED BY <1>1, <1>2

-----------------------------------------------------------------------------
(* Stage 2.                                                                *)

\* What a step of stage-2 alone does: it goes on to l.
Goes2(l) ==
  /\ l \in Labels2 \ {"none"} /\ pc["stage2"] \notin {"none", "dead"}
  /\ pc' = [pc EXCEPT !["stage2"] = l]
  /\ grand' \in [to0 : Seq({"CHILD_FINISH"}), to2 : Seq({"GRANDCHILD"})]
  /\ grand'.to0 = grand.to0 \/ l \notin Nsenter
  /\ pc["stage2"] \notin Nsenter => l \notin Nsenter
  /\ l \in Going => "stage2" \in members
  /\ conf.mode = "init" /\ l \in Told => saved

\* What it says to runc, and that it does not end unheard.
Says2(l) ==
  /\ Shrinks
  /\ up' = up \/ \E e \in Messages \ {"inited", "pids"} : up' = Append(up, e)
  /\ faults' \in Nat /\ (faults > 0 => faults' > 0)
  /\ l = "dead" /\ pc["runc"] \in Conv => faults' > 0 \/ up' = Append(up, "procError")
  /\ pc["stage2"] \in {"fifo", "running"} => l = "dead" /\ faults' > 0

LEMMA UpGrows ==
  ASSUME TypeOK, up' = up \/ \E e \in Messages \ {"inited", "pids"} : up' = Append(up, e)
  PROVE  /\ up' \in Seq(Messages) /\ (up # <<>> => up' # <<>> /\ Head(up') = Head(up))
         /\ \A m : Has(up, m) => Has(up, m)'
         /\ Has(up, "inited")' <=> Has(up, "inited")
         /\ Once(up, "inited") => Once(up, "inited")'
         /\ up' = Append(up, "procError") => Has(up, "procError")'
<1>1. CASE up' = up
  <2>1. up \in Seq(Messages)
    BY DEF TypeOK
  <2>2. Has(Append(up, "procError"), "procError")
    BY SMT, <2>1, AppendSeq DEF Messages
  <2> QED BY <1>1, <2>1, <2>2
<1>2. CASE \E e \in Messages \ {"inited", "pids"} : up' = Append(up, e)
  <2>1. PICK e \in Messages \ {"inited", "pids"} : up' = Append(up, e)
    BY <1>2
  <2>2. up \in Seq(Messages) /\ e \in Messages /\ e # "inited" /\ "procError" \in Messages
    BY <2>1 DEF TypeOK, Messages
  <2>3. Has(Append(up, "procError"), "procError")
    BY <2>2, AppendSeq
  <2> QED BY SMT, <2>1, <2>2, <2>3, AppendSeq
<1> QED BY <1>1, <1>2

LEMMA Stage2Goes ==
  ASSUME IInv, NEW l, Goes2(l), Says2(l), HookInv',
         UNCHANGED <<conf, parentEnd, child, members, mapped, runc, cgroup, saved, fifo>>,
         trace' \in Seq(Events)
  PROVE  IInv'
<1>0. l \in Labels /\ "stage2" \in Stages \cup {"runc"} /\ TypeOK
  BY DEF Labels, Stages, Goes2, IInv
<1>1. /\ pc' \in [Stages \cup {"runc"} -> Labels] /\ pc'["stage2"] = l
      /\ pc'["stage0"] = pc["stage0"] /\ pc'["stage1"] = pc["stage1"] /\ pc'["runc"] = pc["runc"]
  BY <1>0, PcGoes DEF Stages, Goes2
<1>2. /\ up' \in Seq(Messages) /\ (up # <<>> => up' # <<>> /\ Head(up') = Head(up))
      /\ \A m : Has(up, m) => Has(up, m)'
      /\ Has(up, "inited")' <=> Has(up, "inited")
      /\ Once(up, "inited") => Once(up, "inited")'
      /\ up' = Append(up, "procError") => Has(up, "procError")'
  BY <1>0, UpGrows DEF Says2
<1>3. /\ down' \in Seq(Orders) /\ (down' # <<>> => down # <<>>)
      /\ \A m : Has(down, m)' => Has(down, m)
  BY <1>0, DownShrinks DEF Says2
<1>4. pc["stage1"] # "none" /\ pc["stage0"] \notin {"none", "inform"}
  BY DEF IInv, StageInv, Goes2
<1>5. TypeOK'
  <2>1. /\ l \in Labels2 /\ faults' \in Nat
        /\ grand' \in [to0 : Seq({"CHILD_FINISH"}), to2 : Seq({"GRANDCHILD"})]
    BY DEF Goes2, Says2
  <2> QED BY SMT, <1>0, <1>1, <1>2, <1>3, <2>1 DEF TypeOK
<1>6. StageInv'
  BY <1>1 DEF IInv, StageInv, Goes2
<1>7. MapInv'
  <2>1. config' = config
    BY DEF config
  <2> QED BY <1>1, <2>1 DEF IInv, MapInv, MapsBeforeInit, Goes2
<1>8. UpInv'
  BY <1>1, <1>2, <1>4 DEF IInv, UpInv
<1>9. RuncInv'
  BY <1>1 DEF IInv, RuncInv
<1>10. CgroupInv'
  BY <1>1, <1>3 DEF IInv, CgroupInv, Goes2
<1>11. SavedInv'
  BY <1>1, <1>3 DEF IInv, SavedInv, SavedBeforeRun, Goes2
<1>12. FailInv'
  BY <1>1 DEF IInv, FailInv, Through, Alive, Goes2, TypeOK
<1>13. ResultInv'
  <2>1. (pc["runc"] = "synced" /\ ~runc.ierr) \/ pc["runc"] \in Success
          => l = "dead" /\ faults' > 0
    BY DEF IInv, ResultInv, Finished, Goes2, Says2
  <2>2. pc["runc"] \in Conv /\ l = "dead" => faults' > 0 \/ Has(up, "procError")'
    BY <1>2 DEF Says2
  <2> QED BY <1>1, <2>1, <2>2 DEF ResultInv, Finished
<1> QED BY <1>5, <1>6, <1>7, <1>8, <1>9, <1>10, <1>11, <1>12, <1>13 DEF IInv

LEMMA Boot2Steps == ASSUME IInv, Boot, Stage2Boot PROVE IInv'
<1>1. /\ UNCHANGED <<conf, up, down, parentEnd, child, members, mapped, faults, runc, store>>
      /\ pc["stage2"] \in {"born", "sync", "setup", "finish"}
  BY DEF Boot, Stage2Boot, closeInherited, awaitGrandchild, setupStage2, finishStage2,
         pipes, spaces
<1>2. pc["runc"] \notin Conv
  BY <1>1 DEF IInv, StageInv, RuncInv
<1>3. grand \in [to0 : Seq({"CHILD_FINISH"}), to2 : Seq({"GRANDCHILD"})]
  BY DEF IInv, TypeOK
<1>4. \E l \in {"sync", "setup", "finish", "boot", "dead"} : Goes2(l)
  <2>1. CASE closeInherited
    <3>1. Goes2("sync")
      BY <1>1, <1>3, <2>1 DEF closeInherited, Goes2, Goto, pipes
    <3> QED BY <3>1
  <2>2. CASE awaitGrandchild
    <3>1. CASE grand.to2 = <<>>
      <4>1. Goes2("dead")
        BY <1>1, <1>3, <2>2, <3>1 DEF awaitGrandchild, Goes2, Goto, Bail
      <4> QED BY <4>1
    <3>2. CASE grand.to2 # <<>>
      <4>1. grand' = [grand EXCEPT !.to2 = Tail(@)]
        BY <2>2, <3>2 DEF awaitGrandchild
      <4>2. Tail(grand.to2) \in Seq({"GRANDCHILD"})
        BY <1>3, <3>2, TailSeq
      <4>3. /\ grand' \in [to0 : Seq({"CHILD_FINISH"}), to2 : Seq({"GRANDCHILD"})]
            /\ grand'.to0 = grand.to0
        BY <1>3, <4>1, <4>2
      <4>4. Goes2("setup")
        BY <1>1, <2>2, <3>2, <4>3 DEF awaitGrandchild, Goes2, Goto
      <4> QED BY <4>4
    <3> QED BY <3>1, <3>2
  <2>3. CASE setupStage2
    <3>1. Goes2("finish")
      BY <1>1, <1>3, <2>3 DEF setupStage2, Goes2, Goto, pipes
    <3> QED BY <3>1
  <2>4. CASE finishStage2
    <3>1. CASE ~GrandEnd1Held
      <4>1. Goes2("dead")
        BY <1>1, <1>3, <2>4, <3>1 DEF finishStage2, Goes2, Goto, Bail
      <4> QED BY <4>1
    <3>2. CASE GrandEnd1Held
      <4>1. grand' = [grand EXCEPT !.to0 = Append(@, "CHILD_FINISH")]
        BY <2>4, <3>2 DEF finishStage2
      <4>2. Append(grand.to0, "CHILD_FINISH") \in Seq({"CHILD_FINISH"})
        BY <1>3, AppendSeq
      <4>3. grand' \in [to0 : Seq({"CHILD_FINISH"}), to2 : Seq({"GRANDCHILD"})]
        BY <1>3, <4>1, <4>2
      <4>4. Goes2("boot")
        BY <1>1, <2>4, <3>2, <4>3 DEF finishStage2, Goes2, Goto
      <4> QED BY <4>4
    <3> QED BY <3>1, <3>2
  <2> QED BY <2>1, <2>2, <2>3, <2>4 DEF Stage2Boot
<1>5. PICK l \in {"sync", "setup", "finish", "boot", "dead"} : Goes2(l)
  BY <1>4
<1>6. Says2(l)
  BY <1>1, <1>2 DEF Says2, Shrinks, IInv, TypeOK
<1>7. HookInv'
  <2>0. l \in Labels /\ "stage2" \in Stages \cup {"runc"} /\ TypeOK
    BY DEF Labels, Stages, IInv
  <2>1. pc'["stage2"] = l /\ pc'["runc"] = pc["runc"]
    BY <1>5, <2>0, PcGoes DEF Stages, Goes2
  <2>2. \A t \in Tokens : Token(t)' => Token(t)
    BY <1>1, <2>1 DEF Token
  <2> QED BY <1>1, <2>1, <2>2, HookStays DEF IInv, HookInv, store
<1>8. trace' \in Seq(Events) /\ UNCHANGED <<cgroup, saved, fifo>>
  BY <1>1 DEF IInv, TypeOK, store
<1> QED BY <1>1, <1>5, <1>6, <1>7, <1>8, Stage2Goes

\* The order and its length.
LEMMA OrderFacts ==
  /\ Len(hookOrder) = (IF ContainsNs(conf, "mnt") THEN 5 ELSE 7)
  /\ hookOrder[1] = "limits" /\ hookOrder[2] = "createRuntime"
  /\ hookOrder[3] = "createContainer" /\ hookOrder[4] = "changeRoot"
  /\ ~ContainsNs(conf, "mnt") => hookOrder[5] = "limits" /\ hookOrder[6] = "createRuntime"
  /\ hookOrder[Len(hookOrder)] = "poststart"
<1> DEFINE a == <<"limits", "createRuntime", "createContainer", "changeRoot">>
           b == <<"limits", "createRuntime">>
           c == <<"poststart">>
<1>1. CASE ContainsNs(conf, "mnt")
  <2>1. hookOrder = a \o <<>> \o c
    BY <1>1 DEF hookOrder
  <2> QED BY <1>1, <2>1, SMT
<1>2. CASE ~ContainsNs(conf, "mnt")
  <2>1. hookOrder = a \o b \o c
    BY <1>2 DEF hookOrder
  <2> QED BY <1>2, <2>1, SMT
<1> QED BY <1>1, <1>2

LEMMA FullFacts ==
  /\ Full = IF ContainsNs(conf, "mnt") THEN 4 ELSE 6
  /\ \A n \in {0, 1, 2, 4} : n <= Full
BY OrderFacts, SMT DEF Full

\* A step of stage-2 that moves no token, or loses it.
LEMMA Quiet2 ==
  ASSUME IInv, NEW l, Goes2(l), Says2(l), l \notin {"rootfs", "createContainer", "rootReady"},
         l \notin Booting \/ pc["stage2"] \in Booting,
         up' = up \/ \E e \in {"procSeccomp", "procError"} : up' = Append(up, e),
         UNCHANGED <<conf, parentEnd, child, members, mapped, runc, store>>
  PROVE  IInv'
<1>0. l \in Labels /\ "stage2" \in Stages \cup {"runc"} /\ TypeOK /\ HookInv
  BY DEF Labels, Stages, Goes2, IInv
<1>1. pc'["stage2"] = l /\ pc'["runc"] = pc["runc"]
  BY <1>0, PcGoes DEF Stages, Goes2
<1>2. \A m \in {"procHooks", "procReady"} :
        (Has(up, m)' => Has(up, m)) /\ (Once(up, m) => Once(up, m)')
  <2>1. CASE up' = up
    BY <2>1
  <2>2. CASE \E e \in {"procSeccomp", "procError"} : up' = Append(up, e)
    <3>1. PICK e \in {"procSeccomp", "procError"} : up' = Append(up, e)
      BY <2>2
    <3>2. up \in Seq(Messages) /\ e \in Messages /\ e \notin {"procHooks", "procReady"}
      BY <1>0, <3>1 DEF TypeOK, Messages
    <3> QED BY SMT, <3>1, <3>2, AppendSeq
  <2> QED BY <2>1, <2>2
<1>3. /\ \A m : Has(down, m)' => Has(down, m)
      /\ \A m : Once(down, m) => Once(down, m)'
  BY <1>0, DownShrinks DEF Says2
<1>4. \A t \in Tokens : Token(t)' => Token(t)
  BY <1>1, <1>2, <1>3 DEF Token
<1>5. HookInv'
  <2>1. Once(up, "procHooks")' /\ Once(up, "procReady")' /\ Once(down, "procResume")'
    BY <1>0, <1>2, <1>3 DEF HookInv
  <2> QED BY <1>0, <1>1, <1>4, <2>1, HookStays DEF store
<1>6. trace' \in Seq(Events) /\ UNCHANGED <<cgroup, saved, fifo>>
  BY <1>0 DEF TypeOK, store
<1> QED BY <1>5, <1>6, Stage2Goes

\* Stage-2 ends with an error: procError tells runc, unless it has gone.
LEMMA Error2 ==
  ASSUME IInv, InitError, pc["stage2"] \notin {"none", "dead", "fifo", "running"}, Shrinks,
         faults' \in Nat, faults > 0 => faults' > 0,
         UNCHANGED <<conf, parentEnd, child, grand, members, mapped, runc, store>>
  PROVE  IInv'
<1>1. Goes2("dead")
  BY DEF IInv, TypeOK, InitError, Bail, Goto, Goes2
<1>2. up' = up \/ up' = Append(up, "procError")
  BY DEF InitError
<1>3. pc["runc"] \in Conv => up' = Append(up, "procError")
  BY DEF IInv, RuncInv, InitError
<1>4. Says2("dead")
  BY <1>2, <1>3 DEF Says2, Messages
<1> QED BY <1>1, <1>2, <1>4, Quiet2

\* The token of stage-2 goes on its way to runc.
LEMMA Hands2 ==
  ASSUME IInv, NEW o, NEW m, NEW l, <<o, m, l>> \in {<<"rootfs", "procHooks", "awaitResume">>,
                                                   <<"rootReady", "procReady", "awaitRun">>},
         pc["stage2"] = o, Sync(m, l)
  PROVE  IInv'
<1>1. /\ UNCHANGED <<conf, down, parentEnd, child, grand, members, mapped, faults, runc, store>>
      /\ Shrinks /\ TypeOK /\ HookInv
  BY DEF Sync, spaces, Shrinks, IInv
<1>2. CASE parentEnd = "closed"
  BY <1>1, <1>2, Error2 DEF Sync, TypeOK
<1>3. CASE parentEnd # "closed"
  <2>1. up' = Append(up, m) /\ pc' = [pc EXCEPT !["stage2"] = l] /\ m \in Messages
        /\ l \in {"awaitResume", "awaitRun"} /\ m \in {"procHooks", "procReady"}
    BY <1>3 DEF Sync, Goto, Messages
  <2>2. "stage2" \in members
    BY DEF IInv, CgroupInv
  <2>3. Goes2(l)
    BY <1>1, <2>1, <2>2 DEF Goes2, TypeOK
  <2>4. Says2(l)
    BY <1>1, <2>1 DEF Says2, TypeOK
  <2>5. l \in Labels /\ "stage2" \in Stages \cup {"runc"} /\ o \in Tokens /\ m \in Tokens
    BY DEF Labels, Stages, Tokens
  <2>6. pc'["stage2"] = l /\ pc'["runc"] = pc["runc"]
    BY <1>1, <2>1, <2>5, PcGoes DEF Stages
  <2>7. Token(o)
    BY DEF Token
  <2>8. ~Has(up, m)
    <3>1. Has(up, m) => Token(m)
      BY DEF Token
    <3> QED BY <1>1, <2>5, <2>7, <3>1 DEF HookInv
  <2>9. \A x : (Has(up, x)' => Has(up, x) \/ x = m) /\ (Once(up, x) => Once(up, x)')
    BY SMT, <1>1, <2>1, <2>8, AppendSeq DEF TypeOK
  <2>10. \A t \in Tokens : Token(t)' => t = m \/ (Token(t) /\ t # o)
    BY <1>1, <2>1, <2>6, <2>9 DEF Token
  <2>11. Once(up, "procHooks")' /\ Once(up, "procReady")' /\ Once(down, "procResume")'
    BY <1>1, <2>9 DEF HookInv
  <2>12. Len(trace') \in Reached(m) /\ Len(trace') <= Full /\ HookOrder'
    <3>1. Len(trace) \in Reached(o) /\ HookOrder
      BY <1>1, <2>5, <2>7 DEF HookInv
    <3>2. Len(trace') \in Reached(m)
      BY <1>1, <3>1 DEF Reached, store
    <3>3. Len(trace') \in {0, 2, 4}
      BY <1>1, <3>1 DEF Reached, store
    <3>5. Len(trace') <= Full
      BY <3>3, FullFacts
    <3>6. HookOrder'
      <4>1. hookOrder' = hookOrder /\ trace' = trace
        BY <1>1 DEF hookOrder, ContainsNs, store
      <4> QED BY <3>1, <4>1 DEF HookOrder
    <3> QED BY <3>2, <3>5, <3>6
  <2>13. HookInv'
    BY <1>1, <2>5, <2>7, <2>10, <2>11, <2>12, HookMoves
  <2>14. trace' \in Seq(Events) /\ UNCHANGED <<cgroup, saved, fifo>>
    BY <1>1 DEF TypeOK, store
  <2> QED BY <1>1, <2>3, <2>4, <2>13, <2>14, Stage2Goes
<1> QED BY <1>2, <1>3

\* What an answer of runc that is not the one expected does.
LEMMA Refused2 ==
  ASSUME IInv, NEW m, NEW l, ReadSync(m, l), down = <<>> \/ Head(down) # m,
         pc["stage2"] \notin {"none", "dead", "fifo", "running"}
  PROVE  IInv'
<1>1. /\ UNCHANGED <<conf, parentEnd, child, grand, members, mapped, faults, runc, store>>
      /\ Shrinks /\ InitError /\ TypeOK
  BY DEF ReadSync, spaces, Shrinks, IInv
<1> QED BY <1>1, Error2 DEF TypeOK

\* What the expected one is: it was on its way.
LEMMA Accepted2 ==
  ASSUME IInv, NEW m, NEW l, ReadSync(m, l), down # <<>>, Head(down) = m
  PROVE  /\ UNCHANGED <<conf, up, parentEnd, child, grand, members, mapped, faults, runc, store>>
         /\ Shrinks /\ Has(down, m) /\ pc' = [pc EXCEPT !["stage2"] = l]
         /\ \A x : Has(down, x)' => Has(down, x)
         /\ \A x : Once(down, x) => Once(down, x)' /\ (x = m => ~Has(down, x)')
<1>1. /\ UNCHANGED <<conf, up, parentEnd, child, grand, members, mapped, faults, runc, store>>
      /\ down' = Tail(down) /\ pc' = [pc EXCEPT !["stage2"] = l]
  BY DEF ReadSync, spaces, Goto
<1>2. down \in Seq(Orders)
  BY DEF IInv, TypeOK
<1> QED BY <1>1, <1>2, TailSeq DEF Shrinks

\* An answer that moves no token.
LEMMA Answered2 ==
  ASSUME IInv, NEW m, NEW l, ReadSync(m, l), pc["stage2"] \notin Booting \cup {"dead", "fifo", "running"},
         l \in Told, conf.mode = "init" => saved \/ m = "procRun"
  PROVE  IInv'
<1>1. CASE down # <<>> /\ Head(down) = m
  <2>1. /\ UNCHANGED <<conf, up, parentEnd, child, grand, members, mapped, faults, runc, store>>
        /\ Shrinks /\ Has(down, m) /\ pc' = [pc EXCEPT !["stage2"] = l]
    BY <1>1, Accepted2
  <2>2. "stage2" \in members /\ (conf.mode = "init" => saved)
    BY <2>1 DEF IInv, CgroupInv, SavedInv, TypeOK
  <2>3. Goes2(l)
    BY <2>1, <2>2 DEF Goes2, IInv, TypeOK
  <2>4. Says2(l)
    BY <2>1 DEF Says2, IInv, TypeOK
  <2> QED BY <2>1, <2>3, <2>4, Quiet2
<1>2. CASE ~(down # <<>> /\ Head(down) = m)
  BY <1>2, Refused2
<1> QED BY <1>1, <1>2

\* A message to runc that carries no token, or no message.
LEMMA Told2 ==
  ASSUME IInv, pc["stage2"] \in Told \ {"fifo", "running"}, NEW l \in Told \cup {"dead"},
         Sync("procSeccomp", l) \/ Silently(l),
         l = "dead" => Silently(l) /\ pc["runc"] \notin Conv
  PROVE  IInv'
<1>1. /\ UNCHANGED <<conf, down, parentEnd, child, grand, members, mapped, faults, runc, store>>
      /\ Shrinks /\ TypeOK
  BY DEF Sync, Silently, spaces, pipes, Shrinks, IInv
<1>2. CASE Sync("procSeccomp", l) /\ parentEnd = "closed"
  BY <1>1, <1>2, Error2 DEF Sync, TypeOK
<1>3. CASE ~(Sync("procSeccomp", l) /\ parentEnd = "closed")
  <2>1. /\ pc' = [pc EXCEPT !["stage2"] = l]
        /\ up' = up \/ up' = Append(up, "procSeccomp")
    BY <1>3 DEF Sync, Silently, Goto, pipes
  <2>2. "stage2" \in members /\ (conf.mode = "init" => saved \/ pc["stage2"] = "running")
    BY DEF IInv, CgroupInv, SavedInv, SavedBeforeRun
  <2>3. Goes2(l)
    BY <1>1, <2>1, <2>2 DEF Goes2, TypeOK
  <2>4. Says2(l)
    BY <1>1, <2>1 DEF Says2, TypeOK, Messages
  <2> QED BY <1>1, <2>1, <2>3, <2>4, Quiet2
<1> QED BY <1>2, <1>3

\* A token of stage-2 that is in its hands afterwards.
LEMMA Takes2 ==
  ASSUME IInv, NEW o \in Tokens, NEW l \in {"rootfs", "createContainer", "rootReady"},
         Token(o), Goes2(l), Shrinks, UNCHANGED <<conf, up, parentEnd, child, members, mapped>>,
         UNCHANGED <<faults, runc, cgroup, saved, fifo>>,
         o = "procResume" => ~Has(down, o)',
         o \in {"early", "createContainer", "procResume"},
         pc["stage2"] \notin {"rootfs", "createContainer", "rootReady"} \/ pc["stage2"] = o,
         o = "early" \/ pc["stage2"] \notin Booting, o # l,
         pc["stage2"] \notin {"fifo", "running"},
         trace' \in Seq(Events), Len(trace') \in Reached(l), HookOrder'
  PROVE  IInv'
<1>0. l \in Labels /\ "stage2" \in Stages \cup {"runc"} /\ TypeOK /\ HookInv /\ l \in Tokens
  BY DEF Labels, Stages, Goes2, IInv, Tokens
<1>1. pc'["stage2"] = l /\ pc'["runc"] = pc["runc"]
  BY <1>0, PcGoes DEF Stages, Goes2
<1>2. /\ \A m : Has(down, m)' => Has(down, m)
      /\ \A m : Once(down, m) => Once(down, m)'
  BY <1>0, DownShrinks
<1>3. \A t \in Tokens : Token(t)' => t = l \/ (Token(t) /\ t # o)
  BY <1>1, <1>2 DEF Token
<1>4. Len(trace') <= Full
  <2>1. Len(trace') \in {0, 2, 4}
    BY DEF Reached
  <2> QED BY <2>1, FullFacts
<1>5. Once(up, "procHooks")' /\ Once(up, "procReady")' /\ Once(down, "procResume")'
  BY <1>0, <1>2 DEF HookInv
<1>6. HookInv'
  BY <1>0, <1>3, <1>4, <1>5, HookMoves
<1>7. Says2(l)
  BY <1>0 DEF Says2, TypeOK
<1> QED BY <1>6, <1>7, Stage2Goes

LEMMA newContainerInitStep == ASSUME IInv, newContainerInit PROVE IInv'
<1>0. pc["stage2"] = "boot" /\ ReadSync("config", AfterBoot) /\ TypeOK /\ HookInv
  BY DEF newContainerInit, In, IInv
<1>1. CASE ~(down # <<>> /\ Head(down) = "config")
  BY <1>0, <1>1, Refused2
<1>2. CASE down # <<>> /\ Head(down) = "config"
  <2>1. /\ UNCHANGED <<conf, up, parentEnd, child, grand, members, mapped, faults, runc, store>>
        /\ Shrinks /\ Has(down, "config") /\ pc' = [pc EXCEPT !["stage2"] = AfterBoot]
    BY <1>0, <1>2, Accepted2
  <2>2. "stage2" \in members
    BY <2>1 DEF IInv, CgroupInv
  <2>3. CASE conf.mode = "init"
    <3>1. Goes2("rootfs")
      BY <1>0, <2>1, <2>2, <2>3 DEF Goes2, AfterBoot, TypeOK
    <3>2. Token("early") /\ "early" \in Tokens
      BY <1>0 DEF Token, Tokens
    <3>3. Len(trace) \in Reached("early") /\ HookOrder
      BY <1>0, <3>2 DEF HookInv
    <3>4. trace' = trace /\ hookOrder' = hookOrder /\ UNCHANGED <<cgroup, saved, fifo>>
      BY <2>1 DEF store, hookOrder, ContainsNs
    <3>5. trace' \in Seq(Events) /\ Len(trace') \in Reached("rootfs")
      BY <1>0, <3>3, <3>4 DEF Reached, TypeOK
    <3>6. HookOrder'
      BY <3>3, <3>4 DEF HookOrder
    <3> QED BY <1>0, <2>1, <3>1, <3>2, <3>4, <3>5, <3>6, Takes2
  <2>4. CASE conf.mode # "init"
    <3>1. Goes2("ready")
      BY <1>0, <2>1, <2>2, <2>4 DEF Goes2, AfterBoot, TypeOK
    <3>2. Says2("ready")
      BY <1>0, <2>1 DEF Says2, TypeOK
    <3> QED BY <2>1, <3>1, <3>2, Quiet2
  <2> QED BY <2>3, <2>4
<1> QED BY <1>1, <1>2

LEMMA awaitResumeStep == ASSUME IInv, awaitResume PROVE IInv'
<1>0. /\ pc["stage2"] = "awaitResume" /\ ReadSync("procResume", "createContainer")
      /\ TypeOK /\ HookInv
  BY DEF awaitResume, In, IInv
<1>1. CASE ~(down # <<>> /\ Head(down) = "procResume")
  BY <1>0, <1>1, Refused2
<1>2. CASE down # <<>> /\ Head(down) = "procResume"
  <2>1. /\ UNCHANGED <<conf, up, parentEnd, child, grand, members, mapped, faults, runc, store>>
        /\ Shrinks /\ Has(down, "procResume") /\ pc' = [pc EXCEPT !["stage2"] = "createContainer"]
        /\ Once(down, "procResume") => ~Has(down, "procResume")'
    BY <1>0, <1>2, Accepted2
  <2>2. "stage2" \in members /\ ~Has(down, "procResume")'
    BY <1>0, <2>1 DEF IInv, CgroupInv, HookInv
  <2>3. Goes2("createContainer")
    BY <1>0, <2>1, <2>2 DEF Goes2, TypeOK
  <2>4. Token("procResume") /\ "procResume" \in Tokens
    BY <2>1 DEF Token, Tokens
  <2>5. Len(trace) \in Reached("procResume") /\ HookOrder
    BY <1>0, <2>4 DEF HookInv
  <2>6. trace' = trace /\ hookOrder' = hookOrder /\ UNCHANGED <<cgroup, saved, fifo>>
    BY <2>1 DEF store, hookOrder, ContainsNs
  <2>7. trace' \in Seq(Events) /\ Len(trace') \in Reached("createContainer")
    BY <1>0, <2>5, <2>6 DEF Reached, TypeOK
  <2>8. HookOrder'
    BY <2>5, <2>6 DEF HookOrder
  <2> QED BY <1>0, <2>1, <2>2, <2>3, <2>4, <2>6, <2>7, <2>8, Takes2
<1> QED BY <1>1, <1>2

\* The events so far and one or two more.
LEMMA TraceOne ==
  ASSUME TypeOK, HookOrder, conf' = conf, NEW e \in Events, trace' = Append(trace, e),
         Len(trace) < Len(hookOrder), hookOrder[Len(trace) + 1] = e
  PROVE  trace' \in Seq(Events) /\ Len(trace') = Len(trace) + 1 /\ HookOrder'
<1>1. hookOrder' = hookOrder
  BY DEF hookOrder, ContainsNs
<1>2. trace \in Seq(Events) /\ Len(hookOrder) \in Nat
  BY SMT, OrderFacts DEF TypeOK
<1>3. trace' \in Seq(Events) /\ Len(trace') = Len(trace) + 1
      /\ DOMAIN trace' = 1..(Len(trace) + 1) /\ trace'[Len(trace) + 1] = e
      /\ \A i \in 1..Len(trace) : trace'[i] = trace[i]
  BY <1>2, SMT
<1>4. Len(trace') <= Len(hookOrder)
  BY <1>2, <1>3, SMT
<1>5. ASSUME NEW i \in DOMAIN trace' PROVE trace'[i] = hookOrder[i]
  BY <1>2, <1>3, SMT DEF HookOrder
<1> QED BY <1>1, <1>3, <1>4, <1>5 DEF HookOrder

LEMMA TraceTwo ==
  ASSUME TypeOK, HookOrder, conf' = conf, NEW d \in Events, NEW e \in Events,
         trace' = trace \o <<d, e>>, Len(trace) + 1 < Len(hookOrder),
         hookOrder[Len(trace) + 1] = d, hookOrder[Len(trace) + 2] = e
  PROVE  trace' \in Seq(Events) /\ Len(trace') = Len(trace) + 2 /\ HookOrder'
<1>1. hookOrder' = hookOrder
  BY DEF hookOrder, ContainsNs
<1>2. trace \in Seq(Events) /\ Len(hookOrder) \in Nat
  BY SMT, OrderFacts DEF TypeOK
<1>3. trace' \in Seq(Events) /\ Len(trace') = Len(trace) + 2
      /\ DOMAIN trace' = 1..(Len(trace) + 2)
  BY <1>2, SMT
<1>4. trace'[Len(trace) + 1] = d /\ trace'[Len(trace) + 2] = e
      /\ \A i \in 1..Len(trace) : trace'[i] = trace[i]
  BY <1>2, SMT
<1>5. Len(trace') <= Len(hookOrder)
  BY <1>2, <1>3, SMT
<1>6. ASSUME NEW i \in DOMAIN trace' PROVE trace'[i] = hookOrder[i]
  BY <1>2, <1>3, <1>4, SMT DEF HookOrder
<1> QED BY <1>1, <1>3, <1>5, <1>6 DEF HookOrder

LEMMA changeRootStep == ASSUME IInv, changeRoot PROVE IInv'
<1>0. /\ pc["stage2"] = "createContainer" /\ TypeOK /\ HookInv
      /\ pc' = [pc EXCEPT !["stage2"] = "rootReady"]
      /\ UNCHANGED <<conf, up, down, parentEnd, child, grand, members, mapped>>
      /\ UNCHANGED <<faults, runc, cgroup, saved, fifo>>
      /\ trace' = trace \o <<"createContainer", "changeRoot">>
  BY DEF changeRoot, In, IInv, Goto, pipes, spaces
<1>1. "stage2" \in members
  BY <1>0 DEF IInv, CgroupInv
<1>2. Goes2("rootReady") /\ Shrinks
  BY <1>0, <1>1 DEF Goes2, TypeOK, Shrinks
<1>3. Token("createContainer") /\ "createContainer" \in Tokens
  BY <1>0 DEF Token, Tokens
<1>4. Len(trace) = 2 /\ HookOrder
  BY <1>0, <1>3 DEF HookInv, Reached
<1>5. trace' \in Seq(Events) /\ Len(trace') = 4 /\ HookOrder'
  <2>1. hookOrder[3] = "createContainer" /\ hookOrder[4] = "changeRoot" /\ Len(hookOrder) \in {5, 7}
    BY OrderFacts
  <2>2. /\ Len(trace) + 1 < Len(hookOrder) /\ Len(trace) + 1 = 3 /\ Len(trace) + 2 = 4
    BY <1>4, <2>1, SMT
  <2>3. "createContainer" \in Events /\ "changeRoot" \in Events
    BY DEF Events
  <2> QED BY <1>0, <1>4, <2>1, <2>2, <2>3, TraceTwo
<1>6. Len(trace') \in Reached("rootReady")
  BY <1>5 DEF Reached
<1> QED BY <1>0, <1>2, <1>3, <1>5, <1>6, Takes2

LEMMA Go2Steps == ASSUME IInv, Stage2Go PROVE IInv'
<1>0. TypeOK /\ SavedBeforeRun
  BY DEF IInv, SavedInv
<1>1. CASE newContainerInit
  BY <1>1, newContainerInitStep
<1>2. CASE syncParentHooks
  BY SMT, <1>2, Hands2 DEF syncParentHooks, In
<1>3. CASE awaitResume
  BY <1>3, awaitResumeStep
<1>4. CASE changeRoot
  BY <1>4, changeRootStep
<1>5. CASE syncParentReady
  BY SMT, <1>5, Hands2 DEF syncParentReady, In
<1>6. CASE awaitRun
  BY <1>6, Answered2 DEF awaitRun, In
<1>7. CASE earlySeccomp
  BY <1>7, Told2 DEF earlySeccomp, In
<1>8. CASE awaitEarly
  BY <1>0, <1>8, Answered2 DEF awaitEarly, In, SavedBeforeRun
<1>9. CASE finalizeNamespace
  <2>1. CASE conf.mode = "init" /\ pc["runc"] \in {"done", "failed", "dead"}
    BY <1>9, <2>1, Told2 DEF finalizeNamespace, In
  <2>2. CASE ~(conf.mode = "init" /\ pc["runc"] \in {"done", "failed", "dead"})
    BY <1>9, <2>2, Told2 DEF finalizeNamespace, In
  <2> QED BY <2>1, <2>2
<1>10. CASE lateSeccomp
  BY <1>10, Told2 DEF lateSeccomp, In
<1>11. CASE awaitLate
  BY <1>0, <1>11, Answered2 DEF awaitLate, In, SavedBeforeRun
<1>12. CASE closePipes
  <2>1. CASE conf.mode = "init"
    BY <1>12, <2>1, Told2 DEF closePipes, In
  <2>2. CASE conf.mode # "init"
    BY <1>12, <2>2, Told2 DEF closePipes, In
  <2> QED BY <2>1, <2>2
<1> QED BY <1>1, <1>2, <1>3, <1>4, <1>5, <1>6, <1>7, <1>8, <1>9, <1>10, <1>11, <1>12 DEF Stage2Go

LEMMA initFailsStep == ASSUME IInv, initFails PROVE IInv'
<1>1. /\ UNCHANGED <<conf, down, parentEnd, child, grand, members, mapped, runc, store>>
      /\ faults' = faults + 1 /\ InitError /\ Shrinks
      /\ pc["stage2"] \notin {"none", "dead", "fifo", "running"}
  BY DEF initFails, spaces, Shrinks
<1>2. faults \in Nat
  BY DEF IInv, TypeOK
<1>3. faults' \in Nat /\ (faults > 0 => faults' > 0)
  BY <1>1, <1>2, SMT
<1> QED BY <1>1, <1>3, Error2

-----------------------------------------------------------------------------
(* runc.                                                                   *)

\* The queue towards runc, when it takes at most one message.
Hears == up' = up \/ (up # <<>> /\ up' = Tail(up))

LEMMA UpShrinks ==
  ASSUME TypeOK, Hears
  PROVE  /\ up' \in Seq(Messages)
         /\ \A m : Has(up, m)' => Has(up, m)
         /\ \A m : Once(up, m) => Once(up, m)'
         /\ \A m : Has(up, m) => Has(up, m)' \/ (up # <<>> /\ up' = Tail(up) /\ Head(up) = m)
<1>1. CASE up' = up
  BY <1>1 DEF TypeOK
<1>2. CASE up # <<>> /\ up' = Tail(up)
  BY <1>2, TailSeq DEF TypeOK
<1> QED BY <1>1, <1>2 DEF Hears

\* The queue towards the stages, when runc sends at most m.
Tells(m) == down' = down \/ down' = Append(down, m)

LEMMA DownGrows ==
  ASSUME TypeOK, NEW m \in Orders, Tells(m)
  PROVE  /\ down' \in Seq(Orders) /\ (down' # <<>> => down # <<>> \/ down' = Append(down, m))
         /\ \A x : Has(down, x)' => Has(down, x) \/ (x = m /\ down' = Append(down, m))
         /\ \A x : Once(down, x) /\ (x = m => ~Has(down, x)) => Once(down, x)'
<1>1. CASE down' = down
  BY <1>1 DEF TypeOK
<1>2. CASE down' = Append(down, m)
  BY <1>2, AppendSeq DEF TypeOK
<1> QED BY <1>1, <1>2 DEF Tells

\* Once the byte of stage-0 was taken, the queue may be read at will.
LEMMA UpHeard ==
  ASSUME IInv, Hears, runc.inited, runc'.inited,
         pc'["stage0"] = pc["stage0"], pc'["stage1"] = pc["stage1"]
  PROVE  UpInv'
<1>1. TypeOK
  BY DEF IInv
<1>2. /\ \A m : Has(up, m)' => Has(up, m)
      /\ \A m : Once(up, m) => Once(up, m)'
  BY <1>1, UpShrinks
<1> QED BY <1>2 DEF IInv, UpInv

\* runc alone moves, to l.
GoesR(l) ==
  /\ l \in LabelsR \ {"start"} /\ pc["runc"] # "start"
  /\ pc' = [pc EXCEPT !["runc"] = l]
  /\ UNCHANGED <<conf, child, grand, mapped>>

LEMMA RuncFrame ==
  ASSUME IInv, NEW l, GoesR(l)
  PROVE  /\ pc' \in [Stages \cup {"runc"} -> Labels] /\ pc'["runc"] = l
         /\ pc'["stage0"] = pc["stage0"] /\ pc'["stage1"] = pc["stage1"]
         /\ pc'["stage2"] = pc["stage2"] /\ StageInv' /\ MapInv'
<1>0. l \in Labels /\ "runc" \in Stages \cup {"runc"} /\ TypeOK
  BY DEF Labels, GoesR, IInv
<1>1. /\ pc' \in [Stages \cup {"runc"} -> Labels] /\ pc'["runc"] = l
      /\ pc'["stage0"] = pc["stage0"] /\ pc'["stage1"] = pc["stage1"]
      /\ pc'["stage2"] = pc["stage2"]
  BY <1>0, PcGoes DEF Stages, GoesR
<1>2. config' = config
  BY DEF config, GoesR
<1>3. StageInv'
  BY <1>1 DEF IInv, StageInv, GoesR
<1>4. MapInv'
  BY <1>1, <1>2 DEF IInv, MapInv, MapsBeforeInit, GoesR
<1> QED BY <1>1, <1>3, <1>4

\* A start that fails, or the end of runc.
LEMMA ToFail ==
  ASSUME IInv, NEW l \in {"fail", "dead"}, GoesR(l),
         pc["runc"] \in {"logs", "done", "dead"} => l = "dead",
         UNCHANGED <<up, down, members, runc, saved, fifo, trace>>, cgroup' \in BOOLEAN,
         parentEnd' \in {"open", "shut", "closed"}, faults' \in Nat
  PROVE  IInv'
<1>1. /\ pc' \in [Stages \cup {"runc"} -> Labels] /\ pc'["runc"] = l
      /\ pc'["stage0"] = pc["stage0"] /\ pc'["stage1"] = pc["stage1"]
      /\ pc'["stage2"] = pc["stage2"] /\ StageInv' /\ MapInv' /\ TypeOK /\ conf' = conf
      /\ UNCHANGED <<child, grand, mapped>> /\ pc["runc"] # "start"
  BY RuncFrame DEF GoesR, IInv
<1>2. TypeOK'
  BY SMT, <1>1 DEF TypeOK
<1>3. UpInv' /\ RuncInv'
  BY <1>1 DEF IInv, UpInv, RuncInv
<1>4. CgroupInv' /\ SavedInv'
  BY <1>1 DEF IInv, CgroupInv, SavedInv, SavedBeforeRun
<1>5. FailInv' /\ ResultInv'
  BY <1>1 DEF FailInv, ResultInv
<1>6. HookInv'
  <2>1. \A t \in Tokens : Token(t)' => Token(t)
    BY <1>1 DEF Token
  <2> QED BY <1>1, <2>1, HookStays DEF IInv, HookInv
<1> QED BY <1>1, <1>2, <1>3, <1>4, <1>5, <1>6 DEF IInv

\* parseSync returns: with an error, or at the end of the conversation.
LEMMA ToSynced ==
  ASSUME IInv, GoesR("synced"), pc["runc"] \in Conv, Hears,
         runc' = [runc EXCEPT !.ierr = TRUE] \/ (runc' = runc /\ Finished),
         UNCHANGED <<down, parentEnd, members, store>>,
         faults' \in Nat, faults > 0 => faults' > 0
  PROVE  IInv'
<1>1. /\ pc' \in [Stages \cup {"runc"} -> Labels] /\ pc'["runc"] = "synced"
      /\ pc'["stage0"] = pc["stage0"] /\ pc'["stage1"] = pc["stage1"]
      /\ pc'["stage2"] = pc["stage2"] /\ StageInv' /\ MapInv' /\ TypeOK /\ conf' = conf
      /\ UNCHANGED <<child, grand, mapped, cgroup, saved, fifo, trace>>
  BY RuncFrame DEF GoesR, IInv, store
<1>2. /\ runc' \in RuncLocals /\ runc'.inited = runc.inited /\ runc'.proc = runc.proc
      /\ runc'.sentRun = runc.sentRun /\ (runc'.ierr \/ Finished)
  <2>1. runc \in RuncLocals
    BY <1>1 DEF TypeOK
  <2> QED BY <2>1 DEF RuncLocals
<1>3. /\ up' \in Seq(Messages) /\ \A m : Has(up, m)' => Has(up, m)
      /\ \A m : Once(up, m) => Once(up, m)'
  BY <1>1, UpShrinks
<1>4. runc.inited /\ runc.proc = "stage2"
  BY DEF IInv, RuncInv
<1>5. TypeOK'
  BY SMT, <1>1, <1>2, <1>3 DEF TypeOK
<1>6. UpInv'
  BY <1>1, <1>2, <1>4, UpHeard
<1>7. RuncInv'
  BY <1>1, <1>2, <1>4 DEF IInv, RuncInv
<1>8. CgroupInv' /\ SavedInv'
  BY <1>1 DEF IInv, CgroupInv, SavedInv, SavedBeforeRun
<1>9. FailInv' /\ ResultInv'
  BY <1>1, <1>2 DEF FailInv, ResultInv, Finished
<1>10. HookInv'
  <2>1. \A t \in Tokens : Token(t)' => Token(t)
    BY <1>1, <1>2, <1>3 DEF Token
  <2>2. Once(up, "procHooks")' /\ Once(up, "procReady")' /\ Once(down, "procResume")' /\ HookInv
    BY <1>3 DEF IInv, HookInv
  <2> QED BY <1>1, <2>1, <2>2, HookStays
<1> QED BY <1>1, <1>5, <1>6, <1>7, <1>8, <1>9, <1>10 DEF IInv

\* A step inside parseSync.
LEMMA ConvGoes ==
  ASSUME IInv, NEW l \in Conv, GoesR(l), pc["runc"] \in Conv, Hears,
         up' = Tail(up) /\ up # <<>> => Head(up) # "procError" \/ up' = up,
         NEW m \in Orders \ {"bootstrap", "config"}, Tells(m),
         down' = Append(down, m) /\ m = "procRun" => saved, l = "run" => saved',
         saved' \in BOOLEAN, saved => saved',
         runc' \in RuncLocals, runc'.inited = runc.inited, runc'.proc = runc.proc,
         runc'.ierr = runc.ierr, UNCHANGED <<parentEnd, members, faults, cgroup, fifo>>,
         trace' \in Seq(Events), HookInv'
  PROVE  IInv'
<1>1. /\ pc' \in [Stages \cup {"runc"} -> Labels] /\ pc'["runc"] = l
      /\ pc'["stage0"] = pc["stage0"] /\ pc'["stage1"] = pc["stage1"]
      /\ pc'["stage2"] = pc["stage2"] /\ StageInv' /\ MapInv' /\ TypeOK /\ conf' = conf
      /\ UNCHANGED <<child, grand, mapped>>
  BY RuncFrame DEF GoesR, IInv
<1>2. /\ up' \in Seq(Messages) /\ \A x : Has(up, x)' => Has(up, x)
      /\ Has(up, "procError") => Has(up, "procError")'
  BY <1>1, UpShrinks
<1>3. /\ down' \in Seq(Orders)
      /\ \A x : Has(down, x)' => Has(down, x) \/ (x = m /\ down' = Append(down, m))
  BY <1>1, DownGrows
<1>4. runc.inited /\ runc.proc = "stage2" /\ pc["stage0"] = "exited"
  BY DEF IInv, RuncInv
<1>5. TypeOK'
  BY SMTT(20), <1>1, <1>2, <1>3 DEF TypeOK
<1>6. UpInv'
  BY <1>1, <1>4, UpHeard
<1>7. RuncInv'
  BY <1>1, <1>4 DEF IInv, RuncInv
<1>8. CgroupInv'
  BY <1>1, <1>3, <1>4 DEF IInv, CgroupInv
<1>9. SavedInv'
  BY <1>1, <1>3 DEF IInv, SavedInv, SavedBeforeRun
<1>10. FailInv' /\ ResultInv'
  BY <1>1, <1>2 DEF IInv, FailInv, ResultInv
<1> QED BY <1>1, <1>5, <1>6, <1>7, <1>8, <1>9, <1>10 DEF IInv

\* What a message of init means to runc.
LEMMA HeardR ==
  ASSUME IInv, NEW m \in Messages, Received(m)
  PROVE  /\ pc["runc"] = "parseSync" /\ Hears /\ up # <<>> /\ up' = Tail(up) /\ Head(up) = m
         /\ Has(up, m)
         /\ \A x : Has(up, x)' => Has(up, x)
         /\ \A x : Once(up, x) => Once(up, x)' /\ (x = m => ~Has(up, x)')
<1>1. /\ pc["runc"] = "parseSync" /\ up # <<>> /\ up' = Tail(up) /\ Head(up) = m /\ Hears
  BY DEF Received, At, Hears
<1>2. up \in Seq(Messages)
  BY DEF IInv, TypeOK
<1> QED BY <1>1, <1>2, TailSeq

LEMMA procHooksStep == ASSUME IInv, procHooks PROVE IInv'
<1>1. /\ UNCHANGED <<conf, down, parentEnd, child, grand, members, mapped, faults, runc, cgroup, saved, fifo>>
      /\ trace' = Append(trace, "limits") /\ pc' = [pc EXCEPT !["runc"] = "hooks"]
      /\ Received("procHooks") /\ TypeOK /\ HookInv /\ HookOrder
      /\ "procHooks" \in Messages /\ "procHooks" \in Tokens /\ "hooks" \in Tokens
      /\ "limits" \in Events
  BY DEF procHooks, spaces, Goto, IInv, Messages, Tokens, Events, HookInv
<1>2. /\ pc["runc"] = "parseSync" /\ Hears /\ up # <<>> /\ up' = Tail(up)
      /\ Head(up) = "procHooks" /\ Has(up, "procHooks")
      /\ \A x : Has(up, x)' => Has(up, x)
      /\ \A x : Once(up, x) => Once(up, x)' /\ (x = "procHooks" => ~Has(up, x)')
  BY <1>1, HeardR
<1>3. GoesR("hooks")
  BY <1>1, <1>2 DEF GoesR
<1>4. pc'["runc"] = "hooks" /\ pc'["stage2"] = pc["stage2"]
  BY <1>3, RuncFrame
<1>5. Token("procHooks")
  BY <1>2 DEF Token
<1>6. Len(trace) = 0
  BY <1>1, <1>5 DEF HookInv, Reached
<1>7. trace' \in Seq(Events) /\ Len(trace') = 1 /\ HookOrder'
  <2>1. Len(trace) < Len(hookOrder) /\ hookOrder[Len(trace) + 1] = "limits" /\ Len(trace) + 1 = 1
    BY <1>6, OrderFacts, SMT
  <2> QED BY <1>1, <2>1, TraceOne
<1>8. \A t \in Tokens : Token(t)' => t = "hooks" \/ (Token(t) /\ t # "procHooks")
  <2>1. ~Has(up, "procHooks")'
    BY <1>1, <1>2 DEF HookInv
  <2> QED BY <1>1, <1>2, <1>4, <2>1 DEF Token
<1>9. HookInv'
  <2>1. Len(trace') \in Reached("hooks") /\ Len(trace') <= Full
    BY <1>7, FullFacts DEF Reached
  <2>2. Once(up, "procHooks")' /\ Once(up, "procReady")' /\ Once(down, "procResume")'
    BY <1>1, <1>2 DEF HookInv
  <2> QED BY <1>1, <1>5, <1>7, <1>8, <2>1, <2>2, HookMoves
<1>10. "procResume" \in Orders \ {"bootstrap", "config"} /\ Tells("procResume")
  BY <1>1 DEF Tells, Orders
<1> QED BY <1>1, <1>2, <1>3, <1>7, <1>9, <1>10, ConvGoes DEF TypeOK

LEMMA runHooksStep == ASSUME IInv, runHooks PROVE IInv'
<1>1. /\ UNCHANGED <<conf, up, down, parentEnd, child, grand, members, mapped, faults, runc, cgroup, saved, fifo>>
      /\ trace' = Append(trace, "createRuntime") /\ pc' = [pc EXCEPT !["runc"] = "resume"]
      /\ pc["runc"] = "hooks" /\ TypeOK /\ HookInv /\ HookOrder
      /\ "hooks" \in Tokens /\ "resume" \in Tokens /\ "createRuntime" \in Events
  BY DEF runHooks, At, pipes, spaces, Goto, IInv, Tokens, Events, HookInv
<1>2. GoesR("resume")
  BY <1>1 DEF GoesR
<1>3. pc'["runc"] = "resume" /\ pc'["stage2"] = pc["stage2"]
  BY <1>2, RuncFrame
<1>4. Token("hooks")
  BY <1>1 DEF Token
<1>5. Len(trace) = 1
  BY <1>1, <1>4 DEF HookInv, Reached
<1>6. trace' \in Seq(Events) /\ Len(trace') = 2 /\ HookOrder'
  <2>1. /\ Len(trace) < Len(hookOrder) /\ hookOrder[Len(trace) + 1] = "createRuntime"
        /\ Len(trace) + 1 = 2
    BY <1>5, OrderFacts, SMT
  <2> QED BY <1>1, <2>1, TraceOne
<1>7. \A t \in Tokens : Token(t)' => t = "resume" \/ (Token(t) /\ t # "hooks")
  BY <1>1, <1>3 DEF Token
<1>8. HookInv'
  <2>1. Len(trace') \in Reached("resume") /\ Len(trace') <= Full
    BY <1>6, FullFacts DEF Reached
  <2>2. Once(up, "procHooks")' /\ Once(up, "procReady")' /\ Once(down, "procResume")'
    BY <1>1 DEF HookInv
  <2> QED BY <1>1, <1>4, <1>6, <1>7, <2>1, <2>2, HookMoves
<1>9. "procResume" \in Orders \ {"bootstrap", "config"} /\ Tells("procResume") /\ Hears
  BY <1>1 DEF Tells, Orders, Hears
<1> QED BY <1>1, <1>2, <1>6, <1>8, <1>9, ConvGoes DEF TypeOK

LEMMA writeResumeStep == ASSUME IInv, writeResume PROVE IInv'
<1>1. /\ UNCHANGED <<conf, up, parentEnd, child, grand, members, mapped, faults, store>>
      /\ UNCHANGED <<cgroup, saved, fifo, trace>>
      /\ pc["runc"] = "resume" /\ TypeOK /\ HookInv /\ HookOrder /\ Hears
      /\ "procResume" \in Tokens /\ "resume" \in Tokens
  BY DEF writeResume, At, spaces, store, IInv, Tokens, HookInv, Hears
<1>2. CASE ~InitPipeHeld
  <2>1. GoesR("synced") /\ runc' = [runc EXCEPT !.ierr = TRUE] /\ UNCHANGED down
    BY <1>1, <1>2 DEF writeResume, GoesR, Goto
  <2> QED BY <1>1, <2>1, ToSynced DEF TypeOK
<1>3. CASE InitPipeHeld
  <2>1. /\ GoesR("parseSync") /\ runc' = [runc EXCEPT !.sentResume = TRUE]
        /\ down' = Append(down, "procResume") /\ Tells("procResume")
        /\ "procResume" \in Orders \ {"bootstrap", "config"}
    BY <1>1, <1>3 DEF writeResume, GoesR, Goto, Tells, Orders
  <2>2. /\ runc' \in RuncLocals /\ runc'.inited = runc.inited /\ runc'.proc = runc.proc
        /\ runc'.ierr = runc.ierr /\ runc'.sentRun = runc.sentRun
    BY <1>1, <2>1 DEF TypeOK, RuncLocals
  <2>3. pc'["runc"] = "parseSync" /\ pc'["stage2"] = pc["stage2"]
    BY <2>1, RuncFrame
  <2>4. Token("resume")
    BY <1>1 DEF Token
  <2>5. Len(trace) = 2 /\ ~Has(down, "procResume")
    <3>1. Has(down, "procResume") => Token("procResume")
      BY DEF Token
    <3> QED BY <1>1, <2>4, <3>1 DEF HookInv, Reached
  <2>6. /\ \A x : Has(down, x)' => Has(down, x) \/ x = "procResume"
        /\ Once(down, "procResume") => Once(down, "procResume")'
    BY <1>1, <2>1, <2>5, DownGrows
  <2>7. \A t \in Tokens : Token(t)' => t = "procResume" \/ (Token(t) /\ t # "resume")
    BY <1>1, <2>2, <2>3, <2>6 DEF Token
  <2>8. HookInv'
    <3>1. Len(trace') \in Reached("procResume") /\ Len(trace') <= Full
      BY <1>1, <2>5, FullFacts DEF Reached
    <3>2. Once(up, "procHooks")' /\ Once(up, "procReady")' /\ Once(down, "procResume")'
      BY <1>1, <2>6 DEF HookInv
    <3>3. HookOrder'
      <4>1. hookOrder' = hookOrder
        BY <1>1 DEF hookOrder, ContainsNs
      <4> QED BY <1>1, <4>1 DEF HookOrder
    <3> QED BY <1>1, <2>4, <2>7, <3>1, <3>2, <3>3, HookMoves
  <2> QED BY <1>1, <2>1, <2>2, <2>8, ConvGoes DEF TypeOK
<1> QED BY <1>2, <1>3

LEMMA procReadyStep == ASSUME IInv, procReady PROVE IInv'
<1>1. /\ UNCHANGED <<conf, down, parentEnd, child, grand, members, mapped, faults, runc, cgroup, saved, fifo>>
      /\ pc' = [pc EXCEPT !["runc"] = "save"]
      /\ trace' = IF ContainsNs(conf, "mnt") THEN trace ELSE trace \o <<"limits", "createRuntime">>
      /\ Received("procReady") /\ TypeOK /\ HookInv /\ HookOrder
      /\ "procReady" \in Messages /\ "procReady" \in Tokens /\ "over" \in Tokens
      /\ "limits" \in Events /\ "createRuntime" \in Events
  BY DEF procReady, spaces, Goto, IInv, Messages, Tokens, Events, HookInv
<1>2. /\ pc["runc"] = "parseSync" /\ Hears /\ up # <<>> /\ up' = Tail(up)
      /\ Head(up) = "procReady" /\ Has(up, "procReady")
      /\ \A x : Has(up, x)' => Has(up, x)
      /\ \A x : Once(up, x) => Once(up, x)' /\ (x = "procReady" => ~Has(up, x)')
  BY <1>1, HeardR
<1>3. GoesR("save")
  BY <1>1, <1>2 DEF GoesR
<1>4. pc'["runc"] = "save" /\ pc'["stage2"] = pc["stage2"]
  BY <1>3, RuncFrame
<1>5. Token("procReady")
  BY <1>2 DEF Token
<1>6. Len(trace) = 4
  BY <1>1, <1>5 DEF HookInv, Reached
<1>7. trace' \in Seq(Events) /\ Len(trace') = Full /\ HookOrder'
  <2>1. CASE ContainsNs(conf, "mnt")
    <3>1. trace' = trace /\ hookOrder' = hookOrder
      BY <1>1, <2>1 DEF hookOrder, ContainsNs
    <3> QED BY <1>1, <1>6, <2>1, <3>1, FullFacts DEF HookOrder, TypeOK
  <2>2. CASE ~ContainsNs(conf, "mnt")
    <3>1. hookOrder[5] = "limits" /\ hookOrder[6] = "createRuntime" /\ Len(hookOrder) = 7 /\ Full = 6
      BY <2>2, OrderFacts, FullFacts
    <3>2. Len(trace) + 1 < Len(hookOrder) /\ Len(trace) + 1 = 5 /\ Len(trace) + 2 = 6
      BY <1>6, <3>1, SMT
    <3>3. trace' = trace \o <<"limits", "createRuntime">>
      BY <1>1, <2>2
    <3> QED BY <1>1, <1>6, <3>1, <3>2, <3>3, TraceTwo
  <2> QED BY <2>1, <2>2
<1>8. \A t \in Tokens : Token(t)' => t = "over" \/ (Token(t) /\ t # "procReady")
  <2>1. ~Has(up, "procReady")'
    BY <1>1, <1>2 DEF HookInv
  <2> QED BY <1>1, <1>2, <1>4, <2>1 DEF Token
<1>9. HookInv'
  <2>1. Len(trace') \in Reached("over") /\ Len(trace') <= Full
    <3>1. Full \in Nat
      BY FullFacts
    <3>2. Full <= Full
      BY <3>1, SMT
    <3> QED BY <1>7, <3>2 DEF Reached
  <2>2. Once(up, "procHooks")' /\ Once(up, "procReady")' /\ Once(down, "procResume")'
    BY <1>1, <1>2 DEF HookInv
  <2> QED BY <1>1, <1>5, <1>7, <1>8, <2>1, <2>2, HookMoves
<1>10. "procResume" \in Orders \ {"bootstrap", "config"} /\ Tells("procResume")
  BY <1>1 DEF Tells, Orders
<1> QED BY <1>1, <1>2, <1>3, <1>7, <1>9, <1>10, ConvGoes DEF TypeOK

\* A step inside parseSync that moves no token.
LEMMA ConvQuiet ==
  ASSUME IInv, NEW l \in {"parseSync", "run"}, GoesR(l), pc["runc"] \in Conv, Hears,
         up' = Tail(up) /\ up # <<>> => Head(up) # "procError" \/ up' = up,
         NEW m \in {"procRun", "procSeccompDone"}, Tells(m),
         down' = Append(down, m) /\ m = "procRun" => saved, l = "run" => saved',
         saved' \in BOOLEAN, saved => saved',
         runc' \in RuncLocals, runc'.inited = runc.inited, runc'.proc = runc.proc,
         runc'.ierr = runc.ierr, UNCHANGED <<parentEnd, members, faults, cgroup, fifo, trace>>,
         l = "run" \/ runc'.sentRun => pc["runc"] \in {"save", "run"} \/ runc.sentRun
  PROVE  IInv'
<1>1. /\ pc'["runc"] = l /\ pc'["stage2"] = pc["stage2"] /\ TypeOK /\ HookInv /\ conf' = conf
      /\ m \in Orders \ {"bootstrap", "config"} /\ m \in Orders
  BY RuncFrame DEF GoesR, IInv, Orders
<1>2. /\ \A x : Has(up, x)' => Has(up, x)
      /\ \A x : Once(up, x) => Once(up, x)'
  BY <1>1, UpShrinks
<1>3. /\ Has(down, "procResume")' => Has(down, "procResume")
      /\ Once(down, "procResume") => Once(down, "procResume")'
  BY <1>1, DownGrows
<1>4. \A t \in Tokens : Token(t)' => Token(t)
  BY <1>1, <1>2, <1>3 DEF Token
<1>5. Once(up, "procHooks")' /\ Once(up, "procReady")' /\ Once(down, "procResume")'
  BY <1>1, <1>2, <1>3 DEF HookInv
<1>6. HookInv'
  BY <1>1, <1>4, <1>5, HookStays
<1>7. l \in Conv /\ trace' \in Seq(Events)
  BY <1>1 DEF TypeOK
<1> QED BY <1>1, <1>6, <1>7, ConvGoes

LEMMA updateStateStep == ASSUME IInv, updateState PROVE IInv'
<1>1. /\ UNCHANGED <<conf, up, down, parentEnd, child, grand, members, mapped, faults, cgroup, fifo, trace>>
      /\ pc["runc"] = "save" /\ TypeOK /\ Hears
  BY DEF updateState, At, pipes, spaces, IInv, Hears
<1>2. CASE ~Alive("stage2")
  <2>1. GoesR("synced") /\ runc' = [runc EXCEPT !.ierr = TRUE] /\ UNCHANGED store
    BY <1>1, <1>2 DEF updateState, GoesR, Goto, store
  <2> QED BY <1>1, <2>1, ToSynced DEF TypeOK
<1>3. CASE Alive("stage2")
  <2>1. GoesR("run") /\ UNCHANGED runc /\ saved' = TRUE /\ Tells("procSeccompDone")
    BY <1>1, <1>3 DEF updateState, GoesR, Goto, Tells
  <2> QED BY <1>1, <2>1, ConvQuiet DEF TypeOK
<1> QED BY <1>2, <1>3

LEMMA writeRunStep == ASSUME IInv, writeRun PROVE IInv'
<1>1. /\ UNCHANGED <<conf, up, parentEnd, child, grand, members, mapped, faults, store>>
      /\ UNCHANGED <<cgroup, saved, fifo, trace>>
      /\ pc["runc"] = "run" /\ TypeOK /\ Hears
  BY DEF writeRun, At, spaces, store, IInv, Hears
<1>2. CASE ~InitPipeHeld
  <2>1. GoesR("synced") /\ runc' = [runc EXCEPT !.ierr = TRUE] /\ UNCHANGED down
    BY <1>1, <1>2 DEF writeRun, GoesR, Goto
  <2> QED BY <1>1, <2>1, ToSynced DEF TypeOK
<1>3. CASE InitPipeHeld
  <2>1. /\ GoesR("parseSync") /\ runc' = [runc EXCEPT !.sentRun = TRUE] /\ Tells("procRun")
    BY <1>1, <1>3 DEF writeRun, GoesR, Goto, Tells
  <2>2. /\ runc' \in RuncLocals /\ runc'.inited = runc.inited /\ runc'.proc = runc.proc
        /\ runc'.ierr = runc.ierr
    BY <1>1, <2>1 DEF TypeOK, RuncLocals
  <2>3. saved
    BY <1>1 DEF IInv, SavedInv
  <2> QED BY <1>1, <2>1, <2>2, <2>3, ConvQuiet DEF TypeOK
<1> QED BY <1>2, <1>3

LEMMA procSeccompStep == ASSUME IInv, procSeccomp PROVE IInv'
<1>1. /\ UNCHANGED <<conf, parentEnd, child, grand, members, mapped, faults, store>>
      /\ UNCHANGED <<cgroup, saved, fifo, trace>>
      /\ Received("procSeccomp") /\ TypeOK /\ "procSeccomp" \in Messages
  BY DEF procSeccomp, spaces, store, IInv, Messages
<1>2. /\ pc["runc"] = "parseSync" /\ Hears /\ up # <<>> /\ up' = Tail(up)
      /\ Head(up) = "procSeccomp"
  BY <1>1, HeardR
<1>3. CASE ~InitPipeHeld
  <2>1. GoesR("synced") /\ runc' = [runc EXCEPT !.ierr = TRUE] /\ UNCHANGED down
    BY <1>1, <1>2, <1>3 DEF procSeccomp, GoesR, Goto
  <2> QED BY <1>1, <1>2, <2>1, ToSynced DEF TypeOK
<1>4. CASE InitPipeHeld
  <2>1. GoesR("parseSync") /\ UNCHANGED runc /\ Tells("procSeccompDone")
    BY <1>1, <1>2, <1>4 DEF procSeccomp, GoesR, Goto, Tells
  <2> QED BY <1>1, <1>2, <2>1, ConvQuiet DEF TypeOK
<1> QED BY <1>3, <1>4

LEMMA procErrorStep == ASSUME IInv, procError PROVE IInv'
<1>1. /\ UNCHANGED <<conf, down, parentEnd, child, grand, members, mapped, faults, store>>
      /\ Received("procError") /\ TypeOK /\ "procError" \in Messages
      /\ pc' = [pc EXCEPT !["runc"] = "synced"] /\ runc' = [runc EXCEPT !.ierr = TRUE]
  BY DEF procError, spaces, IInv, Messages, Goto
<1>2. pc["runc"] = "parseSync" /\ Hears
  BY <1>1, HeardR
<1>3. GoesR("synced")
  BY <1>1, <1>2 DEF GoesR
<1> QED BY <1>1, <1>2, <1>3, ToSynced DEF TypeOK

\* The conversation ends: nobody holds the other end any more, and there was no
\* procError.  So init has closed it, or something killed it.
LEMMA parseSyncEOFStep == ASSUME IInv, parseSyncEOF PROVE IInv'
<1>1. /\ UNCHANGED <<conf, up, down, parentEnd, child, grand, members, mapped, faults, runc, store>>
      /\ pc' = [pc EXCEPT !["runc"] = "synced"] /\ pc["runc"] = "parseSync"
      /\ up = <<>> /\ ~InitPipeHeld /\ TypeOK /\ Hears
  BY DEF parseSyncEOF, At, pipes, spaces, IInv, Goto, Hears
<1>2. GoesR("synced")
  BY <1>1 DEF GoesR
<1>3. pc["stage2"] \notin Nsenter
  BY <1>1 DEF IInv, RuncInv, StageInv
<1>4. pc["stage2"] \in {"fifo", "running", "dead"}
  BY <1>1, <1>3 DEF InitPipeHeld, Alive, Stages, TypeOK
<1>5. ~Has(up, "procError")
  BY <1>1, EmptySeq
<1>6. Finished
  BY <1>1, <1>4, <1>5 DEF IInv, ResultInv, Finished
<1> QED BY <1>1, <1>2, <1>6, ToSynced DEF TypeOK

\* A step of runc before the conversation, or of its error path.
LEMMA EarlyGoes ==
  ASSUME IInv, GoesR(pc'["runc"]),
         pc'["runc"] \in {"bootstrap", "waitInit", "childPid", "reap", "childExit", "joinCgroup",
                          "config", "parseSync", "fail", "terminate"},
         pc["runc"] \notin {"logs", "done", "dead"},
         Hears, NEW m \in {"bootstrap", "config"}, Tells(m),
         runc' \in RuncLocals, runc'.sentRun = runc.sentRun,
         members' \subseteq Stages, cgroup' \in BOOLEAN,
         UNCHANGED <<parentEnd, faults, saved, fifo, trace>>, UpInv', RuncInv', CgroupInv',
         pc'["runc"] = "parseSync" => pc["stage2"] # "dead"
  PROVE  IInv'
<1>1. /\ pc' \in [Stages \cup {"runc"} -> Labels]
      /\ pc'["stage0"] = pc["stage0"] /\ pc'["stage1"] = pc["stage1"]
      /\ pc'["stage2"] = pc["stage2"] /\ StageInv' /\ MapInv' /\ TypeOK /\ conf' = conf
      /\ UNCHANGED <<child, grand, mapped>> /\ m \in Orders /\ HookInv
  BY RuncFrame DEF GoesR, IInv, Orders
<1>2. /\ up' \in Seq(Messages) /\ \A x : Has(up, x)' => Has(up, x)
      /\ \A x : Once(up, x) => Once(up, x)'
  BY <1>1, UpShrinks
<1>3. /\ down' \in Seq(Orders)
      /\ \A x \in {"procRun", "procResume"} : Has(down, x)' => Has(down, x)
      /\ \A x \in {"procRun", "procResume"} : Once(down, x) => Once(down, x)'
  BY <1>1, DownGrows
<1>4. TypeOK'
  BY SMT, <1>1, <1>2, <1>3 DEF TypeOK
<1>5. SavedInv'
  BY <1>1, <1>3 DEF IInv, SavedInv, SavedBeforeRun
<1>6. FailInv' /\ ResultInv'
  BY <1>1 DEF FailInv, ResultInv
<1>7. HookInv'
  <2>1. \A t \in Tokens : Token(t)' => Token(t)
    BY <1>1, <1>2, <1>3 DEF Token
  <2>2. Once(up, "procHooks")' /\ Once(up, "procReady")' /\ Once(down, "procResume")'
    BY <1>1, <1>2, <1>3 DEF HookInv
  <2> QED BY <1>1, <2>1, <2>2, HookStays
<1> QED BY <1>1, <1>4, <1>5, <1>6, <1>7 DEF IInv

\* Where the stages are after runc went to l.
LEMMA RuncAt ==
  ASSUME IInv, NEW l \in LabelsR, pc' = [pc EXCEPT !["runc"] = l]
  PROVE  /\ pc'["runc"] = l /\ pc'["stage0"] = pc["stage0"] /\ pc'["stage1"] = pc["stage1"]
         /\ pc'["stage2"] = pc["stage2"]
<1>1. l \in Labels /\ TypeOK
  BY DEF Labels, IInv
<1> QED BY <1>1, PcGoes DEF Stages

\* The first receive from initWaiter's channel takes the byte of stage-0, or
\* finds that nobody is left to send it.
LEMMA RecvStep ==
  ASSUME IInv, NEW good \in LabelsR, NEW bad \in LabelsR, RecvInited(good, bad),
         pc["runc"] # "start"
  PROVE  /\ Hears /\ UpInv' /\ runc' \in RuncLocals /\ runc'.inited
         /\ runc'.proc = runc.proc /\ runc'.sentRun = runc.sentRun /\ runc'.ierr = runc.ierr
         /\ \/ pc' = [pc EXCEPT !["runc"] = good]
            \/ pc' = [pc EXCEPT !["runc"] = bad]
<1>0. TypeOK /\ runc \in RuncLocals /\ up \in Seq(Messages)
  BY DEF IInv, TypeOK
<1>1. pc' = [pc EXCEPT !["runc"] = good] \/ pc' = [pc EXCEPT !["runc"] = bad]
  BY DEF RecvInited, Goto
<1>2. pc'["stage0"] = pc["stage0"] /\ pc'["stage1"] = pc["stage1"]
  BY <1>1, RuncAt
<1>3. CASE runc.inited
  <2>1. UNCHANGED <<up, runc>>
    BY <1>3 DEF RecvInited
  <2> QED BY <1>0, <1>1, <1>2, <1>3, <2>1, UpHeard DEF Hears
<1>4. CASE ~runc.inited
  <2>1. runc' = [runc EXCEPT !.inited = TRUE] /\ Hears
    BY <1>4 DEF RecvInited, Hears
  <2>2. /\ runc' \in RuncLocals /\ runc'.inited /\ runc'.proc = runc.proc
        /\ runc'.sentRun = runc.sentRun /\ runc'.ierr = runc.ierr
    BY <1>0, <2>1 DEF RuncLocals
  <2>3. pc["stage0"] \notin {"none", "inform"} /\ ~Has(up, "inited")'
    <3>1. CASE up # <<>>
      <4>1. up' = Tail(up) /\ Head(up) = "inited" /\ Once(up, "inited")
        BY <1>4, <3>1 DEF RecvInited, IInv, UpInv
      <4>2. ~Has(Tail(up), "inited")
        BY <1>0, <3>1, <4>1, TailSeq
      <4> QED BY <3>1, <4>1, <4>2 DEF IInv, UpInv
    <3>2. CASE up = <<>>
      <4>1. up' = up /\ ~InitPipeHeld
        BY <1>4, <3>2 DEF RecvInited
      <4>2. pc["stage0"] # "none"
        BY DEF IInv, RuncInv
      <4>3. pc["stage0"] # "inform"
        BY <4>1 DEF InitPipeHeld, Alive, Stages
      <4> QED BY <3>2, <4>1, <4>2, <4>3, EmptySeq
    <3> QED BY <3>1, <3>2
  <2>4. /\ \A m : Has(up, m)' => Has(up, m)
        /\ \A m : Once(up, m) => Once(up, m)'
    BY <1>0, <2>1, UpShrinks
  <2>5. UpInv'
    BY <1>2, <2>2, <2>3, <2>4 DEF IInv, UpInv
  <2> QED BY <1>1, <2>1, <2>2, <2>5
<1> QED BY <1>3, <1>4

LEMMA startCmdStep == ASSUME IInv, startCmd PROVE IInv'
<1>1. /\ UNCHANGED <<conf, up, down, parentEnd, child, grand, members, mapped, faults, runc, cgroup, saved, trace>>
      /\ pc["runc"] = "start" /\ pc["stage0"] = "none" /\ pc["stage1"] = "none"
      /\ pc["stage2"] = "none" /\ fifo' \in BOOLEAN /\ TypeOK /\ HookInv
  BY DEF startCmd, At, pipes, spaces, IInv, RuncInv, StageInv
<1>2. /\ pc' \in [Stages \cup {"runc"} -> Labels] /\ pc'["stage0"] = "inform"
      /\ pc'["stage1"] = "none" /\ pc'["stage2"] = "none"
      /\ pc'["runc"] = IF conf.mode = "init" THEN "apply" ELSE "bootstrap"
  BY <1>1 DEF startCmd, TypeOK, Stages, Labels
<1>3. TypeOK'
  BY <1>1, <1>2 DEF TypeOK
<1>4. StageInv'
  BY <1>1, <1>2 DEF IInv, StageInv
<1>5. MapInv'
  <2>1. config' = config
    BY <1>1 DEF config
  <2> QED BY <1>1, <1>2, <2>1 DEF IInv, MapInv, MapsBeforeInit
<1>6. UpInv' /\ RuncInv'
  BY <1>1, <1>2 DEF IInv, UpInv, RuncInv
<1>7. CgroupInv' /\ SavedInv'
  BY <1>1, <1>2 DEF IInv, CgroupInv, SavedInv, SavedBeforeRun
<1>8. FailInv' /\ ResultInv'
  BY <1>1, <1>2 DEF FailInv, ResultInv
<1>9. HookInv'
  <2>1. \A t \in Tokens : Token(t)' => Token(t)
    BY <1>1, <1>2 DEF Token
  <2> QED BY <1>1, <2>1, HookStays DEF HookInv
<1> QED BY <1>3, <1>4, <1>5, <1>6, <1>7, <1>8, <1>9 DEF IInv

LEMMA applyStep == ASSUME IInv, apply PROVE IInv'
<1>1. /\ UNCHANGED <<conf, up, down, parentEnd, child, grand, mapped, faults, runc, saved, fifo, trace>>
      /\ pc["runc"] = "apply" /\ cgroup' \in BOOLEAN /\ TypeOK
  BY DEF apply, At, pipes, spaces, IInv
<1>2. CASE ~Alive("stage0")
  <2>1. GoesR("fail") /\ UNCHANGED members
    BY <1>1, <1>2 DEF apply, GoesR, Goto
  <2> QED BY <1>1, <2>1, ToFail DEF TypeOK
<1>3. CASE Alive("stage0")
  <2>1. GoesR("bootstrap") /\ members' = {"stage0"}
    BY <1>1, <1>3 DEF apply, GoesR, Goto
  <2>2. /\ pc'["runc"] = "bootstrap" /\ pc'["stage0"] = pc["stage0"]
        /\ pc'["stage1"] = pc["stage1"] /\ pc'["stage2"] = pc["stage2"]
    BY <2>1, RuncFrame
  <2>3. UpInv' /\ RuncInv'
    BY <1>1, <2>2 DEF IInv, UpInv, RuncInv
  <2>4. CgroupInv'
    BY <1>1, <2>1, <2>2 DEF IInv, CgroupInv
  <2>5. Hears /\ Tells("bootstrap") /\ runc' \in RuncLocals /\ members' \subseteq Stages
    BY <1>1, <2>1 DEF Hears, Tells, TypeOK, Stages
  <2> QED BY <1>1, <2>1, <2>2, <2>3, <2>4, <2>5, EarlyGoes
<1> QED BY <1>2, <1>3

\* The bootstrap data and the configuration.
LEMMA writeStep == ASSUME IInv, bootstrap \/ sendConfig PROVE IInv'
<1>1. /\ UNCHANGED <<conf, up, parentEnd, child, grand, members, mapped, faults, runc, cgroup, saved, fifo, trace>>
      /\ pc["runc"] \in {"bootstrap", "config"} /\ TypeOK
  BY DEF bootstrap, sendConfig, At, spaces, store, IInv
<1>2. CASE ~InitPipeHeld
  <2>1. GoesR("fail") /\ UNCHANGED down
    BY <1>1, <1>2 DEF bootstrap, sendConfig, Write, GoesR, Goto
  <2> QED BY <1>1, <2>1, ToFail DEF TypeOK
<1>3. CASE InitPipeHeld
  <2>1. PICK m \in {"bootstrap", "config"}, l \in {"waitInit", "parseSync"} :
          /\ GoesR(l) /\ down' = Append(down, m) /\ pc["runc"] = m
          /\ m = "bootstrap" <=> l = "waitInit"
    BY <1>1, <1>3 DEF bootstrap, sendConfig, Write, GoesR, Goto, At
  <2>2. /\ pc'["runc"] = l /\ pc'["stage0"] = pc["stage0"]
        /\ pc'["stage1"] = pc["stage1"] /\ pc'["stage2"] = pc["stage2"]
    BY <2>1, RuncFrame
  <2>3. /\ m \in Orders /\ Tells(m) /\ Hears /\ runc' \in RuncLocals /\ members' \subseteq Stages
    BY <1>1, <2>1 DEF Tells, Orders, Hears, TypeOK
  <2>4. \A x : Has(down, x)' => Has(down, x) \/ x = m
    BY <1>1, <2>3, DownGrows
  <2>5. UpInv'
    BY <1>1, <2>2 DEF IInv, UpInv
  <2>6. m = "config" =>
          /\ runc.proc = "stage2" /\ pc["stage0"] = "exited" /\ ~runc.ierr /\ parentEnd = "open"
          /\ runc.inited /\ pc["stage2"] # "dead"
    <3> SUFFICES ASSUME m = "config" PROVE
          /\ runc.proc = "stage2" /\ pc["stage0"] = "exited" /\ ~runc.ierr /\ parentEnd = "open"
          /\ runc.inited /\ pc["stage2"] # "dead"
      OBVIOUS
    <3>1. /\ runc.proc = "stage2" /\ pc["stage0"] = "exited" /\ pc["stage1"] \in {"exited", "dead"}
          /\ runc.inited
      BY <2>1 DEF IInv, RuncInv
    <3>2. pc["stage2"] # "dead"
      BY <1>3, <3>1 DEF InitPipeHeld, Alive, Stages
    <3>3. ~runc.ierr /\ parentEnd = "open"
      BY <2>1 DEF IInv, RuncInv
    <3> QED BY <3>1, <3>2, <3>3
  <2>7. RuncInv'
    BY <1>1, <2>1, <2>2, <2>6 DEF IInv, RuncInv
  <2>8. CgroupInv'
    BY <1>1, <2>1, <2>2, <2>4, <2>6 DEF IInv, CgroupInv
  <2>9. /\ GoesR(pc'["runc"]) /\ pc'["runc"] \in {"waitInit", "parseSync"}
        /\ pc'["runc"] = "parseSync" => pc["stage2"] # "dead"
        /\ pc["runc"] \notin {"logs", "done", "dead"} /\ runc'.sentRun = runc.sentRun
        /\ cgroup' \in BOOLEAN /\ UNCHANGED <<parentEnd, faults, saved, fifo, trace>>
    BY <1>1, <2>1, <2>2, <2>6 DEF TypeOK
  <2> QED BY <2>3, <2>5, <2>7, <2>8, <2>9, EarlyGoes
<1> QED BY <1>2, <1>3

LEMMA waitInitStep == ASSUME IInv, waitInit PROVE IInv'
<1>1. /\ UNCHANGED <<conf, down, parentEnd, child, grand, members, mapped, faults, cgroup, saved, fifo, trace>>
      /\ pc["runc"] = "waitInit" /\ TypeOK
      /\ RecvInited(IF conf.mode = "init" THEN "childPid" ELSE "childExit", "fail")
  BY DEF waitInit, At, spaces, store, IInv
<1> DEFINE good == IF conf.mode = "init" THEN "childPid" ELSE "childExit"
<1>2. /\ Hears /\ UpInv' /\ runc' \in RuncLocals /\ runc'.inited
      /\ runc'.proc = runc.proc /\ runc'.sentRun = runc.sentRun /\ runc'.ierr = runc.ierr
      /\ \/ pc' = [pc EXCEPT !["runc"] = good]
         \/ pc' = [pc EXCEPT !["runc"] = "fail"]
  <2>1. good \in LabelsR /\ "fail" \in LabelsR /\ pc["runc"] # "start"
    BY <1>1
  <2> HIDE DEF good
  <2>2. RecvInited(good, "fail")
    BY <1>1 DEF good
  <2> QED BY <2>1, <2>2, RecvStep
<1>3. PICK l \in {good, "fail"} : pc' = [pc EXCEPT !["runc"] = l]
  BY <1>2
<1>4. /\ pc'["runc"] = l /\ pc'["stage0"] = pc["stage0"]
      /\ pc'["stage1"] = pc["stage1"] /\ pc'["stage2"] = pc["stage2"] /\ GoesR(l)
  <2>1. GoesR(l)
    BY <1>1, <1>3 DEF GoesR
  <2> QED BY <2>1, RuncFrame
<1>5. RuncInv'
  BY <1>1, <1>2, <1>4 DEF IInv, RuncInv
<1>6. CgroupInv'
  BY <1>1, <1>4 DEF IInv, CgroupInv
<1>7. Tells("bootstrap") /\ members' \subseteq Stages /\ cgroup' \in BOOLEAN
      /\ pc["runc"] \notin {"logs", "done", "dead"}
      /\ GoesR(pc'["runc"]) /\ pc'["runc"] \in {"childPid", "childExit", "fail"}
  BY <1>1, <1>4 DEF Tells, TypeOK
<1> HIDE DEF good
<1> QED BY <1>1, <1>2, <1>5, <1>6, <1>7, EarlyGoes

\* The message that getChildPid reads was sent by a stage-0 that has a child.
LEMMA getChildPidStep == ASSUME IInv, getChildPid PROVE IInv'
<1>1. /\ UNCHANGED <<conf, down, parentEnd, child, grand, members, mapped, faults, runc, cgroup, saved, fifo, trace>>
      /\ pc["runc"] = "childPid" /\ TypeOK /\ runc.inited
  BY DEF getChildPid, At, spaces, store, IInv, RuncInv
<1>2. CASE up = <<>>
  <2>1. GoesR("fail") /\ UNCHANGED up
    BY <1>1, <1>2 DEF getChildPid, GoesR, Goto
  <2> QED BY <1>1, <2>1, ToFail DEF TypeOK
<1>3. CASE up # <<>>
  <2>1. GoesR("reap") /\ up' = Tail(up) /\ Hears
    BY <1>1, <1>3 DEF getChildPid, GoesR, Goto, Hears
  <2>2. /\ pc'["runc"] = "reap" /\ pc'["stage0"] = pc["stage0"]
        /\ pc'["stage1"] = pc["stage1"] /\ pc'["stage2"] = pc["stage2"]
    BY <2>1, RuncFrame
  <2>3. pc["stage1"] # "none"
    <3>1. Head(up) \in Messages /\ Has(up, Head(up))
      BY <1>1, <1>3, TailSeq DEF TypeOK
    <3> QED BY <1>1, <3>1 DEF IInv, UpInv
  <2>4. UpInv'
    BY <1>1, <2>1, <2>2, UpHeard
  <2>5. RuncInv'
    BY <1>1, <2>2, <2>3 DEF IInv, RuncInv
  <2>6. CgroupInv'
    BY <1>1, <2>2 DEF IInv, CgroupInv
  <2>7. Tells("bootstrap") /\ members' \subseteq Stages /\ cgroup' \in BOOLEAN
        /\ runc' \in RuncLocals /\ GoesR(pc'["runc"])
    BY <1>1, <2>1, <2>2 DEF Tells, TypeOK
  <2> QED BY <1>1, <2>1, <2>2, <2>4, <2>5, <2>6, <2>7, EarlyGoes
<1> QED BY <1>2, <1>3

LEMMA reapStage1Step == ASSUME IInv, reapStage1 PROVE IInv'
<1>1. /\ UNCHANGED <<conf, up, down, parentEnd, child, grand, members, mapped, faults, cgroup, saved, fifo, trace>>
      /\ pc["runc"] = "reap" /\ TypeOK /\ runc.inited /\ pc["stage1"] \in {"exited", "dead"}
      /\ runc' = [runc EXCEPT !.proc = IF conf.mode = "setns" THEN "stage2" ELSE @]
  BY DEF reapStage1, At, pipes, spaces, store, IInv, RuncInv, TypeOK, Alive
<1>2. PICK l \in {"childExit", "fail", "joinCgroup"} :
        /\ pc' = [pc EXCEPT !["runc"] = l]
        /\ l = "joinCgroup" => conf.mode = "setns"
        /\ l = "childExit" => conf.mode = "init"
  BY DEF reapStage1, Goto
<1>3. /\ runc' \in RuncLocals /\ runc'.inited /\ runc'.sentRun = runc.sentRun
      /\ runc'.ierr = runc.ierr
      /\ runc'.proc = IF conf.mode = "setns" THEN "stage2" ELSE runc.proc
  BY <1>1 DEF TypeOK, RuncLocals
<1>4. GoesR(l)
  BY <1>1, <1>2 DEF GoesR
<1>5. /\ pc'["runc"] = l /\ pc'["stage0"] = pc["stage0"]
      /\ pc'["stage1"] = pc["stage1"] /\ pc'["stage2"] = pc["stage2"]
  BY <1>4, RuncFrame
<1>6. Hears /\ Tells("bootstrap") /\ members' \subseteq Stages /\ cgroup' \in BOOLEAN
      /\ GoesR(pc'["runc"]) /\ pc'["runc"] \in {"childExit", "fail", "joinCgroup"}
  BY <1>1, <1>4, <1>5 DEF Hears, Tells, TypeOK
<1>7. UpInv'
  BY <1>1, <1>3, <1>5, <1>6, UpHeard
<1>8. RuncInv'
  BY <1>1, <1>2, <1>3, <1>5 DEF IInv, RuncInv
<1>9. CgroupInv'
  BY <1>1, <1>5 DEF IInv, CgroupInv
<1> QED BY <1>1, <1>3, <1>6, <1>7, <1>8, <1>9, EarlyGoes

LEMMA waitForChildExitStep == ASSUME IInv, waitForChildExit PROVE IInv'
<1>1. /\ UNCHANGED <<conf, up, down, parentEnd, child, grand, members, mapped, faults, cgroup, saved, fifo, trace>>
      /\ pc["runc"] = "childExit" /\ TypeOK /\ runc.inited
  BY DEF waitForChildExit, At, pipes, spaces, store, IInv, RuncInv
<1>2. CASE pc["stage0"] # "exited"
  <2>1. GoesR("fail") /\ UNCHANGED runc
    BY <1>1, <1>2 DEF waitForChildExit, GoesR, Goto
  <2> QED BY <1>1, <2>1, ToFail DEF TypeOK
<1>3. CASE pc["stage0"] = "exited"
  <2>1. PICK l \in {"config", "childPid"} :
          /\ pc' = [pc EXCEPT !["runc"] = l]
          /\ l = "config" <=> conf.mode = "init"
          /\ runc' = IF conf.mode = "init" THEN [runc EXCEPT !.proc = "stage2"] ELSE runc
    BY <1>3 DEF waitForChildExit, Goto
  <2>2. /\ runc' \in RuncLocals /\ runc'.inited /\ runc'.sentRun = runc.sentRun
        /\ runc'.ierr = runc.ierr
        /\ runc'.proc = IF conf.mode = "init" THEN "stage2" ELSE runc.proc
    BY <1>1, <2>1 DEF TypeOK, RuncLocals
  <2>3. GoesR(l)
    BY <1>1, <2>1 DEF GoesR
  <2>4. /\ pc'["runc"] = l /\ pc'["stage0"] = pc["stage0"]
        /\ pc'["stage1"] = pc["stage1"] /\ pc'["stage2"] = pc["stage2"]
    BY <2>3, RuncFrame
  <2>5. Hears /\ Tells("bootstrap") /\ members' \subseteq Stages /\ cgroup' \in BOOLEAN
        /\ GoesR(pc'["runc"]) /\ pc'["runc"] \in {"config", "childPid"}
    BY <1>1, <2>3, <2>4 DEF Hears, Tells, TypeOK
  <2>6. UpInv'
    BY <1>1, <2>2, <2>4, <2>5, UpHeard
  <2>7. RuncInv'
    BY <1>1, <1>3, <2>1, <2>2, <2>4 DEF IInv, RuncInv
  <2>8. CgroupInv'
    BY <1>1, <1>3, <2>1, <2>4 DEF IInv, CgroupInv, StageInv
  <2> QED BY <1>1, <2>2, <2>5, <2>6, <2>7, <2>8, EarlyGoes
<1> QED BY <1>2, <1>3

LEMMA joinCgroupStep == ASSUME IInv, joinCgroup PROVE IInv'
<1>1. /\ UNCHANGED <<conf, up, down, parentEnd, child, grand, mapped, faults, runc, cgroup, saved, fifo, trace>>
      /\ pc["runc"] = "joinCgroup" /\ TypeOK /\ runc.inited
  BY DEF joinCgroup, At, pipes, spaces, store, IInv, RuncInv
<1>2. CASE ~Alive("stage2")
  <2>1. GoesR("fail") /\ UNCHANGED members
    BY <1>1, <1>2 DEF joinCgroup, GoesR, Goto
  <2> QED BY <1>1, <2>1, ToFail DEF TypeOK
<1>3. CASE Alive("stage2")
  <2>1. GoesR("config") /\ members' = members \cup {"stage2"}
    BY <1>1, <1>3 DEF joinCgroup, GoesR, Goto
  <2>2. /\ pc'["runc"] = "config" /\ pc'["stage0"] = pc["stage0"]
        /\ pc'["stage1"] = pc["stage1"] /\ pc'["stage2"] = pc["stage2"]
    BY <2>1, RuncFrame
  <2>3. Hears /\ Tells("bootstrap") /\ members' \subseteq Stages /\ cgroup' \in BOOLEAN
        /\ GoesR(pc'["runc"]) /\ runc' \in RuncLocals
    BY <1>1, <2>1, <2>2 DEF Hears, Tells, TypeOK, Stages
  <2>4. UpInv'
    BY <1>1, <2>2, <2>3, UpHeard
  <2>5. RuncInv'
    BY <1>1, <2>2 DEF IInv, RuncInv
  <2>6. CgroupInv'
    BY <1>1, <2>1, <2>2 DEF IInv, CgroupInv
  <2> QED BY <1>1, <2>2, <2>3, <2>4, <2>5, <2>6, EarlyGoes
<1> QED BY <1>2, <1>3

LEMMA failWaitInitStep == ASSUME IInv, failWaitInit PROVE IInv'
<1>1. /\ UNCHANGED <<conf, down, parentEnd, child, grand, members, mapped, faults, cgroup, saved, fifo, trace>>
      /\ pc["runc"] = "fail" /\ TypeOK /\ RecvInited("terminate", "terminate")
  BY DEF failWaitInit, At, spaces, store, IInv
<1>2. /\ Hears /\ UpInv' /\ runc' \in RuncLocals /\ runc'.inited
      /\ runc'.proc = runc.proc /\ runc'.sentRun = runc.sentRun /\ runc'.ierr = runc.ierr
      /\ pc' = [pc EXCEPT !["runc"] = "terminate"]
  <2>1. "terminate" \in LabelsR /\ pc["runc"] # "start"
    BY <1>1
  <2> QED BY <1>1, <2>1, RecvStep
<1>3. GoesR("terminate")
  BY <1>1, <1>2 DEF GoesR
<1>4. /\ pc'["runc"] = "terminate" /\ pc'["stage0"] = pc["stage0"]
      /\ pc'["stage1"] = pc["stage1"] /\ pc'["stage2"] = pc["stage2"]
  BY <1>3, RuncFrame
<1>5. RuncInv'
  BY <1>1, <1>2, <1>4 DEF IInv, RuncInv
<1>6. CgroupInv'
  BY <1>1, <1>4 DEF IInv, CgroupInv
<1>7. Tells("bootstrap") /\ members' \subseteq Stages /\ cgroup' \in BOOLEAN /\ GoesR(pc'["runc"])
  BY <1>1, <1>3, <1>4 DEF Tells, TypeOK
<1> QED BY <1>1, <1>2, <1>4, <1>5, <1>6, <1>7, EarlyGoes

\* A step of runc after the conversation: the queues and the members stay.
LEMMA LateGoes ==
  ASSUME IInv, NEW l \in {"waitChild", "poststart", "logs", "done", "failLogs", "failed"}, GoesR(l),
         pc["runc"] \in {"logs", "done", "dead"} => l = "done",
         UNCHANGED <<up, down, members, faults, runc, saved>>,
         parentEnd' \in {"open", "shut", "closed"}, cgroup' \in BOOLEAN, fifo' \in BOOLEAN,
         trace' \in Seq(Events), runc.inited, l \in Learnt => runc.proc = "stage2",
         FailInv', l \in Success => Finished, HookInv'
  PROVE  IInv'
<1>1. /\ pc' \in [Stages \cup {"runc"} -> Labels] /\ pc'["runc"] = l
      /\ pc'["stage0"] = pc["stage0"] /\ pc'["stage1"] = pc["stage1"]
      /\ pc'["stage2"] = pc["stage2"] /\ StageInv' /\ MapInv' /\ TypeOK /\ conf' = conf
      /\ UNCHANGED <<child, grand, mapped>> /\ pc["runc"] # "start"
  BY RuncFrame DEF GoesR, IInv
<1>2. TypeOK'
  BY SMT, <1>1 DEF TypeOK
<1>3. UpInv'
  BY <1>1 DEF IInv, UpInv
<1>4. RuncInv'
  BY <1>1 DEF IInv, RuncInv
<1>5. CgroupInv' /\ SavedInv'
  BY <1>1 DEF IInv, CgroupInv, SavedInv, SavedBeforeRun
<1>6. ResultInv'
  BY <1>1 DEF ResultInv, Finished
<1> QED BY <1>1, <1>2, <1>3, <1>4, <1>5, <1>6 DEF IInv

\* The same without an event.
LEMMA HookLate ==
  ASSUME IInv, NEW l \in LabelsR, pc' = [pc EXCEPT !["runc"] = l],
         l \notin {"hooks", "resume", "save", "run"},
         pc["runc"] \in {"logs", "done", "dead"} => l \in {"logs", "done", "dead"},
         UNCHANGED <<conf, up, down, runc, trace>>
  PROVE  HookInv'
<1>1. pc'["runc"] = l /\ pc'["stage2"] = pc["stage2"] /\ HookInv
  BY RuncAt DEF IInv
<1>2. \A t \in Tokens : Token(t)' => Token(t)
  BY <1>1 DEF Token
<1> QED BY <1>1, <1>2, HookStays DEF HookInv

LEMMA afterSyncStep == ASSUME IInv, afterSync PROVE IInv'
<1>1. /\ UNCHANGED <<conf, up, down, child, grand, members, mapped, faults, runc, cgroup, saved, fifo, trace>>
      /\ pc["runc"] = "synced" /\ TypeOK /\ runc.inited /\ runc.proc = "stage2"
      /\ parentEnd' \in {"open", "shut", "closed"}
  BY DEF afterSync, At, spaces, store, IInv, RuncInv, TypeOK
<1>2. CASE conf.mode = "init" /\ (~runc.sentRun \/ (ContainsNs(conf, "mnt") /\ ~runc.sentResume))
  <2>1. GoesR("fail")
    BY <1>1, <1>2 DEF afterSync, GoesR, Goto
  <2> QED BY <1>1, <2>1, ToFail DEF TypeOK
<1>3. CASE ~(conf.mode = "init" /\ (~runc.sentRun \/ (ContainsNs(conf, "mnt") /\ ~runc.sentResume)))
  <2>1. PICK l \in {"waitChild", "poststart"} :
          GoesR(l) /\ l = (IF runc.ierr THEN "waitChild" ELSE "poststart")
    BY <1>1, <1>3 DEF afterSync, GoesR, Goto
  <2>2. pc'["runc"] = l /\ pc' = [pc EXCEPT !["runc"] = l]
    BY <2>1, RuncFrame DEF GoesR
  <2>3. FailInv'
    BY <1>1, <1>3, <2>1, <2>2 DEF FailInv, Through, ContainsNs, TypeOK, RuncLocals
  <2>4. l \in Success => Finished
    BY <1>1, <2>1 DEF IInv, ResultInv
  <2>5. HookInv'
    BY <1>1, <2>2, HookLate
  <2> QED BY <1>1, <2>1, <2>3, <2>4, <2>5, LateGoes DEF TypeOK
<1> QED BY <1>2, <1>3

LEMMA waitChildStep == ASSUME IInv, waitChild PROVE IInv'
<1>1. /\ UNCHANGED <<conf, up, down, parentEnd, child, grand, members, mapped, faults, runc, cgroup, saved, fifo, trace>>
      /\ pc["runc"] = "waitChild" /\ TypeOK /\ pc' = [pc EXCEPT !["runc"] = "fail"]
  BY DEF waitChild, At, Goto, pipes, spaces, store, IInv
<1>2. GoesR("fail")
  BY <1>1 DEF GoesR
<1> QED BY <1>1, <1>2, ToFail DEF TypeOK

-----------------------------------------------------------------------------
(* The end of a process.                                                   *)

\* Processes die, with or without a step of runc.  A death in the middle of
\* the conversation is a fault.
LEMMA Death ==
  ASSUME IInv, pc' \in [Stages \cup {"runc"} -> Labels],
         \A p \in Stages : pc'[p] = pc[p] \/ (pc'[p] = "dead" /\ Alive(p)),
         pc'["runc"] = pc["runc"] \/
           (pc["runc"] \notin {"start", "logs", "done", "dead"} /\ runc.inited
            /\ pc'["runc"] \in {"destroy", "failLogs"}),
         UNCHANGED <<conf, up, down, child, grand, members, mapped, runc, saved, cgroup, trace>>,
         parentEnd' \in {"open", "shut", "closed"}, fifo' \in BOOLEAN, faults' \in Nat,
         pc'["runc"] = pc["runc"] => faults' > 0 /\ parentEnd' = parentEnd,
         FailInv'
  PROVE  IInv'
<1>1. /\ pc'["stage0"] = pc["stage0"] \/ (pc'["stage0"] = "dead" /\ Alive("stage0"))
      /\ pc'["stage1"] = pc["stage1"] \/ (pc'["stage1"] = "dead" /\ Alive("stage1"))
      /\ pc'["stage2"] = pc["stage2"] \/ (pc'["stage2"] = "dead" /\ Alive("stage2"))
      /\ TypeOK /\ config' = config
  BY DEF Stages, IInv, config
<1>2. TypeOK'
  BY SMT, <1>1 DEF TypeOK
<1>3. StageInv'
  BY <1>1 DEF IInv, StageInv, Alive
<1>4. MapInv'
  BY <1>1 DEF IInv, MapInv, MapsBeforeInit, Alive
<1>5. UpInv'
  <2>1. pc'["stage1"] = "none" <=> pc["stage1"] = "none"
    BY <1>1 DEF Alive
  <2>2. pc["stage0"] \in {"none", "inform"} => pc["stage1"] = "none"
    BY DEF IInv, StageInv
  <2> QED BY <1>1, <2>1, <2>2 DEF IInv, UpInv, Alive
<1>6. RuncInv'
  BY <1>1 DEF IInv, RuncInv, Alive
<1>7. CgroupInv'
  <2>1. \A p \in {"stage1", "stage2"} : pc'[p] # "none" => pc[p] # "none"
    BY <1>1 DEF Alive
  <2>2. pc'["stage2"] \in Going => pc["stage2"] \in Going
    BY <1>1
  <2>3. pc'["stage0"] \notin {"none", "inform", "nl_parse", "dead"} =>
          pc["stage0"] \notin {"none", "inform", "nl_parse", "dead"}
    BY <1>1
  <2>4. pc'["runc"] \in {"start", "apply", "bootstrap", "config"} => pc["runc"] = pc'["runc"]
    OBVIOUS
  <2> QED BY <2>1, <2>2, <2>3, <2>4 DEF IInv, CgroupInv
<1>8. SavedInv'
  BY <1>1 DEF IInv, SavedInv, SavedBeforeRun
<1>9. ResultInv'
  BY <1>1 DEF IInv, ResultInv, Finished, Alive
<1>10. HookInv'
  <2>1. \A t \in Tokens : Token(t)' => Token(t)
    BY <1>1 DEF Token
  <2>2. HookInv
    BY DEF IInv
  <2>3. Once(up, "procHooks")' /\ Once(up, "procReady")' /\ Once(down, "procResume")'
    BY <2>2 DEF HookInv
  <2> QED BY <2>1, <2>2, <2>3, HookStays
<1> QED BY <1>2, <1>3, <1>4, <1>5, <1>6, <1>7, <1>8, <1>9, <1>10 DEF IInv

LEMMA StageFaultStep == ASSUME IInv, StageFault, Boot PROVE IInv'
<1>1. PICK p \in Stages : Alive(p) /\ pc' = [pc EXCEPT ![p] = "dead"]
  BY DEF StageFault, Bail, Goto
<1>2. /\ UNCHANGED <<conf, up, down, parentEnd, child, grand, members, mapped, runc, saved, cgroup, fifo, trace>>
      /\ TypeOK /\ faults' \in Nat /\ faults' > 0
  BY SMT DEF StageFault, Boot, pipes, spaces, store, IInv, TypeOK
<1>3. /\ pc' \in [Stages \cup {"runc"} -> Labels] /\ pc'[p] = "dead"
      /\ \A q \in Stages \cup {"runc"} : q # p => pc'[q] = pc[q]
  <2>1. "dead" \in Labels /\ p \in Stages \cup {"runc"}
    BY DEF Labels
  <2> QED BY <1>1, <1>2, <2>1, PcGoes
<1>4. pc'["runc"] = pc["runc"] /\ \A q \in Stages : pc'[q] = pc[q] \/ (pc'[q] = "dead" /\ Alive(q))
  BY <1>1, <1>3 DEF Stages
<1>5. FailInv'
  <2>1. Alive("stage2")' => Alive("stage2")
    BY <1>4 DEF Alive, Stages
  <2> QED BY <1>2, <1>4, <2>1 DEF IInv, FailInv, Through
<1> QED BY <1>2, <1>3, <1>4, <1>5, Death DEF TypeOK

LEMMA terminateStep == ASSUME IInv, terminate PROVE IInv'
<1>1. /\ UNCHANGED <<conf, up, down, parentEnd, child, grand, members, mapped, runc, saved, cgroup, fifo, trace, faults>>
      /\ TypeOK /\ pc["runc"] = "terminate" /\ runc.inited /\ runc.proc \in {"stage0", "stage2"}
      /\ pc' = [pc EXCEPT !["runc"] = "destroy", ![runc.proc] = IF Alive(runc.proc) THEN "dead" ELSE @]
  BY DEF terminate, At, pipes, spaces, store, IInv, TypeOK, RuncInv, RuncLocals
<1>2. /\ pc' \in [Stages \cup {"runc"} -> Labels] /\ pc'["runc"] = "destroy"
      /\ \A q \in Stages : pc'[q] = IF q = runc.proc /\ Alive(q) THEN "dead" ELSE pc[q]
  <2>1. "dead" \in Labels /\ "destroy" \in Labels
    BY DEF Labels
  <2> QED BY <1>1, <2>1 DEF TypeOK, Stages
<1>3. FailInv'
  BY <1>1, <1>2 DEF FailInv, Alive, Stages
<1>4. \A q \in Stages : pc'[q] = pc[q] \/ (pc'[q] = "dead" /\ Alive(q))
  BY <1>2
<1> QED BY <1>1, <1>2, <1>3, <1>4, Death DEF TypeOK

LEMMA poststartFailsStep == ASSUME IInv, poststartFails PROVE IInv'
<1>1. /\ UNCHANGED <<conf, up, down, child, grand, members, mapped, runc, saved, cgroup, trace>>
      /\ TypeOK /\ pc["runc"] = "poststart" /\ runc.inited /\ faults' \in Nat
      /\ parentEnd' = "closed" /\ fifo' = FALSE
      /\ pc' = [pc EXCEPT !["runc"] = "failLogs", !["stage2"] = IF Alive("stage2") THEN "dead" ELSE @]
  BY SMT DEF poststartFails, At, spaces, IInv, TypeOK, RuncInv
<1>2. /\ pc' \in [Stages \cup {"runc"} -> Labels] /\ pc'["runc"] = "failLogs"
      /\ \A q \in Stages : pc'[q] = IF q = "stage2" /\ Alive(q) THEN "dead" ELSE pc[q]
  <2>1. "dead" \in Labels /\ "failLogs" \in Labels
    BY DEF Labels
  <2> QED BY <1>1, <2>1 DEF TypeOK, Stages
<1>3. FailInv'
  BY <1>1, <1>2 DEF IInv, FailInv, Through, ContainsNs
<1>4. \A q \in Stages : pc'[q] = pc[q] \/ (pc'[q] = "dead" /\ Alive(q))
  BY <1>2
<1> QED BY <1>1, <1>2, <1>3, <1>4, Death

LEMMA failDestroyStep == ASSUME IInv, failDestroy PROVE IInv'
<1>1. /\ UNCHANGED <<conf, up, down, child, grand, members, mapped, faults, runc, saved, trace>>
      /\ pc["runc"] = "destroy" /\ TypeOK /\ runc.inited /\ parentEnd' = "closed" /\ fifo' = FALSE
      /\ cgroup' = (conf.mode = "setns" \/ \E p \in members : Alive(p))
      /\ pc' = [pc EXCEPT !["runc"] = "failLogs"]
  BY DEF failDestroy, At, Goto, spaces, IInv, RuncInv
<1>2. GoesR("failLogs")
  BY <1>1 DEF GoesR
<1>3. pc'["runc"] = "failLogs"
  BY <1>2, RuncFrame
<1>4. runc.proc = "stage2" /\ conf.mode = "init" => cgroup' = FALSE
  <2> HAVE runc.proc = "stage2" /\ conf.mode = "init"
  <2>1. \A p \in Stages : ~Alive(p)
    BY <1>1 DEF IInv, RuncInv, FailInv, Stages, Alive
  <2> QED BY <1>1, <2>1 DEF TypeOK
<1>5. FailInv'
  BY <1>1, <1>3, <1>4 DEF FailInv
<1>6. HookInv'
  BY <1>1, HookLate
<1>7. cgroup' \in BOOLEAN
  BY <1>1
<1>8. /\ fifo' \in BOOLEAN /\ trace' \in Seq(Events)
      /\ parentEnd' \in {"open", "shut", "closed"}
  BY <1>1 DEF TypeOK
<1> QED BY <1>1, <1>2, <1>5, <1>6, <1>7, <1>8, LateGoes

LEMMA logsDoneStep == ASSUME IInv, logsDone PROVE IInv'
<1>1. PICK l \in {"done", "failed"} :
        pc' = [pc EXCEPT !["runc"] = l] /\ l = (IF pc["runc"] = "logs" THEN "done" ELSE "failed")
  BY DEF logsDone, At, Goto
<1>2. /\ UNCHANGED <<conf, up, down, parentEnd, child, grand, members, mapped, faults, runc, cgroup, saved, fifo, trace>>
      /\ pc["runc"] \in {"logs", "failLogs"} /\ TypeOK /\ runc.inited
  BY DEF logsDone, pipes, spaces, store, IInv, RuncInv
<1>3. GoesR(l)
  BY <1>1, <1>2 DEF GoesR
<1>4. pc'["runc"] = l /\ pc'["stage2"] = pc["stage2"]
  BY <1>3, RuncFrame
<1>5. FailInv'
  BY <1>1, <1>2, <1>4 DEF IInv, FailInv, Through, ContainsNs
<1>6. HookInv'
  BY <1>1, <1>2, HookLate
<1>7. l \in Learnt => runc.proc = "stage2" /\ Finished
  BY <1>1, <1>2 DEF IInv, RuncInv, ResultInv
<1> QED BY <1>1, <1>2, <1>3, <1>5, <1>6, <1>7, LateGoes DEF TypeOK

LEMMA poststartStep == ASSUME IInv, poststart PROVE IInv'
<1>1. /\ UNCHANGED <<conf, up, down, child, grand, members, mapped, faults, runc, cgroup, saved, fifo>>
      /\ pc["runc"] = "poststart" /\ TypeOK /\ HookInv /\ runc.inited /\ parentEnd' = "closed"
      /\ runc.proc = "stage2" /\ Finished /\ Through
      /\ trace' = (IF conf.mode = "init" THEN Append(trace, "poststart") ELSE trace)
      /\ pc' = [pc EXCEPT !["runc"] = "logs"]
  BY DEF poststart, At, Goto, spaces, IInv, RuncInv, ResultInv, FailInv
<1>2. GoesR("logs")
  BY <1>1 DEF GoesR
<1>3. pc'["runc"] = "logs" /\ pc'["stage2"] = pc["stage2"]
  BY <1>2, RuncFrame
<1>4. FailInv'
  BY <1>1, <1>3 DEF FailInv, Through, ContainsNs
<1>5. HookInv' /\ trace' \in Seq(Events)
  <2>1. CASE conf.mode # "init"
    BY <1>1, <2>1, HookLate DEF TypeOK
  <2>2. CASE conf.mode = "init"
    <3>1. Token("over") /\ "over" \in Tokens
      BY <1>1, <2>2 DEF Through, Token, Tokens
    <3>2. Len(trace) = Full
      <4>1. Len(trace) \in {Full, Full + 1} /\ Len(trace) <= Full
        BY <1>1, <3>1 DEF HookInv, Reached
      <4> QED BY SMT, <4>1, FullFacts
    <3>3. Len(hookOrder) = Full + 1 /\ Len(hookOrder) \in Nat /\ hookOrder[Len(hookOrder)] = "poststart"
      BY SMT, OrderFacts DEF Full
    <3>4. Len(trace) < Len(hookOrder) /\ hookOrder[Len(trace) + 1] = "poststart"
      BY SMT, <3>2, <3>3
    <3>5. trace' \in Seq(Events) /\ Len(trace') = Full + 1 /\ HookOrder'
      <4>1. "poststart" \in Events
        BY DEF Events
      <4> QED BY <1>1, <2>2, <3>2, <3>4, <4>1, TraceOne DEF HookInv
    <3>6. \A t \in Tokens : Token(t)' => Token(t) /\ t = "over"
      <4>1. \A t \in Tokens : Token(t)' => Token(t)
        BY <1>1, <1>3 DEF Token
      <4> QED BY <1>1, <3>1, <4>1 DEF HookInv
    <3>7. Full' = Full
      BY <1>1 DEF Full, hookOrder, ContainsNs
    <3>8. Reached("over")' = {Full, Full + 1}
      BY <3>7 DEF Reached
    <3>9. \A t \in Tokens : Token(t)' => Len(trace') \in Reached(t)'
      <4>1. Len(trace') \in Reached("over")'
        BY <3>5, <3>8
      <4> QED BY <3>6, <4>1
    <3>10. Once(up, "procHooks")' /\ Once(up, "procReady")' /\ Once(down, "procResume")'
      BY <1>1 DEF HookInv
    <3>11. \A t, u \in Tokens : Token(t)' /\ Token(u)' => t = u
      BY <3>6
    <3> QED BY <1>3, <3>5, <3>9, <3>10, <3>11 DEF HookInv
  <2> QED BY <2>1, <2>2
<1> QED BY <1>1, <1>2, <1>4, <1>5, LateGoes DEF TypeOK

LEMMA runcErrorStep == ASSUME IInv, runcError PROVE IInv'
<1>1. /\ UNCHANGED <<conf, up, down, parentEnd, child, grand, members, mapped, cgroup, saved, fifo, trace>>
      /\ TypeOK /\ faults' \in Nat /\ faults' > 0 /\ UNCHANGED store
  BY SMT DEF runcError, pipes, spaces, store, IInv, TypeOK
<1>2. CASE /\ pc["runc"] \in {"apply", "bootstrap", "joinCgroup", "config"}
           /\ Goto("runc", "fail") /\ UNCHANGED runc
  <2>1. GoesR("fail")
    BY <1>1, <1>2 DEF GoesR, Goto
  <2> QED BY <1>1, <1>2, <2>1, ToFail DEF TypeOK
<1>3. CASE /\ pc["runc"] \in {"hooks", "save"} \/ (At("parseSync") /\ up # <<>>)
           /\ Goto("runc", "synced") /\ runc' = [runc EXCEPT !.ierr = TRUE]
  <2>1. GoesR("synced") /\ pc["runc"] \in Conv
    BY <1>1, <1>3 DEF GoesR, Goto, At
  <2>2. Hears
    BY <1>1 DEF Hears
  <2> QED BY <1>1, <1>3, <2>1, <2>2, ToSynced
<1> QED BY <1>2, <1>3 DEF runcError

LEMMA runcKilledStep == ASSUME IInv, runcKilled PROVE IInv'
<1>1. /\ UNCHANGED <<conf, up, down, child, grand, members, mapped, runc, cgroup, saved, fifo, trace>>
      /\ TypeOK /\ faults' \in Nat /\ parentEnd' = "closed" /\ pc["runc"] # "start"
      /\ pc' = [pc EXCEPT !["runc"] = "dead"]
  BY SMT DEF runcKilled, Goto, spaces, store, IInv, TypeOK
<1>2. GoesR("dead")
  BY <1>1 DEF GoesR
<1> QED BY <1>1, <1>2, ToFail DEF TypeOK

-----------------------------------------------------------------------------
(* All steps.                                                              *)

LEMMA InitHolds == Init => IInv
<1> SUFFICES ASSUME Init PROVE IInv
  OBVIOUS
<1>1. /\ pc["runc"] = "start" /\ pc["stage0"] = "none" /\ pc["stage1"] = "none" /\ pc["stage2"] = "none"
      /\ pc \in [Stages \cup {"runc"} -> Labels]
  BY DEF Init, Stages, Labels
<1>2. /\ conf \in Confs /\ up = <<>> /\ down = <<>> /\ trace = <<>> /\ parentEnd = "open"
      /\ members = {} /\ mapped = FALSE /\ faults = 0 /\ fifo = FALSE
      /\ child = [to0 |-> <<>>, to1 |-> <<>>] /\ grand = [to0 |-> <<>>, to2 |-> <<>>]
      /\ runc = [inited |-> FALSE, proc |-> "stage0", ierr |-> FALSE,
                 sentRun |-> FALSE, sentResume |-> FALSE]
      /\ cgroup \in BOOLEAN /\ saved \in BOOLEAN
  BY DEF Init
<1>3. /\ \A m : ~Has(up, m) /\ Once(up, m) /\ ~Has(down, m) /\ Once(down, m)
      /\ runc \in RuncLocals /\ runc.inited = FALSE /\ runc.proc = "stage0" /\ runc.ierr = FALSE
      /\ runc.sentRun = FALSE
  BY <1>2, EmptySeq DEF RuncLocals
<1>4. TypeOK
  <2>1. /\ up \in Seq(Messages) /\ down \in Seq(Orders) /\ trace \in Seq(Events)
    BY SMT, <1>2
  <2>2. child = [to0 |-> child.to0, to1 |-> child.to1] /\ child.to0 \in Seq(Requests)
    BY SMT, <1>2
  <2>3. grand \in [to0 : Seq({"CHILD_FINISH"}), to2 : Seq({"GRANDCHILD"})]
    BY SMT, <1>2
  <2> QED BY <1>1, <1>2, <1>3, <2>1, <2>2, <2>3 DEF TypeOK
<1>5. StageInv
  BY <1>1, <1>2 DEF StageInv
<1>6. MapInv
  BY SMT, <1>1, <1>2 DEF MapInv, MapsBeforeInit
<1>7. UpInv
  BY <1>1, <1>2, <1>3 DEF UpInv
<1>8. RuncInv
  BY <1>1, <1>2, <1>3 DEF RuncInv
<1>9. CgroupInv
  BY <1>1, <1>2, <1>3 DEF CgroupInv
<1>10. SavedInv /\ FailInv /\ ResultInv
  BY <1>1, <1>3 DEF SavedInv, SavedBeforeRun, FailInv, ResultInv
<1>11. HookInv
  <2>1. Len(trace) = 0 /\ DOMAIN trace = {}
    BY SMT, <1>2
  <2>2. \A t \in Tokens : Token(t) => t = "early"
    BY <1>1, <1>3 DEF Token
  <2>3. 0 \in Reached("early")
    BY DEF Reached
  <2>4. HookOrder
    <3>1. Len(hookOrder) \in Nat
      BY SMT, OrderFacts
    <3> QED BY SMT, <2>1, <3>1 DEF HookOrder
  <2>5. Len(trace) <= Full
    BY <2>1, FullFacts
  <2> QED BY <1>3, <2>1, <2>2, <2>3, <2>4, <2>5 DEF HookInv
<1> QED BY <1>4, <1>5, <1>6, <1>7, <1>8, <1>9, <1>10, <1>11 DEF IInv

LEMMA RuncSteps == ASSUME IInv, Runc PROVE IInv'
BY ZenonT(20), startCmdStep, applyStep, writeStep, waitInitStep, getChildPidStep, reapStage1Step,
   waitForChildExitStep, joinCgroupStep, procHooksStep, runHooksStep, writeResumeStep,
   procReadyStep, updateStateStep, writeRunStep, procSeccompStep, procErrorStep,
   parseSyncEOFStep, afterSyncStep, waitChildStep, failWaitInitStep, terminateStep,
   failDestroyStep, poststartStep, logsDoneStep, Zenon DEF Runc

LEMMA BootSteps == ASSUME IInv, Boot, Stage0Step \/ Stage1Step \/ Stage2Boot PROVE IInv'
BY ZenonT(20), nsexecInformStep, nl_parseStep, spawnStage1Step, Loop0Steps, awaitStage2Step, Stage1Steps,
   spawnStage2Step, awaitRecvpidAckStep, Boot2Steps, Zenon DEF Stage0Step, Stage1Step

\* The values are the same when nothing changes.
LEMMA Stutters == ASSUME IInv, UNCHANGED vars PROVE IInv'
<1>1. UNCHANGED <<conf, pc, up, down, parentEnd, child, grand, members, mapped, faults, runc,
                  cgroup, saved, fifo, trace>> /\ config' = config
  BY DEF vars, pipes, spaces, store, config
<1>2. TypeOK' /\ StageInv' /\ UpInv' /\ RuncInv' /\ CgroupInv'
  BY SMTT(20), <1>1 DEF IInv, TypeOK, StageInv, UpInv, RuncInv, CgroupInv
<1>3. MapInv' /\ SavedInv' /\ FailInv' /\ ResultInv'
  BY SMT, <1>1 DEF IInv, MapInv, MapsBeforeInit, SavedInv, SavedBeforeRun, FailInv, Through, Alive,
              ContainsNs, ResultInv, Finished
<1>4. HookInv'
  <2>1. \A t \in Tokens : Token(t)' => Token(t)
    BY <1>1 DEF Token
  <2>2. HookInv
    BY DEF IInv
  <2>3. Once(up, "procHooks")' /\ Once(up, "procReady")' /\ Once(down, "procResume")'
    BY <1>1, <2>2 DEF HookInv
  <2> QED BY <1>1, <2>1, <2>2, <2>3, HookStays
<1> QED BY <1>2, <1>3, <1>4 DEF IInv

LEMMA NextHolds == IInv /\ [Next]_vars => IInv'
<1> SUFFICES ASSUME IInv, [Next]_vars PROVE IInv'
  OBVIOUS
<1>1. CASE Runc
  BY <1>1, RuncSteps
<1>2. CASE Stage2Go
  BY <1>2, Go2Steps
<1>3. CASE Faults
  BY <1>3, StageFaultStep, runcErrorStep, poststartFailsStep, runcKilledStep, initFailsStep,
     Zenon DEF Faults
<1>4. CASE (Stage0Step \/ Stage1Step \/ Stage2Boot) /\ Boot
  BY <1>4, BootSteps
<1>5. CASE UNCHANGED vars
  BY <1>5, Stutters
<1> QED BY <1>1, <1>2, <1>3, <1>4, <1>5, Zenon DEF Next

-----------------------------------------------------------------------------
(* What holds of every start.                                              *)

\* The inductive invariant holds of every interleaving of runc, the bootstrap
\* stages and init, with a failure or a kill between any two steps.
THEOREM StartInvariant == Spec => []IInv
BY InitHolds, NextHolds, PTL DEF Spec

\* No process of a container leaves its cgroup (initProcess.start applies it
\* before the bootstrap data, setnsProcess.start before the configuration).
THEOREM StaysInCgroup == Spec => []NoEscape
<1>1. IInv => NoEscape
  BY DEF IInv, CgroupInv, NoEscape, Alive
<1> QED BY <1>1, StartInvariant, PTL

\* Init is told to run only after updateState has stored it, so that a killed
\* runc create leaves no container that runc delete cannot find.
THEOREM StoredBeforeRun == Spec => []SavedBeforeRun
<1>1. IInv => SavedBeforeRun
  BY DEF IInv, SavedInv
<1> QED BY <1>1, StartInvariant, PTL

\* Stage-1 spawns init only after stage-0 has written the id maps of the user
\* namespace it made.
THEOREM MapsWrittenInTime == Spec => []MapsBeforeInit
<1>1. IInv => MapsBeforeInit
  BY DEF IInv, MapInv
<1> QED BY <1>1, StartInvariant, PTL

\* The limits, the hooks of runc and of init and the change of root come in
\* the order of the runtime specification, whoever dies in between.
THEOREM HooksInOrder == Spec => []HookOrder
<1>1. IInv => HookOrder
  BY DEF IInv, HookInv
<1> QED BY <1>1, StartInvariant, PTL

\* start reports success only when init has finished its setup.
THEOREM SuccessMeansReady == Spec => []ReturnsAfterInit
<1>1. IInv => ReturnsAfterInit
  BY DEF IInv, ResultInv, Finished, ReturnsAfterInit
<1> QED BY <1>1, StartInvariant, PTL

\* A handshake that fails once runc knows init's pid leaves no cgroup behind.
THEOREM FailureCleansUp == Spec => []FailureRemovesCgroup
<1>1. IInv => FailureRemovesCgroup
  BY DEF IInv, FailInv, Through, FailureRemovesCgroup
<1> QED BY <1>1, StartInvariant, PTL
=============================================================================
