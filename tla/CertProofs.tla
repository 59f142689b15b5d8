----------------------------- MODULE CertProofs -----------------------------
(***************************************************************************)
(* Theorems about CertLifecycle, for any number of replicas and any bounds:*)
(* type correctness, OneConflict and SettledTrusted, from one inductive    *)
(* invariant.                                                              *)
(*                                                                         *)
(* It rests on three facts.  At most one replica is in a pass.  A write    *)
(* left behind carries a version no newer than the object's, so that one   *)
(* such write makes all the others stale.  And the number of the CA is     *)
(* monotone: a write that can still be carried out never holds an older CA *)
(* than the object it would overwrite, nor a newer one than the pass has.  *)
(***************************************************************************)
EXTENDS CertLifecycle, TLAPS

(* Most leaves are first-order; Zenon finds them at once.                  *)
USE ZenonT(3), SMT

-----------------------------------------------------------------------------
(* The inductive invariant.                                                *)

Applying(r) == pc[r] \in {"get", "create", "reget", "update"}

\* The pass of r has chosen its CA.
Chosen(r) ==
  \/ pc[r] = "readTLS" \/ Applying(r)
  \/ pc[r] = "SetCertificate" /\ elect[r] = "leading"

\* Only the holder of the lease is in a pass, but for the last local step of
\* one that has lost it.
LeaderInv ==
  \A r \in Replicas :
    /\ elect[r] = "leading" => holder = r
    /\ pc[r] \notin {"off", "SetCertificate"} => elect[r] = "leading"
    /\ elect[r] = "waiting" => pc[r] = "off"

\* No write left behind on o can be carried out any more.
Stale(o) == \A w \in late : w.obj = o => w.rv < store[o].rv

\* Versions read are not from the future, and an object that has changed since
\* the leader read it has outrun every write left behind.
VersionInv ==
  /\ \A w \in late : w.rv <= store[w.obj].rv
  /\ \A r \in Replicas :
       /\ pc[r] = "update" =>
            /\ seen[r] <= store[obj[r]].rv
            /\ seen[r] < store[obj[r]].rv => Stale(obj[r])
       /\ pc[r] = "create" /\ store[obj[r]].rv # 0 => Stale(obj[r])
       /\ pc[r] = "reget" => Stale(obj[r])

\* After the first conflict the version read again stays the current one.
TriesInv ==
  \A r \in Replicas :
    \/ tries[r] = 0
    \/ /\ tries[r] = 1 /\ pc[r] \in {"reget", "update"} /\ Stale(obj[r])
       /\ pc[r] = "update" => seen[r] = store[obj[r]].rv

\* CAs only get newer, in the CA Secret first.
OrderInv ==
  /\ store["tls"].val.ca <= store["ca"].val.ca
  /\ store["webhook"].val.ca <= store["ca"].val.ca
  /\ store["ca"].val.ca <= gens
  /\ \A w \in late :
       /\ w.val.ca <= gens
       /\ w.obj # "ca" => w.val.ca <= store["ca"].val.ca
       /\ w.rv = store[w.obj].rv => store[w.obj].val.ca <= w.val.ca

\* Nothing belongs to a newer CA than that of the pass, and what the pass has
\* written or found in order belongs to it.
PassInv ==
  \A r \in Replicas : Chosen(r) =>
    /\ store["tls"].val.ca <= ca[r].ca
    /\ store["webhook"].val.ca <= ca[r].ca
    /\ ca[r].ca <= gens
    /\ \A w \in late : w.obj # "ca" => w.val.ca <= ca[r].ca
    /\ Applying(r) => want[r].ca = ca[r].ca
    /\ Applying(r) /\ obj[r] = "ca" =>
         /\ store["ca"].val.ca <= ca[r].ca
         /\ \A w \in late : w.val.ca <= ca[r].ca
    /\ ~(Applying(r) /\ obj[r] = "ca") => ca[r].ca <= store["ca"].val.ca
    /\ Applying(r) /\ obj[r] = "webhook" => store["tls"].val.ca = ca[r].ca
    /\ pc[r] = "SetCertificate" =>
         /\ store["tls"].val.ca = ca[r].ca
         /\ store["webhook"].val.ca = ca[r].ca

\* Between passes the same holds of the CA that was settled on.
SettledInv ==
  settled =>
    /\ store["webhook"].val.ca = store["tls"].val.ca
    /\ \A r \in Replicas : pc[r] \in {"off", "wait", "SetCertificate"}
    /\ \A w \in late : w.obj # "ca" => w.val.ca <= store["tls"].val.ca

IInv == TypeOK /\ LeaderInv /\ VersionInv /\ TriesInv /\ OrderInv /\ PassInv /\ SettledInv

-----------------------------------------------------------------------------
(* Type correctness.                                                       *)

\* A write changes one object only, and its version exactly when its content.
LEMMA PutLemma ==
  ASSUME TypeOK, NEW o \in Objects, NEW v \in Certs, Put(o, v)
  PROVE  /\ store' \in [Objects -> [val : Certs, rv : Nat]]
         /\ \A p \in Objects \ {o} : store'[p] = store[p]
         /\ store'[o].val = v
         /\ \/ store' = store
            \/ store'[o].rv = store[o].rv + 1
  BY SMT DEF Put, TypeOK, Certs

LEMMA CertTypes ==
  /\ Absent \in Certs
  /\ \A g \in Nat : CA(g) \in Certs
  /\ \A c \in Certs, n \in Nat : [ca |-> c.ca, leaf |-> n] \in Certs
  BY DEF Absent, CA, Certs

LEMMA TypeInit == Init => TypeOK
<1> SUFFICES ASSUME Init PROVE TypeOK
  OBVIOUS
<1>1. store \in [Objects -> [val : Certs, rv : Nat]]
  BY CertTypes DEF Init
<1>2. budget \in [{"error", "loss", "restart", "aging"} -> Nat]
  BY SMT, CertAssumption DEF Init
<1>3. /\ elect \in [Replicas -> {"waiting", "leading", "ended"}]
      /\ pc \in [Replicas -> Steps] /\ obj \in [Replicas -> Objects]
      /\ seen \in [Replicas -> Nat] /\ tries \in [Replicas -> 0..(MaxTries - 1)]
  BY SMT, CertAssumption DEF Init, Objects, Steps
<1>4. /\ want \in [Replicas -> Certs] /\ ca = want /\ cert = want
      /\ serving = want /\ loaded = want
  BY CertTypes DEF Init
<1>5. settled \in BOOLEAN
  BY Zenon DEF Init
<1> QED BY <1>1, <1>2, <1>3, <1>4, <1>5 DEF Init, TypeOK

\* The actions of one replica.
LEMMA TypeReplica ==
  ASSUME TypeOK, NEW r \in Replicas,
         \/ RunLeaderElection(r) \/ Tick(r) \/ ensureLease(r) \/ SetCertificate(r)
         \/ Refresh(r) \/ APIError(r) \/ LoseLease(r) \/ Restart(r)
  PROVE  TypeOK'
<1> USE DEF TypeOK, Goto, Steps, Objects, made, election, pass, reload
<1>1. CASE RunLeaderElection(r) \/ Tick(r) \/ ensureLease(r)
  BY <1>1 DEF RunLeaderElection, Tick, ensureLease
<1>2. CASE Refresh(r)
  <2>1. loaded' \in [Replicas -> Certs] /\ serving' \in [Replicas -> Certs]
    BY SMT, <1>2, CertTypes DEF Refresh, LoadTLSCertificateFromSecret,
                           RefreshTLSCertificateFromSecret
  <2> QED BY <1>2, <2>1 DEF Refresh, LoadTLSCertificateFromSecret,
                            RefreshTLSCertificateFromSecret
<1>3. ASSUME Forget(r)
      PROVE  /\ obj' \in [Replicas -> Objects] /\ seen' \in [Replicas -> Nat]
             /\ tries' \in [Replicas -> 0..(MaxTries - 1)]
             /\ want' \in [Replicas -> Certs]
             /\ ca' \in [Replicas -> Certs] /\ cert' \in [Replicas -> Certs]
  BY SMT, <1>3, CertTypes, CertAssumption DEF Forget
<1>4. ASSUME late' \in {late, late \cup InFlight(r)}
      PROVE  late' \in SUBSET [obj : Objects, val : Certs, rv : Nat]
  <2>1. InFlight(r) \subseteq [obj : Objects, val : Certs, rv : Nat]
    BY SMT DEF InFlight
  <2> QED BY <1>4, <2>1
<1>5. ASSUME NEW what \in {"error", "loss", "restart", "aging"}, Spend(what)
      PROVE  budget' \in [{"error", "loss", "restart", "aging"} -> Nat]
  BY SMT, <1>5 DEF Spend
<1>6. CASE SetCertificate(r)
  BY <1>6, <1>3 DEF SetCertificate
<1>7. CASE APIError(r)
  BY <1>7, <1>3, <1>4, <1>5 DEF APIError, Fail
<1>8. CASE LoseLease(r)
  BY <1>8, <1>3, <1>4, <1>5 DEF LoseLease
<1>9. CASE Restart(r)
  BY <1>9, <1>3, <1>4, <1>5, CertTypes DEF Restart
<1> QED BY <1>1, <1>2, <1>6, <1>7, <1>8, <1>9

\* The steps of a pass that read and write the three objects.
LEMMA TypePass ==
  ASSUME TypeOK, NEW r \in Replicas, readCA(r) \/ readTLS(r) \/ ApplyStep(r)
  PROVE  TypeOK'
<1> USE DEF TypeOK, Goto, Steps, made, election, reload
<1> DEFINE Locals == /\ gens \in Nat /\ leaves \in Nat /\ pc \in [Replicas -> Steps]
                     /\ obj \in [Replicas -> Objects] /\ want \in [Replicas -> Certs]
                     /\ ca \in [Replicas -> Certs] /\ cert \in [Replicas -> Certs]
           Counts == /\ seen \in [Replicas -> Nat]
                     /\ tries \in [Replicas -> 0..(MaxTries - 1)]
<1>1. ASSUME rotateCertificateBundle(r) PROVE Locals'
  BY SMT, <1>1, CertTypes DEF rotateCertificateBundle, Apply, Objects
<1>2. ASSUME rotateLeafCertificate(r, ca[r]), UNCHANGED ca PROVE Locals'
  BY SMT, <1>2, CertTypes DEF rotateLeafCertificate, Apply, Objects
<1>3. ASSUME Apply(r, "webhook", ca[r]), UNCHANGED <<gens, leaves, ca>>,
             NEW c \in Certs, cert' = [cert EXCEPT ![r] = c]
      PROVE  Locals'
  BY <1>3 DEF Apply, Objects
<1>4. CASE readCA(r)
  <2>1. Locals'
    BY <1>4, <1>1 DEF readCA, Objects
  <2> QED BY <1>4, <2>1 DEF readCA
<1>5. CASE readTLS(r)
  <2>1. store["tls"].val \in Certs
    BY DEF Objects
  <2>2. Locals'
    BY <1>5, <2>1, <1>1, <1>2, <1>3 DEF readTLS
  <2> QED BY <1>5, <2>2 DEF readTLS
<1>6. ASSUME Applied(r), UNCHANGED ca PROVE Locals' /\ Counts'
  <2>1. Counts'
    BY SMT, <1>6, CertAssumption DEF Applied
  <2>2. Locals'
    BY <1>6, <1>2, <1>3 DEF Applied
  <2> QED BY <2>1, <2>2
<1>7. CASE ApplyStep(r) /\ applyGet(r)
  BY <1>7 DEF ApplyStep, applyGet
<1>8. CASE ApplyStep(r) /\ applyReget(r)
  BY <1>8 DEF ApplyStep, applyReget
<1>9. ASSUME Put(obj[r], want[r]), Applied(r), UNCHANGED ca, ApplyStep(r) PROVE TypeOK'
  <2>1. store' \in [Objects -> [val : Certs, rv : Nat]]
    BY <1>9, PutLemma
  <2> QED BY <1>9, <2>1, <1>6 DEF ApplyStep
<1>10. CASE ApplyStep(r) /\ applyCreate(r)
  BY <1>10, <1>9 DEF ApplyStep, applyCreate
<1>11. CASE ApplyStep(r) /\ applyUpdate(r)
  <2>1. CASE store[obj[r]].rv = seen[r]
    BY <1>11, <2>1, <1>9 DEF applyUpdate
  <2>2. CASE store[obj[r]].rv # seen[r] /\ tries[r] + 1 < MaxTries
    <3>1. tries' = [tries EXCEPT ![r] = tries[r] + 1]
      BY SMT, <1>11, <2>2 DEF applyUpdate
    <3>2. tries' \in [Replicas -> 0..(MaxTries - 1)]
      BY SMT, <2>2, <3>1, CertAssumption
    <3> QED BY SMT, <1>11, <2>2, <3>2 DEF ApplyStep, applyUpdate
  <2>3. CASE store[obj[r]].rv # seen[r] /\ tries[r] + 1 = MaxTries
    <3>1. Fail(r) /\ UNCHANGED <<store, made>>
      BY SMT, <1>11, <2>3 DEF applyUpdate
    <3>2. Counts'
      BY SMT, <3>1, CertAssumption DEF Fail, Forget
    <3>3. Locals'
      BY <3>1, CertTypes DEF Fail, Forget, Objects
    <3> QED BY <1>11, <3>1, <3>2, <3>3 DEF ApplyStep
  <2>4. tries[r] + 1 < MaxTries \/ tries[r] + 1 = MaxTries
    BY SMT, CertAssumption
  <2> QED BY <2>1, <2>2, <2>3, <2>4
<1> QED BY <1>4, <1>5, <1>7, <1>8, <1>10, <1>11 DEF ApplyStep

\* What the environment does.
LEMMA TypeEnvironment ==
  ASSUME TypeOK,
         \/ Expire \/ (\E w \in late : LateWrite(w)) \/ (\E o \in {"ca", "tls"} : Age(o))
         \/ UNCHANGED vars
  PROVE  TypeOK'
<1> USE DEF TypeOK, made, election, pass, reload
<1>1. CASE Expire
  BY <1>1 DEF Expire
<1>2. ASSUME NEW w \in late, LateWrite(w) PROVE TypeOK'
  BY <1>2, PutLemma DEF LateWrite
<1>3. ASSUME NEW o \in {"ca", "tls"}, Age(o) PROVE TypeOK'
  BY SMT, <1>3 DEF Age, Spend, Objects
<1>4. CASE UNCHANGED vars
  BY <1>4 DEF vars
<1> QED BY <1>1, <1>2, <1>3, <1>4

\* While r leads, nobody else has chosen a CA or applies an object.
LEMMA OneLeader ==
  ASSUME TypeOK, LeaderInv, NEW r \in Replicas, elect[r] = "leading",
         NEW q \in Replicas, q # r
  PROVE  elect[q] # "leading" /\ pc[q] \in {"off", "SetCertificate"} /\ ~Chosen(q)
  BY DEF LeaderInv, Chosen, Applying

\* Steps that touch nothing the invariant speaks of, but for the lease.
LEMMA QuietStep ==
  ASSUME IInv, TypeOK',
         \/ (\E r \in Replicas : Refresh(r)) \/ Expire
         \/ (\E o \in {"ca", "tls"} : Age(o)) \/ UNCHANGED vars
  PROVE  IInv'
<1> USE DEF IInv
<1>1. /\ UNCHANGED <<store, gens, elect, pc, obj, want, seen, tries, ca, late, settled>>
      /\ UNCHANGED holder \/ Expire
  BY DEF Refresh, LoadTLSCertificateFromSecret, RefreshTLSCertificateFromSecret,
         Expire, Age, vars, made, election, pass
<1>2. LeaderInv'
  BY <1>1, CertAssumption DEF LeaderInv, Expire, TypeOK
<1>3. (VersionInv /\ TriesInv /\ OrderInv /\ PassInv /\ SettledInv)'
  BY <1>1 DEF VersionInv, TriesInv, OrderInv, PassInv, SettledInv, Stale, Chosen, Applying
<1> QED BY <1>2, <1>3

\* A pass begins, or has seen the Lease: no CA is chosen.
LEMMA BeginStep ==
  ASSUME IInv, TypeOK', NEW r \in Replicas,
         RunLeaderElection(r) \/ Tick(r) \/ ensureLease(r)
  PROVE  IInv'
<1> USE DEF IInv
<1>1. /\ UNCHANGED <<store, gens, obj, want, seen, tries, ca, late>>
      /\ settled' = FALSE \/ (UNCHANGED settled /\ pc[r] = "ensureLease")
      /\ pc' = [pc EXCEPT ![r] = pc'[r]] /\ pc'[r] \in {"ensureLease", "readCA"}
      /\ elect' = [elect EXCEPT ![r] = "leading"] /\ holder' = r
      /\ pc[r] \in {"off", "wait", "ensureLease"}
      /\ \A q \in Replicas \ {r} : elect[q] # "leading"
  BY SMT, CertAssumption DEF RunLeaderElection, Tick, ensureLease, Goto, made, election,
     LeaderInv, TypeOK
<1>2. LeaderInv'
  BY <1>1 DEF LeaderInv, TypeOK
<1>3. \A q \in Replicas : Chosen(q)' => Chosen(q) /\ q # r
  BY <1>1 DEF Chosen, Applying, TypeOK
<1>4. (VersionInv /\ TriesInv)'
  BY SMT, <1>1 DEF VersionInv, TriesInv, Stale, TypeOK
<1>5. (OrderInv /\ PassInv)'
  BY SMT, <1>1, <1>3 DEF OrderInv, PassInv, Applying, TypeOK
<1>6. SettledInv'
  BY <1>1 DEF SettledInv
<1> QED BY <1>2, <1>4, <1>5, <1>6

\* The end of a pass: its CA is the one settled on.
LEMMA EndStep ==
  ASSUME IInv, TypeOK', NEW r \in Replicas, SetCertificate(r)
  PROVE  IInv'
<1> USE DEF IInv
<1>1. /\ UNCHANGED <<store, gens, elect, holder, late>>
      /\ pc[r] = "SetCertificate"
      /\ pc' = [pc EXCEPT ![r] = IF elect[r] = "leading" THEN "wait" ELSE "off"]
      /\ tries' = [tries EXCEPT ![r] = 0]
      /\ \A q \in Replicas \ {r} : /\ obj'[q] = obj[q] /\ want'[q] = want[q]
                                   /\ seen'[q] = seen[q] /\ ca'[q] = ca[q]
  BY SMT DEF SetCertificate, Forget, Goto, made, election, TypeOK
<1>2. LeaderInv'
  BY <1>1 DEF LeaderInv, TypeOK
<1>3. (VersionInv /\ TriesInv)'
  BY SMT, <1>1 DEF VersionInv, TriesInv, Stale, TypeOK
<1>4. (OrderInv /\ PassInv)'
  BY SMT, <1>1 DEF OrderInv, PassInv, Chosen, Applying, TypeOK
<1>5. SettledInv'
  <2>1. CASE elect[r] = "leading"
    <3>1. /\ store["webhook"].val.ca = ca[r].ca /\ store["tls"].val.ca = ca[r].ca
          /\ \A w \in late : w.obj # "ca" => w.val.ca <= ca[r].ca
      BY <1>1, <2>1 DEF PassInv, Chosen
    <3>2. \A q \in Replicas : pc'[q] \in {"off", "wait", "SetCertificate"}
      BY <1>1, <2>1, OneLeader DEF TypeOK
    <3> QED BY <1>1, <3>1, <3>2 DEF SettledInv
  <2>2. CASE elect[r] # "leading"
    BY <1>1, <2>2 DEF SettledInv, SetCertificate, TypeOK
  <2> QED BY <2>1, <2>2
<1> QED BY <1>2, <1>3, <1>4, <1>5

\* What a write on its way to the server is known to carry.
LEMMA InFlightLemma ==
  ASSUME IInv, NEW r \in Replicas, NEW w \in InFlight(r)
  PROVE  /\ Applying(r) /\ w.obj = obj[r] /\ w.val.ca = ca[r].ca
         /\ w.rv <= store[w.obj].rv
         /\ w.val.ca <= gens /\ store[w.obj].val.ca <= w.val.ca
         /\ w.obj # "ca" => w.val.ca <= store["ca"].val.ca
<1> USE DEF IInv
<1>1. /\ Applying(r) /\ Chosen(r) /\ pc[r] \in {"create", "update"}
      /\ w.obj = obj[r] /\ w.val = want[r]
      /\ w.rv = IF pc[r] = "create" THEN 0 ELSE seen[r]
  BY SMT DEF InFlight, Applying, Chosen
<1>2. w.rv <= store[w.obj].rv
  BY SMT, <1>1 DEF VersionInv, TypeOK
<1>3. store[w.obj].val.ca <= ca[r].ca
  BY <1>1 DEF PassInv, TypeOK, Objects
<1> QED BY <1>1, <1>2, <1>3 DEF PassInv

\* A replica gives its pass up, and may leave a write behind.
LEMMA LeaveStep ==
  ASSUME IInv, TypeOK', NEW r \in Replicas, APIError(r) \/ LoseLease(r) \/ Restart(r)
  PROVE  IInv'
<1> USE DEF IInv
<1>1. /\ UNCHANGED <<store, gens, settled>>
      /\ late' \in {late, late \cup InFlight(r)}
      /\ \A q \in Replicas \ {r} :
           /\ pc'[q] = pc[q] /\ elect'[q] = elect[q] /\ obj'[q] = obj[q]
           /\ want'[q] = want[q] /\ seen'[q] = seen[q] /\ ca'[q] = ca[q]
           /\ tries'[q] = tries[q]
  BY SMT DEF APIError, LoseLease, Restart, Fail, Forget, Goto, made, election, pass, TypeOK
<1>2. /\ pc'[r] \in {"off", "wait"} \/ (pc'[r] = "SetCertificate" /\ elect'[r] = "ended")
      /\ tries'[r] = 0 \/ (pc[r] = "SetCertificate" /\ UNCHANGED tries)
  BY SMT DEF APIError, LoseLease, Restart, Fail, Forget, Goto, pass, TypeOK
<1>3. LeaderInv'
  BY SMT, <1>1, CertAssumption
     DEF LeaderInv, APIError, LoseLease, Restart, Fail, Goto, election, pass, TypeOK
<1>4. /\ late \subseteq late'
      /\ \A w \in late' \ late : w \in InFlight(r)
      /\ late' # late => elect[r] = "leading" /\ Applying(r)
  BY <1>1 DEF InFlight, LeaderInv, Applying
<1>5. \A w \in late' \ late :
        /\ Applying(r) /\ w.obj = obj[r] /\ w.val.ca = ca[r].ca
        /\ w.rv <= store[w.obj].rv
        /\ w.val.ca <= gens /\ store[w.obj].val.ca <= w.val.ca
        /\ w.obj # "ca" => w.val.ca <= store["ca"].val.ca
  BY <1>4, InFlightLemma
<1>6. \A q \in Replicas : Chosen(q)' => q # r /\ Chosen(q) /\ late' = late
  <2> SUFFICES ASSUME NEW q \in Replicas, Chosen(q)'
               PROVE  q # r /\ Chosen(q) /\ late' = late
    OBVIOUS
  <2>1. q # r
    BY <1>2 DEF Chosen, Applying
  <2>2. Chosen(q)
    BY <1>1, <2>1 DEF Chosen, Applying
  <2> QED BY <2>1, <2>2, <1>4, OneLeader
<1>7. VersionInv'
  <2>1. \A w \in late' : w.rv <= store'[w.obj].rv
    BY <1>1, <1>5 DEF VersionInv
  <2>2. ASSUME NEW q \in Replicas, Applying(q)'
        PROVE  /\ late' = late /\ pc'[q] = pc[q] /\ obj'[q] = obj[q]
               /\ seen'[q] = seen[q]
    BY <2>2, <1>1, <1>6 DEF Chosen
  <2> QED BY SMT, <1>1, <2>1, <2>2 DEF VersionInv, Stale, Applying
<1>8. TriesInv'
  <2> SUFFICES ASSUME NEW q \in Replicas, tries'[q] # 0
               PROVE  /\ tries'[q] = 1 /\ pc'[q] \in {"reget", "update"} /\ Stale(obj[q])'
                      /\ pc'[q] = "update" => seen'[q] = store'[obj'[q]].rv
    BY DEF TriesInv
  <2>1. q # r
    BY <1>2 DEF TriesInv
  <2>2. Chosen(q)' 
    BY <1>1, <2>1 DEF TriesInv, Chosen, Applying
  <2> QED BY <1>1, <1>6, <2>1, <2>2 DEF TriesInv, Stale
<1>9. OrderInv'
  BY <1>1, <1>5 DEF OrderInv
<1>10. PassInv'
  BY SMTT(20), <1>1, <1>6 DEF PassInv, Applying
<1>11. SettledInv'
  BY <1>1, <1>2, <1>4 DEF SettledInv, Applying
<1> QED BY <1>3, <1>7, <1>8, <1>9, <1>10, <1>11

\* A write left behind is carried out, or found stale.
LEMMA LateStep ==
  ASSUME IInv, TypeOK', NEW w \in late, LateWrite(w)
  PROVE  IInv'
<1> USE DEF IInv
<1>1. /\ UNCHANGED <<gens, holder, elect, pc, obj, want, seen, tries, ca, settled>>
      /\ late' = late \ {w} /\ w.obj \in Objects /\ w.val \in Certs
  BY DEF LateWrite, made, election, pass, TypeOK
<1>2. LeaderInv'
  BY <1>1 DEF LeaderInv
<1>3. CASE UNCHANGED store
  <2>1. VersionInv' /\ TriesInv'
    BY <1>1, <1>3 DEF VersionInv, TriesInv, Stale
  <2>2. OrderInv' /\ SettledInv'
    BY <1>1, <1>3 DEF OrderInv, SettledInv
  <2>3. PassInv'
    BY <1>1, <1>3 DEF PassInv, Chosen, Applying
  <2> QED BY <1>2, <2>1, <2>2, <2>3
<1>4. CASE store' # store
  <2>1. /\ store[w.obj].rv = w.rv
        /\ \A p \in Objects \ {w.obj} : store'[p] = store[p]
        /\ store'[w.obj].val = w.val /\ store'[w.obj].rv = store[w.obj].rv + 1
    BY <1>1, <1>4, PutLemma DEF LateWrite
  <2>2. store[w.obj].val.ca <= w.val.ca
    BY <2>1 DEF OrderInv
  <2>3. \A o \in Objects : /\ store[o].rv \in Nat /\ store'[o].rv \in Nat
                           /\ store[o].rv <= store'[o].rv /\ store[o].val.ca <= store'[o].val.ca
                           /\ store[o].val.ca \in Nat /\ store'[o].val.ca \in Nat
    <3> SUFFICES ASSUME NEW o \in Objects
                 PROVE  /\ store[o].rv \in Nat /\ store'[o].rv \in Nat
                        /\ store[o].rv <= store'[o].rv /\ store[o].val.ca <= store'[o].val.ca
                        /\ store[o].val.ca \in Nat /\ store'[o].val.ca \in Nat
      OBVIOUS
    <3>1. /\ store[o].rv \in Nat /\ store'[o].rv \in Nat
          /\ store[o].val.ca \in Nat /\ store'[o].val.ca \in Nat
      BY DEF TypeOK, Certs
    <3>2. CASE o = w.obj
      BY SMT, <3>1, <3>2, <2>1, <2>2
    <3>3. CASE o # w.obj
      BY SMT, <3>1, <3>3, <2>1
    <3> QED BY <3>2, <3>3
  <2>4. \A x \in late : /\ x.rv \in Nat /\ x.val.ca \in Nat /\ x.obj \in Objects
                        /\ x.rv <= store[x.obj].rv
    BY DEF TypeOK, VersionInv, Certs
  <2>5. Stale(w.obj)'
    BY SMT, <1>1, <2>1, <2>3, <2>4 DEF Stale
  <2>6. \A o \in Objects : Stale(o) => Stale(o)'
    BY SMT, <1>1, <2>3, <2>4 DEF Stale
  <2>7. VersionInv'
    <3>1. \A x \in late' : x.rv <= store'[x.obj].rv
      BY SMT, <1>1, <2>3, <2>4
    <3>2. ASSUME NEW q \in Replicas
          PROVE  /\ obj[q] \in Objects /\ seen[q] \in Nat
                 /\ store'[obj[q]] = store[obj[q]] \/ obj[q] = w.obj
      BY <2>1 DEF TypeOK
    <3> QED BY SMT, <1>1, <2>3, <2>5, <2>6, <3>1, <3>2 DEF VersionInv, Stale
  <2>8. TriesInv'
    <3>1. ASSUME NEW q \in Replicas, tries[q] # 0 PROVE obj[q] # w.obj /\ obj[q] \in Objects
      BY SMT, <2>1, <2>3, <3>1, <1>1 DEF TriesInv, Stale, TypeOK
    <3> QED BY <1>1, <2>1, <2>6, <3>1 DEF TriesInv, Stale
  <2>9. OrderInv'
    <3>1. /\ w.val.ca <= gens /\ gens \in Nat
          /\ w.obj # "ca" => w.val.ca <= store["ca"].val.ca
      BY DEF OrderInv, TypeOK
    <3>2. /\ (store["tls"].val.ca <= store["ca"].val.ca)'
          /\ (store["webhook"].val.ca <= store["ca"].val.ca)'
          /\ (store["ca"].val.ca <= gens)'
      BY SMT, <1>1, <2>1, <2>3, <3>1 DEF OrderInv, Objects
    <3>3. ASSUME NEW x \in late'
          PROVE  /\ x.val.ca <= gens'
                 /\ x.obj # "ca" => x.val.ca <= store'["ca"].val.ca
                 /\ x.rv = store'[x.obj].rv => store'[x.obj].val.ca <= x.val.ca
      <4>1. x \in late
        BY <1>1
      <4>2. x.obj = w.obj => x.rv # store'[x.obj].rv
        BY SMT, <4>1, <2>3, <2>4, <2>1
      <4> QED BY SMT, <1>1, <4>1, <4>2, <2>1, <2>3, <2>4 DEF OrderInv, Objects
    <3> QED BY <3>2, <3>3 DEF OrderInv
  <2>10. PassInv'
    <3>1. ASSUME NEW q \in Replicas, Chosen(q)
          PROVE  /\ ca[q].ca \in Nat
                 /\ w.obj # "ca" => w.val.ca <= ca[q].ca
                 /\ w.obj # "ca" => store'["ca"] = store["ca"]
                 /\ Applying(q) /\ obj[q] = "ca" => w.val.ca <= ca[q].ca
      BY <2>1, <3>1 DEF PassInv, TypeOK, Certs, Objects
    <3>2. \A o \in Objects : o = w.obj \/ store'[o] = store[o]
      BY <2>1
    <3> QED BY SMT, <1>1, <2>1, <2>2, <2>3, <3>1, <3>2 DEF PassInv, Chosen, Applying, Objects
  <2>11. SettledInv'
    BY SMT, <1>1, <2>1, <2>2, <2>3, <2>4 DEF SettledInv, Objects
  <2> QED BY <1>2, <2>7, <2>8, <2>9, <2>10, <2>11
<1> QED BY <1>3, <1>4

\* What a step of r's pass that leaves the election alone has to keep: nobody
\* else is in a pass, so only r's own part can be disturbed.
LEMMA PassFrame ==
  ASSUME IInv, TypeOK', NEW r \in Replicas, elect[r] = "leading",
         UNCHANGED <<holder, elect, late, settled>>,
         pc[r] \notin {"off", "wait", "SetCertificate"}, pc'[r] # "off",
         \A q \in Replicas \ {r} : pc'[q] = pc[q] /\ tries'[q] = tries[q]
  PROVE  /\ LeaderInv' /\ SettledInv'
         /\ \A q \in Replicas \ {r} : ~Chosen(q)' /\ ~Applying(q)' /\ tries'[q] = 0
<1> USE DEF IInv
<1>1. LeaderInv'
  BY DEF LeaderInv, TypeOK
<1>2. SettledInv'
  BY DEF SettledInv
<1>3. ASSUME NEW q \in Replicas \ {r} PROVE ~Chosen(q)' /\ ~Applying(q)' /\ tries'[q] = 0
  <2>1. pc'[q] \in {"off", "SetCertificate"} /\ elect[q] # "leading"
    BY <1>3, OneLeader
  <2> QED BY <2>1, <1>3 DEF Chosen, Applying, TriesInv
<1> QED BY <1>1, <1>2, <1>3

\* The pass reads the Secrets and decides what to do.
LEMMA ReadStep ==
  ASSUME IInv, TypeOK', NEW r \in Replicas, readCA(r) \/ readTLS(r)
  PROVE  IInv'
<1> USE DEF IInv
<1>1. /\ UNCHANGED <<store, holder, elect, seen, tries, late, settled>>
      /\ elect[r] = "leading" /\ pc[r] \in {"readCA", "readTLS"}
      /\ pc'[r] \in {"readTLS", "get"}
      /\ \A q \in Replicas \ {r} : pc'[q] = pc[q] /\ tries'[q] = tries[q]
  BY DEF readCA, readTLS, rotateCertificateBundle, rotateLeafCertificate, Apply, Goto,
         election, LeaderInv, TypeOK
<1>2. /\ LeaderInv' /\ SettledInv'
      /\ \A q \in Replicas \ {r} : ~Chosen(q)' /\ ~Applying(q)' /\ tries'[q] = 0
  BY <1>1, PassFrame
<1>3. VersionInv' /\ TriesInv'
  BY <1>1, <1>2 DEF VersionInv, TriesInv, Stale, Applying
<1>4. /\ gens \in Nat /\ \A o \in Objects : store[o].val.ca \in Nat
      /\ \A w \in late : w.val.ca \in Nat
  BY DEF TypeOK, Certs
<1>5. /\ gens' \in {gens, gens + 1} /\ OrderInv'
  <2>1. gens' \in {gens, gens + 1}
    BY DEF readCA, readTLS, rotateCertificateBundle, rotateLeafCertificate, made
  <2> QED BY SMT, <1>1, <1>4, <2>1 DEF OrderInv, Objects
<1>6. PassInv'
  <2>1. CASE rotateCertificateBundle(r)
    <3>1. /\ gens' = gens + 1 /\ ca'[r].ca = gens + 1 /\ want'[r].ca = gens + 1
          /\ obj'[r] = "ca" /\ pc'[r] = "get"
      BY <2>1 DEF rotateCertificateBundle, Apply, Goto, CA, TypeOK
    <3>2. \A o \in Objects : store[o].val.ca <= gens
      BY SMT, <1>4 DEF OrderInv, Objects
    <3>3. \A w \in late : w.val.ca <= gens
      BY DEF OrderInv
    <3> QED BY SMT, <1>1, <1>2, <1>4, <3>1, <3>2, <3>3 DEF PassInv, Applying, Objects
  <2>2. CASE pc[r] = "readTLS" /\ rotateLeafCertificate(r, ca[r]) /\ UNCHANGED ca
    <3>1. /\ gens' = gens /\ want'[r].ca = ca[r].ca /\ obj'[r] = "tls" /\ pc'[r] = "get"
      BY <2>2 DEF rotateLeafCertificate, Apply, Goto, TypeOK
    <3> QED BY <1>1, <1>2, <2>2, <3>1 DEF PassInv, Chosen, Applying
  <2>3. CASE /\ pc[r] = "readTLS" /\ store["tls"].val.ca = ca[r].ca
             /\ Apply(r, "webhook", ca[r]) /\ UNCHANGED <<gens, ca>>
    <3>1. want'[r].ca = ca[r].ca /\ obj'[r] = "webhook" /\ pc'[r] = "get"
      BY ZenonT(20), <2>3 DEF Apply, Goto, TypeOK
    <3> QED BY <1>1, <1>2, <2>3, <3>1 DEF PassInv, Chosen, Applying
  <2>4. CASE ca' = [ca EXCEPT ![r] = store["ca"].val] /\ gens' = gens /\ Goto(r, "readTLS")
    <3>1. ca'[r] = store["ca"].val /\ pc'[r] = "readTLS"
      BY <2>4 DEF Goto, TypeOK
    <3> QED BY SMTT(20), <1>1, <1>2, <1>4, <2>4, <3>1 DEF PassInv, OrderInv, Applying, Objects
  <2> QED BY <2>1, <2>2, <2>3, <2>4 DEF readCA, readTLS, EvaluateCertificateHealth, made
<1> QED BY <1>2, <1>3, <1>5, <1>6

\* Applying an object without a write: it is read, or a conflict is met.
LEMMA TryStep ==
  ASSUME IInv, TypeOK', NEW r \in Replicas, ApplyStep(r),
         \/ applyGet(r) \/ applyReget(r)
         \/ applyCreate(r) /\ store[obj[r]].rv # 0
         \/ applyUpdate(r) /\ store[obj[r]].rv # seen[r]
  PROVE  IInv'
<1> USE DEF IInv
<1>1. /\ UNCHANGED <<store, gens, holder, elect, late, settled>>
      /\ elect[r] = "leading" /\ Applying(r) /\ pc[r] \notin {"off", "wait", "SetCertificate"}
      /\ \A q \in Replicas \ {r} : pc'[q] = pc[q] /\ tries'[q] = tries[q]
  BY SMTT(20) DEF ApplyStep, applyGet, applyReget, applyCreate, applyUpdate, Fail, Forget, Goto,
                  made, election, Applying, LeaderInv, TypeOK
<1>2. \/ /\ pc[r] = "get" /\ pc'[r] \in {"create", "update"}
         /\ pc'[r] = "create" => store[obj[r]].rv = 0
         /\ seen'[r] = store[obj[r]].rv /\ tries'[r] = tries[r]
      \/ /\ pc[r] = "reget" /\ pc'[r] = "update"
         /\ seen'[r] = store[obj[r]].rv /\ tries'[r] = tries[r]
      \/ /\ pc[r] = "create" /\ store[obj[r]].rv # 0
         /\ pc'[r] = "reget" /\ tries'[r] = tries[r]
      \/ /\ pc[r] = "update" /\ store[obj[r]].rv # seen[r]
         /\ pc'[r] = "reget" /\ tries'[r] = tries[r] + 1
      \/ pc'[r] = "wait" /\ tries'[r] = 0
  BY ZenonT(20) DEF applyGet, applyReget, applyCreate, applyUpdate, Fail, Forget, Goto, TypeOK
<1>3. pc'[r] \in {"wait", "create", "update", "reget"}
  BY <1>2
<1>4. pc'[r] # "wait" => /\ obj'[r] = obj[r] /\ want'[r] = want[r] /\ ca'[r] = ca[r]
  BY DEF applyGet, applyReget, applyCreate, applyUpdate, Fail, Goto, TypeOK
<1>5. /\ LeaderInv' /\ SettledInv'
      /\ \A q \in Replicas \ {r} : ~Chosen(q)' /\ ~Applying(q)' /\ tries'[q] = 0
  BY <1>1, <1>3, PassFrame
<1>6. /\ seen[r] \in Nat /\ store[obj[r]].rv \in Nat
  BY DEF TypeOK
<1>7. /\ pc[r] = "update" /\ store[obj[r]].rv # seen[r] => Stale(obj[r])
      /\ pc[r] = "create" /\ store[obj[r]].rv # 0 => Stale(obj[r])
      /\ pc[r] = "reget" => Stale(obj[r])
  <2>1. /\ pc[r] = "update" => /\ seen[r] <= store[obj[r]].rv
                               /\ seen[r] < store[obj[r]].rv => Stale(obj[r])
        /\ pc[r] = "create" /\ store[obj[r]].rv # 0 => Stale(obj[r])
        /\ pc[r] = "reget" => Stale(obj[r])
    BY ZenonT(10) DEF VersionInv
  <2> HIDE DEF IInv
  <2> QED BY SMT, <1>6, <2>1
<1>8. pc'[r] # "wait" => (Stale(obj[r])' <=> Stale(obj[r])) /\ store'[obj'[r]].rv = store[obj[r]].rv
  BY <1>1, <1>4 DEF Stale
<1>9. VersionInv'
  <2>1. pc'[r] = "reget" => Stale(obj[r])
    BY ZenonT(20), <1>2, <1>7
  <2>2. pc'[r] = "update" => seen'[r] = store[obj[r]].rv
    BY <1>2
  <2>3. pc'[r] = "create" => store[obj[r]].rv = 0
    BY <1>2
  <2>4. \A w \in late' : w.rv <= store'[w.obj].rv
    BY <1>1 DEF VersionInv
  <2>5. \A n \in Nat : n <= n /\ ~(n < n)
    OBVIOUS
  <2>6. /\ pc'[r] = "update" => /\ seen'[r] <= store'[obj'[r]].rv
                                /\ ~(seen'[r] < store'[obj'[r]].rv)
        /\ pc'[r] = "create" => store'[obj'[r]].rv = 0
        /\ pc'[r] = "reget" => Stale(obj[r])'
    BY ZenonT(10), <1>6, <1>8, <2>1, <2>2, <2>3, <2>5
  <2>7. \A q \in Replicas \ {r} : pc'[q] \notin {"update", "create", "reget"}
    BY <1>5 DEF Applying
  <2> HIDE DEF IInv
  <2> QED BY ZenonT(20), <2>4, <2>6, <2>7 DEF VersionInv
<1>10. TriesInv'
  <2>1. \/ tries[r] = 0
        \/ /\ tries[r] = 1 /\ pc[r] \in {"reget", "update"} /\ Stale(obj[r])
           /\ pc[r] = "update" => seen[r] = store[obj[r]].rv
    BY ZenonT(10) DEF TriesInv
  <2> HIDE DEF IInv
  <2>2. tries'[r] # 0 => /\ tries'[r] = 1 /\ pc'[r] \in {"reget", "update"} /\ Stale(obj[r])
                         /\ pc'[r] = "update" => seen'[r] = store[obj[r]].rv
    BY SMT, <1>2, <1>7, <2>1
  <2> QED BY <1>5, <1>8, <2>2 DEF TriesInv
<1>11. OrderInv'
  BY <1>1 DEF OrderInv
<1>12. PassInv'
  BY SMTT(20), <1>1, <1>3, <1>4, <1>5 DEF PassInv, Chosen, Applying
<1> QED BY ZenonT(20), <1>5, <1>9, <1>10, <1>11, <1>12

\* The pass writes its object and goes on to the next.
LEMMA WriteStep ==
  ASSUME IInv, TypeOK', NEW r \in Replicas, ApplyStep(r),
         \/ applyCreate(r) /\ store[obj[r]].rv = 0
         \/ applyUpdate(r) /\ store[obj[r]].rv = seen[r]
  PROVE  IInv'
<1> USE DEF IInv
<1>1. /\ UNCHANGED <<holder, elect, late, settled, ca>>
      /\ Put(obj[r], want[r]) /\ Applied(r)
      /\ elect[r] = "leading" /\ Applying(r) /\ Chosen(r)
      /\ pc[r] \notin {"off", "wait", "SetCertificate"}
  BY DEF ApplyStep, applyCreate, applyUpdate, election, Applying, Chosen, LeaderInv
<1>2. /\ gens' = gens /\ tries'[r] = 0 /\ pc'[r] \in {"get", "SetCertificate"}
      /\ \A q \in Replicas \ {r} : pc'[q] = pc[q] /\ tries'[q] = tries[q]
  BY ZenonT(20), <1>1 DEF Applied, rotateLeafCertificate, Apply, Goto, made, TypeOK
<1>3. \/ obj[r] = "ca" /\ obj'[r] = "tls" /\ pc'[r] = "get" /\ want'[r].ca = ca[r].ca
      \/ obj[r] = "tls" /\ obj'[r] = "webhook" /\ pc'[r] = "get" /\ want'[r].ca = ca[r].ca
      \/ obj[r] = "webhook" /\ pc'[r] = "SetCertificate"
  BY SMT, <1>1 DEF Applied, rotateLeafCertificate, Apply, Goto, TypeOK
<1>4. /\ LeaderInv' /\ SettledInv'
      /\ \A q \in Replicas \ {r} : ~Chosen(q)' /\ ~Applying(q)' /\ tries'[q] = 0
  BY <1>1, <1>2, PassFrame
<1>5. /\ obj[r] \in Objects /\ gens \in Nat /\ ca[r].ca \in Nat
      /\ \A o \in Objects : /\ store[o].val.ca \in Nat /\ store[o].rv \in Nat
                            /\ store'[o].val.ca \in Nat /\ store'[o].rv \in Nat
      /\ \A w \in late : w.obj \in Objects /\ w.rv \in Nat /\ w.val.ca \in Nat
  BY DEF TypeOK, Certs
<1>6. /\ \A p \in Objects \ {obj[r]} : store'[p] = store[p]
      /\ store'[obj[r]].val.ca = ca[r].ca
      /\ store' = store \/ store'[obj[r]].rv = store[obj[r]].rv + 1
  <2>1. want[r] \in Certs /\ want[r].ca = ca[r].ca
    BY <1>1 DEF TypeOK, PassInv
  <2> QED BY <1>1, <1>5, <2>1, PutLemma
<1>7. \A w \in late : w.rv <= store[w.obj].rv
  BY DEF VersionInv
<1>8. VersionInv'
  <2>1. \A w \in late : w.rv <= store'[w.obj].rv
    BY SMT, <1>5, <1>6, <1>7
  <2> QED BY <1>1, <1>2, <1>4, <2>1 DEF VersionInv, Applying
<1>9. TriesInv'
  BY <1>2, <1>4 DEF TriesInv
<1>10. OrderInv'
  <2>1. \A o \in Objects : store[o].val.ca <= ca[r].ca \/ o = "ca"
    BY <1>1 DEF PassInv, Objects
  <2>2. store["ca"].val.ca <= store'["ca"].val.ca
    BY SMT, <1>1, <1>5, <1>6 DEF PassInv, Objects
  <2>3. /\ (store["tls"].val.ca <= store["ca"].val.ca)'
        /\ (store["webhook"].val.ca <= store["ca"].val.ca)'
        /\ (store["ca"].val.ca <= gens)'
    <3>1. /\ store["tls"].val.ca <= ca[r].ca /\ store["webhook"].val.ca <= ca[r].ca
          /\ ca[r].ca <= gens
          /\ obj[r] # "ca" => ca[r].ca <= store["ca"].val.ca
      BY <1>1 DEF PassInv
    <3>2. /\ store["tls"].val.ca <= store["ca"].val.ca
          /\ store["webhook"].val.ca <= store["ca"].val.ca
          /\ store["ca"].val.ca <= gens
      BY DEF OrderInv
    <3> QED BY <1>2, <1>5, <1>6, <2>2, <3>1, <3>2, SMT DEF Objects
  <2>4. ASSUME NEW w \in late
        PROVE  /\ w.val.ca <= gens'
               /\ w.obj # "ca" => w.val.ca <= store'["ca"].val.ca
               /\ w.rv = store'[w.obj].rv => store'[w.obj].val.ca <= w.val.ca
    <3>1. w.rv = store'[w.obj].rv => w.rv = store[w.obj].rv /\ store'[w.obj] = store[w.obj]
      <4>1. w.obj \in Objects /\ w.rv \in Nat /\ w.rv <= store[w.obj].rv
        BY <1>5, <1>7
      <4>2. store[w.obj].rv \in Nat
        BY <1>5, <4>1
      <4>3. store'[w.obj] = store[w.obj] \/ store'[w.obj].rv = store[w.obj].rv + 1
        BY <1>6, <4>1
      <4> QED BY <4>1, <4>2, <4>3, SMT
    <3> QED BY SMT, <1>2, <1>5, <2>2, <3>1 DEF OrderInv, Objects
  <2> QED BY <1>1, <2>3, <2>4 DEF OrderInv
<1>11. PassInv'
  <2>1. /\ store["tls"].val.ca <= ca[r].ca /\ store["webhook"].val.ca <= ca[r].ca
        /\ ca[r].ca <= gens
        /\ \A w \in late : w.obj # "ca" => w.val.ca <= ca[r].ca
        /\ obj[r] # "ca" => ca[r].ca <= store["ca"].val.ca
        /\ obj[r] = "webhook" => store["tls"].val.ca = ca[r].ca
    BY <1>1 DEF PassInv
  <2>2. /\ store'["tls"].val.ca <= ca[r].ca /\ store'["webhook"].val.ca <= ca[r].ca
        /\ ca[r].ca <= store'["ca"].val.ca
        /\ obj[r] \in {"tls", "webhook"} => store'["tls"].val.ca = ca[r].ca
        /\ obj[r] = "webhook" => store'["webhook"].val.ca = ca[r].ca
    BY SMT, <1>5, <1>6, <2>1 DEF Objects
  <2> QED BY <1>1, <1>2, <1>3, <1>4, <2>1, <2>2 DEF PassInv, Applying
<1> QED BY <1>4, <1>8, <1>9, <1>10, <1>11

-----------------------------------------------------------------------------
(* The theorems.                                                           *)

LEMMA InvInit == Init => IInv
<1> SUFFICES ASSUME Init PROVE IInv
  OBVIOUS
<1>1. /\ late = {} /\ settled = FALSE /\ gens = 0
      /\ \A o \in Objects : store[o].val.ca = 0
      /\ \A r \in Replicas : pc[r] = "off" /\ elect[r] = "waiting" /\ tries[r] = 0
  BY DEF Init, Absent, CA
<1>2. SettledInv
  BY <1>1, Zenon DEF SettledInv
<1>3. LeaderInv /\ VersionInv /\ TriesInv /\ OrderInv /\ PassInv
  BY SMTT(20), <1>1
     DEF LeaderInv, VersionInv, TriesInv, OrderInv, PassInv, Chosen, Applying, Objects
<1> QED BY <1>2, <1>3, TypeInit DEF IInv

LEMMA InvNext == IInv /\ [Next]_vars => IInv'
<1> SUFFICES ASSUME IInv, [Next]_vars PROVE IInv'
  OBVIOUS
<1>1. TypeOK
  BY DEF IInv
<1>2. ASSUME NEW r \in Replicas, RunLeaderElection(r) \/ Tick(r) \/ ensureLease(r)
      PROVE  IInv'
  BY <1>1, <1>2, TypeReplica, BeginStep
<1>3. ASSUME NEW r \in Replicas, readCA(r) \/ readTLS(r) PROVE IInv'
  BY <1>1, <1>3, TypePass, ReadStep
<1>4. ASSUME NEW r \in Replicas, ApplyStep(r) PROVE IInv'
  <2>1. TypeOK'
    BY <1>1, <1>4, TypePass
  <2>2. \/ applyGet(r) \/ applyReget(r)
        \/ applyCreate(r) /\ store[obj[r]].rv # 0
        \/ applyUpdate(r) /\ store[obj[r]].rv # seen[r]
        \/ applyCreate(r) /\ store[obj[r]].rv = 0
        \/ applyUpdate(r) /\ store[obj[r]].rv = seen[r]
    BY <1>4 DEF ApplyStep
  <2> QED BY <1>4, <2>1, <2>2, TryStep, WriteStep
<1>5. ASSUME NEW r \in Replicas, SetCertificate(r) PROVE IInv'
  BY <1>1, <1>5, TypeReplica, EndStep
<1>6. ASSUME NEW r \in Replicas, APIError(r) \/ LoseLease(r) \/ Restart(r) PROVE IInv'
  BY <1>1, <1>6, TypeReplica, LeaveStep
<1>7. ASSUME NEW r \in Replicas, Refresh(r) PROVE IInv'
  BY <1>1, <1>7, TypeReplica, QuietStep
<1>8. CASE Expire \/ (\E o \in {"ca", "tls"} : Age(o)) \/ UNCHANGED vars
  BY <1>1, <1>8, TypeEnvironment, QuietStep
<1>9. ASSUME NEW w \in late, LateWrite(w) PROVE IInv'
  BY <1>1, <1>9, TypeEnvironment, LateStep
<1> QED
  BY <1>2, <1>3, <1>4, <1>5, <1>6, <1>7, <1>8, <1>9
     DEF Next, Ensure, applyCASecret, applyTLSSecret, ensureWebhook

\* The inductive invariant holds of every reachable state of Ensure, the
\* elector and the writes that are still on their way.
THEOREM CertInvariant == Spec => []IInv
<1> QED BY InvInit, InvNext, PTL DEF Spec

\* Every variable of the certificate life cycle keeps its type, and the retry
\* counter stays below the steps of retry.DefaultRetry.
THEOREM CertTypeCorrect == Spec => []TypeOK
<1>1. IInv => TypeOK
  BY DEF IInv
<1> QED BY <1>1, CertInvariant, PTL

\* With any number of replicas, lost leases, restarts and failing calls, an
\* object being applied meets at most one conflict (RetryOnConflict in
\* applyCASecret, applyTLSSecret and ensureWebhook).
THEOREM AtMostOneConflict == Spec => []OneConflict
<1>1. IInv => OneConflict
  <2> SUFFICES ASSUME IInv, NEW r \in Replicas PROVE tries[r] <= 1
    BY DEF OneConflict
  <2>1. tries[r] = 0 \/ tries[r] = 1
    BY DEF IInv, TriesInv
  <2> QED BY SMT, <2>1
<1> QED BY <1>1, CertInvariant, PTL

\* With any number of replicas, lost leases, restarts and failing calls, once
\* the last pass of Ensure to begin has ended well the webhook configuration
\* trusts the leaf in the TLS Secret, until the next pass begins.
THEOREM TrustedOnceSettled == Spec => []SettledTrusted
<1>1. IInv => SettledTrusted
  BY DEF IInv, SettledInv, SettledTrusted
<1> QED BY <1>1, CertInvariant, PTL
=============================================================================
