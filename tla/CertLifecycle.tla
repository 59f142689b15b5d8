--------------------------- MODULE CertLifecycle ---------------------------
(***************************************************************************)
(* The certificate lifecycle of sysbox-admission --bootstrap-webhook:      *)
(* replicas elect a leader through a Lease; the leader keeps the CA Secret,*)
(* the TLS Secret and the CA bundle of the MutatingWebhookConfiguration in *)
(* step (LifecycleManager.Ensure, once on election and then on a ticker);  *)
(* every replica reloads the serving certificate from the TLS Secret.      *)
(*                                                                         *)
(* The API server is external: objects with a resource version, Create     *)
(* that fails on an existing object, Update that fails on a stale version  *)
(* and changes nothing, version included, when the content is the same.    *)
(* A call whose client has gone may still be carried out later.  The       *)
(* client-go elector is external too: Run returns once the lease is lost.  *)
(***************************************************************************)
EXTENDS Naturals

CONSTANTS
  Replicas,      \* admission pods
  Nobody,        \* the lease has no holder
  MaxTries,      \* steps of retry.DefaultRetry
  MaxErrors,     \* bound: API calls that return an error
  MaxLosses,     \* bound: leases that a running leader loses
  MaxRestarts,   \* bound: restarts of a replica
  MaxAgings      \* bound: certificates that enter their renewal window

ASSUME CertAssumption ==
  /\ Nobody \notin Replicas
  /\ MaxTries \in Nat \ {0}
  /\ {MaxErrors, MaxLosses, MaxRestarts, MaxAgings} \subseteq Nat

VARIABLES
  store,         \* the three objects: content and resource version (0: absent)
  aged,          \* certificates that expire within the renewal window
  gens, leaves,  \* CA key pairs and leaf certificates generated so far
  holder,        \* holder of the Lease
  elect,         \* each replica's elector
  pc,            \* where its rotation loop is
  obj, want,     \* the object being applied, and its content
  seen, tries,   \* resource version read for the update; conflicts so far
  ca, cert,      \* CA of this pass, leaf that it will serve
  serving,       \* CertificateReloader.certificate
  loaded,        \* read by the refresh loop, not yet stored
  late,          \* writes of clients that have gone
  settled,       \* the pass that began last has ended without an error
  budget         \* events left of each bounded kind

election == <<holder, elect>>
pass     == <<pc, obj, want, seen, tries, ca, cert>>
reload   == <<serving, loaded>>
made     == <<gens, leaves>>
vars     == <<store, aged, gens, leaves, holder, elect, pc, obj, want, seen,
              tries, ca, cert, serving, loaded, late, settled, budget>>

Objects == {"ca", "tls", "webhook"}
Steps   == {"off", "wait", "ensureLease", "readCA", "readTLS", "get", "create",
            "reget", "update", "SetCertificate"}

\* A certificate is named by its CA and, for a leaf, its serial number.
CA(g)   == [ca |-> g, leaf |-> 0]
Certs   == [ca : Nat, leaf : Nat]
Absent  == CA(0)

TypeOK ==
  /\ store \in [Objects -> [val : Certs, rv : Nat]]
  /\ aged \in SUBSET Certs
  /\ gens \in Nat /\ leaves \in Nat
  /\ holder \in Replicas \cup {Nobody}
  /\ elect \in [Replicas -> {"waiting", "leading", "ended"}]
  /\ pc \in [Replicas -> Steps]
  /\ obj \in [Replicas -> Objects]
  /\ seen \in [Replicas -> Nat] /\ tries \in [Replicas -> 0..(MaxTries - 1)]
  /\ want \in [Replicas -> Certs]
  /\ ca \in [Replicas -> Certs] /\ cert \in [Replicas -> Certs]
  /\ serving \in [Replicas -> Certs] /\ loaded \in [Replicas -> Certs]
  /\ late \in SUBSET [obj : Objects, val : Certs, rv : Nat]
  /\ settled \in BOOLEAN
  /\ budget \in [{"error", "loss", "restart", "aging"} -> Nat]

Init ==
  /\ store = [o \in Objects |-> [val |-> Absent, rv |-> 0]]
  /\ aged = {} /\ gens = 0 /\ leaves = 0
  /\ holder = Nobody /\ elect = [r \in Replicas |-> "waiting"]
  /\ pc = [r \in Replicas |-> "off"]
  /\ obj = [r \in Replicas |-> "ca"]
  /\ seen = [r \in Replicas |-> 0] /\ tries = [r \in Replicas |-> 0]
  /\ want = [r \in Replicas |-> Absent] /\ ca = want /\ cert = want
  /\ serving = want /\ loaded = want
  /\ late = {} /\ settled = FALSE
  /\ budget = [error |-> MaxErrors, loss |-> MaxLosses,
               restart |-> MaxRestarts, aging |-> MaxAgings]

Goto(r, label) == pc' = [pc EXCEPT ![r] = label]
Spend(what)    == budget[what] > 0 /\ budget' = [budget EXCEPT ![what] = @ - 1]

\* The API server carries a write out; equal content leaves the version alone.
Put(o, v) ==
  store' = IF store[o].val = v THEN store
           ELSE [store EXCEPT ![o] = [val |-> v, rv |-> @.rv + 1]]

\* The locals of a pass, dropped when it ends.
Forget(r) ==
  /\ obj' = [obj EXCEPT ![r] = "ca"]
  /\ want' = [want EXCEPT ![r] = Absent]
  /\ seen' = [seen EXCEPT ![r] = 0]
  /\ tries' = [tries EXCEPT ![r] = 0]
  /\ ca' = [ca EXCEPT ![r] = Absent]
  /\ cert' = [cert EXCEPT ![r] = Absent]

-----------------------------------------------------------------------------
(* Leader election and the rotation loop.                                  *)

\* OnStartedLeading: loop.run begins with a pass.
RunLeaderElection(r) ==
  /\ elect[r] = "waiting" /\ holder \in {Nobody, r}
  /\ holder' = r /\ elect' = [elect EXCEPT ![r] = "leading"]
  /\ Goto(r, "ensureLease") /\ settled' = FALSE
  /\ UNCHANGED <<store, aged, made, obj, want, seen, tries, ca, cert, reload,
                 late, budget>>

\* The ticker of CertificateRotationLoop.
Tick(r) ==
  /\ pc[r] = "wait"
  /\ Goto(r, "ensureLease") /\ settled' = FALSE
  /\ UNCHANGED <<store, aged, made, election, obj, want, seen, tries, ca, cert,
                 reload, late, budget>>

-----------------------------------------------------------------------------
(* One pass of Ensure.                                                     *)

\* The elector has created the Lease, so Get finds it.
ensureLease(r) ==
  /\ pc[r] = "ensureLease"
  /\ Goto(r, "readCA")
  /\ UNCHANGED <<store, aged, made, election, obj, want, seen, tries, ca, cert,
                 reload, late, settled, budget>>

\* Begin to apply content v to object o.
Apply(r, o, v) ==
  /\ obj' = [obj EXCEPT ![r] = o]
  /\ want' = [want EXCEPT ![r] = v]
  /\ Goto(r, "get")

\* A new CA, whose leaf is generated once the CA Secret is written.
rotateCertificateBundle(r) ==
  /\ gens' = gens + 1
  /\ ca' = [ca EXCEPT ![r] = CA(gens + 1)]
  /\ Apply(r, "ca", CA(gens + 1))
  /\ UNCHANGED <<leaves, cert>>

\* A new leaf under CA c.
rotateLeafCertificate(r, c) ==
  /\ leaves' = leaves + 1
  /\ Apply(r, "tls", [ca |-> c.ca, leaf |-> leaves + 1])
  /\ UNCHANGED <<gens, cert>>

\* readCertificateResources, the CA Secret.
readCA(r) ==
  /\ pc[r] = "readCA"
  /\ IF store["ca"].rv = 0
     THEN rotateCertificateBundle(r)
     ELSE /\ ca' = [ca EXCEPT ![r] = store["ca"].val]
          /\ Goto(r, "readTLS") /\ UNCHANGED <<made, obj, want, cert>>
  /\ UNCHANGED <<store, aged, election, seen, tries, reload, late, settled,
                 budget>>

\* Mutant: a leaf is healthy although another CA signed it.
EvaluateCertificateHealthAnyCA(c, l) ==
  IF c \in aged THEN "RotateCertificateBundle"
  ELSE IF l = Absent \/ l \in aged THEN "RotateLeafCertificate"
  ELSE "CertificateHealthy"

\* EvaluateCertificateHealth of a CA and a leaf (Absent fails to parse).
EvaluateCertificateHealth(c, l) ==
  IF c \in aged THEN "RotateCertificateBundle"
  ELSE IF l = Absent \/ l \in aged \/ l.ca # c.ca THEN "RotateLeafCertificate"
  ELSE "CertificateHealthy"

\* readCertificateResources, the TLS Secret, then ensureCertificateResources.
readTLS(r) ==
  LET l == store["tls"].val
      action == EvaluateCertificateHealth(ca[r], l)
  IN
  /\ pc[r] = "readTLS"
  /\ \/ action = "RotateCertificateBundle" /\ rotateCertificateBundle(r)
     \/ action = "RotateLeafCertificate" /\ rotateLeafCertificate(r, ca[r])
        /\ UNCHANGED ca
     \/ /\ action = "CertificateHealthy"
        /\ cert' = [cert EXCEPT ![r] = l]
        /\ Apply(r, "webhook", ca[r]) /\ UNCHANGED <<made, ca>>
  /\ UNCHANGED <<store, aged, election, seen, tries, reload, late, settled,
                 budget>>

\* What follows once the object has been written.
Applied(r) ==
  /\ \/ /\ obj[r] = "ca"
        /\ rotateLeafCertificate(r, ca[r])
     \/ /\ obj[r] = "tls"
        /\ cert' = [cert EXCEPT ![r] = want[r]]
        /\ Apply(r, "webhook", ca[r]) /\ UNCHANGED made
     \/ /\ obj[r] = "webhook"
        /\ Goto(r, "SetCertificate") /\ UNCHANGED <<made, obj, want, cert>>
  /\ seen' = [seen EXCEPT ![r] = 0] /\ tries' = [tries EXCEPT ![r] = 0]

Fail(r) == Goto(r, "wait") /\ Forget(r)

\* applyCASecret, applyTLSSecret and ensureWebhook have the same shape: Get,
\* Create if there is none, and otherwise Update until it does not conflict.
applyGet(r) ==
  /\ pc[r] = "get"
  /\ Goto(r, IF store[obj[r]].rv = 0 THEN "create" ELSE "update")
  /\ seen' = [seen EXCEPT ![r] = store[obj[r]].rv]
  /\ UNCHANGED <<store, made, obj, want, tries, ca, cert>>

applyCreate(r) ==
  /\ pc[r] = "create"
  /\ IF store[obj[r]].rv = 0
     THEN Put(obj[r], want[r]) /\ Applied(r) /\ UNCHANGED ca
     ELSE Goto(r, "reget") /\ UNCHANGED <<store, made, obj, want, seen, tries, ca, cert>>

\* Mutant: the object is not read again after a conflict.
applyRegetStale(r) ==
  /\ pc[r] = "reget"
  /\ Goto(r, "update")
  /\ UNCHANGED <<store, made, obj, want, seen, tries, ca, cert>>

applyReget(r) ==
  /\ pc[r] = "reget"
  /\ seen' = [seen EXCEPT ![r] = store[obj[r]].rv]
  /\ Goto(r, "update")
  /\ UNCHANGED <<store, made, obj, want, tries, ca, cert>>

applyUpdate(r) ==
  /\ pc[r] = "update"
  /\ \/ /\ store[obj[r]].rv = seen[r]
        /\ Put(obj[r], want[r]) /\ Applied(r) /\ UNCHANGED ca
     \/ /\ store[obj[r]].rv # seen[r] /\ tries[r] + 1 < MaxTries
        /\ tries' = [tries EXCEPT ![r] = @ + 1]
        /\ Goto(r, "reget") /\ UNCHANGED <<store, made, obj, want, seen, ca, cert>>
     \/ /\ store[obj[r]].rv # seen[r] /\ tries[r] + 1 = MaxTries
        /\ Fail(r) /\ UNCHANGED <<store, made>>

ApplyStep(r) ==
  /\ applyGet(r) \/ applyCreate(r) \/ applyReget(r) \/ applyUpdate(r)
  /\ UNCHANGED <<aged, election, reload, late, settled, budget>>

applyCASecret(r)  == obj[r] = "ca" /\ ApplyStep(r)
applyTLSSecret(r) == obj[r] = "tls" /\ ApplyStep(r)
ensureWebhook(r)  == obj[r] = "webhook" /\ ApplyStep(r)

\* ensureAndReload stores the certificate that Ensure returned.
SetCertificate(r) ==
  /\ pc[r] = "SetCertificate"
  /\ serving' = [serving EXCEPT ![r] = cert[r]]
  /\ Goto(r, IF elect[r] = "leading" THEN "wait" ELSE "off") /\ Forget(r)
  /\ settled' = (settled \/ elect[r] = "leading")
  /\ UNCHANGED <<store, aged, made, election, loaded, late, budget>>

\* The write that replica r has sent and not seen answered, if any.
InFlight(r) ==
  IF pc[r] \in {"create", "update"}
  THEN {[obj |-> obj[r], val |-> want[r], rv |-> IF pc[r] = "create" THEN 0 ELSE seen[r]]}
  ELSE {}

\* An API call returns an error: the pass ends.  A write that timed out may
\* still be carried out, at once or later.
APIError(r) ==
  /\ Spend("error")
  /\ pc[r] \in {"ensureLease", "readCA", "readTLS", "get", "create", "reget", "update"}
  /\ Fail(r)
  /\ late' \in {late, late \cup InFlight(r)}
  /\ UNCHANGED <<store, aged, made, election, reload, settled>>

-----------------------------------------------------------------------------
(* The refresh loop of every replica.                                      *)

\* Mutant: a replica that has a certificate does not look for a newer one.
LoadTLSCertificateOnce(r) ==
  /\ loaded[r] = Absent /\ serving[r] = Absent /\ store["tls"].rv # 0
  /\ loaded' = [loaded EXCEPT ![r] = store["tls"].val]
  /\ UNCHANGED <<store, aged, made, election, pass, serving, late, settled, budget>>

LoadTLSCertificateFromSecret(r) ==
  /\ loaded[r] = Absent /\ store["tls"].rv # 0
  /\ loaded' = [loaded EXCEPT ![r] = store["tls"].val]
  /\ UNCHANGED <<store, aged, made, election, pass, serving, late, settled, budget>>

RefreshTLSCertificateFromSecret(r) ==
  /\ loaded[r] # Absent
  /\ serving' = [serving EXCEPT ![r] = loaded[r]]
  /\ loaded' = [loaded EXCEPT ![r] = Absent]
  /\ UNCHANGED <<store, aged, made, election, pass, late, settled, budget>>

-----------------------------------------------------------------------------
(* What the environment does.                                              *)

\* A leader fails to renew in time: the context of its pass is cancelled (one
\* that has made its last call still ends), the lease is released or left to
\* expire, elector.Run returns and nothing calls it again.
LoseLease(r) ==
  /\ elect[r] = "leading" /\ Spend("loss")
  /\ holder' \in {Nobody, r} /\ elect' = [elect EXCEPT ![r] = "ended"]
  /\ IF pc[r] = "SetCertificate" THEN UNCHANGED pass
     ELSE Goto(r, "off") /\ Forget(r)
  /\ late' \in {late, late \cup InFlight(r)}
  /\ UNCHANGED <<store, aged, made, reload, settled>>

\* The pod is restarted; its lease, if any, is left to expire.
Restart(r) ==
  /\ Spend("restart")
  /\ elect' = [elect EXCEPT ![r] = "waiting"]
  /\ Goto(r, "off") /\ Forget(r)
  /\ serving' = [serving EXCEPT ![r] = Absent]
  /\ loaded' = [loaded EXCEPT ![r] = Absent]
  /\ late' \in {late, late \cup InFlight(r)}
  /\ UNCHANGED <<store, aged, made, holder, settled>>

Expire ==
  /\ holder \in Replicas /\ elect[holder] # "leading"
  /\ holder' = Nobody
  /\ UNCHANGED <<store, aged, made, elect, pass, reload, late, settled, budget>>

\* The server gets to a write whose client has gone.
LateWrite(w) ==
  /\ w \in late /\ late' = late \ {w}
  /\ IF store[w.obj].rv = w.rv THEN Put(w.obj, w.val) ELSE UNCHANGED store
  /\ UNCHANGED <<aged, made, election, pass, reload, settled, budget>>

\* Time passes: a stored certificate enters its renewal window.
Age(o) ==
  /\ store[o].rv # 0 /\ store[o].val \notin aged /\ Spend("aging")
  /\ aged' = aged \cup {store[o].val}
  /\ UNCHANGED <<store, made, election, pass, reload, late, settled>>

-----------------------------------------------------------------------------
Ensure(r) ==
  \/ ensureLease(r) \/ readCA(r) \/ readTLS(r)
  \/ applyCASecret(r) \/ applyTLSSecret(r) \/ ensureWebhook(r)
  \/ SetCertificate(r)

Refresh(r) == LoadTLSCertificateFromSecret(r) \/ RefreshTLSCertificateFromSecret(r)

Next ==
  \/ \E r \in Replicas :
       \/ RunLeaderElection(r) \/ Tick(r) \/ Ensure(r) \/ Refresh(r)
       \/ APIError(r) \/ LoseLease(r) \/ Restart(r)
  \/ Expire
  \/ \E w \in late : LateWrite(w)
  \/ \E o \in {"ca", "tls"} : Age(o)

Spec == Init /\ [][Next]_vars

\* Goroutines are scheduled, tickers fire, leases expire and are contended for.
FairSpec ==
  /\ Spec
  /\ \A r \in Replicas :
       /\ WF_vars(RunLeaderElection(r)) /\ WF_vars(Tick(r))
       /\ WF_vars(Ensure(r)) /\ WF_vars(Refresh(r))
  /\ WF_vars(Expire)

-----------------------------------------------------------------------------
(* Properties.                                                             *)

\* The API server trusts the CA that signed the leaf it will be shown.
Consistent ==
  /\ store["webhook"].val = store["ca"].val
  /\ store["tls"].val.ca = store["ca"].val.ca
  /\ store["ca"].val # Absent

\* Once the last pass of Ensure to begin has ended without an error, the API
\* server trusts the leaf in the TLS Secret, and no write that an earlier
\* leader left on its way can undo it: by then its resource version is stale,
\* or its content belongs to the same CA.
SettledTrusted == settled => store["webhook"].val.ca = store["tls"].val.ca

\* A leader meets at most one conflict on an object: the writes of leaders that
\* are gone all carry versions from before its pass, and at most one of them
\* can still be carried out.  RetryOnConflict is never exhausted by them.
OneConflict == \A r \in Replicas : tries[r] <= 1

\* Whatever was lost, delayed or restarted, in the end every replica serves a
\* leaf that the webhook configuration trusts, and neither it nor the CA is
\* due for renewal: passes that ended half-way are repaired by the next one.
EventuallyTrusted ==
  <>[](/\ Consistent
       /\ store["ca"].val \notin aged /\ store["tls"].val \notin aged
       /\ \A r \in Replicas : serving[r] = store["tls"].val)

\* "one elected replica manages certificate resources and webhook
\* configuration" (sysbox-admission/README.md): there is always a leader again.
AlwaysLedAgain == []<>(\E r \in Replicas : elect[r] = "leading")
=============================================================================
