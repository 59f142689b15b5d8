---------------------------- MODULE OCILifecycle ----------------------------
(***************************************************************************)
(* What the runtime promises about one container ID: the life cycle that    *)
(* libcontainer/state_linux.go and libcontainer/container.go (Status)       *)
(* describe.  `status' is what the container IS, whatever a command of the  *)
(* runtime that looks at it reports.                                        *)
(***************************************************************************)
VARIABLE status

Statuses == {"none", "creating", "created", "running", "stopped"}

Init == status = "none"

Create == status = "none" /\ status' = "creating"
Created == status = "creating" /\ status' = "created"
Start == status = "created" /\ status' = "running"
Stop == status \in {"creating", "created", "running"} /\ status' = "stopped"
\* an aborted creation, or a container that no longer runs, may be removed
Delete == status \in {"creating", "stopped"} /\ status' = "none"

Next == Create \/ Created \/ Start \/ Stop \/ Delete

\* The abstract life cycle: a container is created before it runs, runs at
\* most once, and its state is only removed when it does not run.
Spec == Init /\ [][Next]_status
=============================================================================
