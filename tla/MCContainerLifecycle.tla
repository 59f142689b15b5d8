------------------------ MODULE MCContainerLifecycle ------------------------
(* Model checking of ContainerLifecycle and of its refinement of             *)
(* OCILifecycle.                                                             *)
EXTENDS ContainerLifecycle

\* A start that waits on the exec fifo always returns once the container is
\* gone or let go, even if it lost the race for the byte (exec's 100 ms poll).
StartReturns == \A p \in Procs : proc[p].pc \in {"wait", "read"} ~> proc[p].pc \notin {"wait", "read"}

\* A container that is force-deleted until it is gone does go, whatever was
\* killed, paused or half created before (delete.go, Signal's thaw).
EventuallyDeleted == <>[](~dir.exists)

MCHosts == {[pidns |-> TRUE, v1 |-> TRUE], [pidns |-> FALSE, v1 |-> FALSE]}
=============================================================================
