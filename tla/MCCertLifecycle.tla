-------------------------- MODULE MCCertLifecycle --------------------------
(* CertLifecycle for TLC: replicas are interchangeable.                    *)
EXTENDS CertLifecycle, TLC

Symmetry == Permutations(Replicas)
=============================================================================
