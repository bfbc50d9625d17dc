------------------------------ MODULE MCOrigin -------------------------------
(* Model values and small instances for OriginProtocol. *)
EXTENDS OriginProtocol, TLC

\* Ed25519 keys, one of them refused by the strict check of 0.2, and ML-DSA-65
\* keys; a service name, and one whose spelling only version 0.1 accepts.
CONSTANTS admin, agent, issuer, weak, mladmin, mlagent, mlissuer, iff, old
=============================================================================
