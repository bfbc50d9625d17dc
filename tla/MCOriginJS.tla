----------------------------- MODULE MCOriginJS ------------------------------
(* Model values and small instances for OriginJS. *)
EXTENDS OriginJS, TLC

CONSTANTS admin, agent, issuer, weak, mladmin, mlagent, mlissuer, iff, old

\* For instances in which admin and agent occur in the same sets of keys.
EitherParty == Permutations({admin, agent})
=============================================================================
