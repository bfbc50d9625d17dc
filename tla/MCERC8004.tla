----------------------------- MODULE MCERC8004 ------------------------------
(* Model values and small instances for ERC8004. *)
EXTENDS ERC8004, TLC

CONSTANTS admin, agent, issuer, weak, mladmin, iff, old, wallet
=============================================================================
