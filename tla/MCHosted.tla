------------------------------- MODULE MCHosted -------------------------------
(***************************************************************************)
(* A bounded instance of HostedRun: three runs, two of them with the same  *)
(* original, the third one against another issuer's service; all share one *)
(* state directory.                                                        *)
(***************************************************************************)
EXTENDS HostedRun, TLC

CONSTANTS r1, r2, r3, i1, i2, x, y

Started(issuer, original, visibility) ==
    [issuer |-> issuer, original |-> original, visibility |-> visibility]

Settings ==
    r1 :> Started(i1, x, "private") @@ r2 :> Started(i1, x, "public") @@
    r3 :> Started(i2, y, "private")
==============================================================================
