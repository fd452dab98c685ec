----------------------------- MODULE MCKeyring -----------------------------
(***************************************************************************)
(* Keyring for TLC: ranges of up to three chunks, four transactions.       *)
(***************************************************************************)
EXTENDS Keyring, TLC

CONSTANTS c1, r1, t1, t2, t3, t4

MCRank == t1 :> 1 @@ t2 :> 2 @@ t3 :> 3 @@ t4 :> 4
=============================================================================
