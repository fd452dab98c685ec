----------------------------- MODULE MCAccounts -----------------------------
(***************************************************************************)
(* Small instances of AccountStore for TLC.                                *)
(***************************************************************************)
EXTENDS AccountRequirements, TLC

CONSTANTS main, test, signet, c1, c2, c3, c4, i1, i2, i3, i4

SharedNetworks == {main, test, signet}
SharedCoinType == main :> 0 @@ test :> 1 @@ signet :> 1
BatchMain == {main}
MainOnly == {main}
MainCoinType == main :> 0
Symmetric == Permutations(Calls) \cup Permutations(Ids)
=============================================================================
