------------------------------- MODULE MCSync -------------------------------
(***************************************************************************)
(* Small instances of WalletSync for TLC: two transactions of one account, *)
(* one of them on an address that only a full scan finds.                  *)
(***************************************************************************)
EXTENDS WalletSync, TLC

CONSTANTS a, b, t1, t2, j1, j2

MCOwner == [t \in Txs |-> a]
MCSelections == {Accounts}
Symmetric == Permutations(Jobs)
=============================================================================
