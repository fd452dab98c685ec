------------------------------ MODULE Registry ------------------------------
(***************************************************************************)
(* What the account use cases promise: a registry that never holds two     *)
(* accounts for the same derivation path and network, in which an account, *)
(* once added, stays as it is until someone asks to remove it, and whose   *)
(* ids are never used twice.                                               *)
(***************************************************************************)
CONSTANTS Ids, Networks, Paths

VARIABLES
    reg,        \* the accounts: [id, path, net]
    condemned   \* the ids whose removal was asked for

Entries == [id : Ids, path : Paths, net : Networks]
IdsOf(entries) == {e.id : e \in entries}

Init == reg = {} /\ condemned = {}

\* Accounts appear, one or a batch at once, none for a path and network that
\* has one, none under an id that was used.
Add ==
    /\ reg' \in SUBSET Entries
    /\ reg \subseteq reg'
    /\ reg' # reg
    /\ \A new \in reg' \ reg :
          /\ new.id \notin condemned
          /\ \A e \in reg' :
                e.id = new.id \/ (e.path = new.path /\ e.net = new.net) => e = new
    /\ UNCHANGED condemned

Condemn(id) ==
    /\ id \in IdsOf(reg)
    /\ condemned' = condemned \cup {id}
    /\ UNCHANGED reg

Remove(id) ==
    /\ id \in condemned
    /\ reg' = {e \in reg : e.id # id}
    /\ UNCHANGED condemned

Next == Add \/ \E id \in Ids : Condemn(id) \/ Remove(id)

Spec == Init /\ [][Next]_<<reg, condemned>>

\* At most one account for each derivation path and network.
OnePerPath == \A d, e \in reg : d.path = e.path /\ d.net = e.net => d = e
=============================================================================
