------------------------ MODULE AccountRequirements ------------------------
(***************************************************************************)
(* The properties of AccountStore.                                         *)
(***************************************************************************)
EXTENDS AccountStore

\* Every variable of the registry has its type, and a call that has begun has
\* a request.  (The shape of SnapState, entities/snap.ts.)
TypeOK ==
    /\ accounts \in [Ids -> Account \cup {NoAccount}]
    /\ index \in [Paths -> Ids \cup {NoId}]
    /\ inflight \subseteq Writes
    /\ announced \subseteq Ids
    /\ scans \subseteq Ids
    /\ issued \in Nat
    /\ settled \subseteq Nat
    /\ pc \in [Calls -> PCs]
    /\ req \in [Calls -> AllRequests \cup {NoRequest}]
    /\ ticket \in [Calls -> Nat]
    /\ result \in [Calls -> SUBSET (Paths \X Ids)]
    /\ fresh \in [Calls -> SUBSET (Paths \X Ids)]
    /\ indexCopy \in [Calls -> [Paths -> Ids \cup {NoId}]]
    /\ drawn \subseteq Ids
    /\ removed \subseteq Ids
    /\ faults \in 0..MaxFaults

\* The chain of promises of #runAccountMutation lets one mutation run at a
\* time, whatever ends it: a result, an error, a lost write, a restart.
MutualExclusion ==
    \A c, d \in Calls : pc[c] \in Mutating /\ pc[d] \in Mutating => c = d

\* Asking for the same account twice gives the same account, by create or by
\* createMany, concurrently or not, unless its deletion was begun meanwhile
\* ("Idempotent account creation", AccountUseCases.create).
Idempotent ==
    \A c, d \in Calls : \A e \in result[c], f \in result[d] :
        /\ pc[c] = "done" /\ pc[d] = "done"
        /\ req[c].net = req[d].net
        /\ e[1] = f[1]
        => e[2] = f[2] \/ {e[2], f[2]} \cap removed # {}

\* Between mutations the path index and the accounts say the same: each
\* stored account is the one its path leads to, and no entry dangles.
IndexAgrees ==
    (\A c \in Calls : pc[c] \notin Mutating) =>
        {<<p, index[p]>> : p \in {q \in Paths : index[q] # NoId}}
            = {<<accounts[id].path, id>> : id \in Stored}

\* create never hands out the account of another network, although the test
\* networks share the path it looks up.
ResultIsRequested ==
    \A c \in Calls : \A e \in result[c] :
        pc[c] = "done" /\ req[c].op = "create" /\ e[2] \in Stored =>
            accounts[e[2]].path = e[1] /\ accounts[e[2]].net = req[c].net

\* An account the client was told of is in the persisted state until the
\* client is told that it is gone: the created event follows the writes and
\* the deleted event precedes them, in create and delete.
AnnouncedAreStored == announced \subseteq Stored

\* A batch creates an account for a path only if no stored account of that
\* network has it, also after a crash left an account out of the index
\* (getByDerivationPaths falls back to the account states).
BatchFindsStored ==
    [][\A c \in Calls :
          pc[c] = "scan" /\ pc'[c] \in {"batch", "repairing"} =>
              \A p \in Missing(c)' : \A id \in AtPath(p) : accounts[id].net # req[c].net]_vars

\* A stored record always has its derivation path: AccountState requires it
\* (entities/snap.ts), and every reader of the whole state relies on it.
StoredAreWhole == \A id \in Ids : ~Broken(id)

\* Seen as a map, the persisted accounts are the registry of Registry.tla.
AccountRegistry == INSTANCE Registry WITH
    reg <- {[id |-> id, path |-> accounts[id].path, net |-> accounts[id].net] : id \in Stored},
    condemned <- removed

\* The writes of concurrent calls implement the atomic registry: no account
\* is duplicated, dropped or changed by a mutation of another.
RegistryImplemented == AccountRegistry!Spec

\* No call waits for ever: whatever happens to a call, its promise is
\* resolved, so every call that has begun ends.
AllCallsFinish == \A c \in Calls : pc[c] # "idle" ~> pc[c] \in Finished
=============================================================================
