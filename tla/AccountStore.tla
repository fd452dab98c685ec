---------------------------- MODULE AccountStore ----------------------------
(***************************************************************************)
(* The account registry of the snap: the account mutations of              *)
(* AccountUseCases (create, createMany, delete) with the account update    *)
(* that synchronisation and broadcasting end in, over the persisted state  *)
(* BdkAccountRepository keeps.                                             *)
(*                                                                         *)
(* The snap is one JavaScript thread: a handler runs alone until it        *)
(* awaits, so an action is the code between two awaits of one call.  A     *)
(* read of the persisted state takes effect when the host serves it; a     *)
(* write is handed to the host (inflight) and lands later.  Two writes of  *)
(* one Promise.all land in either order.                                   *)
(*                                                                         *)
(* Abstractions.  A derivation path is entropy source, purpose, coin type  *)
(* and index.  One entropy source and one address type are modelled, so a  *)
(* path is <<coin type, slot>>; the network is not part of it, but of the  *)
(* wallet.  A wallet is the set of updates merged into it, and a record    *)
(* without a path may have none.  The inscriptions have no value here: no  *)
(* MetaProtocolsClient is configured in index.ts, so they are always [].   *)
(* That they are written is modelled.  Reads that the code issues together *)
(* (derivationPaths and accounts) are one step.                            *)
(***************************************************************************)
EXTENDS Naturals, FiniteSets

CONSTANTS
    Calls,          \* the requests the snap serves, one mutation or update each
    Ids,            \* account ids (uuid v4)
    Networks,       \* Bitcoin networks
    CoinType,       \* the SLIP-44 coin type of each network
    BatchNetworks,  \* the networks a batch creation is asked for (mainnet)
    Slots,          \* BIP-44 account indices
    ReqSlots,       \* the account indices a client asks for explicitly
    Ops,            \* the operations the calls may ask for
    MaxFaults,      \* bound on failed host calls and crashes
    NoId, NoAccount, NoPath

ASSUME CoinTypeAssumption == CoinType \in [Networks -> Nat]
ASSUME BatchAssumption == BatchNetworks \subseteq Networks
ASSUME SlotAssumption == Slots \subseteq Nat /\ ReqSlots \subseteq Slots
ASSUME FaultAssumption == MaxFaults \in Nat
ASSUME NullAssumption == NoId \notin Ids /\ NoPath \notin (Nat \X Slots)

Paths == {CoinType[n] : n \in Networks} \X Slots
PathOf(net, slot) == <<CoinType[net], slot>>

Account == [path : Paths \cup {NoPath}, net : Networks, wallet : SUBSET Calls]

ASSUME NoAccountAssumption == NoAccount \notin Account

CreateRequests == [op : {"create"}, net : Networks, slot : Slots]
NextRequests   == [op : {"createNext"}, net : Networks]
BatchRequests  == [op : {"createMany"}, net : BatchNetworks, slots : SUBSET ReqSlots \ {{}}]
DeleteRequests == [op : {"delete"}, id : Ids]
UpdateRequests == [op : {"update"}, id : Ids]
AllRequests    == CreateRequests \cup NextRequests \cup BatchRequests
                  \cup DeleteRequests \cup UpdateRequests

\* What a client may ask: an account index only within ReqSlots.
Requests == {r \in AllRequests : r.op \in Ops /\ (r.op = "create" => r.slot \in ReqSlots)}

NoRequest == [op |-> "none"]

VARIABLES
    accounts,   \* persisted state: id -> account, or NoAccount
    index,      \* persisted state: derivation path -> id, or NoId
    inflight,   \* state writes handed to the host that have not landed
    announced,  \* ids the client was told of by an AccountCreated event
    scans,      \* ids for which a full scan was scheduled
    issued,     \* how many promises #accountMutationQueue has held
    settled,    \* which of them are resolved; 0 is the initial Promise.resolve()
    pc,         \* where each call is suspended
    req,        \* what each call was asked
    ticket,     \* the number of the promise each call put in the queue
    result,     \* the <<path, id>> pairs each call returns
    fresh,      \* the <<path, id>> pairs each call is inserting
    indexCopy,  \* the path index each batch insertion read
    drawn,      \* ids generated so far
    removed,    \* history: ids whose deletion has begun
    faults      \* failed host calls and crashes so far

store == <<accounts, index, inflight>>
host  == <<announced, scans>>
queue == <<issued, settled>>
local == <<req, ticket, result, fresh, indexCopy>>
ghost == <<drawn, removed, faults>>
vars  == <<store, host, queue, pc, local, ghost>>

-----------------------------------------------------------------------------
(* Vocabulary.                                                             *)

Idle      == {"idle"}
Finished  == {"done", "failed"}
Merging   == {"merging", "marking"}
Unqueued  == {"listing", "loading", "syncing"} \cup Merging
Awaiting  == {"lookup", "fetch", "derive", "announce", "schedule", "scan", "batch",
              "reading", "find", "retract", "remove"}
Writing   == {"storing", "repairing", "storingAccounts", "removing"}
Mutating  == Awaiting \cup Writing
PCs       == Idle \cup Finished \cup Unqueued \cup {"queued"} \cup Mutating

IndexWrite    == [kind : {"index"}, by : Calls, path : Paths, id : Ids \cup {NoId}]
AccountWrite  == [kind : {"account"}, by : Calls, id : Ids, account : Account \cup {NoAccount}]
WalletWrite   == [kind : {"wallet"}, by : Calls, id : Ids, net : Networks,
                  part : {"wallet", "inscriptions"}, wallet : SUBSET Calls]
IndexesWrite  == [kind : {"indexes"}, by : Calls, index : [Paths -> Ids \cup {NoId}]]
AccountsWrite == [kind : {"accounts"}, by : Calls, accounts : [Ids -> Account \cup {NoAccount}]]
Writes == IndexWrite \cup AccountWrite \cup WalletWrite \cup IndexesWrite \cup AccountsWrite

\* A stored record is whole when it still has its derivation path.
Whole(id)   == accounts[id] # NoAccount /\ accounts[id].path # NoPath
Broken(id)  == accounts[id] # NoAccount /\ accounts[id].path = NoPath
Stored      == {id \in Ids : Whole(id)}

\* A record has no wallet only if a write of inscriptions made it.
HasWallet(id) == accounts[id] # NoAccount /\ (Broken(id) => accounts[id].wallet # {})

Landed(c)   == \A w \in inflight : w.by # c
WantedPath(c)  == PathOf(req[c].net, req[c].slot)
WantedPaths(c) == {PathOf(req[c].net, s) : s \in req[c].slots}
Missing(c)  == WantedPaths(c) \ {e[1] : e \in result[c]}
\* Mutant: the coin type is stored in the place of the network.
NewAccountCoinType(c, path) ==
    [path |-> path, net |-> CoinType[req[c].net], wallet |-> {}]
NewAccount(c, path) == [path |-> path, net |-> req[c].net, wallet |-> {}]

Goto(c, l)  == pc' = [pc EXCEPT ![c] = l]

\* Mutant: the promise is resolved on success only, without a finally.
ReturnNoFinally(c, outcome) ==
    /\ Goto(c, outcome)
    /\ settled' = IF outcome = "done" THEN settled \cup {ticket[c]} ELSE settled

\* The call ends; the finally of #runAccountMutation resolves its promise.
Return(c, outcome) ==
    /\ Goto(c, outcome)
    /\ settled' = settled \cup {ticket[c]}

-----------------------------------------------------------------------------
(* The start of a call, and the mutation queue.                            *)

\* Mutant: the call's promise does not become the tail.
EnqueueSameTail(c) ==
    /\ issued' = issued
    /\ ticket' = [ticket EXCEPT ![c] = issued + 1]
    /\ Goto(c, "queued")

\* #runAccountMutation replaces the tail promise by the call's own.
Enqueue(c) ==
    /\ issued' = issued + 1
    /\ ticket' = [ticket EXCEPT ![c] = issued + 1]
    /\ Goto(c, "queued")

Begin(c) ==
    /\ pc[c] = "idle"
    /\ \E r \in Requests :
          /\ req' = [req EXCEPT ![c] = r]
          /\ CASE r.op = "createNext" -> Goto(c, "listing") /\ UNCHANGED <<issued, ticket>>
               [] r.op = "update"     -> Goto(c, "loading") /\ UNCHANGED <<issued, ticket>>
               [] OTHER               -> Enqueue(c)
    /\ UNCHANGED <<store, host, settled, result, fresh, indexCopy, ghost>>

\* An await of the promise that was the tail when the call came.
MayEnter(c) == ticket[c] - 1 \in settled

Acquire(c) ==
    /\ pc[c] = "queued"
    /\ MayEnter(c)
    /\ Goto(c, CASE req[c].op = "create"     -> "lookup"
                 [] req[c].op = "createMany" -> "scan"
                 [] OTHER                    -> "find")
    /\ UNCHANGED <<store, host, queue, local, ghost>>

-----------------------------------------------------------------------------
(* Creating one account.                                                   *)

AccountsAt(net, slot) ==
    {id \in Stored : accounts[id].net = net /\ accounts[id].path = PathOf(net, slot)}

\* The loop of #getLowestUnusedIndex over the sorted indices in use: it walks
\* 0, 1, 2... and stops at the first index that is not the one expected,
\* which is a gap or an index that occurs twice.
IsLowestUnused(net, k) ==
    /\ \A m \in Slots : m + 1 < k => Cardinality(AccountsAt(net, m)) = 1
    /\ \A m \in Slots : m + 1 = k => AccountsAt(net, m) # {}
    /\ \/ AccountsAt(net, k) = {}
       \/ \E m \in Slots : m + 1 = k /\ Cardinality(AccountsAt(net, m)) > 1

\* createAccount without an index lists the accounts outside the queue, then
\* asks for the lowest unused index.  A record without a path is a TypeError.
ChooseIndex(c) ==
    /\ pc[c] = "listing"
    /\ \/ /\ \A id \in Ids : ~Broken(id)
          /\ \E k \in Slots :
                /\ IsLowestUnused(req[c].net, k)
                /\ req' = [req EXCEPT ![c] = [op |-> "create", net |-> req[c].net, slot |-> k]]
          /\ Enqueue(c)
       \/ /\ \E id \in Ids : Broken(id)
          /\ Goto(c, "failed")
          /\ UNCHANGED <<req, issued, ticket>>
    /\ UNCHANGED <<store, host, settled, result, fresh, indexCopy, ghost>>

\* getByDerivationPath, first read: the path index.
LookupIndex(c) ==
    /\ pc[c] = "lookup"
    /\ LET id == index[WantedPath(c)] IN
          IF id = NoId
          THEN Goto(c, "derive") /\ UNCHANGED result
          ELSE /\ Goto(c, "fetch")
               /\ result' = [result EXCEPT ![c] = {<<WantedPath(c), id>>}]
    /\ UNCHANGED <<store, host, queue, req, ticket, fresh, indexCopy, ghost>>

\* Mutant: any account of the path is taken for the one asked for.
IsRequestedByPath(c, id) == accounts[id] # NoAccount

\* Is the account that the index names the one asked for?  The path does not
\* tell the test networks apart, so the network is compared as well.
IsRequested(c, id) == accounts[id] # NoAccount /\ accounts[id].net = req[c].net

\* The record is no account: without a wallet it cannot be loaded, and the one
\* asked for is mapped for its event, which takes a path.
IsUnusable(c, id) == Broken(id) /\ (IsRequested(c, id) \/ ~HasWallet(id))

\* getByDerivationPath, second read: the account.
FetchIndexed(c) ==
    /\ pc[c] = "fetch"
    /\ \E e \in result[c] :
          \/ /\ IsUnusable(c, e[2])
             /\ Return(c, "failed")
             /\ UNCHANGED result
          \/ /\ IsRequested(c, e[2]) /\ ~IsUnusable(c, e[2])
             /\ Goto(c, "announce")
             /\ UNCHANGED <<result, settled>>
          \/ /\ ~IsRequested(c, e[2]) /\ ~IsUnusable(c, e[2])
             /\ Goto(c, "derive")
             /\ result' = [result EXCEPT ![c] = {}]
             /\ UNCHANGED settled
    /\ UNCHANGED <<store, host, issued, req, ticket, fresh, indexCopy, ghost>>

InsertWrites(c, path, id) ==
    {[kind |-> "index", by |-> c, path |-> path, id |-> id],
     [kind |-> "account", by |-> c, id |-> id, account |-> NewAccount(c, path)]}

\* repository.create derives the keys and draws an id; repository.insert then
\* starts both writes at once.
Insert(c) ==
    /\ pc[c] = "derive"
    /\ \E id \in Ids \ drawn :
          /\ drawn' = drawn \cup {id}
          /\ fresh' = [fresh EXCEPT ![c] = {<<WantedPath(c), id>>}]
          /\ result' = [result EXCEPT ![c] = {<<WantedPath(c), id>>}]
          /\ inflight' = inflight \cup InsertWrites(c, WantedPath(c), id)
    /\ Goto(c, "storing")
    /\ UNCHANGED <<accounts, index, host, queue, req, ticket, indexCopy, removed, faults>>

\* Mutant: Promise.race in the place of Promise.all.
InsertDoneRace(c) == Cardinality({w \in inflight : w.by = c}) < 2

\* Both writes of the insertion have landed.
InsertDone(c) == Landed(c)

\* The write that ends an insertion is acknowledged.
InsertAcked(c) ==
    /\ pc[c] = "storing"
    /\ InsertDone(c)
    /\ \/ /\ req[c].op = "create"
          /\ Goto(c, "announce")
          /\ UNCHANGED settled
       \/ /\ req[c].op = "createMany"
          /\ Return(c, "done")
    /\ UNCHANGED <<store, host, issued, local, ghost>>

\* emitAccountCreatedEvent, for a new account and for one that existed.  Only
\* a new one is scheduled for a full scan, and only if the client asked to
\* synchronize.
Announce(c) ==
    /\ pc[c] = "announce"
    /\ announced' = announced \cup {e[2] : e \in result[c]}
    /\ \/ /\ Return(c, "done")
       \/ /\ fresh[c] # {}
          /\ Goto(c, "schedule")
          /\ UNCHANGED settled
    /\ UNCHANGED <<store, scans, issued, local, ghost>>

ScheduleScan(c) ==
    /\ pc[c] = "schedule"
    /\ scans' = scans \cup {e[2] : e \in result[c]}
    /\ Return(c, "done")
    /\ UNCHANGED <<store, announced, issued, local, ghost>>

-----------------------------------------------------------------------------
(* Creating a batch of accounts of one network.                            *)

AtPath(path) == {id \in Stored : accounts[id].path = path}

\* Mutant: only the index is consulted.
MatchesIndexOnly(path) ==
    IF index[path] # NoId /\ accounts[index[path]] # NoAccount THEN {index[path]} ELSE {}

\* What getByDerivationPaths may find at a path: the account the index names
\* if it is stored, else any stored account that has the path.
Matches(path) ==
    IF index[path] # NoId /\ accounts[index[path]] # NoAccount
    THEN {index[path]}
    ELSE AtPath(path)

\* getByDerivationPaths reads the whole state, finds each path's account and,
\* if some were not in the index, writes the repaired index back.  The
\* accounts of another network count as repaired and yet as missing.
ScanStore(c) ==
    /\ pc[c] = "scan"
    /\ \A id \in Ids : ~Broken(id)
    /\ \E found \in [WantedPaths(c) -> Ids \cup {NoId}] :
          /\ \A p \in WantedPaths(c) :
                IF Matches(p) = {} THEN found[p] = NoId ELSE found[p] \in Matches(p)
          /\ LET repaired == {p \in WantedPaths(c) : found[p] # NoId /\ index[p] # found[p]}
                 kept == {p \in WantedPaths(c) : found[p] # NoId /\ IsRequested(c, found[p])}
                 newIndex == [p \in Paths |-> IF p \in repaired THEN found[p] ELSE index[p]]
             IN /\ result' = [result EXCEPT ![c] = {<<p, found[p]>> : p \in kept}]
                /\ \/ /\ repaired = {}
                      /\ Goto(c, "batch")
                      /\ UNCHANGED inflight
                   \/ /\ repaired # {}
                      /\ Goto(c, "repairing")
                      /\ inflight' = inflight \cup
                            {[kind |-> "indexes", by |-> c, index |-> newIndex]}
    /\ UNCHANGED <<accounts, index, host, queue, req, ticket, fresh, indexCopy, ghost>>

\* A record without a path: its key cannot be computed, and the call throws.
ScanBroken(c) ==
    /\ pc[c] = "scan"
    /\ \E id \in Ids : Broken(id)
    /\ Return(c, "failed")
    /\ UNCHANGED <<store, host, issued, local, ghost>>

Repaired(c) ==
    /\ pc[c] = "repairing"
    /\ Landed(c)
    /\ Goto(c, "batch")
    /\ UNCHANGED <<store, host, queue, local, ghost>>

\* The accounts that are missing are derived, two at a time (WorkerPool), and
\* inserted: one alone as in create, several by insertMany's whole-map writes.
InsertBatch(c) ==
    /\ pc[c] = "batch"
    /\ \/ /\ Missing(c) = {}
          /\ Return(c, "done")
          /\ UNCHANGED <<inflight, result, fresh, drawn>>
       \/ /\ Missing(c) # {}
          /\ \E id \in [Missing(c) -> Ids \ drawn] :
                /\ \A p, q \in Missing(c) : p # q => id[p] # id[q]
                /\ LET new == {<<p, id[p]>> : p \in Missing(c)} IN
                      /\ drawn' = drawn \cup {e[2] : e \in new}
                      /\ fresh' = [fresh EXCEPT ![c] = new]
                      /\ result' = [result EXCEPT ![c] = @ \cup new]
                      /\ \/ /\ \E p \in Missing(c) :
                                  /\ Missing(c) = {p}
                                  /\ inflight' = inflight \cup InsertWrites(c, p, id[p])
                            /\ Goto(c, "storing")
                         \/ /\ \A p \in Missing(c) : Missing(c) # {p}
                            /\ Goto(c, "reading")
                            /\ UNCHANGED inflight
          /\ UNCHANGED settled
    /\ UNCHANGED <<accounts, index, host, issued, req, ticket, indexCopy, removed, faults>>

AccountsWith(c) ==
    [id \in Ids |-> IF \E e \in fresh[c] : e[2] = id
                    THEN NewAccount(c, (CHOOSE e \in fresh[c] : e[2] = id)[1])
                    ELSE accounts[id]]
\* Mutant: the index is written back without the new entries.
IndexAsRead(c) == indexCopy[c]
IndexWith(c) ==
    [p \in Paths |-> IF \E e \in fresh[c] : e[1] = p
                     THEN (CHOOSE e \in fresh[c] : e[1] = p)[2]
                     ELSE indexCopy[c][p]]

\* insertMany reads both maps, then writes the accounts map with its additions.
ReadStore(c) ==
    /\ pc[c] = "reading"
    /\ indexCopy' = [indexCopy EXCEPT ![c] = index]
    /\ inflight' = inflight \cup
          {[kind |-> "accounts", by |-> c, accounts |-> AccountsWith(c)]}
    /\ Goto(c, "storingAccounts")
    /\ UNCHANGED <<accounts, index, host, queue, req, ticket, result, fresh, ghost>>

\* Only then it writes the index map, from the copy it read before.
WriteIndexes(c) ==
    /\ pc[c] = "storingAccounts"
    /\ Landed(c)
    /\ inflight' = inflight \cup {[kind |-> "indexes", by |-> c, index |-> IndexWith(c)]}
    /\ Goto(c, "storing")
    /\ UNCHANGED <<accounts, index, host, queue, local, ghost>>

-----------------------------------------------------------------------------
(* Deleting an account.                                                    *)

FindAccount(c) ==
    /\ pc[c] = "find"
    /\ \/ /\ HasWallet(req[c].id)
          /\ removed' = removed \cup {req[c].id}
          /\ Goto(c, "retract")
          /\ UNCHANGED settled
       \/ /\ ~HasWallet(req[c].id)
          /\ Return(c, "failed")
          /\ UNCHANGED removed
    /\ UNCHANGED <<store, host, issued, local, drawn, faults>>

\* The client is told before the account goes.
Retract(c) ==
    /\ pc[c] = "retract"
    /\ announced' = announced \ {req[c].id}
    /\ Goto(c, "remove")
    /\ UNCHANGED <<store, scans, queue, local, ghost>>

\* Mutant: the path index keeps the entry of the deleted account.
RemoveWritesKeepIndex(c, id) ==
    {[kind |-> "account", by |-> c, id |-> id, account |-> NoAccount]}

RemoveWrites(c, id) ==
    {[kind |-> "index", by |-> c, path |-> accounts[id].path, id |-> NoId],
     [kind |-> "account", by |-> c, id |-> id, account |-> NoAccount]}

\* repository.delete reads the record again, for its path, and starts both
\* null writes at once.
Remove(c) ==
    /\ pc[c] = "remove"
    /\ LET id == req[c].id IN
          \/ /\ Whole(id)
             /\ inflight' = inflight \cup RemoveWrites(c, id)
             /\ Goto(c, "removing")
             /\ UNCHANGED settled
          \/ /\ accounts[id] = NoAccount
             /\ Return(c, "done")
             /\ UNCHANGED inflight
          \/ /\ Broken(id)
             /\ Return(c, "failed")
             /\ UNCHANGED inflight
    /\ UNCHANGED <<accounts, index, host, issued, local, ghost>>

RemoveAcked(c) ==
    /\ pc[c] = "removing"
    /\ Landed(c)
    /\ Return(c, "done")
    /\ UNCHANGED <<store, host, issued, local, ghost>>

-----------------------------------------------------------------------------
(* Updating an account: synchronize, fullScan and #broadcast load it, work *)
(* on the chain client, and merge what is staged.  Not in the queue.       *)

Load(c) ==
    /\ pc[c] = "loading"
    /\ Goto(c, IF HasWallet(req[c].id) THEN "syncing" ELSE "failed")
    /\ UNCHANGED <<store, host, queue, local, ghost>>

\* Mutant: the whole record is written back, not its wallet alone.
StagedWriteWhole(c, id) ==
    [kind |-> "account", by |-> c, id |-> id,
     account |-> [accounts[id] EXCEPT !.wallet = @ \cup {c}]]

StagedWrite(c, id) ==
    [kind |-> "wallet", by |-> c, id |-> id, net |-> accounts[id].net,
     part |-> "wallet", wallet |-> accounts[id].wallet \cup {c}]

\* repository.update: nothing staged, or read the stored wallet and write it
\* back merged, or find no wallet and throw the StorageError.
MergeStaged(c) ==
    /\ pc[c] = "syncing"
    /\ LET id == req[c].id IN
          \/ Goto(c, "done") /\ UNCHANGED inflight
          \/ /\ HasWallet(id)
             /\ inflight' = inflight \cup {StagedWrite(c, id)}
             /\ Goto(c, "merging")
          \/ ~HasWallet(id) /\ Goto(c, "failed") /\ UNCHANGED inflight
    /\ UNCHANGED <<accounts, index, host, queue, local, ghost>>

\* There is no wallet in it: the network of a record it makes is any.
InscriptionsWrite(c, net) ==
    [kind |-> "wallet", by |-> c, id |-> req[c].id, net |-> net,
     part |-> "inscriptions", wallet |-> {}]

\* A synchronisation that found new transactions, and a full scan, write the
\* inscriptions after the wallet; other updates are done.
MergeAcked(c) ==
    /\ pc[c] = "merging"
    /\ Landed(c)
    /\ \/ Goto(c, "done") /\ UNCHANGED inflight
       \/ /\ \E net \in Networks : inflight' = inflight \cup {InscriptionsWrite(c, net)}
          /\ Goto(c, "marking")
    /\ UNCHANGED <<accounts, index, host, queue, local, ghost>>

MarkAcked(c) ==
    /\ pc[c] = "marking"
    /\ Landed(c)
    /\ Goto(c, "done")
    /\ UNCHANGED <<store, host, queue, local, ghost>>

-----------------------------------------------------------------------------
(* The host: writes land, writes and other calls fail, the snap is killed. *)

Overwritten(w) ==
    IF w.part = "wallet" THEN [accounts[w.id] EXCEPT !.net = w.net, !.wallet = w.wallet]
                         ELSE accounts[w.id]

\* A wallet and its inscriptions are written by nested keys.  On a record that
\* is gone the host either rejects the write or makes a record of that part
\* alone; the code under src/ does not say which (snap_setState is external).
LandWallet(w) ==
    \/ /\ accounts[w.id] # NoAccount
       /\ accounts' = [accounts EXCEPT ![w.id] = Overwritten(w)]
       /\ UNCHANGED pc
    \/ /\ accounts[w.id] = NoAccount
       /\ accounts' = [accounts EXCEPT ![w.id] =
                          [path |-> NoPath, net |-> w.net, wallet |-> w.wallet]]
       /\ UNCHANGED pc
    \/ /\ accounts[w.id] = NoAccount
       /\ pc' = IF pc[w.by] \in Merging THEN [pc EXCEPT ![w.by] = "failed"] ELSE pc
       /\ UNCHANGED accounts

Land(w) ==
    /\ w \in inflight
    /\ inflight' = inflight \ {w}
    /\ \/ /\ w.kind = "index"
          /\ index' = [index EXCEPT ![w.path] = w.id]
          /\ UNCHANGED <<accounts, pc>>
       \/ /\ w.kind = "account"
          /\ accounts' = [accounts EXCEPT ![w.id] = w.account]
          /\ UNCHANGED <<index, pc>>
       \/ /\ w.kind = "indexes"
          /\ index' = w.index
          /\ UNCHANGED <<accounts, pc>>
       \/ /\ w.kind = "accounts"
          /\ accounts' = w.accounts
          /\ UNCHANGED <<index, pc>>
       \/ /\ w.kind = "wallet"
          /\ LandWallet(w)
          /\ UNCHANGED index
    /\ UNCHANGED <<host, queue, local, ghost>>

\* Bound: at most MaxFaults failures and crashes in a behaviour.
Fault == faults < MaxFaults /\ faults' = faults + 1

\* A write is rejected.  Promise.all rejects with it: the call ends while its
\* other write is still on its way.
Lose(w) ==
    /\ w \in inflight
    /\ Fault
    /\ inflight' = inflight \ {w}
    /\ IF pc[w.by] \in Writing \cup Merging
       THEN Return(w.by, "failed")
       ELSE UNCHANGED <<pc, settled>>
    /\ UNCHANGED <<accounts, index, host, issued, local, drawn, removed>>

\* Any other host call that is awaited is rejected.
Throw(c) ==
    /\ pc[c] \in Awaiting \cup {"listing", "loading", "syncing"}
    /\ Fault
    /\ Return(c, "failed")
    /\ UNCHANGED <<store, host, issued, local, drawn, removed>>

\* The snap is terminated and started again: its calls and its queue are gone,
\* the persisted state and the writes already handed over are not.
Crash ==
    /\ Fault
    /\ \E c \in Calls : pc[c] \notin Idle \cup Finished
    /\ pc' = [c \in Calls |-> IF pc[c] \in Idle THEN "idle"
                              ELSE IF pc[c] = "done" THEN "done" ELSE "failed"]
    /\ settled' = 0..issued
    /\ UNCHANGED <<store, host, issued, local, drawn, removed>>

-----------------------------------------------------------------------------
Init ==
    /\ accounts = [id \in Ids |-> NoAccount]
    /\ index = [p \in Paths |-> NoId]
    /\ inflight = {}
    /\ announced = {}
    /\ scans = {}
    /\ issued = 0
    /\ settled = {0}
    /\ pc = [c \in Calls |-> "idle"]
    /\ req = [c \in Calls |-> NoRequest]
    /\ ticket = [c \in Calls |-> 0]
    /\ result = [c \in Calls |-> {}]
    /\ fresh = [c \in Calls |-> {}]
    /\ indexCopy = [c \in Calls |-> [p \in Paths |-> NoId]]
    /\ drawn = {}
    /\ removed = {}
    /\ faults = 0

Create(c) == ChooseIndex(c) \/ LookupIndex(c) \/ FetchIndexed(c) \/ Insert(c)
             \/ InsertAcked(c) \/ Announce(c) \/ ScheduleScan(c)
CreateMany(c) == ScanStore(c) \/ ScanBroken(c) \/ Repaired(c) \/ InsertBatch(c)
                 \/ ReadStore(c) \/ WriteIndexes(c)
Delete(c) == FindAccount(c) \/ Retract(c) \/ Remove(c) \/ RemoveAcked(c)
UpdateAccount(c) == Load(c) \/ MergeStaged(c) \/ MergeAcked(c) \/ MarkAcked(c)

\* What a call does by itself once it has begun.
Proceed(c) == Acquire(c) \/ Create(c) \/ CreateMany(c) \/ Delete(c) \/ UpdateAccount(c)

\* Every call has ended and every write has landed: nothing is left to do.
Quiescent ==
    /\ \A c \in Calls : pc[c] \in Finished
    /\ inflight = {}
    /\ UNCHANGED vars

Next ==
    \/ \E c \in Calls : Begin(c) \/ Proceed(c) \/ Throw(c)
    \/ \E w \in inflight : Land(w) \/ Lose(w)
    \/ Crash
    \/ Quiescent

Spec == Init /\ [][Next]_vars

\* The JavaScript engine resumes every call whose await is over, and the host
\* performs every write it was handed.  Nothing makes a client call.
Fairness ==
    /\ \A c \in Calls : WF_vars(Proceed(c))
    /\ WF_vars(\E w \in inflight : Land(w))

FairSpec == Spec /\ Fairness
=============================================================================
