----------------------------- MODULE WalletSync -----------------------------
(***************************************************************************)
(* How wallets follow the chain: the cron events (CronHandler), the        *)
(* synchronisation, full scan and broadcast of AccountUseCases, the        *)
(* persisted wallets (BdkAccountRepository.update) and what the client is  *)
(* told of them.                                                           *)
(*                                                                         *)
(* A handler in progress is a job.  It works on wallets of its own, loaded *)
(* from the persisted state; nothing keeps two jobs from working on the    *)
(* same account.  Within a job the accounts proceed independently          *)
(* (Promise.allSettled), and each await is a step.                         *)
(*                                                                         *)
(* Abstractions.  A wallet is the status of each of its transactions; a    *)
(* transaction between two accounts counts as two.  Balances follow from   *)
(* the transactions.  Fees and amounts are left out, and inscriptions have *)
(* no value (no MetaProtocolsClient is configured, they are always []),    *)
(* but that they are written is modelled.  The deletion of accounts is     *)
(* left out: to a job it is one more failure, and AccountStore models it.  *)
(* Merging change sets is the library's: where two statuses conflict after *)
(* a reorganisation, either may win.                                       *)
(***************************************************************************)
EXTENDS Naturals, FiniteSets

CONSTANTS
    Accounts, Txs,
    Owner,      \* the account of each transaction
    Deep,       \* transactions on addresses no one has revealed yet
    Sent,       \* transactions the user may send; all may arrive by themselves
    Selections, \* what the client may select
    Fresh,      \* accounts just created, whose full scan is scheduled
    Jobs,       \* slots for handlers in progress: a bound on their number
    MaxFaults,  \* bound on failed calls of the host or the chain, and restarts
    MaxReorgs   \* bound on transactions that lose their confirmation

ASSUME OwnerAssumption == Owner \in [Txs -> Accounts]
ASSUME TxAssumption == Deep \subseteq Txs /\ Sent \subseteq Txs \ Deep
ASSUME AccountAssumption == Fresh \subseteq Accounts /\ Selections \subseteq SUBSET Accounts
ASSUME BoundAssumption == MaxFaults \in Nat /\ MaxReorgs \in Nat

Statuses == {"unseen", "pending", "confirmed"}
Wallets == [Txs -> Statuses]
Empty == [t \in Txs |-> "unseen"]
TxsOf(a) == {t \in Txs : Owner[t] = a}

Kinds == {"sync", "scan", "send"}
Parts == {"out", "query", "read", "write", "mark", "ok", "failed"}
PCs == {"idle", "list", "work", "emit"}

Events == [kind : {"sync"}, ids : SUBSET Accounts]
          \cup [kind : {"scan"}, ids : {{a} : a \in Accounts}]

VARIABLES
    chain,      \* the status of each transaction on the chain
    stored,     \* the persisted wallets
    told,       \* the status of each transaction the client was last told of
    selected,   \* the accounts selected in the client
    events,     \* background events the host has yet to fire
    job,        \* the handlers in progress
    written,    \* history: transactions that were persisted
    reorged,    \* history: transactions that lost their confirmation
    faults      \* failures so far

client == <<told, selected>>
history == <<written, reorged, faults>>
vars == <<chain, stored, client, events, job, history>>

-----------------------------------------------------------------------------
Rest == [kind |-> "sync", pc |-> "idle", part |-> [a \in Accounts |-> "out"],
         before |-> Empty, after |-> Empty, read |-> Empty, tell |-> {}]

Free(j) == job[j].pc = "idle"
Busy == {j \in Jobs : ~Free(j)}
Members(j) == {a \in Accounts : job[j].part[a] # "out"}
Succeeded(j) == {a \in Accounts : job[j].part[a] = "ok"}
Step(j, a, p) == job' = [job EXCEPT ![j].part[a] = p]
\* Mutant: the wallets of the job are still there when the slot is used again.
EndLeaving(j) == job' = [job EXCEPT ![j].pc = "idle"]
End(j) == job' = [job EXCEPT ![j] = Rest]

Begin(j, kind, ids) ==
    /\ Free(j)
    /\ job' = [job EXCEPT ![j] =
          [Rest EXCEPT !.kind = kind, !.pc = "list",
                       !.part = [a \in Accounts |-> IF a \in ids THEN "query" ELSE "out"]]]

Fault == faults < MaxFaults /\ faults' = faults + 1

\* A wallet with the transactions of one account replaced.
Replace(wallet, a, w) == [t \in Txs |-> IF Owner[t] = a THEN w[t] ELSE wallet[t]]

\* What the wallet learned since it was loaded: its staged change set.
Staged(j) ==
    [t \in Txs |-> IF job[j].after[t] # job[j].before[t] THEN job[j].after[t] ELSE "unseen"]

\* ChangeSet.merge for one transaction: what either side has seen; a
\* confirmation prevails unless the chain was reorganised.
Merges(t, mine, theirs) ==
    IF mine = "unseen" THEN {theirs}
    ELSE IF theirs = "unseen" THEN {mine}
    ELSE IF mine # theirs /\ t \notin reorged THEN {"confirmed"}
    ELSE {mine, theirs}

\* Mutant: only a change of status is news, not a transaction seen first.
NewsStatus(j, a) ==
    {t \in TxsOf(a) : job[j].before[t] # "unseen" /\ job[j].after[t] # job[j].before[t]}

\* The transactions of an account a job has to tell the client about.
\* synchronize: those that are new, confirmed since or reorganised; fullScan:
\* all; #broadcast: the one that was sent.
News(j, a) ==
    {t \in TxsOf(a) : IF job[j].kind = "scan" THEN job[j].after[t] # "unseen"
                      ELSE job[j].after[t] # job[j].before[t]}

\* Mutant: the two statuses swapped.
LostConfirmationSwapped(j, a) ==
    {t \in TxsOf(a) : job[j].before[t] = "pending" /\ job[j].after[t] = "confirmed"}

\* What synchronize reports by TransactionReorged: what was confirmed before and is not now.
LostConfirmation(j, a) ==
    {t \in TxsOf(a) : job[j].before[t] = "confirmed" /\ job[j].after[t] = "pending"}

Init ==
    /\ chain = Empty /\ stored = Empty /\ told = Empty
    /\ selected = {}
    /\ events = {[kind |-> "scan", ids |-> {a}] : a \in Fresh}
    /\ job = [j \in Jobs |-> Rest]
    /\ written = {} /\ reorged = {} /\ faults = 0

-----------------------------------------------------------------------------
(* The chain and the client.                                               *)

Arrive(t) ==
    /\ chain[t] = "unseen"
    /\ chain' = [chain EXCEPT ![t] = "pending"]
    /\ UNCHANGED <<stored, client, events, job, history>>

Confirm(t) ==
    /\ chain[t] = "pending"
    /\ chain' = [chain EXCEPT ![t] = "confirmed"]
    /\ UNCHANGED <<stored, client, events, job, history>>

Reorg(t) ==
    /\ chain[t] = "confirmed" /\ Cardinality(reorged) < MaxReorgs
    /\ chain' = [chain EXCEPT ![t] = "pending"]
    /\ reorged' = reorged \cup {t}
    /\ UNCHANGED <<stored, client, events, job, written, faults>>

\* setSelectedAccounts: the accounts are known ones, and a synchronisation is
\* scheduled.  (Bound: the one before has fired.)
SetSelectedAccounts(ids) ==
    /\ ids # selected /\ \A e \in events : e.kind # "sync"
    /\ selected' = ids
    /\ events' = events \cup {[kind |-> "sync", ids |-> ids]}
    /\ UNCHANGED <<chain, stored, told, job, history>>

-----------------------------------------------------------------------------
(* What starts a job.                                                      *)

\* The periodic cron job, when the client is active and unlocked (route returns
\* when it is not), and onActive, whether it is locked or not.
SynchronizeAccounts(j) ==
    /\ Begin(j, "sync", selected)
    /\ UNCHANGED <<chain, stored, client, events, history>>

\* A background event fires once, and starts its job;
Fire(j, e) ==
    /\ Begin(j, e.kind, e.ids)
    /\ events' = events \ {e}
    /\ UNCHANGED <<chain, stored, client, history>>

\* or route finds the client locked or inactive, and drops it.
Skip(e) ==
    /\ events' = events \ {e}
    /\ UNCHANGED <<chain, stored, client, job, history>>

\* sendTransfer and its like have loaded the account and go on to #broadcast.
BeginSend(j, t) ==
    /\ chain[t] = "unseen" /\ t \in Sent
    /\ Begin(j, "send", {Owner[t]})
    /\ UNCHANGED <<chain, stored, client, events, history>>

-----------------------------------------------------------------------------
(* The steps of a job.                                                     *)

\* list and get: the wallets as they are persisted now.
Load(j) ==
    /\ job[j].pc = "list"
    /\ LET mine == [t \in Txs |-> IF Owner[t] \in Members(j) THEN stored[t] ELSE "unseen"]
       IN  job' = [job EXCEPT ![j].pc = "work", ![j].before = mine, ![j].after = mine]
    /\ UNCHANGED <<chain, stored, client, events, history>>

\* Mutant: a synchronisation asks for what the wallet has already.
AnsweredKnown(j, a) ==
    [t \in Txs |-> IF Owner[t] = a /\ (job[j].kind = "scan" \/ job[j].before[t] # "unseen")
                   THEN chain[t] ELSE job[j].after[t]]

\* The wallet with the chain's answer applied.  startSync asks for the revealed
\* addresses only; startFullScan finds the others too.
Answered(j, a) ==
    LET seen(t) == job[j].kind = "scan" \/ t \notin Deep \/ job[j].before[t] # "unseen"
    IN  [t \in Txs |-> IF Owner[t] = a /\ chain[t] # "unseen" /\ seen(t)
                       THEN chain[t] ELSE job[j].after[t]]

\* The chain answers, and the wallet learned something to store; a new tip
\* is enough.  When nothing is staged, update returns at once.
Query(j, a) ==
    /\ job[j].pc = "work" /\ job[j].part[a] = "query" /\ job[j].kind # "send"
    /\ LET wallet == Answered(j, a)
       IN  \/ job' = [job EXCEPT ![j].part[a] = "read", ![j].after = wallet]
           \/ wallet = job[j].after /\ Step(j, a, "ok")
    /\ UNCHANGED <<chain, stored, client, events, history>>

\* #broadcast: to the chain first, then to the wallet.
Broadcast(j, t) ==
    /\ job[j].pc = "work" /\ job[j].part[Owner[t]] = "query" /\ job[j].kind = "send"
    /\ chain[t] = "unseen" /\ t \in Sent
    /\ chain' = [chain EXCEPT ![t] = "pending"]
    /\ job' = [job EXCEPT ![j].part[Owner[t]] = "read", ![j].after[t] = "pending"]
    /\ UNCHANGED <<stored, client, events, history>>

\* The chain refuses what it has already, or what spends outputs that are spent.
Refuse(j, t) ==
    /\ job[j].pc = "work" /\ job[j].part[Owner[t]] = "query" /\ job[j].kind = "send"
    /\ chain[t] # "unseen" /\ t \in Sent
    /\ Step(j, Owner[t], "failed")
    /\ UNCHANGED <<chain, stored, client, events, history>>

\* Mutant: the update is left to the next one.
ReadSkipped(j, a) ==
    /\ job[j].pc = "work" /\ job[j].part[a] = "read"
    /\ Step(j, a, "ok")
    /\ UNCHANGED <<chain, stored, client, events, history>>

\* update, first await: the persisted wallet.
Read(j, a) ==
    /\ job[j].pc = "work" /\ job[j].part[a] = "read"
    /\ job' = [job EXCEPT ![j].part[a] = "write", ![j].read = Replace(job[j].read, a, stored)]
    /\ UNCHANGED <<chain, stored, client, events, history>>

\* Mutant: the change set is stored without what was there.
ToStoreStaged(j, a) == {Replace(stored, a, Staged(j))}

\* The persisted wallet that was read, with the staged changes merged in.
ToStore(j, a) ==
    {Replace(stored, a, merged) :
        merged \in {w \in Wallets : \A t \in Txs : w[t] \in Merges(t, Staged(j)[t], job[j].read[t])}}

\* A full scan stores the inscriptions with the wallet, and a synchronisation
\* does when the wallet has more transactions than before.
StoresInscriptions(j, a) ==
    \/ job[j].kind = "scan"
    \/ /\ job[j].kind = "sync"
       /\ \E t \in TxsOf(a) : job[j].before[t] = "unseen" /\ job[j].after[t] # "unseen"

\* update, second await: the write of the wallet lands.
Write(j, a) ==
    /\ job[j].pc = "work" /\ job[j].part[a] = "write"
    /\ stored' \in ToStore(j, a)
    /\ written' = written \cup {t \in Txs : stored'[t] # "unseen"}
    /\ job' = [job EXCEPT ![j].part[a] = IF StoresInscriptions(j, a) THEN "mark" ELSE "ok",
                          ![j].read = Replace(job[j].read, a, Empty)]
    /\ UNCHANGED <<chain, client, events, reorged, faults>>

\* update, third await: the write of the inscriptions lands.  The tracking events
\* of synchronize follow either write; their failures are swallowed.
Mark(j, a) ==
    /\ job[j].pc = "work" /\ job[j].part[a] = "mark"
    /\ Step(j, a, "ok")
    /\ UNCHANGED <<chain, stored, client, events, history>>

\* A call to the chain or to the state fails: the account does, and what was
\* persisted before the write of the inscriptions failed is not told.
Fail(j, a) ==
    /\ job[j].pc = "work" /\ job[j].part[a] \in {"query", "read", "write", "mark"}
    /\ Fault
    /\ job' = [job EXCEPT ![j].part[a] = "failed", ![j].read = Replace(job[j].read, a, Empty)]
    /\ UNCHANGED <<chain, stored, client, events, written, reorged>>

\* Mutant: Promise.all in the place of Promise.allSettled.
SettleAll(j) ==
    /\ job[j].pc = "work"
    /\ \A a \in Accounts : job[j].part[a] \in {"out", "ok", "failed"}
    /\ IF \E a \in Accounts : job[j].part[a] = "failed" \/ Members(j) = {}
       THEN End(j)
       ELSE job' = [job EXCEPT ![j].pc = "emit", ![j].tell = Succeeded(j)]
    /\ UNCHANGED <<chain, stored, client, events, history>>

\* All accounts have succeeded or failed; the events are for the first.
Settle(j) ==
    /\ job[j].pc = "work"
    /\ \A a \in Accounts : job[j].part[a] \in {"out", "ok", "failed"}
    /\ IF Succeeded(j) = {} THEN End(j)
       ELSE job' = [job EXCEPT ![j].pc = "emit", ![j].tell = Succeeded(j)]
    /\ UNCHANGED <<chain, stored, client, events, history>>

\* The balances of all accounts in one event, which changes nothing here, and the
\* transactions in one for each account; then the job ends, with an error if an
\* account failed.
EmitTransactions(j, a) ==
    /\ job[j].pc = "emit" /\ a \in job[j].tell
    /\ told' = [t \in Txs |-> IF t \in News(j, a) THEN job[j].after[t] ELSE told[t]]
    /\ IF job[j].tell = {a} THEN End(j) ELSE job' = [job EXCEPT ![j].tell = @ \ {a}]
    /\ UNCHANGED <<chain, stored, selected, events, history>>

\* The host rejects a call outside of the accounts' own work: the job ends.
Throw(j) ==
    /\ job[j].pc \in {"list", "emit"} /\ Fault
    /\ End(j)
    /\ UNCHANGED <<chain, stored, client, events, written, reorged>>

\* The snap is terminated.  A write handed to the host may still land: Write,
\* then Restart.
Restart ==
    /\ Busy # {} /\ Fault
    /\ job' = [j \in Jobs |-> Rest]
    /\ UNCHANGED <<chain, stored, client, events, written, reorged>>

-----------------------------------------------------------------------------
Work(j) ==
    \/ Load(j) \/ Settle(j)
    \/ \E a \in Accounts : Query(j, a) \/ Read(j, a) \/ Write(j, a) \/ Mark(j, a)
                          \/ EmitTransactions(j, a)
    \/ \E t \in Txs : Broadcast(j, t) \/ Refuse(j, t)

Start(j) ==
    \/ SynchronizeAccounts(j)
    \/ \E e \in events : Fire(j, e)
    \/ \E t \in Txs : BeginSend(j, t)

Next ==
    \/ \E t \in Txs : Arrive(t) \/ Confirm(t) \/ Reorg(t)
    \/ \E ids \in Selections : SetSelectedAccounts(ids)
    \/ \E e \in events : Skip(e)
    \/ \E j \in Jobs : Start(j) \/ Work(j) \/ Throw(j) \/ \E a \in Accounts : Fail(j, a)
    \/ Restart

Spec == Init /\ [][Next]_vars

\* The engine resumes what can resume.  The cron job is
\* periodic and the client is ready time and again; other jobs do not keep it from
\* starting for ever, since the number of slots is a bound of the model.
Fairness ==
    /\ \A j \in Jobs : WF_vars(Work(j))
    /\ SF_vars(\E j \in Jobs : SynchronizeAccounts(j))

FairSpec == Spec /\ Fairness

-----------------------------------------------------------------------------
(* Properties.                                                             *)

\* The variables keep their types, and no job works on an account before its
\* wallets are loaded.
TypeOK ==
    /\ chain \in Wallets /\ stored \in Wallets /\ told \in Wallets
    /\ selected \subseteq Accounts /\ events \subseteq Events
    /\ job \in [Jobs -> [kind : Kinds, pc : PCs, part : [Accounts -> Parts],
                         before : Wallets, after : Wallets, read : Wallets,
                         tell : SUBSET Accounts]]
    /\ \A j \in Jobs : job[j].pc \in {"idle", "list"} =>
          job[j].before = Empty /\ job[j].after = Empty
    /\ written \subseteq Txs /\ reorged \subseteq Txs
    /\ faults \in 0..MaxFaults

\* synchronize, fullScan and #broadcast persist a transaction before the client
\* hears of it, however the jobs on the account overlap.
PersistedFirst == \A t \in Txs : told[t] # "unseen" => t \in written

\* "if the status was changed, and now it's NOT confirmed it means the tx was
\* reorged" (synchronize): no overlap of jobs makes it say so of another.
ReorgsAreReal ==
    \A j \in Jobs, a \in Accounts :
        job[j].part[a] \in {"read", "write", "mark", "ok"} => LostConfirmation(j, a) \subseteq reorged

\* While nothing fails, whatever is persisted has been told once the jobs are
\* over: no transaction is new to two jobs and reported by neither.
StoredIsTold ==
    faults = 0 /\ Busy = {} => \A t \in Txs : stored[t] # "unseen" => told[t] # "unseen"

\* A write drops a transaction from the persisted wallet only if the wallet has
\* changed between the read and the write of that update.
UpdatesKeep ==
    [][\A t \in Txs : stored[t] # "unseen" /\ stored'[t] = "unseen" =>
          \E j \in Jobs : /\ job[j].part[Owner[t]] = "write"
                          /\ \E u \in TxsOf(Owner[t]) : job[j].read[u] # stored[u]]_vars

\* The news of the accounts that were synchronised are told although another
\* account of the job failed.
FailuresAreIsolated ==
    [][\A j \in Jobs, a \in Accounts :
          /\ job[j].part[a] = "ok" /\ faults' = faults
          /\ ~Free(j) /\ job'[j].pc = "idle"
          => \A t \in News(j, a) : told'[t] # "unseen"]_vars

\* A transaction of a selected account on an address the wallet has revealed is
\* persisted in the end, whoever sent it and whatever failed meanwhile.
Followed ==
    \A t \in Txs \ Deep :
        <>[](Owner[t] \in selected) => (chain[t] # "unseen" ~> stored[t] # "unseen")
=============================================================================
