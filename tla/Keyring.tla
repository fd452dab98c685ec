------------------------------ MODULE Keyring ------------------------------
(***************************************************************************)
(* The loops of KeyringHandler: the range of accounts that createAccounts  *)
(* creates chunk by chunk, and the pages of transactions a client reads    *)
(* with listAccountTransactions while the wallet changes.                  *)
(*                                                                         *)
(* Abstractions.  An account is its index (one entropy source, mainnet).   *)
(* createMany answers the accounts of its chunk or fails; what it does to  *)
(* the persisted accounts is AccountStore's subject.  The transactions of  *)
(* a wallet are listed by Rank: the library's order, taken to be the same  *)
(* on every page.  A transaction leaves the list when another replaces it. *)
(***************************************************************************)
EXTENDS Integers, Sequences, FiniteSets

CONSTANTS
    Callers,    \* slots for createAccounts in progress
    Readers,    \* clients that read page by page
    MaxIndex,   \* Number.MAX_SAFE_INTEGER
    BatchSize,  \* MAX_CREATE_ACCOUNTS_PER_BATCH
    Txs,
    Rank,       \* where a transaction is in the list
    Limits,     \* the page sizes a client asks for
    None

ASSUME SizeAssumption == MaxIndex \in Nat /\ BatchSize \in Nat \ {0}
ASSUME RankAssumption ==
    /\ IsFiniteSet(Txs) /\ Rank \in [Txs -> Nat]
    /\ \A t, u \in Txs : Rank[t] = Rank[u] => t = u
ASSUME LimitAssumption == Limits \subseteq Nat \ {0} /\ None \notin Txs

VARIABLES
    batch,      \* createAccounts: its range, the chunk it awaits, what it has
    wallet,     \* the transactions of the account that is read
    reader      \* the clients: where they are, and what they were told

vars == <<batch, wallet, reader>>

-----------------------------------------------------------------------------
NoBatch == [pc |-> "idle", from |-> 0, to |-> 0, chunkFrom |-> 0, chunkTo |-> 0, got |-> <<>>]
NoReader == [pc |-> "idle", cursor |-> None, told |-> {}, again |-> {}, always |-> {},
             lost |-> FALSE]

IsRange(from, to) == from >= 0 /\ to <= MaxIndex /\ from <= to

\* The sum of two numbers: above MaxIndex + 1, a power of two, an odd sum is
\* rounded to the nearer multiple of four (up to twice that, beyond the sums here).
Plus(x, y) ==
    LET sum == x + y
    IN  IF sum <= MaxIndex + 1 \/ sum % 2 = 0 THEN sum
        ELSE IF sum % 4 = 1 THEN sum - 1 ELSE sum + 1

\* Mutant: the chunk is one longer than it may be.
ChunkEndLong(from, to) ==
    LET last == Plus(from, BatchSize) IN IF last < to THEN last ELSE to

\* Math.min of the last index of a full chunk and of the range.
ChunkEnd(from, to) ==
    LET last == Plus(Plus(from, BatchSize), -1) IN IF last < to THEN last ELSE to

\* Mutant: the next chunk begins with the last index of this one.
NextChunkAgain(end) == end

NextChunk(end) == Plus(end, 1)

\* The indices of a chunk, in order.
Chunk(from, to) == [k \in 1..(to - from + 1) |-> from + k - 1]

Init ==
    /\ batch = [c \in Callers |-> NoBatch]
    /\ wallet = {}
    /\ reader = [r \in Readers |-> NoReader]

-----------------------------------------------------------------------------
\* createAccounts: a bad range is refused, of a good one the first chunk is asked for.
CreateAccounts(c, from, to) ==
    /\ batch[c].pc # "await"
    /\ batch' = [batch EXCEPT ![c] =
          IF IsRange(from, to)
          THEN [pc |-> "await", from |-> from, to |-> to,
                chunkFrom |-> from, chunkTo |-> ChunkEnd(from, to), got |-> <<>>]
          ELSE [NoBatch EXCEPT !.pc = "failed"]]
    /\ UNCHANGED <<wallet, reader>>

\* createMany resolves with the accounts of the chunk, and the next is asked for.
ChunkCreated(c) ==
    LET end == batch[c].chunkTo
        next == NextChunk(end)
    IN  /\ batch[c].pc = "await"
        /\ batch' = [batch EXCEPT
              ![c].got = @ \o Chunk(batch[c].chunkFrom, end),
              ![c].chunkFrom = IF end = batch[c].to THEN @ ELSE next,
              ![c].chunkTo = IF end = batch[c].to THEN @ ELSE ChunkEnd(next, batch[c].to),
              ![c].pc = IF end = batch[c].to THEN "done" ELSE "await"]
        /\ UNCHANGED <<wallet, reader>>

\* createMany fails: the chunks before remain, and the request fails.
ChunkFails(c) ==
    /\ batch[c].pc = "await"
    /\ batch' = [batch EXCEPT ![c] = [NoBatch EXCEPT !.pc = "failed"]]
    /\ UNCHANGED <<wallet, reader>>

-----------------------------------------------------------------------------
Arrive(t) ==
    /\ t \notin wallet
    /\ wallet' = wallet \cup {t}
    /\ UNCHANGED <<batch, reader>>

\* always holds what was in the wallet on the first page and ever since.
Replaced(t) ==
    /\ t \in wallet
    /\ wallet' = wallet \ {t}
    /\ reader' = [r \in Readers |-> [reader[r] EXCEPT !.always = @ \ {t}]]
    /\ UNCHANGED batch

Found(r) == reader[r].cursor \in wallet

\* Mutant: the page begins with the cursor.
RemainingWith(r) ==
    IF Found(r) THEN {t \in wallet : Rank[t] >= Rank[reader[r].cursor]} ELSE wallet

\* What follows the cursor; all, when there is none or it is no longer found.
Remaining(r) ==
    IF Found(r) THEN {t \in wallet : Rank[t] > Rank[reader[r].cursor]} ELSE wallet

\* The first of them.
Page(rest, limit) == {t \in rest : Cardinality({u \in rest : Rank[u] < Rank[t]}) < limit}

Begin(r) ==
    /\ reader[r].pc # "reading"
    /\ reader' = [reader EXCEPT ![r] = [NoReader EXCEPT !.pc = "reading", !.always = wallet]]
    /\ UNCHANGED <<batch, wallet>>

\* listAccountTransactions: a page, and its last transaction as the cursor of the
\* next one, or null when there is no more.
ListAccountTransactions(r, limit) ==
    LET rest == Remaining(r)
        page == Page(rest, limit)
        told == [reader[r] EXCEPT !.told = @ \cup page,
                                  !.again = @ \cup (reader[r].told \cap page),
                                  !.lost = @ \/ (reader[r].cursor # None /\ ~Found(r))]
    IN  /\ reader[r].pc = "reading"
        /\ IF Cardinality(rest) > limit
           THEN \E last \in page :
                   /\ \A t \in page : Rank[t] <= Rank[last]
                   /\ reader' = [reader EXCEPT ![r] = [told EXCEPT !.cursor = last]]
           ELSE reader' = [reader EXCEPT ![r] = [told EXCEPT !.cursor = None, !.pc = "end"]]
        /\ UNCHANGED <<batch, wallet>>

Next ==
    \/ \E c \in Callers :
          \/ \E from, to \in -1..(MaxIndex + 1) : CreateAccounts(c, from, to)
          \/ ChunkCreated(c) \/ ChunkFails(c)
    \/ \E t \in Txs : Arrive(t) \/ Replaced(t)
    \/ \E r \in Readers : Begin(r) \/ \E limit \in Limits : ListAccountTransactions(r, limit)

Spec == Init /\ [][Next]_vars

-----------------------------------------------------------------------------
(* Properties.                                                             *)

\* createAccounts answers the accounts of its range, each once and in order, and
\* never asks createMany for more than a batch, whatever the range, also where it
\* ends on a chunk or at the largest index, where the cursor's sums are rounded.
RangeCovered ==
    \A c \in Callers :
        /\ batch[c].pc = "done" => batch[c].got = Chunk(batch[c].from, batch[c].to)
        /\ batch[c].pc = "await" =>
               /\ batch[c].chunkTo \in batch[c].chunkFrom..batch[c].to
               /\ batch[c].chunkTo - batch[c].chunkFrom < BatchSize

\* A client that reads to the end was told every transaction that was there all the
\* time, and none twice unless the one its cursor named was gone, whatever came or
\* went between two pages.
PagesAreRight ==
    \A r \in Readers :
        /\ reader[r].pc = "end" => reader[r].always \subseteq reader[r].told
        /\ ~reader[r].lost => reader[r].again = {}
=============================================================================
