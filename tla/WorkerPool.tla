----------------------------- MODULE WorkerPool -----------------------------
(***************************************************************************)
(* runWithConcurrencyLimit of AccountUseCases: a pool of asynchronous      *)
(* workers that share a cursor over the items and the first error.         *)
(* createMany derives the keys of a batch with it.                         *)
(*                                                                         *)
(* A worker runs alone from the answer of its mapper to its next call of   *)
(* the mapper, so the answer, the test of hasError and the claim of the    *)
(* next item are one action.  The value of a result is abstracted to its   *)
(* presence, an error to the item it came from.                            *)
(***************************************************************************)
EXTENDS Integers, Sequences

CONSTANTS
    N,              \* items.length; the empty case returns at once
    Concurrency,    \* the limit asked for
    None            \* no item

ASSUME PoolAssumption == N \in Nat \ {0} /\ Concurrency \in Int /\ None \notin Int

Items == 0..(N - 1)

\* Math.min(Math.max(1, concurrency), items.length)
PoolSize ==
    LET wanted == IF Concurrency > 1 THEN Concurrency ELSE 1
    IN  IF wanted < N THEN wanted ELSE N

Workers == 0..(PoolSize - 1)

VARIABLES
    next,       \* the shared cursor
    held,       \* the item whose mapper each worker awaits; None once it returned
    results,    \* the items whose slot of the results array is filled
    firstError, \* the item whose error is kept; None while hasError is false
    outcome,    \* of the promise: pending, resolved or rejected
    calls,      \* history: how often the mapper was called for each item
    errors      \* history: the errors of the mappers, in order

vars == <<next, held, results, firstError, outcome, calls, errors>>

Running == {w \in Workers : held[w] # None}
HasError == firstError # None

\* Every worker runs up to its first await before the pool returns.
Init ==
    /\ next = PoolSize
    /\ held = [w \in Workers |-> w]
    /\ results = {}
    /\ firstError = None
    /\ outcome = "pending"
    /\ calls = [i \in Items |-> IF i \in Workers THEN 1 ELSE 0]
    /\ errors = <<>>

\* Mutant: a worker takes the item after its own, not the one at the cursor.
ClaimOwnNext(w) ==
    /\ next' = next + 1
    /\ held' = [held EXCEPT ![w] = IF held[w] + 1 \in Items THEN held[w] + 1 ELSE None]
    /\ calls' = IF held[w] + 1 \in Items THEN [calls EXCEPT ![held[w] + 1] = @ + 1] ELSE calls

\* Mutant: the last item is out of the cursor's range.
ClaimShort(w) ==
    /\ next' = next + 1
    /\ held' = [held EXCEPT ![w] = IF next + 1 \in Items THEN next ELSE None]
    /\ calls' = IF next + 1 \in Items THEN [calls EXCEPT ![next] = @ + 1] ELSE calls

\* The worker takes the item at the cursor, or returns when there is none.
Claim(w) ==
    /\ next' = next + 1
    /\ held' = [held EXCEPT ![w] = IF next \in Items THEN next ELSE None]
    /\ calls' = IF next \in Items THEN [calls EXCEPT ![next] = @ + 1] ELSE calls

\* Mutant: the loop does not look at hasError.
ContinueBlindly(w) == Claim(w)

\* The head of the loop.
Continue(w) ==
    \/ ~HasError /\ Claim(w)
    \/ HasError /\ held' = [held EXCEPT ![w] = None] /\ UNCHANGED <<next, calls>>

\* The mapper's promise resolves.
Succeed(w) ==
    /\ held[w] # None
    /\ results' = results \cup {held[w]}
    /\ Continue(w)
    /\ UNCHANGED <<firstError, outcome, errors>>

\* Mutant: a later error replaces the first.
KeepLastError(w) == firstError' = held[w]

\* Only the first error is kept.
KeepError(w) == firstError' = IF HasError THEN firstError ELSE held[w]

\* The mapper's promise rejects: the worker returns.
Fail(w) ==
    /\ held[w] # None
    /\ KeepError(w)
    /\ errors' = Append(errors, held[w])
    /\ held' = [held EXCEPT ![w] = None]
    /\ UNCHANGED <<next, results, outcome, calls>>

\* Mutant: the pool rejects at the first error, as a Promise.all over the
\* mappers would.
AllReturnedOrError == Running = {} \/ HasError

\* Mutant: the cursor is expected to stop at the end, where each worker that
\* returns moves it on.
AllReturnedAtEnd == Running = {} /\ next = N

\* Promise.all over the workers, which never reject.
AllReturned == Running = {}

Settle ==
    /\ outcome = "pending"
    /\ AllReturned
    /\ outcome' = IF HasError THEN "rejected" ELSE "resolved"
    /\ UNCHANGED <<next, held, results, firstError, calls, errors>>

\* The promise is settled: nothing is left to do.
Settled == outcome # "pending" /\ Running = {} /\ UNCHANGED vars

Next ==
    \/ \E w \in Workers : Succeed(w) \/ Fail(w)
    \/ Settle
    \/ Settled

Spec == Init /\ [][Next]_vars

\* A mapper's promise settles in the end (the host answers), and the engine
\* resumes the worker.
FairSpec ==
    /\ Spec
    /\ \A w \in Workers : WF_vars(Succeed(w) \/ Fail(w))
    /\ WF_vars(Settle)

-----------------------------------------------------------------------------
TypeOK ==
    /\ next \in Nat
    /\ held \in [Workers -> Items \cup {None}]
    /\ results \subseteq Items
    /\ firstError \in Items \cup {None}
    /\ outcome \in {"pending", "resolved", "rejected"}
    /\ calls \in [Items -> Nat]
    /\ errors \in Seq(Items)

\* The mapper is called at most once for each item, although the workers
\* share one cursor.
MappedOnce == \A i \in Items : calls[i] <= 1

\* The pool resolves with a result in every slot of the array.
ResolvedIsComplete == outcome = "resolved" => results = Items

\* No work is in flight once the pool has settled, also when it rejects
\* ("waits for in-flight creates before rejecting when one create fails",
\* AccountUseCases.test.ts).
SettledIsQuiet == outcome # "pending" => Running = {}

\* The error thrown is the one that came first.
FirstErrorThrown == outcome = "rejected" => errors # <<>> /\ firstError = Head(errors)

\* No item is started after an error.
NoStartAfterError == [][HasError => calls' = calls]_vars

\* The pool settles.
PoolSettles == <>(outcome # "pending")
=============================================================================
