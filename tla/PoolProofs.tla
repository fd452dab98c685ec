----------------------------- MODULE PoolProofs -----------------------------
(***************************************************************************)
(* Proofs about WorkerPool, for any number of items and any limit.  The    *)
(* inductive invariant relates the cursor, the workers and the slots: the  *)
(* items below the cursor, and only they, were given to the mapper once;   *)
(* each is held by one worker or has its result, unless there was an       *)
(* error; and a worker that returned without an error found no item left.  *)
(***************************************************************************)
EXTENDS WorkerPool, TLAPS

CalledBelowCursor == calls = [i \in Items |-> IF i < next THEN 1 ELSE 0]

HeldOnce ==
    /\ \A w \in Workers : held[w] # None => held[w] < next
    /\ \A v, w \in Workers : held[v] = held[w] /\ held[v] # None => v = w

\* What was taken is held or done, and nobody leaves before the items are out.
NothingDropped ==
    ~HasError =>
        /\ \A i \in Items : i < next => i \in results \/ \E w \in Workers : held[w] = i
        /\ \A w \in Workers : held[w] = None => next >= N

ErrorKept ==
    /\ HasError <=> errors # <<>>
    /\ HasError => firstError = Head(errors)

OutcomeFinal ==
    /\ outcome # "pending" => Running = {}
    /\ outcome = "resolved" => ~HasError
    /\ outcome = "rejected" => HasError

PoolInv ==
    TypeOK /\ CalledBelowCursor /\ HeldOnce /\ NothingDropped /\ ErrorKept /\ OutcomeFinal

LEMMA PoolSizeBounds == PoolSize \in 1..N /\ Workers \subseteq Items
BY PoolAssumption DEF PoolSize, Workers, Items

LEMMA NoneIsNoItem == None \notin Items /\ Items \subseteq Nat
BY PoolAssumption DEF Items

LEMMA PoolInit == Init => PoolInv
<1> SUFFICES ASSUME Init PROVE PoolInv
    OBVIOUS
<1> USE PoolSizeBounds, NoneIsNoItem DEF Init
<1>1. TypeOK
    BY DEF TypeOK
<1>2. CalledBelowCursor
    BY DEF CalledBelowCursor, Workers, Items
<1>3. HeldOnce /\ NothingDropped
    BY DEF HeldOnce, NothingDropped, Workers, Items
<1>4. ErrorKept /\ OutcomeFinal
    BY DEF ErrorKept, OutcomeFinal, HasError
<1> QED BY <1>1, <1>2, <1>3, <1>4 DEF PoolInv

\* A worker that takes the next item, or finds none.
LEMMA ClaimKeeps ==
    ASSUME PoolInv, NEW w \in Workers, held[w] # None, Succeed(w)
    PROVE  PoolInv'
<1> USE NoneIsNoItem DEF PoolInv
<1>0. held[w] \in Items /\ next \in Nat /\ outcome = "pending"
    BY DEF TypeOK, OutcomeFinal, Running
<1>1. TypeOK'
    <2>1. next' \in Nat /\ held' \in [Workers -> Items \cup {None}]
        BY <1>0 DEF Succeed, Continue, Claim, TypeOK
    <2>2. calls' \in [Items -> Nat]
        <3>1. CASE UNCHANGED calls
            BY <3>1 DEF TypeOK
        <3>2. CASE next \in Items /\ calls' = [calls EXCEPT ![next] = @ + 1]
            <4>1. calls[next] + 1 \in Nat
                BY <3>2 DEF TypeOK
            <4> QED BY <3>2, <4>1 DEF TypeOK
        <3> QED BY <3>1, <3>2 DEF Succeed, Continue, Claim
    <2> QED BY <1>0, <2>1, <2>2 DEF Succeed, TypeOK
<1>2. CalledBelowCursor'
    BY <1>0 DEF Succeed, Continue, Claim, CalledBelowCursor, Items
<1>3. HeldOnce'
    <2>1. CASE held' = [held EXCEPT ![w] = None] /\ UNCHANGED next
        BY <2>1 DEF HeldOnce, TypeOK
    <2>2. CASE Claim(w)
        <3>1. \A v \in Workers : held[v] # None => held[v] \in Nat /\ held[v] < next
            BY DEF HeldOnce, TypeOK
        <3>2. next' = next + 1 /\ held'[w] \in {next, None}
            BY <2>2 DEF Claim, TypeOK
        <3>3. \A v \in Workers \ {w} : held'[v] = held[v]
            BY <2>2 DEF Claim, TypeOK
        <3> QED BY <1>0, <3>1, <3>2, <3>3 DEF HeldOnce
    <2> QED BY <2>1, <2>2 DEF Succeed, Continue
<1>4. NothingDropped'
    <2> SUFFICES ASSUME ~HasError
                 PROVE  /\ \A i \in Items : i < next' =>
                               i \in results' \/ \E v \in Workers : held'[v] = i
                        /\ \A v \in Workers : held'[v] = None => next' >= N
        BY DEF Succeed, NothingDropped, HasError
    <2>1. Claim(w) /\ results' = results \cup {held[w]}
        BY DEF Succeed, Continue
    <2>2. ASSUME NEW i \in Items, i < next'
          PROVE  i \in results' \/ \E v \in Workers : held'[v] = i
        <3>1. CASE i = next
            BY <2>1, <3>1 DEF Claim, TypeOK
        <3>2. CASE i < next
            <4>1. CASE i \in results \/ held[w] = i
                BY <2>1, <4>1
            <4>2. CASE \E v \in Workers \ {w} : held[v] = i
                BY <2>1, <4>2 DEF Claim, TypeOK
            <4> QED BY <3>2, <4>1, <4>2 DEF NothingDropped
        <3> QED BY <1>0, <2>1, <2>2, <3>1, <3>2 DEF Claim
    <2>3. ASSUME NEW v \in Workers, held'[v] = None
          PROVE  next' >= N
        BY <1>0, <2>1, <2>3, PoolAssumption DEF Claim, TypeOK, NothingDropped, Items
    <2> QED BY <2>2, <2>3
<1>5. ErrorKept' /\ OutcomeFinal'
    BY <1>0 DEF Succeed, ErrorKept, OutcomeFinal, HasError
<1> QED BY <1>1, <1>2, <1>3, <1>4, <1>5

LEMMA FailKeeps ==
    ASSUME PoolInv, NEW w \in Workers, Fail(w)
    PROVE  PoolInv'
<1> USE NoneIsNoItem DEF PoolInv
<1>0. held[w] \in Items /\ outcome = "pending" /\ HasError'
    BY DEF Fail, KeepError, TypeOK, OutcomeFinal, Running, HasError
<1>1. TypeOK'
    BY <1>0 DEF Fail, KeepError, TypeOK
<1>2. CalledBelowCursor' /\ HeldOnce' /\ NothingDropped'
    BY <1>0 DEF Fail, CalledBelowCursor, HeldOnce, NothingDropped, TypeOK
<1>3. ErrorKept'
    <2>1. errors \in Seq(Items) /\ errors' = Append(errors, held[w])
        BY DEF Fail, TypeOK
    <2>2. errors' # <<>> /\ (errors # <<>> => Head(errors') = Head(errors))
                         /\ (errors = <<>> => Head(errors') = held[w])
        BY <1>0, <2>1
    <2> QED BY <1>0, <2>2 DEF Fail, KeepError, ErrorKept, HasError
<1>4. OutcomeFinal'
    BY <1>0 DEF Fail, OutcomeFinal
<1> QED BY <1>1, <1>2, <1>3, <1>4

LEMMA SettleKeeps ==
    ASSUME PoolInv, Settle
    PROVE  PoolInv'
BY DEF PoolInv, Settle, AllReturned, TypeOK, CalledBelowCursor, HeldOnce, NothingDropped,
       ErrorKept, OutcomeFinal, HasError, Running

LEMMA PoolStep == PoolInv /\ [Next]_vars => PoolInv'
<1> SUFFICES ASSUME PoolInv, [Next]_vars PROVE PoolInv'
    OBVIOUS
<1>1. CASE UNCHANGED vars
    BY <1>1 DEF vars, PoolInv, TypeOK, CalledBelowCursor, HeldOnce, NothingDropped, ErrorKept,
                OutcomeFinal, HasError, Running
<1>2. ASSUME NEW w \in Workers, Succeed(w)
      PROVE  PoolInv'
    BY <1>2, ClaimKeeps DEF Succeed
<1> QED BY <1>1, <1>2, FailKeeps, SettleKeeps DEF Next, Settled

LEMMA PoolInvariant == Spec => []PoolInv
BY PoolInit, PoolStep, PTL DEF Spec

\* The mapper gets every item at most once, for any number of workers.
THEOREM EachItemOnce == Spec => []MappedOnce
<1>1. PoolInv => MappedOnce
    BY DEF PoolInv, CalledBelowCursor, MappedOnce
<1> QED BY <1>1, PoolInvariant, PTL

\* A pool that resolves has a result for every item.
THEOREM NoHoles == Spec => []ResolvedIsComplete
<1>1. PoolInv => ResolvedIsComplete
    <2> SUFFICES ASSUME PoolInv, outcome = "resolved" PROVE results = Items
        BY DEF ResolvedIsComplete
    <2>1. /\ ~HasError
          /\ \A w \in Workers : held[w] = None
        BY DEF PoolInv, OutcomeFinal, Running
    <2>2. 0 \in Workers
        BY PoolSizeBounds, PoolAssumption DEF Workers
    <2>3. next >= N /\ next \in Nat
        BY <2>1, <2>2 DEF PoolInv, NothingDropped, TypeOK
    <2>4. \A i \in Items : i < next
        BY <2>3, PoolAssumption DEF Items
    <2>5. \A i \in Items : i \in results
        BY <2>1, <2>4, NoneIsNoItem DEF PoolInv, NothingDropped
    <2> QED BY <2>5 DEF PoolInv, TypeOK
<1> QED BY <1>1, PoolInvariant, PTL

\* When the pool settles, with a result or an error, none of its work is in
\* flight.
THEOREM NothingInFlight == Spec => []SettledIsQuiet
<1>1. PoolInv => SettledIsQuiet
    BY DEF PoolInv, OutcomeFinal, SettledIsQuiet
<1> QED BY <1>1, PoolInvariant, PTL

\* No item is started after the first error.
THEOREM ErrorStops == Spec => NoStartAfterError
<1>1. [Next]_vars => (HasError => calls' = calls)
    BY DEF Next, Succeed, Continue, Fail, Settle, Settled, vars
<1> QED BY <1>1, PTL DEF Spec, NoStartAfterError

\* Of all the errors of the mappers, a pool that rejects throws the first.
THEOREM FirstErrorKept == Spec => []FirstErrorThrown
<1>1. PoolInv => FirstErrorThrown
    BY DEF PoolInv, ErrorKept, OutcomeFinal, FirstErrorThrown
<1> QED BY <1>1, PoolInvariant, PTL
=============================================================================
