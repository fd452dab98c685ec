--------------------------- MODULE AccountProofs ---------------------------
(***************************************************************************)
(* Proofs about AccountStore, for any sets of calls, ids, networks and     *)
(* slots, any coin types and any number of faults: the type invariant and  *)
(* the mutual exclusion of the mutations.                                  *)
(*                                                                         *)
(* MutualExclusion is not inductive.  What makes it so (QueueInv) is that  *)
(* the resolved promises are an initial segment of the queue, that no two  *)
(* calls own the same promise, and that a call in the queue has not        *)
(* resolved its own while one past it has its predecessor resolved.        *)
(***************************************************************************)
EXTENDS AccountRequirements, TLAPS

-----------------------------------------------------------------------------
(* The inductive invariant.                                                *)

QueueTyped ==
    /\ issued \in Nat
    /\ settled \subseteq Nat
    /\ ticket \in [Calls -> Nat]
    /\ pc \in [Calls -> PCs]

\* The promises resolved so far are 0, 1, ..., up to some number.
SettledPrefix ==
    /\ 0 \in settled
    /\ settled \subseteq 0..issued
    /\ \A n \in settled : \A m \in 0..n : m \in settled

\* Calls own different promises of those issued.
TicketsDistinct ==
    /\ \A c \in Calls : ticket[c] \in 0..issued
    /\ \A c, d \in Calls : ticket[c] = ticket[d] => c = d \/ ticket[c] = 0

\* A call owns an unresolved promise from when it joins the queue to when it
\* ends, and mutates only after the promise before its own was resolved.
TicketsHeld ==
    \A c \in Calls :
        /\ pc[c] \in {"idle"} \cup Unqueued => ticket[c] = 0
        /\ pc[c] \in {"queued"} \cup Mutating => ticket[c] \notin settled
        /\ pc[c] \in Mutating => ticket[c] - 1 \in settled

QueueInv == QueueTyped /\ SettledPrefix /\ TicketsDistinct /\ TicketsHeld

\* The phases of the calls do not overlap.
LEMMA Phases ==
    /\ Mutating \subseteq PCs /\ Unqueued \subseteq PCs /\ Finished \subseteq PCs
    /\ Mutating \cap Unqueued = {}
    /\ Mutating \cap Finished = {}
    /\ Unqueued \cap Finished = {}
    /\ "queued" \notin Mutating \cup Unqueued \cup Finished
    /\ "idle" \notin Mutating \cup Unqueued \cup Finished
    /\ "idle" \in PCs /\ "queued" \in PCs
BY DEF Mutating, Awaiting, Writing, Merging, Unqueued, Finished, Idle, PCs

\* The queue excludes: two calls past their predecessors are one call.
LEMMA QueueExcludes == QueueInv => MutualExclusion
<1> SUFFICES ASSUME QueueInv,
                    NEW c \in Calls, NEW d \in Calls,
                    pc[c] \in Mutating, pc[d] \in Mutating
             PROVE  c = d
    BY DEF MutualExclusion
<1>1. /\ ticket[c] \in Nat /\ ticket[d] \in Nat
      /\ ticket[c] \notin settled /\ ticket[d] \notin settled
      /\ ticket[c] - 1 \in settled /\ ticket[d] - 1 \in settled
    BY DEF QueueInv, QueueTyped, TicketsHeld
<1>2. \A n \in settled : n \in Nat /\ \A m \in 0..n : m \in settled
    BY DEF QueueInv, QueueTyped, SettledPrefix
<1>3. 0 \in settled
    BY DEF QueueInv, SettledPrefix
<1>4. ~(ticket[c] < ticket[d])
    BY <1>1, <1>2
<1>5. ~(ticket[d] < ticket[c])
    BY <1>1, <1>2
<1>6. ticket[c] = ticket[d] /\ ticket[c] # 0
    BY <1>1, <1>3, <1>4, <1>5
<1> QED BY <1>6 DEF QueueInv, TicketsDistinct

\* A call moves on without touching the queue: a mutation stays one, a call
\* outside the queue stays outside or ends.
LEMMA QueueStay ==
    ASSUME QueueInv, NEW c \in Calls, NEW l,
           pc' = [pc EXCEPT ![c] = l],
           \/ pc[c] \in Mutating /\ l \in Mutating
           \/ pc[c] \in {"idle"} \cup Unqueued /\ l \in Unqueued \cup Finished,
           UNCHANGED <<issued, settled, ticket>>
    PROVE  QueueInv'
<1>1. QueueTyped'
    BY Phases DEF QueueInv, QueueTyped
<1>2. SettledPrefix' /\ TicketsDistinct'
    BY DEF QueueInv, SettledPrefix, TicketsDistinct
<1>3. TicketsHeld'
    BY Phases DEF QueueInv, QueueTyped, TicketsHeld
<1> QED BY <1>1, <1>2, <1>3 DEF QueueInv

\* A call joins the queue with a promise nobody has.
LEMMA QueueJoin ==
    ASSUME QueueInv, NEW c \in Calls, Enqueue(c),
           pc[c] \in {"idle"} \cup Unqueued, UNCHANGED settled
    PROVE  QueueInv'
<1> USE DEF Enqueue, Goto
<1>1. QueueTyped'
    BY Phases DEF QueueInv, QueueTyped
<1>2. SettledPrefix'
    BY DEF QueueInv, QueueTyped, SettledPrefix
<1>3. TicketsDistinct'
    BY DEF QueueInv, QueueTyped, TicketsDistinct
<1>4. TicketsHeld'
    <2> SUFFICES ASSUME NEW d \in Calls
                 PROVE  /\ pc'[d] \in {"idle"} \cup Unqueued => ticket'[d] = 0
                        /\ pc'[d] \in {"queued"} \cup Mutating => ticket'[d] \notin settled
                        /\ pc'[d] \in Mutating => ticket'[d] - 1 \in settled
        BY DEF TicketsHeld
    <2>1. CASE d = c
        BY <2>1, Phases DEF QueueInv, QueueTyped, SettledPrefix
    <2>2. CASE d # c
        BY <2>2 DEF QueueInv, QueueTyped, TicketsHeld
    <2> QED BY <2>1, <2>2
<1> QED BY <1>1, <1>2, <1>3, <1>4 DEF QueueInv

\* A call's turn comes.
LEMMA QueueEnter ==
    ASSUME QueueInv, NEW c \in Calls, NEW l \in Mutating,
           pc[c] = "queued", MayEnter(c), pc' = [pc EXCEPT ![c] = l],
           UNCHANGED <<issued, settled, ticket>>
    PROVE  QueueInv'
<1>1. QueueTyped'
    BY Phases DEF QueueInv, QueueTyped
<1>2. SettledPrefix' /\ TicketsDistinct'
    BY DEF QueueInv, SettledPrefix, TicketsDistinct
<1>3. TicketsHeld'
    BY Phases DEF QueueInv, QueueTyped, TicketsHeld, MayEnter
<1> QED BY <1>1, <1>2, <1>3 DEF QueueInv

\* A call ends: the next promise of the segment is resolved, or none.
LEMMA QueueLeave ==
    ASSUME QueueInv, NEW c \in Calls, NEW outcome \in Finished,
           pc[c] \in Mutating \cup Unqueued, Return(c, outcome),
           UNCHANGED <<issued, ticket>>
    PROVE  QueueInv'
<1> USE DEF Return, Goto
<1>1. QueueTyped'
    BY Phases DEF QueueInv, QueueTyped
<1>2. SettledPrefix'
    <2>1. ticket[c] \in 0..issued
        BY DEF QueueInv, TicketsDistinct
    <2>2. \A m \in 0..ticket[c] : m \in settled'
        <3>1. CASE pc[c] \in Unqueued
            BY <3>1 DEF QueueInv, QueueTyped, TicketsHeld, SettledPrefix
        <3>2. CASE pc[c] \in Mutating
            <4>1. ticket[c] \in Nat /\ ticket[c] - 1 \in settled
                BY <3>2 DEF QueueInv, QueueTyped, TicketsHeld
            <4>2. \A m \in 0..(ticket[c] - 1) : m \in settled
                BY <4>1 DEF QueueInv, SettledPrefix
            <4> QED BY <4>1, <4>2
        <3> QED BY <3>1, <3>2
    <2> QED BY <2>1, <2>2 DEF QueueInv, QueueTyped, SettledPrefix
<1>3. TicketsDistinct'
    BY DEF QueueInv, TicketsDistinct
<1>4. TicketsHeld'
    <2> SUFFICES ASSUME NEW d \in Calls
                 PROVE  /\ pc'[d] \in {"idle"} \cup Unqueued => ticket[d] = 0
                        /\ pc'[d] \in {"queued"} \cup Mutating => ticket[d] \notin settled'
                        /\ pc'[d] \in Mutating => ticket[d] - 1 \in settled'
        BY DEF TicketsHeld
    <2>1. CASE d = c
        BY <2>1, Phases DEF QueueInv, QueueTyped
    <2>2. CASE d # c
        <3>1. pc'[d] = pc[d]
            BY <2>2 DEF QueueInv, QueueTyped
        <3>2. pc[d] \in {"queued"} \cup Mutating => ticket[d] # ticket[c]
            BY <2>2 DEF QueueInv, TicketsDistinct, TicketsHeld, SettledPrefix
        <3> QED BY <3>1, <3>2 DEF QueueInv, TicketsHeld
    <2> QED BY <2>1, <2>2
<1> QED BY <1>1, <1>2, <1>3, <1>4 DEF QueueInv

-----------------------------------------------------------------------------
(* Types.                                                                  *)

CreatePCs == {"lookup", "fetch", "derive", "announce", "schedule"}
BatchPCs  == {"scan", "repairing", "batch", "reading", "storingAccounts"}
DeletePCs == {"find", "retract", "remove", "removing"}
UpdatePCs == {"loading", "syncing", "merging", "marking"}

\* The place l is one where a call with the request r can be.
Fits(l, r) ==
    /\ l = "listing"   => r \in NextRequests
    /\ l = "queued"    => r \in CreateRequests \cup BatchRequests \cup DeleteRequests
    /\ l \in CreatePCs => r \in CreateRequests
    /\ l = "storing"   => r \in CreateRequests \cup BatchRequests
    /\ l \in BatchPCs  => r \in BatchRequests
    /\ l \in DeletePCs => r \in DeleteRequests
    /\ l \in UpdatePCs => r \in UpdateRequests

RequestFits == \A c \in Calls : Fits(pc[c], req[c])

TypeInv == TypeOK /\ RequestFits

\* Where a call may be suspended, spelled out.
LEMMA AllPCs ==
    PCs = {"idle", "done", "failed", "queued", "listing", "storing"}
          \cup CreatePCs \cup BatchPCs \cup DeletePCs \cup UpdatePCs
BY DEF PCs, Idle, Finished, Merging, Unqueued, Mutating, Awaiting, Writing,
       CreatePCs, BatchPCs, DeletePCs, UpdatePCs

\* The path of a request for an account is a path.
LEMMA PathTyped ==
    ASSUME NEW n \in Networks, NEW s \in Slots
    PROVE  PathOf(n, s) \in Paths
BY DEF PathOf, Paths

\* What one call's step does to pc and req keeps calls where they can be.
LEMMA FitsStep ==
    ASSUME TypeInv, NEW c \in Calls, NEW l \in PCs, Fits(l, req[c]),
           pc' = [pc EXCEPT ![c] = l], UNCHANGED req
    PROVE  RequestFits' /\ pc' \in [Calls -> PCs]
BY DEF TypeInv, TypeOK, RequestFits

LEMMA TypeBegin ==
    ASSUME TypeInv, NEW c \in Calls, Begin(c)
    PROVE  TypeInv'
<1> USE DEF TypeInv
<1>1. PICK r \in Requests :
          /\ req' = [req EXCEPT ![c] = r]
          /\ \/ /\ r.op = "createNext" /\ Goto(c, "listing")
                /\ UNCHANGED <<issued, ticket>>
             \/ /\ r.op = "update" /\ Goto(c, "loading")
                /\ UNCHANGED <<issued, ticket>>
             \/ /\ r.op \notin {"createNext", "update"} /\ Enqueue(c)
    BY DEF Begin
<1>2. /\ r \in AllRequests
      /\ r.op = "createNext" => r \in NextRequests
      /\ r.op = "update" => r \in UpdateRequests
      /\ r.op \notin {"createNext", "update"} =>
             r \in CreateRequests \cup BatchRequests \cup DeleteRequests
    BY DEF Requests, AllRequests, CreateRequests, NextRequests, BatchRequests,
           DeleteRequests, UpdateRequests
<1>3. PICK l \in {"listing", "loading", "queued"} : pc' = [pc EXCEPT ![c] = l]
    BY <1>1 DEF Goto, Enqueue
<1>4. TypeOK'
    <2>1. req' \in [Calls -> AllRequests \cup {NoRequest}]
        BY <1>1, <1>2 DEF TypeOK
    <2>2. pc' \in [Calls -> PCs]
        BY <1>3, AllPCs DEF TypeOK, UpdatePCs
    <2>3. issued' \in Nat /\ ticket' \in [Calls -> Nat]
        BY <1>1 DEF TypeOK, Enqueue
    <2> QED BY <2>1, <2>2, <2>3 DEF TypeOK, Begin, store, host, ghost
<1>5. RequestFits'
    <2>1. Fits(pc'[c], req'[c])
        BY <1>1, <1>2, <1>3
           DEF TypeOK, Goto, Enqueue, Fits, CreatePCs, BatchPCs, DeletePCs, UpdatePCs
    <2>2. \A d \in Calls \ {c} : pc'[d] = pc[d] /\ req'[d] = req[d]
        BY <1>1, <1>3 DEF TypeOK
    <2> QED BY <2>1, <2>2 DEF RequestFits
<1> QED BY <1>4, <1>5

LEMMA TypeAcquire ==
    ASSUME TypeInv, NEW c \in Calls, Acquire(c)
    PROVE  TypeInv'
<1> USE DEF TypeInv
<1>1. req[c] \in CreateRequests \cup BatchRequests \cup DeleteRequests
    BY DEF Acquire, RequestFits, Fits
<1>2. PICK l \in {"lookup", "scan", "find"} :
          pc' = [pc EXCEPT ![c] = l] /\ Fits(l, req[c])
    BY <1>1 DEF Acquire, Goto, Fits, CreateRequests, BatchRequests, DeleteRequests,
                CreatePCs, BatchPCs, DeletePCs, UpdatePCs
<1>3. UNCHANGED req /\ l \in PCs
    BY AllPCs DEF Acquire, local, CreatePCs, BatchPCs, DeletePCs
<1>4. RequestFits' /\ pc' \in [Calls -> PCs]
    BY <1>2, <1>3, FitsStep
<1> QED BY <1>4 DEF TypeOK, Acquire, store, host, queue, local, ghost

\* Where a call is tells what it was asked.
LEMMA RequestTyped ==
    ASSUME TypeInv, NEW c \in Calls
    PROVE  /\ pc[c] \in CreatePCs => WantedPath(c) \in Paths
           /\ pc[c] \in BatchPCs => WantedPaths(c) \subseteq Paths
           /\ pc[c] \in CreatePCs \cup BatchPCs \cup {"storing"} => req[c].net \in Networks
           /\ pc[c] \in DeletePCs \cup UpdatePCs => req[c].id \in Ids
<1>1. CASE pc[c] \in CreatePCs
    <2>1. req[c] \in CreateRequests
        BY <1>1 DEF TypeInv, RequestFits, Fits
    <2>2. req[c].net \in Networks /\ req[c].slot \in Slots
        BY <2>1 DEF CreateRequests
    <2> QED BY <1>1, <2>2, PathTyped DEF WantedPath, CreatePCs, BatchPCs, DeletePCs, UpdatePCs
<1>2. CASE pc[c] \in BatchPCs
    <2>1. req[c] \in BatchRequests
        BY <1>2 DEF TypeInv, RequestFits, Fits
    <2>2. req[c].net \in Networks /\ req[c].slots \subseteq Slots
        BY <2>1, BatchAssumption, SlotAssumption DEF BatchRequests
    <2> QED BY <1>2, <2>2, PathTyped DEF WantedPaths, CreatePCs, BatchPCs, DeletePCs, UpdatePCs
<1>3. pc[c] = "storing" => req[c].net \in Networks
    BY BatchAssumption DEF TypeInv, RequestFits, Fits, CreateRequests, BatchRequests
<1>4. pc[c] \in DeletePCs \cup UpdatePCs => req[c].id \in Ids
    BY DEF TypeInv, RequestFits, Fits, DeleteRequests, UpdateRequests
<1> QED BY <1>1, <1>2, <1>3, <1>4 DEF CreatePCs, BatchPCs, DeletePCs, UpdatePCs

\* An account made for a path of a request is an account.
LEMMA NewAccountTyped ==
    ASSUME NEW c \in Calls, req[c].net \in Networks, NEW p \in Paths
    PROVE  NewAccount(c, p) \in Account
BY DEF NewAccount, Account

\* The two writes of an insertion are writes.
LEMMA InsertWritesTyped ==
    ASSUME NEW c \in Calls, req[c].net \in Networks, NEW p \in Paths, NEW id \in Ids
    PROVE  InsertWrites(c, p, id) \subseteq Writes
BY NewAccountTyped DEF InsertWrites, Writes, IndexWrite, AccountWrite

\* A call that ends leaves the types as they are.
LEMMA ReturnTyped ==
    ASSUME TypeInv, NEW c \in Calls, NEW outcome \in Finished,
           Return(c, outcome), UNCHANGED req
    PROVE  RequestFits' /\ pc' \in [Calls -> PCs] /\ settled' \subseteq Nat
<1>1. Fits(outcome, req[c]) /\ outcome \in PCs
    BY AllPCs DEF Finished, Fits, CreatePCs, BatchPCs, DeletePCs, UpdatePCs
<1>2. RequestFits' /\ pc' \in [Calls -> PCs]
    BY <1>1, FitsStep DEF Return, Goto
<1>3. settled' \subseteq Nat
    BY DEF Return, TypeInv, TypeOK
<1> QED BY <1>2, <1>3

\* So does a call that moves on within its operation.
LEMMA GotoTyped ==
    ASSUME TypeInv, NEW c \in Calls, NEW l, Goto(c, l), UNCHANGED req,
           \/ pc[c] \in CreatePCs /\ l \in CreatePCs \cup {"storing"}
           \/ pc[c] \in BatchPCs /\ l \in BatchPCs \cup {"storing"}
           \/ pc[c] = "storing" /\ l = "announce" /\ req[c].op = "create"
           \/ pc[c] \in DeletePCs /\ l \in DeletePCs
           \/ pc[c] \in UpdatePCs /\ l \in UpdatePCs \cup Finished
    PROVE  RequestFits' /\ pc' \in [Calls -> PCs]
<1>1. Fits(pc[c], req[c])
    BY DEF TypeInv, RequestFits
<1>2. l \in PCs
    BY AllPCs DEF CreatePCs, BatchPCs, DeletePCs, UpdatePCs, Finished
<1>3. Fits(l, req[c])
    BY <1>1 DEF Fits, CreatePCs, BatchPCs, DeletePCs, UpdatePCs, Finished,
                CreateRequests, BatchRequests
<1> QED BY <1>2, <1>3, FitsStep DEF Goto

LEMMA TypeCreate ==
    ASSUME TypeInv, NEW c \in Calls, Create(c)
    PROVE  TypeInv'
<1> USE DEF TypeInv, store, host, queue, local, ghost
<1>1. CASE ChooseIndex(c)
    <2>1. CASE \E k \in Slots :
                 /\ req' = [req EXCEPT ![c] = [op |-> "create", net |-> req[c].net, slot |-> k]]
                 /\ Enqueue(c)
        <3>1. PICK k \in Slots :
                 /\ req' = [req EXCEPT ![c] = [op |-> "create", net |-> req[c].net, slot |-> k]]
                 /\ Enqueue(c)
            BY <2>1
        <3>2. [op |-> "create", net |-> req[c].net, slot |-> k] \in CreateRequests
            BY <1>1 DEF ChooseIndex, RequestFits, Fits, NextRequests, CreateRequests
        <3>3. TypeOK'
            BY <1>1, <3>1, <3>2, AllPCs DEF ChooseIndex, TypeOK, Enqueue, Goto, AllRequests
        <3>4. Fits(pc'[c], req'[c])
            BY <3>1, <3>2 DEF TypeOK, Enqueue, Goto, Fits, CreatePCs, BatchPCs, DeletePCs, UpdatePCs
        <3>5. \A d \in Calls \ {c} : pc'[d] = pc[d] /\ req'[d] = req[d]
            BY <3>1 DEF TypeOK, Enqueue, Goto
        <3> QED BY <3>3, <3>4, <3>5 DEF RequestFits
    <2>2. CASE Goto(c, "failed") /\ UNCHANGED <<req, issued, ticket>>
        <3>1. Fits("failed", req[c]) /\ "failed" \in PCs
            BY AllPCs DEF Fits, CreatePCs, BatchPCs, DeletePCs, UpdatePCs
        <3>2. RequestFits' /\ pc' \in [Calls -> PCs]
            BY <2>2, <3>1, FitsStep DEF Goto
        <3> QED BY <1>1, <2>2, <3>2 DEF ChooseIndex, TypeOK
    <2> QED BY <1>1, <2>1, <2>2 DEF ChooseIndex
<1>2. CASE LookupIndex(c)
    <2>1. WantedPath(c) \in Paths
        BY <1>2, RequestTyped DEF LookupIndex, CreatePCs
    <2>2. RequestFits' /\ pc' \in [Calls -> PCs]
        BY <1>2, GotoTyped DEF LookupIndex, CreatePCs
    <2>3. result' \in [Calls -> SUBSET (Paths \X Ids)]
        BY <1>2, <2>1 DEF LookupIndex, TypeOK
    <2> QED BY <1>2, <2>2, <2>3 DEF LookupIndex, TypeOK
<1>3. CASE FetchIndexed(c)
    <2>1. RequestFits' /\ pc' \in [Calls -> PCs] /\ settled' \subseteq Nat
        <3>1. CASE \E l \in {"announce", "derive"} : Goto(c, l) /\ UNCHANGED settled
            BY <1>3, <3>1, GotoTyped DEF FetchIndexed, CreatePCs, TypeOK
        <3>2. CASE Return(c, "failed")
            BY <1>3, <3>2, ReturnTyped DEF FetchIndexed, Finished
        <3> QED BY <1>3, <3>1, <3>2 DEF FetchIndexed
    <2>2. result' \in [Calls -> SUBSET (Paths \X Ids)]
        BY <1>3 DEF FetchIndexed, TypeOK
    <2> QED BY <1>3, <2>1, <2>2 DEF FetchIndexed, TypeOK
<1>4. CASE Insert(c)
    <2>1. WantedPath(c) \in Paths /\ req[c].net \in Networks
        BY <1>4, RequestTyped DEF Insert, CreatePCs
    <2>2. RequestFits' /\ pc' \in [Calls -> PCs]
        BY <1>4, GotoTyped DEF Insert, CreatePCs
    <2>3. PICK id \in Ids \ drawn :
              /\ drawn' = drawn \cup {id}
              /\ fresh' = [fresh EXCEPT ![c] = {<<WantedPath(c), id>>}]
              /\ result' = [result EXCEPT ![c] = {<<WantedPath(c), id>>}]
              /\ inflight' = inflight \cup InsertWrites(c, WantedPath(c), id)
        BY <1>4 DEF Insert
    <2>4. InsertWrites(c, WantedPath(c), id) \subseteq Writes
        BY <2>1, InsertWritesTyped
    <2>5. /\ fresh' \in [Calls -> SUBSET (Paths \X Ids)]
          /\ result' \in [Calls -> SUBSET (Paths \X Ids)]
        BY <2>1, <2>3 DEF TypeOK
    <2> QED BY <1>4, <2>2, <2>3, <2>4, <2>5 DEF Insert, TypeOK
<1>5. CASE InsertAcked(c)
    <2>1. RequestFits' /\ pc' \in [Calls -> PCs] /\ settled' \subseteq Nat
        <3>1. CASE req[c].op = "create" /\ Goto(c, "announce") /\ UNCHANGED settled
            BY <1>5, <3>1, GotoTyped DEF InsertAcked, TypeOK
        <3>2. CASE Return(c, "done")
            BY <1>5, <3>2, ReturnTyped DEF InsertAcked, Finished
        <3> QED BY <1>5, <3>1, <3>2 DEF InsertAcked
    <2> QED BY <1>5, <2>1 DEF InsertAcked, TypeOK
<1>6. CASE Announce(c)
    <2>1. /\ announced' = announced \cup {e[2] : e \in result[c]}
          /\ \/ Return(c, "done")
             \/ Goto(c, "schedule") /\ UNCHANGED settled
        BY <1>6 DEF Announce
    <2>2. announced' \subseteq Ids
        BY <2>1 DEF TypeOK
    <2>3. RequestFits' /\ pc' \in [Calls -> PCs] /\ settled' \subseteq Nat
        BY <1>6, <2>1, GotoTyped, ReturnTyped DEF Announce, CreatePCs, Finished, TypeOK
    <2> QED BY <1>6, <2>2, <2>3 DEF Announce, TypeOK
<1>7. CASE ScheduleScan(c)
    <2>1. RequestFits' /\ pc' \in [Calls -> PCs] /\ settled' \subseteq Nat
        BY <1>7, ReturnTyped DEF ScheduleScan, Finished
    <2> QED BY <1>7, <2>1 DEF ScheduleScan, TypeOK
<1> QED BY <1>1, <1>2, <1>3, <1>4, <1>5, <1>6, <1>7 DEF Create

\* insertMany's whole-map writes have the types of the maps.
LEMMA WholeMapsTyped ==
    ASSUME TypeInv, NEW c \in Calls, req[c].net \in Networks
    PROVE  /\ AccountsWith(c) \in [Ids -> Account \cup {NoAccount}]
           /\ IndexWith(c) \in [Paths -> Ids \cup {NoId}]
<1>1. \A e \in fresh[c] : e \in Paths \X Ids
    BY DEF TypeInv, TypeOK
<1>2. \A id \in Ids : AccountsWith(c)[id] \in Account \cup {NoAccount}
    <2> SUFFICES ASSUME NEW id \in Ids
                 PROVE  AccountsWith(c)[id] \in Account \cup {NoAccount}
        OBVIOUS
    <2>1. CASE \E e \in fresh[c] : e[2] = id
        <3>1. PICK p \in Paths : p = (CHOOSE e \in fresh[c] : e[2] = id)[1]
            BY <1>1, <2>1
        <3> QED BY <2>1, <3>1, NewAccountTyped DEF AccountsWith
    <2>2. CASE ~\E e \in fresh[c] : e[2] = id
        BY <2>2 DEF AccountsWith, TypeInv, TypeOK
    <2> QED BY <2>1, <2>2
<1>3. \A p \in Paths : IndexWith(c)[p] \in Ids \cup {NoId}
    <2> SUFFICES ASSUME NEW p \in Paths
                 PROVE  IndexWith(c)[p] \in Ids \cup {NoId}
        OBVIOUS
    <2>1. CASE \E e \in fresh[c] : e[1] = p
        BY <1>1, <2>1 DEF IndexWith
    <2>2. CASE ~\E e \in fresh[c] : e[1] = p
        BY <2>2 DEF IndexWith, TypeInv, TypeOK
    <2> QED BY <2>1, <2>2
<1> QED BY <1>2, <1>3 DEF AccountsWith, IndexWith

LEMMA TypeCreateMany ==
    ASSUME TypeInv, NEW c \in Calls, CreateMany(c)
    PROVE  TypeInv'
<1> USE DEF TypeInv, store, host, queue, local, ghost
<1>1. CASE ScanStore(c)
    <2>1. WantedPaths(c) \subseteq Paths
        BY <1>1, RequestTyped DEF ScanStore, BatchPCs
    <2>2. RequestFits' /\ pc' \in [Calls -> PCs]
        BY <1>1, GotoTyped DEF ScanStore, BatchPCs
    <2>3. PICK found \in [WantedPaths(c) -> Ids \cup {NoId}] :
             LET repaired == {p \in WantedPaths(c) : found[p] # NoId /\ index[p] # found[p]}
                 kept == {p \in WantedPaths(c) : found[p] # NoId /\ IsRequested(c, found[p])}
                 newIndex == [p \in Paths |-> IF p \in repaired THEN found[p] ELSE index[p]]
             IN /\ result' = [result EXCEPT ![c] = {<<p, found[p]>> : p \in kept}]
                /\ inflight' = inflight \/
                   inflight' = inflight \cup {[kind |-> "indexes", by |-> c, index |-> newIndex]}
        BY <1>1 DEF ScanStore
    <2> DEFINE repaired == {p \in WantedPaths(c) : found[p] # NoId /\ index[p] # found[p]}
               kept == {p \in WantedPaths(c) : found[p] # NoId /\ IsRequested(c, found[p])}
               newIndex == [p \in Paths |-> IF p \in repaired THEN found[p] ELSE index[p]]
    <2>4. {<<p, found[p]>> : p \in kept} \subseteq Paths \X Ids
        BY <2>1
    <2>5. newIndex \in [Paths -> Ids \cup {NoId}]
        BY DEF TypeOK
    <2>6. [kind |-> "indexes", by |-> c, index |-> newIndex] \in Writes
        BY <2>5 DEF Writes, IndexesWrite
    <2>7. result' \in [Calls -> SUBSET (Paths \X Ids)]
        BY <2>3, <2>4 DEF TypeOK
    <2>8. inflight' \subseteq Writes
        BY <2>3, <2>6 DEF TypeOK
    <2> QED BY <1>1, <2>2, <2>7, <2>8 DEF ScanStore, TypeOK
<1>2. CASE ScanBroken(c)
    <2>1. RequestFits' /\ pc' \in [Calls -> PCs] /\ settled' \subseteq Nat
        BY <1>2, ReturnTyped DEF ScanBroken, Finished
    <2> QED BY <1>2, <2>1 DEF ScanBroken, TypeOK
<1>3. CASE Repaired(c)
    <2>1. RequestFits' /\ pc' \in [Calls -> PCs]
        BY <1>3, GotoTyped DEF Repaired, BatchPCs
    <2> QED BY <1>3, <2>1 DEF Repaired, TypeOK
<1>4. CASE InsertBatch(c)
    <2>1. CASE Missing(c) = {} /\ Return(c, "done") /\ UNCHANGED <<inflight, result, fresh, drawn>>
        <3>1. RequestFits' /\ pc' \in [Calls -> PCs] /\ settled' \subseteq Nat
            BY <1>4, <2>1, ReturnTyped DEF InsertBatch, Finished
        <3> QED BY <1>4, <2>1, <3>1 DEF InsertBatch, TypeOK
    <2>2. CASE Missing(c) # {}
        <3>1. PICK id \in [Missing(c) -> Ids \ drawn] :
                LET new == {<<p, id[p]>> : p \in Missing(c)} IN
                      /\ drawn' = drawn \cup {e[2] : e \in new}
                      /\ fresh' = [fresh EXCEPT ![c] = new]
                      /\ result' = [result EXCEPT ![c] = @ \cup new]
                      /\ \/ /\ \E p \in Missing(c) :
                                  inflight' = inflight \cup InsertWrites(c, p, id[p])
                            /\ Goto(c, "storing")
                         \/ /\ Goto(c, "reading")
                            /\ UNCHANGED inflight
            BY <1>4, <2>2 DEF InsertBatch
        <3>2. Missing(c) \subseteq Paths /\ req[c].net \in Networks
            BY <1>4, RequestTyped DEF InsertBatch, Missing, BatchPCs
        <3> DEFINE new == {<<p, id[p]>> : p \in Missing(c)}
        <3>3. new \subseteq Paths \X Ids /\ {e[2] : e \in new} \subseteq Ids
            BY <3>2
        <3>4. /\ fresh' \in [Calls -> SUBSET (Paths \X Ids)]
              /\ result' \in [Calls -> SUBSET (Paths \X Ids)]
              /\ drawn' \subseteq Ids
            BY <3>1, <3>3 DEF TypeOK
        <3>5. inflight' \subseteq Writes
            <4>1. \A p \in Missing(c) : InsertWrites(c, p, id[p]) \subseteq Writes
                BY <3>2, InsertWritesTyped
            <4> QED BY <3>1, <4>1 DEF TypeOK
        <3>6. RequestFits' /\ pc' \in [Calls -> PCs]
            BY <1>4, <3>1, GotoTyped DEF InsertBatch, BatchPCs
        <3>7. UNCHANGED settled
            BY <1>4, <2>2 DEF InsertBatch
        <3> QED BY <1>4, <3>4, <3>5, <3>6, <3>7 DEF InsertBatch, TypeOK
    <2> QED BY <1>4, <2>1, <2>2 DEF InsertBatch
<1>5. CASE ReadStore(c)
    <2>1. RequestFits' /\ pc' \in [Calls -> PCs]
        BY <1>5, GotoTyped DEF ReadStore, BatchPCs
    <2>2. req[c].net \in Networks
        BY <1>5, RequestTyped DEF ReadStore, BatchPCs
    <2>3. [kind |-> "accounts", by |-> c, accounts |-> AccountsWith(c)] \in Writes
        BY <2>2, WholeMapsTyped DEF Writes, AccountsWrite
    <2> QED BY <1>5, <2>1, <2>3 DEF ReadStore, TypeOK
<1>6. CASE WriteIndexes(c)
    <2>1. RequestFits' /\ pc' \in [Calls -> PCs]
        BY <1>6, GotoTyped DEF WriteIndexes, BatchPCs
    <2>2. req[c].net \in Networks
        BY <1>6, RequestTyped DEF WriteIndexes, BatchPCs
    <2>3. [kind |-> "indexes", by |-> c, index |-> IndexWith(c)] \in Writes
        BY <2>2, WholeMapsTyped DEF Writes, IndexesWrite
    <2> QED BY <1>6, <2>1, <2>3 DEF WriteIndexes, TypeOK
<1> QED BY <1>1, <1>2, <1>3, <1>4, <1>5, <1>6 DEF CreateMany

LEMMA TypeDelete ==
    ASSUME TypeInv, NEW c \in Calls, Delete(c)
    PROVE  TypeInv'
<1> USE DEF TypeInv, store, host, queue, local, ghost
<1>1. CASE FindAccount(c)
    <2>1. req[c].id \in Ids
        BY <1>1, RequestTyped DEF FindAccount, DeletePCs
    <2>2. RequestFits' /\ pc' \in [Calls -> PCs] /\ settled' \subseteq Nat
        BY <1>1, GotoTyped, ReturnTyped DEF FindAccount, DeletePCs, Finished, TypeOK
    <2> QED BY <1>1, <2>1, <2>2 DEF FindAccount, TypeOK
<1>2. CASE Retract(c)
    <2>1. RequestFits' /\ pc' \in [Calls -> PCs]
        BY <1>2, GotoTyped DEF Retract, DeletePCs
    <2> QED BY <1>2, <2>1 DEF Retract, TypeOK
<1>3. CASE Remove(c)
    <2>1. req[c].id \in Ids
        BY <1>3, RequestTyped DEF Remove, DeletePCs
    <2>2. RequestFits' /\ pc' \in [Calls -> PCs] /\ settled' \subseteq Nat
        BY <1>3, GotoTyped, ReturnTyped DEF Remove, DeletePCs, Finished, TypeOK
    <2>3. Whole(req[c].id) => RemoveWrites(c, req[c].id) \subseteq Writes
        BY <2>1 DEF Whole, RemoveWrites, TypeOK, Account, Writes, IndexWrite, AccountWrite
    <2>4. inflight' \subseteq Writes
        BY <1>3, <2>3 DEF Remove, TypeOK
    <2> QED BY <1>3, <2>2, <2>4 DEF Remove, TypeOK
<1>4. CASE RemoveAcked(c)
    <2>1. RequestFits' /\ pc' \in [Calls -> PCs] /\ settled' \subseteq Nat
        BY <1>4, ReturnTyped DEF RemoveAcked, Finished
    <2> QED BY <1>4, <2>1 DEF RemoveAcked, TypeOK
<1> QED BY <1>1, <1>2, <1>3, <1>4 DEF Delete

LEMMA TypeUpdate ==
    ASSUME TypeInv, NEW c \in Calls, UpdateAccount(c)
    PROVE  TypeInv'
<1> USE DEF TypeInv, store, host, queue, local, ghost
<1>1. CASE Load(c)
    <2>1. RequestFits' /\ pc' \in [Calls -> PCs]
        BY <1>1, GotoTyped DEF Load, UpdatePCs, Finished
    <2> QED BY <1>1, <2>1 DEF Load, TypeOK
<1>2. CASE MergeStaged(c)
    <2>1. req[c].id \in Ids
        BY <1>2, RequestTyped DEF MergeStaged, UpdatePCs
    <2>2. RequestFits' /\ pc' \in [Calls -> PCs]
        BY <1>2, GotoTyped DEF MergeStaged, UpdatePCs, Finished
    <2>3. accounts[req[c].id] # NoAccount =>
             [kind |-> "wallet", by |-> c, id |-> req[c].id, net |-> accounts[req[c].id].net,
              part |-> "wallet", wallet |-> accounts[req[c].id].wallet \cup {c}] \in Writes
        BY <2>1 DEF TypeOK, Account, Writes, WalletWrite
    <2>4. inflight' \subseteq Writes
        BY <1>2, <2>3 DEF MergeStaged, StagedWrite, HasWallet, TypeOK
    <2> QED BY <1>2, <2>2, <2>4 DEF MergeStaged, TypeOK
<1>3. CASE MergeAcked(c)
    <2>1. RequestFits' /\ pc' \in [Calls -> PCs]
        BY <1>3, GotoTyped DEF MergeAcked, UpdatePCs, Finished
    <2>2. req[c].id \in Ids
        BY <1>3, RequestTyped DEF MergeAcked, UpdatePCs, Merging
    <2>3. \A net \in Networks : InscriptionsWrite(c, net) \in Writes
        BY <2>2 DEF InscriptionsWrite, Writes, WalletWrite
    <2>4. inflight' \subseteq Writes
        BY <1>3, <2>3 DEF MergeAcked, TypeOK
    <2> QED BY <1>3, <2>1, <2>4 DEF MergeAcked, TypeOK
<1>4. CASE MarkAcked(c)
    <2>1. RequestFits' /\ pc' \in [Calls -> PCs]
        BY <1>4, GotoTyped DEF MarkAcked, UpdatePCs, Finished
    <2> QED BY <1>4, <2>1 DEF MarkAcked, TypeOK
<1> QED BY <1>1, <1>2, <1>3, <1>4 DEF UpdateAccount

\* Ending a call as failed fits any request.
LEMMA FailFits ==
    ASSUME NEW r
    PROVE  Fits("failed", r) /\ Fits("idle", r) /\ Fits("done", r)
BY DEF Fits, CreatePCs, BatchPCs, DeletePCs, UpdatePCs

LEMMA TypeLand ==
    ASSUME TypeInv, NEW w \in inflight, Land(w)
    PROVE  TypeInv'
<1> USE DEF TypeInv, host, queue, local, ghost
<1>1. w \in Writes /\ w.by \in Calls
    BY DEF TypeOK, Writes, IndexWrite, AccountWrite, WalletWrite, IndexesWrite, AccountsWrite
<1>2. inflight' \subseteq Writes
    BY DEF Land, TypeOK
<1>3. CASE w.kind # "wallet"
    <2>1. UNCHANGED pc /\ UNCHANGED req
        BY <1>3 DEF Land
    <2>2. /\ accounts' \in [Ids -> Account \cup {NoAccount}]
          /\ index' \in [Paths -> Ids \cup {NoId}]
        BY <1>1, <1>3 DEF Land, TypeOK, Writes, IndexWrite, AccountWrite, WalletWrite,
                          IndexesWrite, AccountsWrite
    <2> QED BY <1>2, <2>1, <2>2 DEF Land, TypeOK, RequestFits
<1>4. CASE w.kind = "wallet"
    <2>1. w.id \in Ids /\ w.net \in Networks /\ w.wallet \in SUBSET Calls
        BY <1>1, <1>4 DEF Writes, IndexWrite, AccountWrite, WalletWrite, IndexesWrite, AccountsWrite
    <2>2. LandWallet(w) /\ UNCHANGED <<index, req>>
        BY <1>4 DEF Land
    <2>3. accounts' \in [Ids -> Account \cup {NoAccount}]
        <3>1. CASE accounts[w.id] # NoAccount
            <4>1. accounts[w.id] \in Account
                BY <2>1, <3>1 DEF TypeOK
            <4>2. Overwritten(w) \in Account
                BY <2>1, <4>1 DEF Account, Overwritten
            <4> QED BY <2>1, <2>2, <3>1, <4>2 DEF LandWallet, TypeOK
        <3>2. CASE accounts[w.id] = NoAccount
            <4>1. [path |-> NoPath, net |-> w.net, wallet |-> w.wallet] \in Account
                BY <2>1 DEF Account
            <4> QED BY <2>1, <2>2, <3>2, <4>1 DEF LandWallet, TypeOK
        <3> QED BY <3>1, <3>2
    <2>4. RequestFits' /\ pc' \in [Calls -> PCs]
        <3>1. CASE UNCHANGED pc
            BY <2>2, <3>1 DEF RequestFits, TypeOK
        <3>2. CASE pc' = [pc EXCEPT ![w.by] = "failed"]
            BY <1>1, <2>2, <3>2, FailFits, FitsStep, AllPCs
        <3> QED BY <2>2, <3>1, <3>2 DEF LandWallet
    <2> QED BY <1>2, <2>2, <2>3, <2>4 DEF Land, TypeOK
<1> QED BY <1>3, <1>4

LEMMA TypeFault ==
    ASSUME TypeInv,
           \/ \E w \in inflight : Lose(w)
           \/ \E c \in Calls : Throw(c)
           \/ Crash
    PROVE  TypeInv'
<1> USE DEF TypeInv, host, queue, local, ghost, store
<1>0. Fault => faults' \in 0..MaxFaults
    BY FaultAssumption DEF Fault, TypeOK
<1>1. ASSUME NEW w \in inflight, Lose(w)
      PROVE  TypeInv'
    <2>1. w.by \in Calls
        BY DEF TypeOK, Writes, IndexWrite, AccountWrite, WalletWrite, IndexesWrite, AccountsWrite
    <2>2. RequestFits' /\ pc' \in [Calls -> PCs] /\ settled' \subseteq Nat
        <3>1. CASE Return(w.by, "failed")
            BY <1>1, <2>1, <3>1, ReturnTyped DEF Lose, Finished
        <3>2. CASE UNCHANGED <<pc, settled>>
            BY <1>1, <3>2 DEF Lose, RequestFits, TypeOK
        <3> QED BY <1>1, <3>1, <3>2 DEF Lose
    <2> QED BY <1>0, <1>1, <2>2 DEF Lose, TypeOK
<1>2. ASSUME NEW c \in Calls, Throw(c)
      PROVE  TypeInv'
    <2>1. RequestFits' /\ pc' \in [Calls -> PCs] /\ settled' \subseteq Nat
        BY <1>2, ReturnTyped DEF Throw, Finished
    <2> QED BY <1>0, <1>2, <2>1 DEF Throw, TypeOK
<1>3. CASE Crash
    <2>1. \A c \in Calls : pc'[c] \in {"idle", "done", "failed"}
        BY <1>3 DEF Crash, Idle
    <2>2. pc' \in [Calls -> PCs] /\ settled' \subseteq Nat
        BY <1>3, AllPCs DEF Crash, TypeOK, Idle
    <2>3. RequestFits'
        BY <2>1, FailFits DEF RequestFits
    <2> QED BY <1>0, <1>3, <2>2, <2>3 DEF Crash, TypeOK
<1> QED BY <1>1, <1>2, <1>3

LEMMA TypeInit == Init => TypeInv
<1> SUFFICES ASSUME Init PROVE TypeInv
    OBVIOUS
<1>1. TypeOK
    BY FaultAssumption, AllPCs DEF Init, TypeOK
<1>2. RequestFits
    BY FailFits DEF Init, RequestFits
<1> QED BY <1>1, <1>2 DEF TypeInv

LEMMA TypeStep == TypeInv /\ [Next]_vars => TypeInv'
<1> SUFFICES ASSUME TypeInv, [Next]_vars PROVE TypeInv'
    OBVIOUS
<1>1. CASE UNCHANGED vars
    BY <1>1 DEF vars, store, host, queue, local, ghost, TypeInv, TypeOK, RequestFits
<1>2. ASSUME NEW c \in Calls, Proceed(c)
      PROVE  TypeInv'
    BY <1>2, TypeAcquire, TypeCreate, TypeCreateMany, TypeDelete, TypeUpdate DEF Proceed
<1>3. ASSUME NEW c \in Calls, Begin(c)
      PROVE  TypeInv'
    BY <1>3, TypeBegin
<1>4. ASSUME NEW w \in inflight, Land(w)
      PROVE  TypeInv'
    BY <1>4, TypeLand
<1> QED BY <1>1, <1>2, <1>3, <1>4, TypeFault DEF Next, Quiescent

\* Every behaviour of the registry keeps the types of its state, whatever
\* the networks, the calls and the faults.
THEOREM TypeCorrect == Spec => []TypeOK
<1>1. TypeInv => TypeOK
    BY DEF TypeInv
<1> QED BY <1>1, TypeInit, TypeStep, PTL DEF Spec

-----------------------------------------------------------------------------
(* Mutual exclusion.                                                       *)

LEMMA QueueInit == Init => QueueInv
BY AllPCs DEF Init, QueueInv, QueueTyped, SettledPrefix, TicketsDistinct, TicketsHeld,
              Unqueued, Mutating, Awaiting, Writing

\* The steps of a call that holds the queue either keep it or end it.
LEMMA QueueProceed ==
    ASSUME QueueInv, NEW c \in Calls, Proceed(c)
    PROVE  QueueInv'
<1> USE DEF queue, local
<1>1. CASE Acquire(c)
    BY <1>1, QueueEnter DEF Acquire, Goto, Mutating, Awaiting
<1>2. CASE ChooseIndex(c)
    BY <1>2, QueueJoin, QueueStay DEF ChooseIndex, Goto, Unqueued, Finished
<1>3. CASE Create(c) /\ ~ChooseIndex(c)
    <2>1. pc[c] \in Mutating /\ UNCHANGED <<issued, ticket>>
        BY <1>3 DEF Create, LookupIndex, FetchIndexed, Insert, InsertAcked, Announce,
                    ScheduleScan, Mutating, Awaiting, Writing
    <2>2. \/ \E l \in Mutating : Goto(c, l) /\ UNCHANGED settled
          \/ \E l \in Finished : Return(c, l)
        BY <1>3 DEF Create, LookupIndex, FetchIndexed, Insert, InsertAcked, Announce,
                    ScheduleScan, Mutating, Awaiting, Writing, Finished
    <2> QED BY <2>1, <2>2, QueueStay, QueueLeave DEF Goto
<1>4. CASE CreateMany(c)
    <2>1. pc[c] \in Mutating /\ UNCHANGED <<issued, ticket>>
        BY <1>4 DEF CreateMany, ScanStore, ScanBroken, Repaired, InsertBatch, ReadStore,
                    WriteIndexes, Mutating, Awaiting, Writing
    <2>2. \/ \E l \in Mutating : Goto(c, l) /\ UNCHANGED settled
          \/ \E l \in Finished : Return(c, l)
        BY <1>4 DEF CreateMany, ScanStore, ScanBroken, Repaired, InsertBatch, ReadStore,
                    WriteIndexes, Mutating, Awaiting, Writing, Finished
    <2> QED BY <2>1, <2>2, QueueStay, QueueLeave DEF Goto
<1>5. CASE Delete(c)
    <2>1. pc[c] \in Mutating /\ UNCHANGED <<issued, ticket>>
        BY <1>5 DEF Delete, FindAccount, Retract, Remove, RemoveAcked, Mutating, Awaiting, Writing
    <2>2. \/ \E l \in Mutating : Goto(c, l) /\ UNCHANGED settled
          \/ \E l \in Finished : Return(c, l)
        BY <1>5 DEF Delete, FindAccount, Retract, Remove, RemoveAcked, Mutating, Awaiting,
                    Writing, Finished
    <2> QED BY <2>1, <2>2, QueueStay, QueueLeave DEF Goto
<1>6. CASE UpdateAccount(c)
    <2>1. \E l \in Unqueued \cup Finished : Goto(c, l)
        BY <1>6 DEF UpdateAccount, Load, MergeStaged, MergeAcked, MarkAcked, Merging, Unqueued, Finished
    <2>2. pc[c] \in Unqueued /\ UNCHANGED <<issued, settled, ticket>>
        BY <1>6 DEF UpdateAccount, Load, MergeStaged, MergeAcked, MarkAcked, Merging, Unqueued
    <2> QED BY <2>1, <2>2, QueueStay DEF Goto
<1> QED BY <1>1, <1>2, <1>3, <1>4, <1>5, <1>6 DEF Proceed

LEMMA QueueStep == TypeInv /\ QueueInv /\ [Next]_vars => QueueInv'
<1> SUFFICES ASSUME TypeInv, QueueInv, [Next]_vars PROVE QueueInv'
    OBVIOUS
<1> USE DEF queue, local
<1>1. CASE UNCHANGED vars
    BY <1>1 DEF vars, QueueInv, QueueTyped, SettledPrefix, TicketsDistinct, TicketsHeld
<1>2. ASSUME NEW c \in Calls, Begin(c)
      PROVE  QueueInv'
    BY <1>2, QueueJoin, QueueStay DEF Begin, Goto, Unqueued
<1>3. \A w \in inflight : w.by \in Calls
    BY DEF TypeInv, TypeOK, Writes, IndexWrite, AccountWrite, WalletWrite, IndexesWrite,
           AccountsWrite
<1>4. ASSUME NEW w \in inflight, Land(w)
      PROVE  QueueInv'
    <2>1. UNCHANGED <<issued, settled, ticket>>
        BY <1>4 DEF Land
    <2>2. CASE UNCHANGED pc
        BY <2>1, <2>2 DEF QueueInv, QueueTyped, SettledPrefix, TicketsDistinct, TicketsHeld
    <2>3. CASE pc[w.by] \in Merging /\ pc' = [pc EXCEPT ![w.by] = "failed"]
        BY <1>3, <2>1, <2>3, QueueStay DEF Merging, Unqueued, Finished
    <2> QED BY <1>4, <2>2, <2>3 DEF Land, LandWallet
<1>5. ASSUME NEW w \in inflight, Lose(w)
      PROVE  QueueInv'
    <2>1. UNCHANGED <<issued, ticket>>
        BY <1>5 DEF Lose
    <2>2. CASE pc[w.by] \in Writing \cup Merging /\ Return(w.by, "failed")
        BY <1>3, <2>1, <2>2, QueueLeave DEF Mutating, Merging, Unqueued, Finished
    <2>3. CASE UNCHANGED <<pc, settled>>
        BY <2>1, <2>3 DEF QueueInv, QueueTyped, SettledPrefix, TicketsDistinct, TicketsHeld
    <2> QED BY <1>5, <2>2, <2>3 DEF Lose
<1>6. ASSUME NEW c \in Calls, Throw(c)
      PROVE  QueueInv'
    BY <1>6, QueueLeave DEF Throw, Mutating, Unqueued, Finished
<1>7. CASE Crash
    <2>1. \A c \in Calls : pc'[c] \in {"idle", "done", "failed"}
                           /\ (pc'[c] = "idle" => pc[c] = "idle")
        BY <1>7 DEF Crash, Idle
    <2>2. settled' = 0..issued /\ UNCHANGED <<issued, ticket>>
        BY <1>7 DEF Crash
    <2>3. QueueTyped'
        BY <1>7, <2>2, AllPCs DEF Crash, Idle, QueueInv, QueueTyped
    <2>4. SettledPrefix' /\ TicketsDistinct'
        BY <2>2 DEF QueueInv, QueueTyped, SettledPrefix, TicketsDistinct
    <2>5. TicketsHeld'
        BY <2>1, <2>2, Phases DEF QueueInv, TicketsHeld, Finished
    <2> QED BY <2>3, <2>4, <2>5 DEF QueueInv
<1> QED BY <1>1, <1>2, <1>4, <1>5, <1>6, <1>7, QueueProceed DEF Next, Quiescent

\* At most one account mutation runs at a time: for any number of calls, with
\* failed host calls and restarts at any point.
THEOREM Exclusion == Spec => []MutualExclusion
<1>1. Init => TypeInv /\ QueueInv
    BY TypeInit, QueueInit
<1>2. TypeInv /\ QueueInv /\ [Next]_vars => (TypeInv /\ QueueInv)'
    BY TypeStep, QueueStep
<1>3. TypeInv /\ QueueInv => MutualExclusion
    BY QueueExcludes
<1> QED BY <1>1, <1>2, <1>3, PTL DEF Spec
=============================================================================
