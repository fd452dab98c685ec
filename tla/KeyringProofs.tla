--------------------------- MODULE KeyringProofs ---------------------------
(***************************************************************************)
(* Proofs about Keyring, for ranges, chunks and pages of any size and any  *)
(* number of callers, readers and transactions.                            *)
(***************************************************************************)
EXTENDS Keyring, FiniteSetTheorems, SequenceTheorems, TLAPS

-----------------------------------------------------------------------------
(* The range of createAccounts.                                            *)

Batches == [pc : {"idle", "await", "done", "failed"}, from : Nat, to : 0..MaxIndex,
            chunkFrom : Nat, chunkTo : Nat, got : Seq(Nat)]

\* What a batch has is the beginning of its range, up to the chunk it awaits.
InOrder(b) ==
    /\ b.chunkFrom = b.from + Len(b.got) /\ b.got = Chunk(b.from, b.chunkFrom - 1)
    /\ b.chunkFrom <= b.chunkTo /\ b.chunkTo <= b.to
    /\ b.chunkTo - b.chunkFrom < BatchSize

BatchOK(b) ==
    /\ b \in Batches
    /\ b.pc = "await" => InOrder(b)
    /\ b.pc = "done" => b.got = Chunk(b.from, b.to)

RangeInv == /\ batch \in [Callers -> Batches]
            /\ \A c \in Callers : BatchOK(batch[c])

\* Rounding changes a sum by one at most, and only a sum above MaxIndex + 1.
LEMMA PlusBounds ==
    ASSUME NEW x \in Int, NEW y \in Int
    PROVE  /\ Plus(x, y) \in Int
           /\ x + y <= MaxIndex + 1 => Plus(x, y) = x + y
           /\ x + y > MaxIndex + 1 => Plus(x, y) >= MaxIndex + 1
<1>1. Plus(x, y) \in {x + y - 1, x + y, x + y + 1} BY DEF Plus
<1>2. x + y <= MaxIndex + 1 => Plus(x, y) = x + y BY DEF Plus
<1> QED BY <1>1, <1>2, SizeAssumption

\* A chunk ends within the range and is no longer than it may be, though the sums
\* are rounded: where they are, the chunk is the last one.
LEMMA ChunkEndBounds ==
    ASSUME NEW from \in Nat, NEW to \in 0..MaxIndex, from <= to
    PROVE  /\ ChunkEnd(from, to) \in Nat
           /\ from <= ChunkEnd(from, to) /\ ChunkEnd(from, to) <= to
           /\ ChunkEnd(from, to) - from < BatchSize
<1> DEFINE sum == Plus(from, BatchSize)
           last == Plus(sum, -1)
<1>0. /\ MaxIndex \in Nat /\ BatchSize \in Nat \ {0} /\ -1 \in Int /\ BatchSize \in Int
      /\ from \in Int
  BY SizeAssumption
<1>1. /\ sum \in Int
      /\ from + BatchSize <= MaxIndex + 1 => sum = from + BatchSize
      /\ from + BatchSize > MaxIndex + 1 => sum >= MaxIndex + 1
  BY <1>0, PlusBounds
<1> HIDE DEF sum
<1>2. /\ last \in Int
      /\ sum + (-1) <= MaxIndex + 1 => last = sum + (-1)
      /\ sum + (-1) > MaxIndex + 1 => last >= MaxIndex + 1
  BY <1>0, <1>1, PlusBounds
<1> HIDE DEF last
<1>3. last = from + BatchSize - 1 \/ (last >= to /\ from + BatchSize - 1 >= to)
  <2>1. CASE from + BatchSize <= MaxIndex + 1 BY <1>0, <1>1, <1>2, <2>1
  <2>2. CASE from + BatchSize > MaxIndex + 1
    <3>1. sum >= MaxIndex + 1 BY <1>1, <2>2
    <3>2. CASE sum + (-1) <= MaxIndex + 1 BY <1>0, <1>1, <1>2, <3>1, <3>2
    <3>3. CASE sum + (-1) > MaxIndex + 1 BY <1>0, <1>1, <1>2, <3>3
    <3>4. from + BatchSize - 1 >= to BY <1>0, <2>2
    <3> QED BY <1>0, <1>1, <3>2, <3>3, <3>4
  <2> QED BY <1>0, <2>1, <2>2
<1>4. ChunkEnd(from, to) = IF last < to THEN last ELSE to BY DEF ChunkEnd, last, sum
<1> QED BY <1>0, <1>2, <1>3, <1>4

\* Within the range the next chunk begins right after the one before.
LEMMA NextChunkExact ==
    ASSUME NEW end \in Nat, end < MaxIndex
    PROVE  NextChunk(end) = end + 1
BY SizeAssumption, PlusBounds DEF NextChunk

\* A chunk is a sequence of as many indices as it spans.
LEMMA ChunkSeq ==
    ASSUME NEW from \in Nat, NEW to \in Int, from <= to + 1
    PROVE  /\ Chunk(from, to) \in Seq(Nat)
           /\ Len(Chunk(from, to)) = to - from + 1
<1> DEFINE n == to - from + 1
<1>1. n \in Nat OBVIOUS
<1>2. Chunk(from, to) \in [1..n -> Nat] BY DEF Chunk
<1>3. Chunk(from, to) \in Seq(Nat) BY <1>1, <1>2
<1> QED BY <1>1, <1>2, <1>3

\* A sequence that is made of two, element by element, is their concatenation.
LEMMA JoinedBy ==
    ASSUME NEW s \in Seq(Nat), NEW t \in Seq(Nat), NEW u \in Seq(Nat),
           Len(u) = Len(s) + Len(t),
           \A k \in 1..Len(s) : u[k] = s[k],
           \A k \in 1..Len(t) : u[Len(s) + k] = t[k]
    PROVE  s \o t = u
<1>1. s \o t \in Seq(Nat) /\ Len(s \o t) = Len(u) BY ConcatProperties
<1>2. \A k \in 1..Len(u) : (s \o t)[k] = u[k]
  <2>1. SUFFICES ASSUME NEW k \in 1..Len(u) PROVE (s \o t)[k] = u[k] OBVIOUS
  <2>2. CASE k <= Len(s) BY <2>2, ConcatProperties
  <2>3. CASE k > Len(s)
    <3>1. (s \o t)[k] = t[k - Len(s)] BY <2>3, ConcatProperties
    <3>2. k - Len(s) \in 1..Len(t) BY <2>3
    <3>3. u[Len(s) + (k - Len(s))] = t[k - Len(s)] BY <3>2
    <3>4. Len(s) + (k - Len(s)) = k OBVIOUS
    <3> QED BY <3>1, <3>3, <3>4
  <2> QED BY <2>2, <2>3
<1> QED BY <1>1, <1>2, SeqEqual

\* Two consecutive chunks are a chunk.
LEMMA ChunksJoin ==
    ASSUME NEW from \in Nat, NEW mid \in Nat, NEW to \in Nat, from <= mid, mid <= to + 1
    PROVE  Chunk(from, mid - 1) \o Chunk(mid, to) = Chunk(from, to)
<1> DEFINE s == Chunk(from, mid - 1)  t == Chunk(mid, to)  u == Chunk(from, to)
<1>a. s \in Seq(Nat) /\ Len(s) = mid - from BY ChunkSeq
<1>b. t \in Seq(Nat) /\ Len(t) = to - mid + 1 BY ChunkSeq
<1>c. u \in Seq(Nat) /\ Len(u) = to - from + 1 BY ChunkSeq
<1>1. s \in Seq(Nat) /\ t \in Seq(Nat) /\ u \in Seq(Nat) BY <1>a, <1>b, <1>c
<1>2. Len(s) = mid - from /\ Len(t) = to - mid + 1 /\ Len(u) = to - from + 1
  BY <1>a, <1>b, <1>c
<1>3. \A k \in 1..(mid - from) : u[k] = s[k] BY DEF Chunk
<1>4. \A k \in 1..(to - mid + 1) : u[(mid - from) + k] = t[k] BY DEF Chunk
<1> HIDE DEF s, t, u
<1>5. Len(u) = Len(s) + Len(t) BY <1>2
<1>6. \A k \in 1..Len(s) : u[k] = s[k] BY <1>2, <1>3
<1>7. \A k \in 1..Len(t) : u[Len(s) + k] = t[k] BY <1>2, <1>4
<1>8. s \o t = u BY <1>1, <1>5, <1>6, <1>7, JoinedBy
<1> QED BY <1>8 DEF s, t, u

\* A batch that was refused or has failed has nothing.
LEMMA FailedOK == BatchOK([NoBatch EXCEPT !.pc = "failed"])
<1> DEFINE b == [NoBatch EXCEPT !.pc = "failed"]
<1>1. <<>> \in Seq(Nat) BY EmptySeq
<1>2. b = [pc |-> "failed", from |-> 0, to |-> 0, chunkFrom |-> 0, chunkTo |-> 0, got |-> <<>>]
  BY DEF NoBatch
<1> HIDE DEF b
<1>3. b \in Batches /\ b.pc = "failed" BY <1>1, <1>2, SizeAssumption DEF Batches
<1>4. BatchOK(b) BY <1>3 DEF BatchOK
<1> QED BY <1>4 DEF b

\* The first chunk of a range, or a refusal: either is a batch in order.
LEMMA CreateAccountsKeeps ==
    ASSUME RangeInv, NEW c \in Callers,
           NEW from \in -1..(MaxIndex + 1), NEW to \in -1..(MaxIndex + 1),
           CreateAccounts(c, from, to)
    PROVE  RangeInv'
<1> DEFINE b == IF IsRange(from, to)
                THEN [pc |-> "await", from |-> from, to |-> to,
                      chunkFrom |-> from, chunkTo |-> ChunkEnd(from, to), got |-> <<>>]
                ELSE [NoBatch EXCEPT !.pc = "failed"]
<1>1. BatchOK(b)
  <2>1. CASE IsRange(from, to)
    <3>1. from \in Nat /\ to \in 0..MaxIndex /\ from <= to BY <2>1, SizeAssumption DEF IsRange
    <3>2. Chunk(from, from - 1) = <<>>
      <4> DEFINE none == Chunk(from, from - 1)
      <4>1. none \in Seq(Nat) BY <3>1, ChunkSeq
      <4>2. Len(none) = from - 1 - from + 1 BY <3>1, ChunkSeq
      <4> HIDE DEF none
      <4>3. none = <<>> BY <3>1, <4>1, <4>2, EmptySeq
      <4> QED BY <4>3 DEF none
    <3>3. /\ ChunkEnd(from, to) \in Nat /\ from <= ChunkEnd(from, to)
          /\ ChunkEnd(from, to) <= to /\ ChunkEnd(from, to) - from < BatchSize
      BY <3>1, ChunkEndBounds
    <3>a. <<>> \in Seq(Nat) /\ Len(<<>>) = 0 BY EmptySeq
    <3>b. b = [pc |-> "await", from |-> from, to |-> to,
               chunkFrom |-> from, chunkTo |-> ChunkEnd(from, to), got |-> <<>>]
      BY <2>1
    <3>4. /\ b \in Batches /\ b.pc = "await" /\ b.from = from /\ b.to = to
          /\ b.chunkFrom = from /\ b.chunkTo = ChunkEnd(from, to) /\ b.got = <<>>
      BY <3>1, <3>3, <3>a, <3>b DEF Batches
    <3>5. b.from + Len(b.got) = from BY <3>1, <3>a, <3>4
    <3>6. b.got = Chunk(b.from, from - 1) BY <3>2, <3>4
    <3> HIDE DEF b
    <3>7. InOrder(b) BY <3>3, <3>4, <3>5, <3>6 DEF InOrder
    <3>8. b.pc # "done" BY <3>4
    <3> QED BY <3>1, <3>4, <3>7, <3>8 DEF BatchOK
  <2>2. CASE ~IsRange(from, to)
    BY <2>2, FailedOK
  <2> QED BY <2>1, <2>2
<1>2. b \in Batches BY <1>1 DEF BatchOK
<1>3. batch' = [batch EXCEPT ![c] = b] BY DEF CreateAccounts
<1> HIDE DEF b
<1> QED BY <1>1, <1>2, <1>3 DEF RangeInv

\* The chunk is appended; the range is complete when it was the last one.
LEMMA ChunkCreatedKeeps ==
    ASSUME RangeInv, NEW c \in Callers, ChunkCreated(c)
    PROVE  RangeInv'
<1> DEFINE b == batch[c]
           end == b.chunkTo
           mid == b.chunkFrom
<1>1. /\ b \in Batches /\ b.from \in Nat /\ b.to \in 0..MaxIndex /\ end \in Nat
      /\ mid \in Nat /\ b.got \in Seq(Nat) /\ Len(b.got) \in Nat /\ MaxIndex \in Nat
  BY SizeAssumption DEF RangeInv, Batches
<1>2. InOrder(b)
  BY DEF RangeInv, BatchOK, ChunkCreated
<1>3. end # b.to => NextChunk(end) = end + 1
  BY <1>1, <1>2, NextChunkExact DEF InOrder
<1>4. mid <= end /\ end <= b.to /\ b.got = Chunk(b.from, mid - 1) /\ b.from <= mid
  BY <1>1, <1>2 DEF InOrder
<1> DEFINE got == b.got \o Chunk(mid, end)
           n == [b EXCEPT !.got = got,
                          !.chunkFrom = IF end = b.to THEN @ ELSE NextChunk(end),
                          !.chunkTo = IF end = b.to THEN @ ELSE ChunkEnd(NextChunk(end), b.to),
                          !.pc = IF end = b.to THEN "done" ELSE "await"]
<1>5. batch' = [batch EXCEPT ![c] = n] BY DEF ChunkCreated, RangeInv
<1>6. got = Chunk(b.from, end)
  <2>1. mid <= end + 1 BY <1>1, <1>4
  <2>2. Chunk(b.from, mid - 1) \o Chunk(mid, end) = Chunk(b.from, end)
    BY <1>1, <1>4, <2>1, ChunksJoin
  <2> QED BY <1>4, <2>2
<1>7. got \in Seq(Nat) /\ Len(got) = end - b.from + 1
  <2>1. b.from <= end + 1 /\ end \in Int BY <1>1, <1>4
  <2> HIDE DEF got, b
  <2> QED BY <1>1, <1>6, <2>1, ChunkSeq
<1>8. BatchOK(n)
  <2>1. CASE end = b.to
    <3>1. n.pc = "done" /\ n.from = b.from /\ n.to = b.to /\ n.got = got /\ n \in Batches
      BY <1>1, <1>7, <2>1 DEF Batches
    <3>2. n.got = Chunk(n.from, n.to) BY <1>6, <2>1, <3>1
    <3> HIDE DEF n, got
    <3> QED BY <3>1, <3>2 DEF BatchOK
  <2>2. CASE end # b.to
    <3>1. end + 1 \in Nat /\ end + 1 <= b.to BY <1>1, <1>4, <2>2
    <3>2. /\ ChunkEnd(end + 1, b.to) \in Nat
          /\ end + 1 <= ChunkEnd(end + 1, b.to) /\ ChunkEnd(end + 1, b.to) <= b.to
          /\ ChunkEnd(end + 1, b.to) - (end + 1) < BatchSize
      BY <1>1, <3>1, ChunkEndBounds
    <3>3. /\ n.pc = "await" /\ n.from = b.from /\ n.to = b.to /\ n.got = got
          /\ n.chunkFrom = end + 1 /\ n.chunkTo = ChunkEnd(end + 1, b.to) /\ n \in Batches
      BY <1>1, <1>3, <1>7, <2>2, <3>1, <3>2 DEF Batches
    <3>4. n.from + Len(n.got) = end + 1
      <4>1. Len(n.got) = end - b.from + 1 BY <1>7, <3>3
      <4> HIDE DEF got, n
      <4> QED BY <1>1, <3>3, <4>1
    <3>5. (end + 1) - 1 = end BY <1>1
    <3>6. n.got = Chunk(n.from, (end + 1) - 1) BY <1>6, <3>3, <3>5
    <3> HIDE DEF n, got
    <3>7. InOrder(n) BY <3>2, <3>3, <3>4, <3>6 DEF InOrder
    <3>8. n.pc # "done" BY <3>3
    <3> QED BY <3>1, <3>3, <3>7, <3>8 DEF BatchOK
  <2> QED BY <2>1, <2>2
<1>9. n \in Batches BY <1>8 DEF BatchOK
<1> HIDE DEF n
<1> QED BY <1>5, <1>8, <1>9 DEF RangeInv

\* Every step keeps the batches in order.
LEMMA RangeStep ==
    ASSUME RangeInv, [Next]_vars
    PROVE  RangeInv'
<1>1. ASSUME NEW c \in Callers, NEW from \in -1..(MaxIndex + 1), NEW to \in -1..(MaxIndex + 1),
             CreateAccounts(c, from, to)
      PROVE  RangeInv'
  BY <1>1, CreateAccountsKeeps
<1>2. ASSUME NEW c \in Callers, ChunkCreated(c) PROVE RangeInv'
  BY <1>2, ChunkCreatedKeeps
<1>3. ASSUME NEW c \in Callers, ChunkFails(c) PROVE RangeInv'
  <2>1. BatchOK([NoBatch EXCEPT !.pc = "failed"]) BY FailedOK
  <2>2. [NoBatch EXCEPT !.pc = "failed"] \in Batches BY <2>1 DEF BatchOK
  <2> QED BY <1>3, <2>1, <2>2 DEF ChunkFails, RangeInv
<1>4. ASSUME UNCHANGED batch PROVE RangeInv'
  BY <1>4 DEF RangeInv, BatchOK
<1>5. CASE UNCHANGED vars BY <1>4, <1>5 DEF vars
<1>6. ASSUME NEW t \in Txs, Arrive(t) \/ Replaced(t) PROVE RangeInv'
  BY <1>4, <1>6 DEF Arrive, Replaced
<1>7. ASSUME NEW r \in Readers, Begin(r) PROVE RangeInv'
  BY <1>4, <1>7 DEF Begin
<1>8. ASSUME NEW r \in Readers, NEW limit \in Limits, ListAccountTransactions(r, limit)
      PROVE  RangeInv'
  BY <1>4, <1>8 DEF ListAccountTransactions
<1> QED BY <1>1, <1>2, <1>3, <1>5, <1>6, <1>7, <1>8 DEF Next

\* createAccounts answers its whole range, each index once and in order, in chunks
\* that are no longer than a batch.
THEOREM RangesAreCovered == Spec => []RangeCovered
<1>1. Init => RangeInv
  BY SizeAssumption DEF Init, RangeInv, BatchOK, Batches, NoBatch
<1>2. RangeInv /\ [Next]_vars => RangeInv'
  BY RangeStep
<1>3. RangeInv => RangeCovered
  BY DEF RangeInv, RangeCovered, BatchOK, InOrder, Batches
<1> QED BY <1>1, <1>2, <1>3, PTL DEF Spec

-----------------------------------------------------------------------------
(* The pages of listAccountTransactions.                                   *)

ReaderType ==
    [pc : {"idle", "reading", "end"}, cursor : Txs \cup {None}, told : SUBSET Txs,
     again : SUBSET Txs, always : SUBSET Txs, lost : BOOLEAN]

\* A client was told what was always there up to its cursor, and nothing beyond it
\* unless it has lost a cursor.  Without a cursor it was told nothing yet.
UpToCursor(s) ==
    IF s.cursor = None THEN s.told = {}
    ELSE /\ \A t \in s.always : Rank[t] <= Rank[s.cursor] => t \in s.told
         /\ ~s.lost => \A t \in s.told : Rank[t] <= Rank[s.cursor]

ReaderOK(s) ==
    /\ s \in ReaderType
    /\ s.pc \in {"idle", "reading"} => UpToCursor(s)
    /\ s.pc = "reading" => s.always \subseteq wallet
    /\ s.pc # "reading" => s.cursor = None
    /\ s.pc = "idle" => s.always = {}
    /\ s.pc = "end" => s.always \subseteq s.told
    /\ ~s.lost => s.again = {}

PagesInv ==
    /\ wallet \subseteq Txs
    /\ reader \in [Readers -> ReaderType]
    /\ \A r \in Readers : ReaderOK(reader[r])

\* A page is the beginning of what remains.
LEMMA PageIsPrefix ==
    ASSUME NEW rest \in SUBSET Txs, NEW limit \in Nat, NEW t \in Page(rest, limit),
           NEW u \in rest, Rank[u] <= Rank[t]
    PROVE  u \in Page(rest, limit)
<1> DEFINE Below(v) == {w \in rest : Rank[w] < Rank[v]}
<1>1. IsFiniteSet(rest) BY FS_Subset, RankAssumption
<1>2. Below(u) \subseteq Below(t)
  <2>1. t \in Txs /\ u \in Txs BY DEF Page
  <2>2. \A w \in rest : Rank[w] \in Nat BY RankAssumption
  <2>3. Rank[t] \in Nat /\ Rank[u] \in Nat BY <2>1, RankAssumption
  <2> QED BY <2>2, <2>3
<1>3. IsFiniteSet(Below(t)) BY <1>1, FS_Subset
<1>4. /\ Cardinality(Below(u)) \in Nat /\ Cardinality(Below(t)) \in Nat
      /\ Cardinality(Below(u)) <= Cardinality(Below(t))
  BY <1>2, <1>3, FS_Subset, FS_CardinalityType
<1>5. Cardinality(Below(t)) < limit BY DEF Page
<1> HIDE DEF Below
<1>6. Cardinality(Below(u)) < limit BY <1>4, <1>5
<1> QED BY <1>6 DEF Below, Page

\* The last page has all that remains.
LEMMA LastPageIsAll ==
    ASSUME NEW rest \in SUBSET Txs, NEW limit \in Nat, ~(Cardinality(rest) > limit)
    PROVE  Page(rest, limit) = rest
<1>1. IsFiniteSet(rest) BY FS_Subset, RankAssumption
<1>2. SUFFICES ASSUME NEW t \in rest PROVE t \in Page(rest, limit) BY DEF Page
<1> DEFINE below == {w \in rest : Rank[w] < Rank[t]}
<1>3. below \subseteq rest /\ t \notin below
  BY RankAssumption
<1>4. Cardinality(below) < Cardinality(rest)
  BY <1>1, <1>3, FS_Subset, FS_CardinalityType
<1>5. Cardinality(below) \in Nat /\ Cardinality(rest) \in Nat
  BY <1>1, <1>3, FS_Subset, FS_CardinalityType
<1> HIDE DEF below
<1>6. Cardinality(below) < limit BY <1>4, <1>5
<1> QED BY <1>6 DEF below, Page

\* A client that reads a page stays in order: told what was always there up to its
\* new cursor, or all of it on the last page.
LEMMA ListKeeps ==
    ASSUME PagesInv, NEW r \in Readers, NEW limit \in Limits,
           ListAccountTransactions(r, limit)
    PROVE  PagesInv'
<1> DEFINE s == reader[r]
           rest == Remaining(r)
           page == Page(rest, limit)
           told == [s EXCEPT !.told = @ \cup page,
                             !.again = @ \cup (s.told \cap page),
                             !.lost = @ \/ (s.cursor # None /\ ~Found(r))]
<1>1. /\ s \in ReaderType /\ s.pc = "reading" /\ UpToCursor(s) /\ s.always \subseteq wallet
      /\ ~s.lost => s.again = {}
  BY DEF PagesInv, ReaderOK, ListAccountTransactions
<1>2. limit \in Nat BY LimitAssumption
<1>3. rest \subseteq wallet /\ rest \subseteq Txs /\ page \subseteq rest
  BY DEF Remaining, Page, PagesInv
<1>4. \A t \in Txs : Rank[t] \in Nat BY RankAssumption
<1>5. s.cursor = None \/ Found(r) \/ (s.cursor # None /\ ~Found(r)) OBVIOUS
\* What was always there is told already, or remains.
<1>6. \A t \in s.always : t \in s.told \/ t \in rest
  <2>1. SUFFICES ASSUME NEW t \in s.always, t \notin rest PROVE t \in s.told OBVIOUS
  <2>2. t \in wallet /\ t \in Txs BY <1>1 DEF PagesInv
  <2>3. Found(r) /\ ~(Rank[t] > Rank[s.cursor]) BY <2>1, <2>2 DEF Remaining
  <2>4. s.cursor \in Txs /\ s.cursor # None BY <2>3, LimitAssumption DEF Found, PagesInv
  <2>5. Rank[t] <= Rank[s.cursor] BY <1>4, <2>2, <2>3, <2>4
  <2> QED BY <1>1, <2>4, <2>5 DEF UpToCursor
\* What remains was not told, unless a cursor was lost, and comes later.
<1>7. ASSUME ~told.lost
      PROVE  /\ s.told \cap page = {} /\ s.again = {}
             /\ \A t \in s.told, u \in page : Rank[t] <= Rank[u]
  <2>1. ~s.lost /\ (s.cursor = None \/ Found(r)) BY <1>1, <1>7 DEF ReaderType
  <2>2. CASE s.cursor = None BY <1>1, <2>1, <2>2 DEF UpToCursor
  <2>3. CASE Found(r)
    <3>1. s.cursor \in Txs /\ s.cursor # None BY <2>3, LimitAssumption DEF Found, PagesInv
    <3>2. \A t \in s.told : Rank[t] <= Rank[s.cursor] BY <1>1, <2>1, <3>1 DEF UpToCursor
    <3>3. \A u \in page : Rank[u] > Rank[s.cursor] BY <1>3, <2>3 DEF Remaining
    <3>4. s.told \subseteq Txs BY <1>1 DEF ReaderType
    <3>5. \A t \in s.told, u \in page :
             Rank[t] \in Nat /\ Rank[u] \in Nat /\ Rank[s.cursor] \in Nat
      BY <1>3, <1>4, <3>1, <3>4
    <3> HIDE DEF page, s
    <3> QED BY <1>1, <2>1, <3>2, <3>3, <3>5
  <2> QED BY <2>1, <2>2, <2>3
<1>8. /\ told \in ReaderType /\ told.pc = "reading" /\ told.always = s.always
      /\ told.told = s.told \cup page /\ told.again = s.again \cup (s.told \cap page)
  BY <1>1, <1>3 DEF ReaderType
<1>w. wallet' = wallet /\ s.cursor \in Txs \cup {None}
  BY <1>1 DEF ListAccountTransactions, ReaderType
<1>9. ASSUME NEW n \in ReaderType, ReaderOK(n), reader' = [reader EXCEPT ![r] = n]
      PROVE  PagesInv'
  <2>1. reader' \in [Readers -> ReaderType] BY <1>9 DEF PagesInv
  <2>2. \A q \in Readers : ReaderOK(reader'[q]) BY <1>9 DEF PagesInv
  <2>3. \A q \in Readers : ReaderOK(reader[q])' BY <1>w, <2>2 DEF ReaderOK, UpToCursor
  <2> QED BY <1>w, <2>1, <2>3 DEF PagesInv
<1>10. CASE Cardinality(rest) > limit
  <2>1. PICK last \in page : /\ \A t \in page : Rank[t] <= Rank[last]
                             /\ reader' = [reader EXCEPT ![r] = [told EXCEPT !.cursor = last]]
    BY <1>10 DEF ListAccountTransactions
  <2> DEFINE n == [told EXCEPT !.cursor = last]
  <2>2. last \in Txs /\ last # None BY <1>3, LimitAssumption
  <2>3. /\ n \in ReaderType /\ n.cursor = last /\ n.pc = "reading" /\ n.always = s.always
        /\ n.told = s.told \cup page /\ n.again = s.again \cup (s.told \cap page)
        /\ n.lost = told.lost
    <3> HIDE DEF told, s, page
    <3> QED BY <1>8, <2>2 DEF ReaderType
  <2>4. \A t \in s.always : Rank[t] <= Rank[last] => t \in n.told
    <3>1. SUFFICES ASSUME NEW t \in s.always, Rank[t] <= Rank[last], t \in rest
                   PROVE  t \in page
      BY <1>6, <2>3
    <3> HIDE DEF rest
    <3> QED BY <1>2, <1>3, <3>1, PageIsPrefix
  <2>5. ~n.lost => \A t \in n.told : Rank[t] <= Rank[last]
    <3> HIDE DEF told, s, page, n
    <3> QED BY <1>7, <2>1, <2>3
  <2>6. ~n.lost => n.again = {}
    <3> HIDE DEF told, s, page, n
    <3> QED BY <1>7, <2>3
  <2> HIDE DEF n, told, page, rest
  <2>7. UpToCursor(n) BY <2>2, <2>3, <2>4, <2>5 DEF UpToCursor
  <2>8. ReaderOK(n) BY <1>1, <2>3, <2>6, <2>7 DEF ReaderOK
  <2>9. reader' = [reader EXCEPT ![r] = n] BY <2>1 DEF n
  <2> QED BY <1>9, <2>3, <2>8, <2>9
<1>11. CASE ~(Cardinality(rest) > limit)
  <2> DEFINE n == [told EXCEPT !.cursor = None, !.pc = "end"]
  <2>1. reader' = [reader EXCEPT ![r] = n] BY <1>11 DEF ListAccountTransactions
  <2>2. page = rest
    <3> HIDE DEF rest
    <3> QED BY <1>2, <1>3, <1>11, LastPageIsAll
  <2>3. /\ n \in ReaderType /\ n.cursor = None /\ n.pc = "end" /\ n.always = s.always
        /\ n.told = s.told \cup page /\ n.again = s.again \cup (s.told \cap page)
        /\ n.lost = told.lost
    <3> HIDE DEF told, s, page
    <3> QED BY <1>8 DEF ReaderType
  <2>4. ~n.lost => n.again = {}
    <3> HIDE DEF told, s, page, n
    <3> QED BY <1>7, <2>3
  <2> HIDE DEF n, told, page, rest
  <2>5. n.always \subseteq n.told BY <1>6, <2>2, <2>3
  <2>6. ReaderOK(n) BY <2>3, <2>4, <2>5 DEF ReaderOK
  <2> QED BY <1>9, <2>1, <2>3, <2>6
<1> QED BY <1>10, <1>11

\* A client that begins was told nothing, and all that is there is always there so far.
LEMMA BeginKeeps ==
    ASSUME PagesInv, NEW r \in Readers, Begin(r)
    PROVE  PagesInv'
<1> DEFINE n == [NoReader EXCEPT !.pc = "reading", !.always = wallet]
<1>1. /\ n \in ReaderType /\ n.pc = "reading" /\ n.cursor = None /\ n.told = {}
      /\ n.again = {} /\ n.always = wallet /\ ~n.lost
  BY DEF NoReader, ReaderType, PagesInv
<1>3. reader' = [reader EXCEPT ![r] = n] /\ wallet' = wallet BY DEF Begin
<1> HIDE DEF n
<1>4. UpToCursor(n) BY <1>1 DEF UpToCursor
<1>5. ReaderOK(n) BY <1>1, <1>4 DEF ReaderOK
<1>6. \A q \in Readers : ReaderOK(reader'[q]) BY <1>3, <1>5 DEF PagesInv
<1>7. \A q \in Readers : ReaderOK(reader[q])' BY <1>3, <1>6 DEF ReaderOK, UpToCursor
<1>8. reader' \in [Readers -> ReaderType] BY <1>1, <1>3 DEF PagesInv
<1> QED BY <1>3, <1>7, <1>8 DEF PagesInv

\* A transaction that arrives belongs to nobody's pages yet.
LEMMA ArriveKeeps ==
    ASSUME PagesInv, NEW t \in Txs, Arrive(t)
    PROVE  PagesInv'
<1>1. wallet' = wallet \cup {t} /\ reader' = reader BY DEF Arrive
<1>2. \A r \in Readers : ReaderOK(reader[r])' BY <1>1 DEF PagesInv, ReaderOK, UpToCursor
<1> QED BY <1>1, <1>2 DEF PagesInv

\* A transaction that is replaced was not always there.
LEMMA ReplacedKeeps ==
    ASSUME PagesInv, NEW t \in Txs, Replaced(t)
    PROVE  PagesInv'
<1> DEFINE Less(s) == [s EXCEPT !.always = @ \ {t}]
<1>1. wallet' = wallet \ {t} /\ reader' = [r \in Readers |-> Less(reader[r])]
  BY DEF Replaced
<1>2. ASSUME NEW r \in Readers PROVE reader'[r] \in ReaderType /\ ReaderOK(reader[r])'
  <2> DEFINE s == reader[r]  n == Less(s)
  <2>1. s \in ReaderType /\ ReaderOK(s) BY DEF PagesInv
  <2>2. /\ n \in ReaderType /\ n.pc = s.pc /\ n.cursor = s.cursor /\ n.told = s.told
        /\ n.again = s.again /\ n.always = s.always \ {t} /\ n.lost = s.lost
    BY <2>1 DEF ReaderType
  <2>3. reader'[r] = n BY <1>1
  <2> HIDE DEF n, s, Less
  <2>4. UpToCursor(s) => UpToCursor(n) BY <2>2 DEF UpToCursor
  <2>5. reader'[r].pc = "reading" => reader'[r].always \subseteq wallet'
    BY <1>1, <2>1, <2>2, <2>3 DEF ReaderOK
  <2>6. ReaderOK(reader[r])' BY <2>1, <2>2, <2>3, <2>4, <2>5 DEF ReaderOK, UpToCursor
  <2> QED BY <2>2, <2>3, <2>6
<1> HIDE DEF Less
<1>3. reader' \in [Readers -> ReaderType] BY <1>1, <1>2
<1>4. wallet' \subseteq Txs BY <1>1 DEF PagesInv
<1> QED BY <1>2, <1>3, <1>4 DEF PagesInv

\* Every step keeps the clients in order.
LEMMA PagesStep ==
    ASSUME PagesInv, [Next]_vars
    PROVE  PagesInv'
<1>1. ASSUME UNCHANGED <<wallet, reader>> PROVE PagesInv'
  BY <1>1 DEF PagesInv, ReaderOK, UpToCursor
<1>2. CASE UNCHANGED vars BY <1>1, <1>2 DEF vars
<1>3. ASSUME NEW c \in Callers, NEW from \in -1..(MaxIndex + 1), NEW to \in -1..(MaxIndex + 1),
             CreateAccounts(c, from, to)
      PROVE  PagesInv'
  BY <1>1, <1>3 DEF CreateAccounts
<1>4. ASSUME NEW c \in Callers, ChunkCreated(c) PROVE PagesInv'
  BY <1>1, <1>4 DEF ChunkCreated
<1>5. ASSUME NEW c \in Callers, ChunkFails(c) PROVE PagesInv'
  BY <1>1, <1>5 DEF ChunkFails
<1>6. ASSUME NEW t \in Txs, Arrive(t) PROVE PagesInv' BY <1>6, ArriveKeeps
<1>7. ASSUME NEW t \in Txs, Replaced(t) PROVE PagesInv' BY <1>7, ReplacedKeeps
<1>8. ASSUME NEW r \in Readers, Begin(r) PROVE PagesInv' BY <1>8, BeginKeeps
<1>9. ASSUME NEW r \in Readers, NEW limit \in Limits, ListAccountTransactions(r, limit)
      PROVE  PagesInv'
  BY <1>9, ListKeeps
<1> QED BY <1>2, <1>3, <1>4, <1>5, <1>6, <1>7, <1>8, <1>9 DEF Next

\* A client that reads to the end was told all that was there all the time, and none
\* of it twice unless the cursor's transaction was gone.
THEOREM PagesRight == Spec => []PagesAreRight
<1>1. Init => PagesInv
  BY DEF Init, PagesInv, ReaderOK, ReaderType, UpToCursor, NoReader
<1>2. PagesInv /\ [Next]_vars => PagesInv'
  BY PagesStep
<1>3. PagesInv => PagesAreRight
  BY DEF PagesInv, ReaderOK, PagesAreRight
<1> QED BY <1>1, <1>2, <1>3, PTL DEF Spec
=============================================================================
