----------------------------- MODULE RatesProofs -----------------------------
(***************************************************************************)
(* Proofs about RatesCache, for any assets, tickers and periods, any       *)
(* number of requests at once and any times to live.                       *)
(***************************************************************************)
EXTENDS RatesCache, TLAPS

\* A rate in the cache expires Ttl after it arrived, when it was no older than
\* MaxAge.
CacheIsFresh ==
    \A k \in Tickers : cache[k] # None =>
        cache[k].expiresAt <= cache[k].quote.asOf + MaxAge + Ttl

\* What a request holds is of the key it is held for, and could have been in the
\* cache when the request began.
Holds(q) ==
    \A k \in Keys : q.got[k] # None =>
        q.got[k].of = k /\ q.start <= q.got[k].asOf + MaxAge + Ttl

\* All that is owed to an asset of a request has arrived, is waited for or has failed.
Covers(q) ==
    \A a \in q.assets : TickerOf[a] # None =>
        \A k \in Owed(q.kind, a) : k \in q.pending \cup q.failed \/ q.got[k] # None

RequestsInv ==
    \A r \in Requests : request[r].start <= now /\ Holds(request[r]) /\ Covers(request[r])

RatesInv == TypeOK /\ CacheIsFresh /\ RequestsInv /\ StalenessBounded /\ RatesAreRight

RequestType ==
    [kind : Kinds \cup {"idle"}, start : 0..MaxTime, assets : SUBSET Assets,
     pending : SUBSET Keys, failed : SUBSET Keys, got : [Keys -> Quotes \cup {None}]]

-----------------------------------------------------------------------------
LEMMA IdleFits == Idle \in RequestType /\ Idle.start = 0 /\ Holds(Idle) /\ Covers(Idle)
BY TimeAssumption DEF Idle, RequestType, Holds, Covers, Kinds

LEMMA OwedAreKeys ==
    ASSUME NEW kind, NEW a \in Assets, TickerOf[a] # None
    PROVE  Owed(kind, a) \subseteq Keys
BY TickerAssumption DEF Owed, Keys

LEMMA NoReplyFits ==
    ASSUME reply = NoReply
    PROVE  /\ reply \in [kind : Kinds \cup {"idle"}, assets : SUBSET Assets, expires : Nat,
                         failed : SUBSET Keys, quotes : [Keys -> Quotes \cup {None}]]
           /\ StalenessBounded /\ RatesAreRight
BY DEF NoReply, StalenessBounded, RatesAreRight

LEMMA RatesInit == Init => RatesInv
<1> SUFFICES ASSUME Init PROVE RatesInv
    OBVIOUS
<1>1. TypeOK
    BY IdleFits, NoReplyFits, TimeAssumption DEF Init, TypeOK, RequestType
<1>2. CacheIsFresh /\ RequestsInv
    BY IdleFits DEF Init, CacheIsFresh, RequestsInv
<1> QED BY <1>1, <1>2, NoReplyFits DEF Init, RatesInv

-----------------------------------------------------------------------------
\* A step that gives one request another record and answers nobody.
LEMMA OneRequest ==
    ASSUME RatesInv, NEW r \in Requests, NEW q \in RequestType,
           request' = [request EXCEPT ![r] = q], now' = now, reply' = NoReply,
           q.start <= now, Holds(q), Covers(q),
           cache' \in [Tickers -> CacheEntries \cup {None}],
           \A k \in Tickers : cache'[k] # None =>
               /\ cache'[k].quote.of = k
               /\ cache'[k].expiresAt <= cache'[k].quote.asOf + MaxAge + Ttl
    PROVE  RatesInv'
<1>1. TypeOK'
    BY NoReplyFits DEF RatesInv, TypeOK, RequestType, NoReply
<1>2. CacheIsFresh'
    BY DEF CacheIsFresh
<1>3. RequestsInv'
    BY DEF RatesInv, RequestsInv, Holds, Covers, TypeOK
<1>4. StalenessBounded' /\ RatesAreRight'
    BY DEF NoReply, StalenessBounded, RatesAreRight
<1> QED BY <1>1, <1>2, <1>3, <1>4 DEF RatesInv

\* A rate that is in the cache and has not expired.
LEMMA HitIsFresh ==
    ASSUME RatesInv, NEW keys, NEW k \in Hits(keys)
    PROVE  /\ k \in Tickers /\ cache[k].quote \in Quotes /\ cache[k].quote.of = k
           /\ now <= cache[k].quote.asOf + MaxAge + Ttl
<1>1. k \in Tickers /\ cache[k] \in CacheEntries /\ cache[k].expiresAt >= now
    BY DEF Hits, IsExpired, RatesInv, TypeOK, CacheEntries
<1>2. cache[k] # None
    BY DEF Hits
<1>3. cache[k].expiresAt <= cache[k].quote.asOf + MaxAge + Ttl
    BY <1>1, <1>2 DEF RatesInv, CacheIsFresh
<1>4. now \in Int /\ cache[k].quote.asOf \in Int /\ cache[k].expiresAt \in Int
    BY <1>1, TimeAssumption DEF RatesInv, TypeOK, CacheEntries
<1>5. cache[k].quote \in Quotes /\ cache[k].quote.of = k
    BY <1>1, <1>2 DEF RatesInv, TypeOK, CacheEntries, Quotes, Keys
<1> QED BY <1>1, <1>3, <1>4, <1>5, TimeAssumption

LEMMA GetRatesKeeps ==
    ASSUME RatesInv, NEW r \in Requests, GetRates(r)
    PROVE  RatesInv'
<1>1. PICK kind \in {"conversion", "marketData"}, assets \in AssetLists :
          request' = [request EXCEPT ![r] =
              [kind |-> kind, start |-> now, assets |-> assets, failed |-> {},
               pending |-> TickersOf(assets) \ Hits(TickersOf(assets)),
               got |-> [k \in Keys |-> IF k \in Hits(TickersOf(assets))
                                       THEN cache[k].quote ELSE None]]]
    BY DEF GetRates
<1> DEFINE hits == Hits(TickersOf(assets))
           q == [kind |-> kind, start |-> now, assets |-> assets, failed |-> {},
                 pending |-> TickersOf(assets) \ hits,
                 got |-> [k \in Keys |-> IF k \in hits THEN cache[k].quote ELSE None]]
<1>2. assets \subseteq Assets /\ TickersOf(assets) \subseteq Tickers /\ now \in 0..MaxTime
    BY ListAssumption, TickerAssumption DEF TickersOf, RatesInv, TypeOK
<1>3. \A k \in hits : /\ k \in Tickers /\ cache[k].quote \in Quotes /\ cache[k].quote.of = k
                      /\ now <= cache[k].quote.asOf + MaxAge + Ttl
    BY HitIsFresh
<1>4. q \in RequestType
    BY <1>2, <1>3 DEF RequestType, Kinds, Keys
<1>5. Holds(q)
    BY <1>3 DEF Holds, Keys
<1>6. \A k \in hits : q.got[k] # None
    BY <1>3, NoneAssumption DEF Quotes, Keys
<1>7. Covers(q)
    <2>1. q.kind # "historicalPrice" /\ q.assets = assets
        OBVIOUS
    <2>2. \A a \in assets : TickerOf[a] # None => TickerOf[a] \in hits \cup q.pending
        BY DEF TickersOf
    <2> HIDE DEF q
    <2> QED BY <1>6, <2>1, <2>2 DEF Covers, Owed
<1>8. /\ Cleaned \in [Tickers -> CacheEntries \cup {None}]
      /\ \A k \in Tickers : Cleaned[k] # None =>
             /\ Cleaned[k].quote.of = k
             /\ Cleaned[k].expiresAt <= Cleaned[k].quote.asOf + MaxAge + Ttl
    BY DEF Cleaned, RatesInv, TypeOK, CacheIsFresh
<1>9. now <= now
    BY <1>2, TimeAssumption
<1> QED BY <1>1, <1>4, <1>5, <1>7, <1>8, <1>9, OneRequest DEF GetRates

LEMMA GetPriceIntervalsKeeps ==
    ASSUME RatesInv, NEW r \in Requests, GetPriceIntervals(r)
    PROVE  RatesInv'
<1>1. PICK to \in HistoryAssets :
          request' = [request EXCEPT ![r] =
              [Idle EXCEPT !.kind = "historicalPrice", !.start = now, !.assets = {to},
                           !.pending = Periods \X {VsCurrency(to)}]]
    BY DEF GetPriceIntervals
<1> DEFINE q == [Idle EXCEPT !.kind = "historicalPrice", !.start = now, !.assets = {to},
                             !.pending = Periods \X {VsCurrency(to)}]
<1>2. now \in 0..MaxTime /\ now <= now /\ to \in Assets
    BY TimeAssumption, ListAssumption DEF RatesInv, TypeOK
<1>3. Periods \X {VsCurrency(to)} \subseteq Keys
    <2>1. VsCurrency(to) \in Tickers
        BY <1>2, TickerAssumption DEF VsCurrency
    <2> QED BY <2>1 DEF Keys
<1>4. q \in RequestType /\ q.start <= now
    BY <1>2, <1>3 DEF Idle, RequestType, Kinds
<1>5. Holds(q)
    BY DEF Holds, Idle
<1>6. Covers(q)
    BY DEF Covers, Idle, Owed, VsCurrency
<1>7. /\ cache \in [Tickers -> CacheEntries \cup {None}]
      /\ \A k \in Tickers : cache[k] # None =>
             /\ cache[k].quote.of = k
             /\ cache[k].expiresAt <= cache[k].quote.asOf + MaxAge + Ttl
    BY DEF RatesInv, TypeOK, CacheIsFresh
<1> HIDE DEF q
<1> QED BY <1>1, <1>4, <1>5, <1>6, <1>7, OneRequest DEF GetPriceIntervals, q

LEMMA ArriveKeeps ==
    ASSUME RatesInv, NEW r \in Requests, NEW k \in Keys, Arrive(r, k)
    PROVE  RatesInv'
<1>1. PICK age \in 0..MaxAge :
          /\ cache' = Keep(k, [of |-> k, asOf |-> now - age])
          /\ request' = [request EXCEPT ![r].pending = @ \ {k},
                                        ![r].got[k] = [of |-> k, asOf |-> now - age]]
    BY DEF Arrive
<1> DEFINE quote == [of |-> k, asOf |-> now - age]
           q == [request[r] EXCEPT !.pending = @ \ {k}, !.got[k] = quote]
<1>2. /\ request[r] \in RequestType /\ now \in 0..MaxTime /\ age \in 0..MaxAge
      /\ request[r].start <= now /\ Holds(request[r]) /\ Covers(request[r])
    BY DEF RatesInv, TypeOK, RequestType, RequestsInv
<1>3. quote \in Quotes /\ quote # None /\ now <= quote.asOf + MaxAge + Ttl
    BY <1>2, TimeAssumption, NoneAssumption DEF Quotes, Keys
<1>4. q \in RequestType /\ q.start = request[r].start
    BY <1>2, <1>3 DEF RequestType
<1>5. Holds(q)
    <2> SUFFICES ASSUME NEW l \in Keys, q.got[l] # None
                 PROVE  q.got[l].of = l /\ q.start <= q.got[l].asOf + MaxAge + Ttl
        BY DEF Holds
    <2>1. CASE l = k
        <3>1. q.got[l] = quote
            BY <2>1, <1>2 DEF RequestType
        <3> QED BY <3>1, <2>1, <1>2, <1>3, <1>4, TimeAssumption DEF RequestType
    <2>2. CASE l # k
        BY <2>2, <1>2, <1>4 DEF RequestType, Holds
    <2> QED BY <2>1, <2>2
<1>6. Covers(q)
    <2> SUFFICES ASSUME NEW a \in request[r].assets, TickerOf[a] # None,
                        NEW l \in Owed(request[r].kind, a)
                 PROVE  l \in q.pending \cup q.failed \/ q.got[l] # None
        BY <1>2 DEF Covers, RequestType
    <2>1. l \in Keys
        BY <1>2, OwedAreKeys DEF RequestType
    <2>2. CASE l = k
        BY <2>2, <1>2, <1>3 DEF RequestType
    <2>3. CASE l # k
        BY <2>1, <2>3, <1>2 DEF RequestType, Covers
    <2> QED BY <2>2, <2>3
<1>7. /\ cache' \in [Tickers -> CacheEntries \cup {None}]
      /\ \A l \in Tickers : cache'[l] # None =>
             /\ cache'[l].quote.of = l
             /\ cache'[l].expiresAt <= cache'[l].quote.asOf + MaxAge + Ttl
    <2>1. k \in Tickers => Stored(quote) \in CacheEntries
        BY <1>2, TimeAssumption DEF Stored, CacheEntries
    <2>2. Stored(quote).quote = quote /\ Stored(quote).expiresAt <= quote.asOf + MaxAge + Ttl
        BY <1>2, TimeAssumption DEF Stored
    <2> QED BY <1>1, <2>1, <2>2 DEF Keep, RatesInv, TypeOK, CacheIsFresh
<1>8. request' = [request EXCEPT ![r] = q]
    BY <1>1, <1>2
<1> HIDE DEF q
<1> QED BY <1>2, <1>4, <1>5, <1>6, <1>7, <1>8, OneRequest DEF Arrive

LEMMA FetchFailsKeeps ==
    ASSUME RatesInv, NEW r \in Requests, NEW k \in Keys, FetchFails(r, k)
    PROVE  RatesInv'
<1> DEFINE q == [request[r] EXCEPT !.pending = @ \ {k}, !.failed = @ \cup {k}]
<1>1. /\ request[r] \in RequestType
      /\ request[r].start <= now /\ Holds(request[r]) /\ Covers(request[r])
    BY DEF RatesInv, TypeOK, RequestType, RequestsInv
<1>2. q \in RequestType /\ q.start <= now /\ Holds(q) /\ Covers(q)
    BY <1>1 DEF RequestType, Holds, Covers
<1>3. /\ cache \in [Tickers -> CacheEntries \cup {None}]
      /\ \A l \in Tickers : cache[l] # None =>
             /\ cache[l].quote.of = l
             /\ cache[l].expiresAt <= cache[l].quote.asOf + MaxAge + Ttl
    BY DEF RatesInv, TypeOK, CacheIsFresh
<1>4. request' = [request EXCEPT ![r] = q]
    BY DEF FetchFails
<1> HIDE DEF q
<1> QED BY <1>2, <1>3, <1>4, OneRequest DEF FetchFails

LEMMA ReplyKeeps ==
    ASSUME RatesInv, NEW r \in Requests, Reply(r)
    PROVE  RatesInv'
<1>1. /\ request[r] \in RequestType /\ request[r].pending = {} /\ now \in 0..MaxTime
      /\ request[r].start <= now /\ Holds(request[r]) /\ Covers(request[r])
    BY DEF RatesInv, TypeOK, RequestType, RequestsInv, Reply
<1>2. /\ Expiration(r) \in Nat /\ request[r].start \in Nat
      /\ Expiration(r) <= request[r].start + Interval
    BY <1>1, TimeAssumption DEF Expiration, RequestType
<1>3. reply' = [kind |-> request[r].kind, assets |-> request[r].assets,
                expires |-> Expiration(r), quotes |-> request[r].got,
                failed |-> request[r].failed]
    BY DEF Reply
<1>4. TypeOK'
    BY <1>1, <1>2, <1>3, IdleFits DEF RatesInv, TypeOK, Reply, RequestType
<1>5. CacheIsFresh' /\ RequestsInv'
    BY <1>1, IdleFits, TimeAssumption
       DEF RatesInv, CacheIsFresh, RequestsInv, Holds, Covers, Reply, TypeOK
<1>6. StalenessBounded'
    <2> SUFFICES ASSUME NEW k \in Keys, request[r].got[k] # None
                 PROVE  Expiration(r) <= request[r].got[k].asOf + MaxAge + Ttl + Interval
        BY <1>3 DEF StalenessBounded
    <2>1. request[r].start <= request[r].got[k].asOf + MaxAge + Ttl
        BY <1>1 DEF Holds
    <2>2. request[r].got[k].asOf \in Int
        BY <1>1 DEF RequestType, Quotes
    <2> QED BY <1>2, <2>1, <2>2, TimeAssumption
<1>7. RatesAreRight'
    <2> SUFFICES ASSUME NEW a \in request[r].assets, TickerOf[a] # None,
                        NEW k \in Owed(request[r].kind, a)
                 PROVE  IF request[r].got[k] = None
                        THEN k \in request[r].failed ELSE request[r].got[k].of = k
        BY <1>3 DEF RatesAreRight
    <2>1. k \in Keys
        BY <1>1, OwedAreKeys DEF RequestType
    <2> QED BY <1>1, <2>1 DEF Covers, Holds
<1> QED BY <1>4, <1>5, <1>6, <1>7 DEF RatesInv

LEMMA RatesStep == RatesInv /\ [Next]_vars => RatesInv'
<1> SUFFICES ASSUME RatesInv, [Next]_vars PROVE RatesInv'
    OBVIOUS
<1>1. CASE Tick
    <2>1. now \in 0..MaxTime /\ now < MaxTime /\ now' = now + 1 /\ now' \in 0..MaxTime
        BY <1>1, TimeAssumption DEF Tick, RatesInv, TypeOK
    <2>2. UNCHANGED <<cache, request>> /\ reply' = NoReply
        BY <1>1 DEF Tick
    <2>3. TypeOK'
        BY <2>1, <2>2, NoReplyFits DEF RatesInv, TypeOK, NoReply
    <2>4. CacheIsFresh'
        BY <2>2 DEF RatesInv, CacheIsFresh
    <2>5. RequestsInv'
        BY <2>1, <2>2, TimeAssumption DEF RatesInv, RequestsInv, Holds, Covers, TypeOK
    <2>6. StalenessBounded' /\ RatesAreRight'
        BY <2>2 DEF NoReply, StalenessBounded, RatesAreRight
    <2> QED BY <2>3, <2>4, <2>5, <2>6 DEF RatesInv
<1>2. CASE Restart
    <2>1. TypeOK'
        BY <1>2, IdleFits, NoReplyFits DEF RatesInv, TypeOK, Restart, RequestType, NoReply
    <2>2. CacheIsFresh' /\ RequestsInv'
        BY <1>2, IdleFits, TimeAssumption
           DEF Restart, CacheIsFresh, RequestsInv, RatesInv, TypeOK, Holds, Covers, Idle
    <2>3. StalenessBounded' /\ RatesAreRight'
        BY <1>2 DEF Restart, NoReply, StalenessBounded, RatesAreRight
    <2> QED BY <2>1, <2>2, <2>3 DEF RatesInv
<1>3. CASE UNCHANGED vars
    BY <1>3 DEF vars, RatesInv, TypeOK, CacheIsFresh, RequestsInv, Holds, Covers,
                StalenessBounded, RatesAreRight
<1> QED BY <1>1, <1>2, <1>3, GetRatesKeeps, GetPriceIntervalsKeeps, ArriveKeeps,
           FetchFailsKeeps, ReplyKeeps DEF Next, Answer

-----------------------------------------------------------------------------
\* Every variable of the cache and of the requests keeps its type, and a rate is
\* kept under the ticker it was fetched for.
THEOREM RatesTyped == Spec => []TypeOK
<1>1. RatesInv => TypeOK
    BY DEF RatesInv
<1> QED BY RatesInit, RatesStep, <1>1, PTL DEF Spec

\* The oldest price a client may use was MaxAge old when it arrived, Ttl in the
\* cache and Interval with the client: nothing a request waits for adds to it.
THEOREM StalenessIsBounded == Spec => []StalenessBounded
<1>1. RatesInv => StalenessBounded
    BY DEF RatesInv
<1> QED BY RatesInit, RatesStep, <1>1, PTL DEF Spec

\* A client is told null only for an asset whose own fetch failed, and otherwise
\* a rate of the asset's own ticker; a price history is in the asset's own currency.
THEOREM RatesRight == Spec => []RatesAreRight
<1>1. RatesInv => RatesAreRight
    BY DEF RatesInv
<1> QED BY RatesInit, RatesStep, <1>1, PTL DEF Spec
=============================================================================
