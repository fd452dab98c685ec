----------------------------- MODULE RatesCache -----------------------------
(***************************************************************************)
(* Conversion rates, market data and price history: the requests of        *)
(* AssetsHandler, the rates of AssetsUseCases and the cache they are kept  *)
(* in (InMemoryCache).                                                     *)
(*                                                                         *)
(* A request looks its tickers up in the cache and fetches the missing     *)
(* ones at once, each on its own.  Requests overlap: two of them may fetch *)
(* one ticker, and the answers arrive in any order.                        *)
(*                                                                         *)
(* Abstractions.  A quote is its ticker and the time of its price.  The    *)
(* lookup follows the request without a pause (there is nothing but        *)
(* microtasks between them).  Conversions from another asset than Bitcoin  *)
(* are the constant 0 and are left out.  Seconds and milliseconds are one  *)
(* unit of time.                                                           *)
(***************************************************************************)
EXTENDS Integers

CONSTANTS
    Assets,        \* the assets and fiat currencies Bitcoin is converted to
    AssetLists,    \* the sets of assets the client asks about together
    HistoryAssets, \* the assets the client asks the price history of
    Tickers,
    TickerOf,      \* #assetToTicker: the ticker of an asset, or None
    Usd,           \* the currency the price API answers in when it is told none
    Periods,       \* the time periods of the price history
    Requests,      \* slots for requests in progress: a bound on their number
    Ttl,           \* how long the cache keeps a rate
    Interval,      \* Config.conversionsExpirationInterval
    MaxAge,        \* bound on the age of a price when it arrives
    MaxTime,       \* bound on the clock
    None

ASSUME TickerAssumption ==
    TickerOf \in [Assets -> Tickers \cup {None}] /\ None \notin Tickers /\ Usd \in Tickers
ASSUME ListAssumption == AssetLists \subseteq SUBSET Assets /\ HistoryAssets \subseteq Assets
ASSUME TimeAssumption ==
    Ttl \in Nat /\ Interval \in Nat /\ MaxAge \in Nat /\ MaxTime \in Nat
ASSUME NoneAssumption ==
    /\ None \notin [of : Tickers \cup (Periods \X Tickers), asOf : Int]
    /\ None \notin [quote : [of : Tickers, asOf : Int], expiresAt : Int]
    /\ (Periods \X Tickers) \cap Tickers = {}

\* What the price API is asked for: a spot price, or a history in a currency.
Keys == Tickers \cup (Periods \X Tickers)
Quotes == [of : Keys, asOf : Int]
Kinds == {"conversion", "marketData", "historicalPrice"}

VARIABLES
    now,
    cache,      \* InMemoryCache: a quote and its expiry for each ticker, or None
    request,    \* what each slot is doing
    reply       \* the answer the last step gave the client, if it did

vars == <<now, cache, request, reply>>

-----------------------------------------------------------------------------
Idle == [kind |-> "idle", start |-> 0, assets |-> {}, pending |-> {}, failed |-> {},
         got |-> [k \in Keys |-> None]]
NoReply == [kind |-> "idle", assets |-> {}, expires |-> 0, failed |-> {},
            quotes |-> [k \in Keys |-> None]]

\* The tickers of the assets, each of them once.
TickersOf(assets) == {TickerOf[a] : a \in assets} \ {None}

\* Mutant: an entry is kept for one tick more.
IsExpiredLate(k) == cache[k].expiresAt + 1 < now
IsExpired(k) == cache[k].expiresAt < now

\* mget after #cleanupExpiredEntries.
Hits(keys) == {k \in keys \cap Tickers : cache[k] # None /\ ~IsExpired(k)}
Cleaned == [k \in Tickers |-> IF cache[k] # None /\ IsExpired(k) THEN None ELSE cache[k]]

\* set: the expiry counts from the arrival of the rate.
Stored(quote) == [quote |-> quote, expiresAt |-> now + Ttl]

Init ==
    /\ now = 0
    /\ cache = [k \in Tickers |-> None]
    /\ request = [r \in Requests |-> Idle]
    /\ reply = NoReply

Tick ==
    /\ now < MaxTime
    /\ now' = now + 1
    /\ UNCHANGED <<cache, request>> /\ reply' = NoReply

-----------------------------------------------------------------------------
\* conversion, marketData: cached rates are taken, the others fetched.
GetRates(r) ==
    /\ request[r] = Idle
    /\ \E kind \in {"conversion", "marketData"}, assets \in AssetLists :
          LET hits == Hits(TickersOf(assets))
          IN  request' = [request EXCEPT ![r] =
                  [kind |-> kind, start |-> now, assets |-> assets, failed |-> {},
                   pending |-> TickersOf(assets) \ hits,
                   got |-> [k \in Keys |-> IF k \in hits THEN cache[k].quote ELSE None]]]
    /\ cache' = Cleaned
    /\ UNCHANGED now /\ reply' = NoReply

\* Mutant: the asset's ticker is not passed on to the price API.
VsCurrencyLeftOut(a) == Usd
\* The currency of a price history: an asset without a ticker passes undefined, and
\* gets the default of the price API.
VsCurrency(a) == IF TickerOf[a] = None THEN Usd ELSE TickerOf[a]

\* historicalPrice: every period is fetched, in the currency of one asset.
GetPriceIntervals(r) ==
    /\ request[r] = Idle
    /\ \E to \in HistoryAssets :
          request' = [request EXCEPT ![r] =
              [Idle EXCEPT !.kind = "historicalPrice", !.start = now, !.assets = {to},
                           !.pending = Periods \X {VsCurrency(to)}]]
    /\ UNCHANGED <<now, cache>> /\ reply' = NoReply

\* Mutant: the key of the cache entry leaves the ticker out.
KeepAnywhere(k, quote) == [c \in Tickers |-> Stored(quote)]

\* A spot price is kept, whatever the entry was; a price history is not.
Keep(k, quote) ==
    IF k \in Tickers THEN [cache EXCEPT ![k] = Stored(quote)] ELSE cache

\* The price API answers.  Its price is not older than MaxAge.
Arrive(r, k) ==
    /\ k \in request[r].pending
    /\ \E age \in 0..MaxAge :
          LET quote == [of |-> k, asOf |-> now - age]
          IN  /\ cache' = Keep(k, quote)
              /\ request' = [request EXCEPT ![r].pending = @ \ {k}, ![r].got[k] = quote]
    /\ UNCHANGED now /\ reply' = NoReply

\* Mutant: one failure rejects the whole request.
FetchFailsAll(r, k) ==
    /\ k \in request[r].pending
    /\ request' = [request EXCEPT ![r].pending = {}, ![r].failed = @ \cup {k}]
    /\ UNCHANGED <<now, cache>> /\ reply' = NoReply

\* Mutant: the failure is not caught, and Promise.all waits for it no more.
FetchFailsForEver(r, k) ==
    /\ k \in request[r].pending
    /\ request' = [request EXCEPT ![r].failed = @ \cup {k}]
    /\ UNCHANGED <<now, cache>> /\ reply' = NoReply

\* The call to the price API fails: the failure is tracked and the rate is null.
FetchFails(r, k) ==
    /\ k \in request[r].pending
    /\ request' = [request EXCEPT ![r].pending = @ \ {k}, ![r].failed = @ \cup {k}]
    /\ UNCHANGED <<now, cache>> /\ reply' = NoReply

\* conversionTime and updateTime are read before anything is fetched.  Market
\* data has no expiry: it is as of the request.
Expiration(r) ==
    IF request[r].kind = "marketData" THEN request[r].start ELSE request[r].start + Interval

\* The client gets its answer, with null for what failed.
Reply(r) ==
    /\ request[r] # Idle /\ request[r].pending = {}
    /\ reply' = [kind |-> request[r].kind, assets |-> request[r].assets,
                 expires |-> Expiration(r), quotes |-> request[r].got,
                 failed |-> request[r].failed]
    /\ request' = [request EXCEPT ![r] = Idle]
    /\ UNCHANGED <<now, cache>>

\* The snap is terminated: the cache is in memory, and the requests fail.
Restart ==
    /\ cache' = [k \in Tickers |-> None]
    /\ request' = [r \in Requests |-> Idle]
    /\ UNCHANGED now /\ reply' = NoReply

Answer(r) == Reply(r) \/ \E k \in Keys : Arrive(r, k) \/ FetchFails(r, k)

Next ==
    \/ Tick \/ Restart
    \/ \E r \in Requests : GetRates(r) \/ GetPriceIntervals(r) \/ Answer(r)

Spec == Init /\ [][Next]_vars

\* A fetch settles in the end, and the engine resumes who waits for it.
FairSpec == Spec /\ \A r \in Requests : WF_vars(Answer(r))

-----------------------------------------------------------------------------
(* Properties.                                                             *)

CacheEntries == [quote : [of : Tickers, asOf : Int], expiresAt : Int]

\* The variables keep their types, and the cache keeps a rate under the ticker it
\* was fetched for.
TypeOK ==
    /\ now \in 0..MaxTime
    /\ cache \in [Tickers -> CacheEntries \cup {None}]
    /\ \A k \in Tickers : cache[k] # None => cache[k].quote.of = k
    /\ request \in [Requests -> [kind : Kinds \cup {"idle"}, start : 0..MaxTime,
                                 assets : SUBSET Assets, pending : SUBSET Keys,
                                 failed : SUBSET Keys, got : [Keys -> Quotes \cup {None}]]]
    /\ reply \in [kind : Kinds \cup {"idle"}, assets : SUBSET Assets, expires : Nat,
                  failed : SUBSET Keys, quotes : [Keys -> Quotes \cup {None}]]

\* What is the oldest price the client may still use: it was Ttl in the cache and
\* Interval with the client after it arrived with an age of MaxAge, whatever else
\* the request waited for.
StalenessBounded ==
    \A k \in Keys : reply.quotes[k] # None =>
        reply.expires <= reply.quotes[k].asOf + MaxAge + Ttl + Interval

\* What a request owes an asset with a ticker: the ticker's rate, or its price
\* history of every period in that currency.
Owed(kind, a) ==
    IF kind = "historicalPrice" THEN Periods \X {TickerOf[a]} ELSE {TickerOf[a]}

\* Every asset asked for gets a rate of its own ticker, and its history is in its
\* own currency; a rate is null, and a period empty, only for an asset without a
\* ticker and where its own fetch failed ("to prevent one failure from breaking
\* all fetches").
RatesAreRight ==
    \A a \in reply.assets : TickerOf[a] # None =>
        \A k \in Owed(reply.kind, a) :
            IF reply.quotes[k] = None THEN k \in reply.failed ELSE reply.quotes[k].of = k

\* A request is answered whatever the price API does.
RequestsAreAnswered == \A r \in Requests : request[r] # Idle ~> request[r] = Idle
=============================================================================
