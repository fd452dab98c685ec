--------------------------- MODULE RegistryProofs ---------------------------
(***************************************************************************)
(* What the maps of the account registry hold, proved for any sets of      *)
(* calls, ids, networks and slots.                                         *)
(*                                                                         *)
(* 1. Origins.  An id is drawn once, for one path of one network: its      *)
(*    origin.  Whatever is stored, under way to the host, copied or        *)
(*    returned says of an id nothing but its origin (OriginInv), also      *)
(*    after failures and restarts.                                         *)
(* 2. Accounts, while nothing has failed.  A record that was announced, or *)
(*    is about to be, stays until its deletion (AccountsInv).              *)
(* 3. The index, while nothing has failed and networks have paths of their *)
(*    own.  It says what the accounts say, up to what the one mutation     *)
(*    under way has yet to write (IndexInv).                               *)
(* 4. From these, idempotence and the refinement of Registry.              *)
(***************************************************************************)
EXTENDS AccountProofs

USE DEF Merging

-----------------------------------------------------------------------------
(* Origins.                                                                *)

Origins == {[path |-> PathOf(n, s), net |-> n] : n \in Networks, s \in Slots}

\* o gives each id drawn its origin.  What a record, a path index and a set of
\* <<path, id>> pairs say is what o says.
RecordIs(o, id, a) ==
    a # NoAccount =>
        /\ id \in DOMAIN o
        /\ a.path \in {o[id].path, NoPath}
        /\ a.net = o[id].net \/ (a.path = NoPath /\ a.wallet = {})
IndexIs(o, ix) ==
    \A p \in Paths : ix[p] # NoId => ix[p] \in DOMAIN o /\ o[ix[p]].path = p
EntriesAre(o, entries) ==
    \A e \in entries : e[2] \in DOMAIN o /\ o[e[2]].path = e[1]
WriteIs(o, w) ==
    /\ w.kind = "index" /\ w.id # NoId => w.id \in DOMAIN o /\ o[w.id].path = w.path
    /\ w.kind = "account" => RecordIs(o, w.id, w.account)
    /\ w.kind = "wallet" =>
           /\ w.id \in DOMAIN o
           /\ w.net = o[w.id].net \/ (w.part = "inscriptions" /\ w.wallet = {})
    /\ w.kind = "indexes" => IndexIs(o, w.index)
    /\ w.kind = "accounts" => \A id \in Ids : RecordIs(o, id, w.accounts[id])

\* The calls that may hold an account of another network: getByDerivationPath
\* has yet to compare the networks, or never will.
Unsure == {"fetch", "failed"}

StoreIs(o) ==
    /\ \A id \in Ids : RecordIs(o, id, accounts[id])
    /\ IndexIs(o, index)
    /\ \A w \in inflight : WriteIs(o, w)
CallIs(o, c) ==
    /\ IndexIs(o, indexCopy[c])
    /\ EntriesAre(o, result[c])
    /\ EntriesAre(o, fresh[c])
    /\ pc[c] \notin Unsure => \A e \in result[c] : o[e[2]].net = req[c].net
    /\ \A e \in fresh[c] : o[e[2]].net = req[c].net
    /\ pc[c] = "idle" => result[c] = {} /\ fresh[c] = {}
    /\ pc[c] = "fetch" => \A e, f \in result[c] : e = f
    /\ pc[c] = "merging" => req[c].id \in DOMAIN o

IsOrigin(o) ==
    /\ o \in [drawn -> Origins]
    /\ StoreIs(o)
    /\ \A c \in Calls : CallIs(o, c)

OriginInv == \E o \in [drawn -> Origins] : IsOrigin(o)

\* A wanted path with its network is an origin.
LEMMA WantedOrigin ==
    ASSUME TypeInv, NEW c \in Calls
    PROVE  /\ pc[c] \in CreatePCs =>
                  [path |-> WantedPath(c), net |-> req[c].net] \in Origins
           /\ pc[c] \in BatchPCs => \A p \in WantedPaths(c) :
                  [path |-> p, net |-> req[c].net] \in Origins
<1>1. pc[c] \in CreatePCs => req[c].net \in Networks /\ req[c].slot \in Slots
    BY DEF TypeInv, RequestFits, Fits, CreateRequests
<1>2. pc[c] \in BatchPCs => req[c].net \in Networks /\ req[c].slots \subseteq Slots
    BY BatchAssumption, SlotAssumption DEF TypeInv, RequestFits, Fits, BatchRequests
<1> QED BY <1>1, <1>2 DEF WantedPath, WantedPaths, Origins

\* What o says, an extension of o says.
LEMMA OriginExtends ==
    ASSUME NEW o, NEW o2, DOMAIN o \subseteq DOMAIN o2,
           \A id \in DOMAIN o : o2[id] = o[id]
    PROVE  /\ \A id, a : RecordIs(o, id, a) => RecordIs(o2, id, a)
           /\ \A ix : IndexIs(o, ix) => IndexIs(o2, ix)
           /\ \A entries : EntriesAre(o, entries) => EntriesAre(o2, entries)
           /\ \A w : WriteIs(o, w) => WriteIs(o2, w)
<1>1. \A id, a : RecordIs(o, id, a) => RecordIs(o2, id, a)
    BY DEF RecordIs
<1>2. \A ix : IndexIs(o, ix) => IndexIs(o2, ix)
    BY DEF IndexIs
<1>3. \A entries : EntriesAre(o, entries) => EntriesAre(o2, entries)
    BY DEF EntriesAre
<1>4. \A w : WriteIs(o, w) => WriteIs(o2, w)
    BY <1>1, <1>2 DEF WriteIs
<1> QED BY <1>1, <1>2, <1>3, <1>4

\* A step that only moves calls: none becomes idle, none becomes sure.
LEMMA OriginMove ==
    ASSUME NEW o, IsOrigin(o),
           UNCHANGED <<accounts, index, inflight, req, result, fresh, indexCopy, drawn>>,
           \A d \in Calls : /\ pc'[d] \in {"idle", "fetch", "merging"} => pc'[d] = pc[d]
                            /\ pc'[d] \notin Unsure => pc[d] \notin Unsure
    PROVE  IsOrigin(o)'
<1>1. StoreIs(o)'
    BY DEF IsOrigin, StoreIs
<1>2. \A d \in Calls : CallIs(o, d)'
    BY DEF IsOrigin, CallIs
<1> QED BY <1>1, <1>2 DEF IsOrigin

\* A call that hands a write to the host and moves on.
LEMMA OriginWrite ==
    ASSUME NEW o, IsOrigin(o), TypeInv, NEW c \in Calls, NEW l,
           pc[c] \notin Unsure, l \notin {"idle", "fetch"}, Goto(c, l),
           l = "merging" => req[c].id \in DOMAIN o,
           NEW ws, inflight' = inflight \cup ws,
           \A w \in ws : WriteIs(o, w),
           UNCHANGED <<accounts, index, req, result, fresh, drawn>>,
           indexCopy' = indexCopy \/ indexCopy' = [indexCopy EXCEPT ![c] = index]
    PROVE  IsOrigin(o)'
<1>1. StoreIs(o)'
    BY DEF IsOrigin, StoreIs
<1>2. ASSUME NEW d \in Calls
      PROVE  CallIs(o, d)'
    <2>1. IndexIs(o, indexCopy'[d])
        BY DEF IsOrigin, StoreIs, CallIs, TypeInv, TypeOK
    <2>2. /\ pc'[d] \in {"idle", "fetch"} => pc'[d] = pc[d]
          /\ pc'[d] = "merging" => pc'[d] = pc[d] \/ (d = c /\ req[c].id \in DOMAIN o)
        BY DEF Goto, TypeInv, TypeOK
    <2>3. pc'[d] \notin Unsure => pc[d] \notin Unsure
        BY DEF Goto, TypeInv, TypeOK
    <2> QED BY <2>1, <2>2, <2>3 DEF IsOrigin, CallIs
<1> QED BY <1>1, <1>2 DEF IsOrigin

\* A call that draws ids for paths of its network, and inserts them.
LEMMA OriginDraw ==
    ASSUME NEW o, IsOrigin(o), TypeInv, NEW c \in Calls, NEW l,
           pc[c] \notin Unsure, l \notin {"idle", "fetch", "merging"}, Goto(c, l),
           NEW new, NEW kept \in SUBSET result[c],
           \A e \in new : /\ e[2] \in Ids \ drawn
                          /\ [path |-> e[1], net |-> req[c].net] \in Origins,
           \A e, f \in new : e[2] = f[2] => e = f,
           drawn' = drawn \cup {e[2] : e \in new},
           fresh' = [fresh EXCEPT ![c] = new],
           result' = [result EXCEPT ![c] = kept \cup new],
           \/ UNCHANGED inflight
           \/ \E e \in new : inflight' = inflight \cup InsertWrites(c, e[1], e[2]),
           UNCHANGED <<accounts, index, req, indexCopy>>
    PROVE  OriginInv'
<1> DEFINE given(id) == CHOOSE e \in new : e[2] = id
<1>1. \A e \in new : given(e[2]) = e
    OBVIOUS
<1>0. PICK o2 : o2 = [id \in drawn' |-> IF id \in drawn THEN o[id]
                                      ELSE [path |-> given(id)[1], net |-> req[c].net]]
    OBVIOUS
<1>2. o2 \in [drawn' -> Origins]
    BY <1>0, <1>1 DEF IsOrigin
<1>3. DOMAIN o = drawn /\ DOMAIN o2 = drawn'
    BY <1>0 DEF IsOrigin
<1>4. DOMAIN o \subseteq DOMAIN o2 /\ \A id \in DOMAIN o : o2[id] = o[id]
    BY <1>0, <1>3
<1>5. \A e \in new : e[2] \in DOMAIN o2 /\ o2[e[2]].path = e[1] /\ o2[e[2]].net = req[c].net
    BY <1>0, <1>1, <1>3
<1>6. StoreIs(o2)'
    <2>1. \A id \in Ids : RecordIs(o2, id, accounts'[id])
        BY <1>4, OriginExtends DEF IsOrigin, StoreIs
    <2>2. IndexIs(o2, index')
        BY <1>4, OriginExtends DEF IsOrigin, StoreIs
    <2>3. \A w \in inflight : WriteIs(o2, w)
        BY <1>4, OriginExtends DEF IsOrigin, StoreIs
    <2>4. \A e \in new : \A w \in InsertWrites(c, e[1], e[2]) : WriteIs(o2, w)
        BY <1>5 DEF InsertWrites, WriteIs, RecordIs, NewAccount
    <2>5. \A w \in inflight' : WriteIs(o2, w)
        BY <2>3, <2>4
    <2> QED BY <2>1, <2>2, <2>5 DEF StoreIs
<1>7. ASSUME NEW d \in Calls
      PROVE  CallIs(o2, d)'
    <2>1. CallIs(o, d)
        BY DEF IsOrigin
    <2>2. IndexIs(o2, indexCopy'[d])
        BY <1>4, <2>1, OriginExtends DEF CallIs
    <2>3. CASE d # c
        <3>1. pc'[d] = pc[d] /\ result'[d] = result[d] /\ fresh'[d] = fresh[d]
            BY <2>3 DEF Goto, TypeInv, TypeOK
        <3>2. EntriesAre(o2, result[d]) /\ EntriesAre(o2, fresh[d])
            BY <1>4, <2>1, OriginExtends DEF CallIs
        <3>3. \A e \in result[d] \cup fresh[d] : e[2] \in DOMAIN o /\ o2[e[2]] = o[e[2]]
            BY <1>4, <2>1 DEF CallIs, EntriesAre
        <3>4. pc[d] = "merging" => req[d].id \in DOMAIN o2
            BY <1>4, <2>1 DEF CallIs
        <3> QED BY <2>1, <2>2, <3>1, <3>2, <3>3, <3>4 DEF CallIs
    <2>4. CASE d = c
        <3>1. pc'[d] = l /\ result'[d] = kept \cup new /\ fresh'[d] = new
            BY <2>4 DEF Goto, TypeInv, TypeOK
        <3>2. \A e \in kept : e[2] \in DOMAIN o2 /\ o2[e[2]].path = e[1] /\ o2[e[2]].net = req[c].net
            BY <1>4, <2>1, <2>4 DEF CallIs, EntriesAre
        <3> QED BY <1>5, <2>2, <2>4, <3>1, <3>2 DEF CallIs, EntriesAre
    <2> QED BY <2>3, <2>4
<1> QED BY <1>2, <1>6, <1>7 DEF IsOrigin, OriginInv

LEMMA OriginBegin ==
    ASSUME TypeInv, NEW o, IsOrigin(o), NEW c \in Calls, Begin(c)
    PROVE  IsOrigin(o)'
<1> USE DEF store, host, ghost
<1>1. PICK l \in {"listing", "loading", "queued"}, r \in Requests :
          pc' = [pc EXCEPT ![c] = l] /\ req' = [req EXCEPT ![c] = r]
    BY DEF Begin, Goto, Enqueue
<1>2. StoreIs(o)'
    BY DEF IsOrigin, StoreIs, Begin
<1>3. ASSUME NEW d \in Calls
      PROVE  CallIs(o, d)'
    <2>1. CallIs(o, d) /\ UNCHANGED <<result, fresh, indexCopy>>
        BY DEF IsOrigin, Begin
    <2>2. CASE d = c
        BY <1>1, <2>1, <2>2 DEF Begin, CallIs, TypeInv, TypeOK
    <2>3. CASE d # c
        <3>1. pc'[d] = pc[d] /\ req'[d] = req[d]
            BY <1>1, <2>3 DEF TypeInv, TypeOK
        <3> QED BY <2>1, <3>1 DEF CallIs
    <2> QED BY <2>2, <2>3
<1> QED BY <1>2, <1>3 DEF IsOrigin, Begin

LEMMA OriginCreate ==
    ASSUME TypeInv, NEW o, IsOrigin(o), NEW c \in Calls, Create(c)
    PROVE  OriginInv'
<1> USE DEF store, host, queue, local, ghost
<1>0. IsOrigin(o)' => OriginInv'
    BY DEF IsOrigin, OriginInv
<1>1. CASE ChooseIndex(c)
    <2>1. /\ req'[c].net = req[c].net /\ \A d \in Calls \ {c} : req'[d] = req[d]
          /\ pc'[c] # "merging"
          /\ \E l \in {"queued", "failed"} : Goto(c, l)
        <3>1. PICK l \in {"queued", "failed"} : Goto(c, l)
            BY <1>1 DEF ChooseIndex, Enqueue
        <3>2. pc'[c] # "merging"
            BY <3>1 DEF Goto, TypeInv, TypeOK
        <3> QED BY <1>1, <3>1, <3>2 DEF ChooseIndex, Enqueue, TypeInv, TypeOK
    <2>2. \A d \in Calls : req'[d].net = req[d].net
        BY <2>1
    <2>3. StoreIs(o)'
        BY <1>1 DEF IsOrigin, StoreIs, ChooseIndex
    <2>4. ASSUME NEW d \in Calls
          PROVE  CallIs(o, d)'
        <3>1. CallIs(o, d) /\ UNCHANGED <<result, fresh, indexCopy>>
            BY <1>1 DEF IsOrigin, ChooseIndex
        <3>2. /\ pc'[d] \in {"idle", "fetch", "merging"} => pc'[d] = pc[d]
              /\ pc'[d] \notin Unsure => pc[d] \notin Unsure
            BY <1>1, <2>1 DEF ChooseIndex, Goto, TypeInv, TypeOK, Unsure
        <3>3. pc'[d] = "merging" => req'[d] = req[d]
            BY <2>1
        <3> QED BY <2>2, <3>1, <3>2, <3>3 DEF CallIs
    <2> QED BY <1>0, <1>1, <2>3, <2>4 DEF IsOrigin, ChooseIndex
<1>2. CASE LookupIndex(c) \/ FetchIndexed(c)
    <2>1. StoreIs(o)'
        BY <1>2 DEF IsOrigin, StoreIs, LookupIndex, FetchIndexed
    <2>2. ASSUME NEW d \in Calls, d # c
          PROVE  CallIs(o, d)'
        <3>1. pc'[d] = pc[d] /\ result'[d] = result[d]
            BY <1>2, <2>2 DEF LookupIndex, FetchIndexed, Return, Goto, TypeInv, TypeOK
        <3> QED BY <1>2, <3>1 DEF IsOrigin, CallIs, LookupIndex, FetchIndexed
    <2>3. ASSUME LookupIndex(c) PROVE CallIs(o, c)'
        <3>1. pc[c] = "lookup" /\ WantedPath(c) \in Paths
            BY <2>3, RequestTyped DEF LookupIndex, CreatePCs
        <3>2. \/ pc'[c] = "derive" /\ result'[c] = result[c]
              \/ /\ pc'[c] = "fetch" /\ index[WantedPath(c)] # NoId
                 /\ result'[c] = {<<WantedPath(c), index[WantedPath(c)]>>}
            BY <2>3 DEF LookupIndex, Goto, TypeInv, TypeOK
        <3>3. CASE pc'[c] = "derive" /\ result'[c] = result[c]
            BY <2>3, <3>1, <3>3 DEF IsOrigin, CallIs, LookupIndex, Unsure
        <3>4. CASE /\ pc'[c] = "fetch" /\ index[WantedPath(c)] # NoId
                   /\ result'[c] = {<<WantedPath(c), index[WantedPath(c)]>>}
            <4>1. EntriesAre(o, result'[c])
                BY <3>1, <3>4 DEF IsOrigin, StoreIs, IndexIs, EntriesAre
            <4>2. CallIs(o, c) /\ UNCHANGED <<req, fresh, indexCopy>>
                BY <2>3 DEF IsOrigin, LookupIndex
            <4> QED BY <3>4, <4>1, <4>2 DEF CallIs, Unsure
        <3> QED BY <3>2, <3>3, <3>4
    <2>4. ASSUME FetchIndexed(c) PROVE CallIs(o, c)'
        <3>1. CallIs(o, c) /\ pc[c] = "fetch" /\ UNCHANGED <<req, fresh, indexCopy>>
            BY <2>4 DEF IsOrigin, FetchIndexed
        <3>2. PICK e \in result[c] :
                  \/ IsRequested(c, e[2]) /\ ~IsUnusable(c, e[2])
                     /\ Goto(c, "announce") /\ UNCHANGED result
                  \/ Return(c, "failed") /\ UNCHANGED result
                  \/ Goto(c, "derive") /\ result' = [result EXCEPT ![c] = {}]
            BY <2>4 DEF FetchIndexed
        <3>3. CASE /\ IsRequested(c, e[2]) /\ ~IsUnusable(c, e[2])
                   /\ Goto(c, "announce") /\ UNCHANGED result
            <4>1. pc'[c] = "announce" /\ result' = result
                BY <3>3 DEF Goto, TypeInv, TypeOK
            <4>2. e[2] \in Ids
                BY DEF TypeInv, TypeOK
            <4>3. accounts[e[2]] # NoAccount /\ accounts[e[2]].path # NoPath
                BY <3>3 DEF IsRequested, IsUnusable, Broken
            <4>4. o[e[2]].net = req[c].net
                BY <3>3, <4>2, <4>3 DEF IsRequested, IsOrigin, StoreIs, RecordIs
            <4> QED BY <3>1, <4>1, <4>4 DEF CallIs
        <3>4. CASE Return(c, "failed") /\ UNCHANGED result
            <4>1. pc'[c] = "failed" /\ result' = result
                BY <3>4 DEF Return, Goto, TypeInv, TypeOK
            <4> QED BY <3>1, <4>1 DEF CallIs, Unsure
        <3>5. CASE Goto(c, "derive") /\ result' = [result EXCEPT ![c] = {}]
            <4>1. pc'[c] = "derive" /\ result'[c] = {}
                BY <3>5 DEF Goto, TypeInv, TypeOK
            <4> QED BY <3>1, <4>1 DEF CallIs, EntriesAre
        <3> QED BY <3>2, <3>3, <3>4, <3>5
    <2> QED BY <1>0, <1>2, <2>1, <2>2, <2>3, <2>4 DEF IsOrigin, LookupIndex, FetchIndexed
<1>3. CASE Insert(c)
    <2>1. pc[c] = "derive" /\ WantedPath(c) \in Paths
        BY <1>3, RequestTyped DEF Insert, CreatePCs
    <2>2. PICK id \in Ids \ drawn :
              /\ drawn' = drawn \cup {id}
              /\ fresh' = [fresh EXCEPT ![c] = {<<WantedPath(c), id>>}]
              /\ result' = [result EXCEPT ![c] = {<<WantedPath(c), id>>}]
              /\ inflight' = inflight \cup InsertWrites(c, WantedPath(c), id)
        BY <1>3 DEF Insert
    <2> DEFINE new == {<<WantedPath(c), id>>}
    <2>3. [path |-> WantedPath(c), net |-> req[c].net] \in Origins
        BY <2>1, WantedOrigin DEF CreatePCs
    <2>4. /\ drawn' = drawn \cup {e[2] : e \in new}
          /\ result' = [result EXCEPT ![c] = {} \cup new]
          /\ \E e \in new : inflight' = inflight \cup InsertWrites(c, e[1], e[2])
        BY <2>2
    <2>5. /\ Goto(c, "storing")
          /\ UNCHANGED <<accounts, index, req, indexCopy>>
        BY <1>3 DEF Insert
    <2>6. \A e \in new : e[2] \in Ids \ drawn /\ [path |-> e[1], net |-> req[c].net] \in Origins
        BY <2>3
    <2>7. \A e, f \in new : e[2] = f[2] => e = f
        OBVIOUS
    <2>8. fresh' = [fresh EXCEPT ![c] = new] /\ {} \in SUBSET result[c]
        BY <2>2
    <2> HIDE DEF new
    <2> QED BY <2>1, <2>4, <2>5, <2>6, <2>7, <2>8, OriginDraw DEF Unsure
<1>4. CASE InsertAcked(c) \/ Announce(c) \/ ScheduleScan(c)
    <2>1. /\ pc[c] \in {"storing", "announce", "schedule"}
          /\ UNCHANGED <<accounts, index, inflight, req, result, fresh, indexCopy, drawn>>
          /\ \E l \in {"announce", "schedule", "done", "failed"} : Goto(c, l)
        BY <1>4 DEF InsertAcked, Announce, ScheduleScan, Return
    <2>2. \A d \in Calls : /\ pc'[d] \in {"idle", "fetch", "merging"} => pc'[d] = pc[d]
                           /\ pc'[d] \notin Unsure => pc[d] \notin Unsure
        BY <2>1 DEF Goto, TypeInv, TypeOK, Unsure
    <2> QED BY <1>0, <2>1, <2>2, OriginMove
<1> QED BY <1>1, <1>2, <1>3, <1>4 DEF Create

\* An account found at a path has that path for its origin.
LEMMA MatchesOrigin ==
    ASSUME NEW o, IsOrigin(o), NEW p \in Paths, NEW id \in Matches(p)
    PROVE  id \in DOMAIN o /\ o[id].path = p
<1>1. CASE index[p] # NoId /\ accounts[index[p]] # NoAccount
    BY <1>1 DEF Matches, IsOrigin, StoreIs, IndexIs
<1>2. CASE ~(index[p] # NoId /\ accounts[index[p]] # NoAccount)
    <2>1. id \in Ids /\ accounts[id] # NoAccount /\ accounts[id].path # NoPath /\ accounts[id].path = p
        BY <1>2 DEF Matches, AtPath, Stored, Whole
    <2> QED BY <2>1 DEF IsOrigin, StoreIs, RecordIs
<1> QED BY <1>1, <1>2

LEMMA OriginCreateMany ==
    ASSUME TypeInv, NEW o, IsOrigin(o), NEW c \in Calls, CreateMany(c)
    PROVE  OriginInv'
<1> USE DEF store, host, queue, local, ghost
<1>0. IsOrigin(o)' => OriginInv'
    BY DEF IsOrigin, OriginInv
<1>1. CASE ScanStore(c)
    <2>1. pc[c] = "scan" /\ WantedPaths(c) \subseteq Paths
        BY <1>1, RequestTyped DEF ScanStore, BatchPCs
    <2>2. PICK found \in [WantedPaths(c) -> Ids \cup {NoId}] :
          /\ \A p \in WantedPaths(c) :
                IF Matches(p) = {} THEN found[p] = NoId ELSE found[p] \in Matches(p)
          /\ LET repaired == {p \in WantedPaths(c) : found[p] # NoId /\ index[p] # found[p]}
                 kept == {p \in WantedPaths(c) : found[p] # NoId /\ IsRequested(c, found[p])}
                 newIndex == [p \in Paths |-> IF p \in repaired THEN found[p] ELSE index[p]]
             IN /\ result' = [result EXCEPT ![c] = {<<p, found[p]>> : p \in kept}]
                /\ \E l \in {"batch", "repairing"} : Goto(c, l)
                /\ \/ UNCHANGED inflight
                   \/ inflight' = inflight \cup
                            {[kind |-> "indexes", by |-> c, index |-> newIndex]}
        BY <1>1 DEF ScanStore
    <2> DEFINE repaired == {p \in WantedPaths(c) : found[p] # NoId /\ index[p] # found[p]}
               kept == {p \in WantedPaths(c) : found[p] # NoId /\ IsRequested(c, found[p])}
               newIndex == [p \in Paths |-> IF p \in repaired THEN found[p] ELSE index[p]]
    <2>3. \A p \in WantedPaths(c) : found[p] # NoId => found[p] \in DOMAIN o /\ o[found[p]].path = p
        BY <2>1, <2>2, MatchesOrigin
    <2>4. IndexIs(o, newIndex)
        BY <2>3 DEF IsOrigin, StoreIs, IndexIs
    <2>5. StoreIs(o)'
        <3>1. WriteIs(o, [kind |-> "indexes", by |-> c, index |-> newIndex])
            BY <2>4 DEF WriteIs
        <3> HIDE DEF newIndex
        <3>2. \A w \in inflight' : WriteIs(o, w)
            BY <2>2, <3>1 DEF IsOrigin, StoreIs, newIndex
        <3> QED BY <1>1, <3>2 DEF ScanStore, IsOrigin, StoreIs
    <2>6. EntriesAre(o, {<<p, found[p]>> : p \in kept})
        BY <2>3 DEF EntriesAre
    <2>7. \A p \in kept : o[found[p]].net = req[c].net
        <3>1. \A id \in Ids : accounts[id] # NoAccount => accounts[id].path # NoPath
            BY <1>1 DEF ScanStore, Broken
        <3> QED BY <2>2, <3>1 DEF IsRequested, IsOrigin, StoreIs, RecordIs
    <2>8. ASSUME NEW d \in Calls
          PROVE  CallIs(o, d)'
        <3>1. CallIs(o, d) /\ UNCHANGED <<req, fresh, indexCopy>>
            BY <1>1 DEF IsOrigin, ScanStore
        <3>2. CASE d = c
            <4>1. pc'[c] \in {"batch", "repairing"} /\ result'[c] = {<<p, found[p]>> : p \in kept}
                BY <2>2 DEF Goto, TypeInv, TypeOK
            <4> HIDE DEF kept
            <4>2. \A e \in result'[c] : o[e[2]].net = req[c].net
                BY <2>7, <4>1
            <4> QED BY <2>6, <3>1, <3>2, <4>1, <4>2 DEF CallIs
        <3>3. CASE d # c
            <4>1. pc'[d] = pc[d] /\ result'[d] = result[d]
                BY <2>2, <3>3 DEF Goto, TypeInv, TypeOK
            <4> QED BY <3>1, <4>1 DEF CallIs
        <3> QED BY <3>2, <3>3
    <2> QED BY <1>0, <1>1, <2>5, <2>8 DEF IsOrigin, ScanStore
<1>2. CASE ScanBroken(c) \/ Repaired(c)
    <2>1. /\ pc[c] \in {"scan", "repairing"}
          /\ UNCHANGED <<accounts, index, inflight, req, result, fresh, indexCopy, drawn>>
          /\ \E l \in {"batch", "failed"} : Goto(c, l)
        BY <1>2 DEF ScanBroken, Repaired, Return
    <2>2. \A d \in Calls : /\ pc'[d] \in {"idle", "fetch", "merging"} => pc'[d] = pc[d]
                           /\ pc'[d] \notin Unsure => pc[d] \notin Unsure
        BY <2>1 DEF Goto, TypeInv, TypeOK, Unsure
    <2> QED BY <1>0, <2>1, <2>2, OriginMove
<1>3. CASE InsertBatch(c)
    <2>1. pc[c] = "batch" /\ UNCHANGED <<accounts, index, req, indexCopy>>
        BY <1>3 DEF InsertBatch
    <2>2. CASE Goto(c, "done") /\ UNCHANGED <<inflight, result, fresh, drawn>>
        <3>1. \A d \in Calls : /\ pc'[d] \in {"idle", "fetch", "merging"} => pc'[d] = pc[d]
                               /\ pc'[d] \notin Unsure => pc[d] \notin Unsure
            BY <2>1, <2>2 DEF Goto, TypeInv, TypeOK, Unsure
        <3> QED BY <1>0, <2>1, <2>2, <3>1, OriginMove
    <2>3. CASE ~(Goto(c, "done") /\ UNCHANGED <<inflight, result, fresh, drawn>>)
        <3>1. PICK id \in [Missing(c) -> Ids \ drawn] :
                /\ \A p, q \in Missing(c) : p # q => id[p] # id[q]
                /\ LET new == {<<p, id[p]>> : p \in Missing(c)} IN
                      /\ drawn' = drawn \cup {e[2] : e \in new}
                      /\ fresh' = [fresh EXCEPT ![c] = new]
                      /\ result' = [result EXCEPT ![c] = @ \cup new]
                      /\ \/ /\ \E p \in Missing(c) :
                                  inflight' = inflight \cup InsertWrites(c, p, id[p])
                            /\ Goto(c, "storing")
                         \/ Goto(c, "reading") /\ UNCHANGED inflight
            BY <1>3, <2>3 DEF InsertBatch, Return
        <3> DEFINE new == {<<p, id[p]>> : p \in Missing(c)}
        <3>2. PICK l \in {"storing", "reading"} : Goto(c, l)
            BY <3>1
        <3>3. Missing(c) \subseteq WantedPaths(c)
            BY DEF Missing
        <3>4. \A e \in new : e[2] \in Ids \ drawn /\ [path |-> e[1], net |-> req[c].net] \in Origins
            <4>1. \A p \in Missing(c) : [path |-> p, net |-> req[c].net] \in Origins
                BY <2>1, <3>3, WantedOrigin DEF BatchPCs
            <4> QED BY <4>1
        <3>5. \A e, f \in new : e[2] = f[2] => e = f
            BY <3>1
        <3>6. /\ drawn' = drawn \cup {e[2] : e \in new}
              /\ fresh' = [fresh EXCEPT ![c] = new]
              /\ result' = [result EXCEPT ![c] = result[c] \cup new]
            BY <3>1
        <3>7. \/ UNCHANGED inflight
              \/ \E e \in new : inflight' = inflight \cup InsertWrites(c, e[1], e[2])
            <4>1. \A p \in Missing(c) : <<p, id[p]>> \in new
                OBVIOUS
            <4> QED BY <3>1, <4>1
        <3>8. result[c] \in SUBSET result[c]
            OBVIOUS
        <3> HIDE DEF new
        <3> QED BY <2>1, <3>2, <3>4, <3>5, <3>6, <3>7, <3>8, OriginDraw DEF Unsure
    <2> QED BY <2>2, <2>3
<1>4. CASE ReadStore(c)
    <2> DEFINE w == [kind |-> "accounts", by |-> c, accounts |-> AccountsWith(c)]
    <2>1. WriteIs(o, w)
        <3>1. ASSUME NEW id \in Ids
              PROVE  RecordIs(o, id, AccountsWith(c)[id])
            <4>1. CASE \E e \in fresh[c] : e[2] = id
                <5>1. PICK e \in fresh[c] : e[2] = id /\ AccountsWith(c)[id] = NewAccount(c, e[1])
                    BY <4>1 DEF AccountsWith
                <5>2. id \in DOMAIN o /\ o[id].path = e[1] /\ o[id].net = req[c].net
                    BY <5>1 DEF IsOrigin, CallIs, EntriesAre
                <5> QED BY <5>1, <5>2 DEF RecordIs, NewAccount
            <4>2. CASE ~\E e \in fresh[c] : e[2] = id
                BY <4>2 DEF AccountsWith, IsOrigin, StoreIs
            <4> QED BY <4>1, <4>2
        <3> QED BY <3>1 DEF WriteIs
    <2>2. PICK ws : ws = {w}
        OBVIOUS
    <2>3. \A v \in ws : WriteIs(o, v)
        BY <2>1, <2>2
    <2>4. /\ pc[c] = "reading" /\ Goto(c, "storingAccounts") /\ inflight' = inflight \cup ws
          /\ indexCopy' = [indexCopy EXCEPT ![c] = index]
          /\ UNCHANGED <<accounts, index, req, result, fresh, drawn>>
        BY <1>4, <2>2 DEF ReadStore
    <2> QED BY <1>0, <2>3, <2>4, OriginWrite DEF Unsure
<1>5. CASE WriteIndexes(c)
    <2> DEFINE w == [kind |-> "indexes", by |-> c, index |-> IndexWith(c)]
    <2>1. WriteIs(o, w)
        <3>1. ASSUME NEW p \in Paths, IndexWith(c)[p] # NoId
              PROVE  IndexWith(c)[p] \in DOMAIN o /\ o[IndexWith(c)[p]].path = p
            <4>1. CASE \E e \in fresh[c] : e[1] = p
                <5>1. PICK e \in fresh[c] : e[1] = p /\ IndexWith(c)[p] = e[2]
                    BY <4>1 DEF IndexWith
                <5> QED BY <5>1 DEF IsOrigin, CallIs, EntriesAre
            <4>2. CASE ~\E e \in fresh[c] : e[1] = p
                BY <3>1, <4>2 DEF IndexWith, IsOrigin, CallIs, IndexIs
            <4> QED BY <4>1, <4>2
        <3> QED BY <3>1 DEF WriteIs, IndexIs
    <2>2. PICK ws : ws = {w}
        OBVIOUS
    <2>3. \A v \in ws : WriteIs(o, v)
        BY <2>1, <2>2
    <2>4. /\ pc[c] = "storingAccounts" /\ Goto(c, "storing") /\ inflight' = inflight \cup ws
          /\ UNCHANGED <<accounts, index, req, result, fresh, indexCopy, drawn>>
        BY <1>5, <2>2 DEF WriteIndexes
    <2> QED BY <1>0, <2>3, <2>4, OriginWrite DEF Unsure
<1> QED BY <1>1, <1>2, <1>3, <1>4, <1>5 DEF CreateMany

LEMMA OriginDeleteUpdate ==
    ASSUME TypeInv, NEW o, IsOrigin(o), NEW c \in Calls, Delete(c) \/ UpdateAccount(c)
    PROVE  IsOrigin(o)'
<1> USE DEF store, host, queue, local, ghost
<1>1. CASE UNCHANGED inflight /\ \E l \in DeletePCs \cup {"syncing"} \cup Finished : Goto(c, l)
    <2>1. /\ pc[c] \in DeletePCs \cup UpdatePCs
          /\ UNCHANGED <<accounts, index, req, result, fresh, indexCopy, drawn>>
        BY <1>1 DEF Delete, UpdateAccount, FindAccount, Retract, Remove, RemoveAcked, Load,
               MergeStaged, MergeAcked, MarkAcked, Return, DeletePCs, UpdatePCs, Finished
    <2>2. \A d \in Calls : /\ pc'[d] \in {"idle", "fetch", "merging"} => pc'[d] = pc[d]
                           /\ pc'[d] \notin Unsure => pc[d] \notin Unsure
        BY <1>1, <2>1 DEF Goto, TypeInv, TypeOK, Unsure, DeletePCs, UpdatePCs, Finished
    <2> QED BY <1>1, <2>1, <2>2, OriginMove
<1>2. CASE Remove(c) /\ ~UNCHANGED inflight
    <2>1. /\ pc[c] = "remove" /\ Goto(c, "removing") /\ Whole(req[c].id)
          /\ inflight' = inflight \cup RemoveWrites(c, req[c].id)
          /\ UNCHANGED <<accounts, index, req, result, fresh, indexCopy, drawn>>
        BY <1>2 DEF Remove
    <2>2. \A w \in RemoveWrites(c, req[c].id) : WriteIs(o, w)
        BY DEF RemoveWrites, WriteIs, RecordIs
    <2> QED BY <2>1, <2>2, OriginWrite DEF Unsure
<1>3. CASE MergeStaged(c) /\ Goto(c, "merging")
    <2>0. ~Goto(c, "done") /\ ~Goto(c, "failed")
        BY <1>3 DEF Goto, TypeInv, TypeOK
    <2>1. /\ pc[c] = "syncing" /\ Goto(c, "merging") /\ HasWallet(req[c].id)
          /\ inflight' = inflight \cup {StagedWrite(c, req[c].id)}
          /\ UNCHANGED <<accounts, index, req, result, fresh, indexCopy, drawn>>
        BY <1>3, <2>0 DEF MergeStaged
    <2>2. req[c].id \in Ids
        BY <2>1, RequestTyped DEF UpdatePCs
    <2>3. WriteIs(o, StagedWrite(c, req[c].id))
        BY <2>1, <2>2 DEF StagedWrite, WriteIs, IsOrigin, StoreIs, RecordIs, HasWallet, Broken
    <2>4. PICK ws : ws = {StagedWrite(c, req[c].id)}
        OBVIOUS
    <2>5. (\A w \in ws : WriteIs(o, w)) /\ inflight' = inflight \cup ws
        BY <2>1, <2>3, <2>4
    <2>6. req[c].id \in DOMAIN o
        BY <2>1, <2>2 DEF IsOrigin, StoreIs, RecordIs, HasWallet
    <2> QED BY <2>1, <2>5, <2>6, OriginWrite DEF Unsure
<1>4. CASE MergeAcked(c) /\ Goto(c, "marking")
    <2>0. ~Goto(c, "done")
        BY <1>4 DEF Goto, TypeInv, TypeOK
    <2>1. PICK net \in Networks :
              /\ pc[c] = "merging" /\ Goto(c, "marking")
              /\ inflight' = inflight \cup {InscriptionsWrite(c, net)}
              /\ UNCHANGED <<accounts, index, req, result, fresh, indexCopy, drawn>>
        BY <1>4, <2>0 DEF MergeAcked
    <2>2. WriteIs(o, InscriptionsWrite(c, net))
        BY <2>1 DEF InscriptionsWrite, WriteIs, IsOrigin, CallIs
    <2>3. PICK ws : ws = {InscriptionsWrite(c, net)}
        OBVIOUS
    <2>4. (\A w \in ws : WriteIs(o, w)) /\ inflight' = inflight \cup ws
        BY <2>1, <2>2, <2>3
    <2> QED BY <2>1, <2>4, OriginWrite DEF Unsure
<1> QED BY <1>1, <1>2, <1>3, <1>4 DEF Delete, UpdateAccount, FindAccount, Retract, Remove,
                                RemoveAcked, Load, MergeStaged, MergeAcked, MarkAcked, Return,
                                DeletePCs, Finished

LEMMA OriginLand ==
    ASSUME TypeInv, NEW o, IsOrigin(o), NEW w \in inflight, Land(w)
    PROVE  IsOrigin(o)'
<1> USE DEF host, queue, local, ghost
<1>1. w \in Writes /\ w.by \in Calls /\ WriteIs(o, w)
    BY DEF TypeInv, TypeOK, Writes, IndexWrite, AccountWrite, WalletWrite, IndexesWrite,
           AccountsWrite, IsOrigin, StoreIs
<1>2. \A v \in inflight' : WriteIs(o, v)
    BY DEF Land, IsOrigin, StoreIs
<1>3. IndexIs(o, index')
    <2>1. CASE w.kind = "index"
        BY <1>1, <2>1 DEF Land, IsOrigin, StoreIs, IndexIs, WriteIs, TypeInv, TypeOK
    <2>2. CASE w.kind = "indexes"
        BY <1>1, <2>2 DEF Land, WriteIs
    <2>3. CASE w.kind \notin {"index", "indexes"}
        BY <2>3 DEF Land, IsOrigin, StoreIs
    <2> QED BY <2>1, <2>2, <2>3
<1>4. ASSUME NEW id \in Ids
      PROVE  RecordIs(o, id, accounts'[id])
    <2>1. RecordIs(o, id, accounts[id])
        BY DEF IsOrigin, StoreIs
    <2>2. CASE w.kind = "account"
        BY <1>1, <2>1, <2>2 DEF Land, WriteIs, TypeInv, TypeOK
    <2>3. CASE w.kind = "accounts"
        BY <1>1, <2>3 DEF Land, WriteIs
    <2>4. CASE w.kind = "wallet"
        <3>1. /\ LandWallet(w) /\ w.id \in DOMAIN o
              /\ w.net = o[w.id].net \/ (w.part = "inscriptions" /\ w.wallet = {})
            BY <1>1, <2>4 DEF Land, WriteIs
        <3>2. accounts \in [Ids -> Account \cup {NoAccount}]
            BY DEF TypeInv, TypeOK
        <3>3. CASE id # w.id \/ UNCHANGED accounts
            BY <2>1, <3>1, <3>2, <3>3 DEF LandWallet
        <3>4. CASE id = w.id /\ accounts[id] # NoAccount /\ accounts'[id] = Overwritten(w)
            <4>1. accounts[id] \in Account
                BY <3>2, <3>4
            <4>2. CASE w.part = "wallet"
                BY <2>1, <3>1, <3>4, <4>1, <4>2 DEF Overwritten, RecordIs, Account
            <4>3. CASE w.part # "wallet"
                BY <2>1, <3>4, <4>3 DEF Overwritten
            <4> QED BY <4>2, <4>3
        <3>5. CASE id = w.id /\ accounts'[id] = [path |-> NoPath, net |-> w.net, wallet |-> w.wallet]
            BY <3>1, <3>5 DEF RecordIs
        <3> QED BY <3>1, <3>2, <3>3, <3>4, <3>5 DEF LandWallet
    <2>5. CASE w.kind \notin {"account", "accounts", "wallet"}
        BY <2>1, <2>5 DEF Land
    <2> QED BY <2>2, <2>3, <2>4, <2>5
<1>5. StoreIs(o)'
    BY <1>2, <1>3, <1>4 DEF StoreIs
<1>6. \A d \in Calls : pc'[d] = pc[d] \/ (pc'[d] = "failed" /\ pc[d] \in Merging)
    BY DEF Land, LandWallet, TypeInv, TypeOK
<1>7. \A d \in Calls : CallIs(o, d)'
    BY <1>6 DEF Land, IsOrigin, CallIs, Unsure
<1> QED BY <1>5, <1>7 DEF IsOrigin, Land

LEMMA OriginFault ==
    ASSUME TypeInv, NEW o, IsOrigin(o),
           \/ \E w \in inflight : Lose(w)
           \/ \E c \in Calls : Throw(c)
           \/ Crash
    PROVE  IsOrigin(o)'
<1> USE DEF store, host, queue, local, ghost
<1>1. /\ UNCHANGED <<accounts, index, req, result, fresh, indexCopy, drawn>>
      /\ inflight' \subseteq inflight
    BY DEF Lose, Throw, Crash
<1>2. \A d \in Calls : pc'[d] \in {pc[d], "failed"}
    BY DEF Lose, Throw, Crash, Return, Goto, Idle, TypeInv, TypeOK
<1>3. StoreIs(o)'
    BY <1>1 DEF IsOrigin, StoreIs
<1>4. \A d \in Calls : CallIs(o, d)'
    BY <1>1, <1>2 DEF IsOrigin, CallIs, Unsure
<1> QED BY <1>1, <1>3, <1>4 DEF IsOrigin

LEMMA OriginInit == Init => OriginInv
<1> SUFFICES ASSUME Init PROVE OriginInv
    OBVIOUS
<1>1. PICK o : o = [id \in {} |-> id]
    OBVIOUS
<1>2. o \in [drawn -> Origins]
    BY <1>1 DEF Init
<1>3. StoreIs(o)
    BY DEF Init, StoreIs, RecordIs, IndexIs
<1>4. \A c \in Calls : CallIs(o, c)
    BY DEF Init, CallIs, EntriesAre, IndexIs
<1> QED BY <1>2, <1>3, <1>4 DEF IsOrigin, OriginInv

LEMMA OriginStep == TypeInv /\ OriginInv /\ [Next]_vars => OriginInv'
<1> SUFFICES ASSUME TypeInv, OriginInv, [Next]_vars PROVE OriginInv'
    OBVIOUS
<1>1. PICK o \in [drawn -> Origins] : IsOrigin(o)
    BY DEF OriginInv
<1>2. IsOrigin(o)' => OriginInv'
    BY DEF IsOrigin, OriginInv
<1>3. CASE UNCHANGED vars
    BY <1>1, <1>2, <1>3, OriginMove DEF vars, store, host, local, ghost
<1>4. ASSUME NEW c \in Calls, Acquire(c)
      PROVE  OriginInv'
    <2>1. \A d \in Calls : /\ pc'[d] \in {"idle", "fetch", "merging"} => pc'[d] = pc[d]
                           /\ pc'[d] \notin Unsure => pc[d] \notin Unsure
        BY <1>4 DEF Acquire, Goto, TypeInv, TypeOK, Unsure
    <2> QED BY <1>1, <1>2, <1>4, <2>1, OriginMove DEF Acquire, store, local, ghost
<1>5. ASSUME NEW c \in Calls, Proceed(c)
      PROVE  OriginInv'
    BY <1>1, <1>2, <1>4, <1>5, OriginCreate, OriginCreateMany, OriginDeleteUpdate DEF Proceed
<1>6. ASSUME NEW c \in Calls, Begin(c)
      PROVE  OriginInv'
    BY <1>1, <1>2, <1>6, OriginBegin
<1>7. ASSUME NEW w \in inflight, Land(w)
      PROVE  OriginInv'
    BY <1>1, <1>2, <1>7, OriginLand
<1> QED BY <1>1, <1>2, <1>3, <1>5, <1>6, <1>7, OriginFault DEF Next, Quiescent

LEMMA OriginHolds == Spec => [](TypeInv /\ OriginInv)
<1>1. Init => TypeInv /\ OriginInv
    BY TypeInit, OriginInit
<1>2. TypeInv /\ OriginInv /\ [Next]_vars => (TypeInv /\ OriginInv)'
    BY TypeStep, OriginStep
<1> QED BY <1>1, <1>2, PTL DEF Spec

\* createAccount returns an account of the path and the network it was asked
\* for, although networks may share the path, whatever fails or restarts.
THEOREM CreateIsRight == Spec => []ResultIsRequested
<1>1. TypeInv /\ OriginInv => ResultIsRequested
    <2> SUFFICES ASSUME TypeInv, OriginInv, NEW c \in Calls, NEW e \in result[c],
                        pc[c] = "done", e[2] \in Stored
                 PROVE  accounts[e[2]].path = e[1] /\ accounts[e[2]].net = req[c].net
        BY DEF ResultIsRequested
    <2>1. PICK o \in [drawn -> Origins] : IsOrigin(o)
        BY DEF OriginInv
    <2>2. o[e[2]].path = e[1] /\ o[e[2]].net = req[c].net
        BY <2>1 DEF IsOrigin, CallIs, EntriesAre, Unsure
    <2>3. accounts[e[2]].net = o[e[2]].net /\ accounts[e[2]].path = o[e[2]].path
        BY <2>1 DEF Stored, Whole, IsOrigin, StoreIs, RecordIs
    <2> QED BY <2>2, <2>3
<1> QED BY <1>1, OriginHolds, PTL

\* No other network shares a path with one that a batch may be asked for.
BatchPathsAreOwn ==
    \A n \in BatchNetworks, m \in Networks : CoinType[m] = CoinType[n] => m = n

\* A network whose path it shares is the network itself.
LEMMA BatchNetworkIsOwn ==
    ASSUME TypeInv, BatchPathsAreOwn, NEW c \in Calls, pc[c] \in BatchPCs,
           NEW r \in Origins, r.path \in WantedPaths(c)
    PROVE  r.net = req[c].net
<1>1. req[c].net \in BatchNetworks
    BY DEF TypeInv, RequestFits, Fits, BatchRequests
<1>2. PICK n \in Networks, s \in Slots : r.path = <<CoinType[n], s>> /\ r.net = n
    BY DEF Origins, PathOf
<1>3. CoinType[n] = CoinType[req[c].net]
    BY <1>2 DEF WantedPaths, PathOf
<1> QED BY <1>1, <1>2, <1>3 DEF BatchPathsAreOwn

\* A batch creates no account for a path at which one of its network is
\* stored, in the index or not: for any number of accounts, calls, lost
\* writes and restarts.
THEOREM BatchFinds ==
    ASSUME BatchPathsAreOwn
    PROVE  Spec => BatchFindsStored
<1> DEFINE Found == \A c \in Calls :
          pc[c] = "scan" /\ pc'[c] \in {"batch", "repairing"} =>
              \A p \in Missing(c)' : \A id \in AtPath(p) : accounts[id].net # req[c].net
<1>1. ASSUME TypeInv, OriginInv, [Next]_vars, NEW c \in Calls,
             pc[c] = "scan", pc'[c] \in {"batch", "repairing"},
             NEW p \in Missing(c)', NEW id \in AtPath(p), accounts[id].net = req[c].net
      PROVE  FALSE
    <2>1. PICK o \in [drawn -> Origins] : IsOrigin(o)
        BY <1>1 DEF OriginInv
    <2>2. ScanStore(c)
        <3>1. \/ \E d \in Calls : Begin(d) \/ Proceed(d) \/ Throw(d)
              \/ \E w \in inflight : Land(w) \/ Lose(w)
              \/ Crash
              \/ UNCHANGED vars
            BY <1>1 DEF Next, Quiescent
        <3>2. ASSUME NEW d \in Calls, Begin(d) \/ Proceed(d) \/ Throw(d)
              PROVE  ScanStore(c)
            <4>1. \E l : pc' = [pc EXCEPT ![d] = l]
                BY <3>2 DEF Begin, Enqueue, Return, Goto, Throw, Proceed, Acquire, Create,
                            CreateMany, Delete, UpdateAccount, ChooseIndex, LookupIndex,
                            FetchIndexed, Insert, InsertAcked, Announce, ScheduleScan, ScanStore,
                            ScanBroken, Repaired, InsertBatch, ReadStore, WriteIndexes,
                            FindAccount, Retract, Remove, RemoveAcked, Load, MergeStaged,
                            MarkAcked, MergeAcked
            <4>2. d = c
                BY <1>1, <4>1 DEF TypeInv, TypeOK
            <4>3. ~Begin(c) /\ ~Acquire(c) /\ ~Create(c) /\ ~Delete(c) /\ ~UpdateAccount(c)
                BY <1>1 DEF Begin, Acquire, Create, Delete, UpdateAccount, ChooseIndex,
                            LookupIndex, FetchIndexed, Insert, InsertAcked, Announce,
                            ScheduleScan, FindAccount, Retract, Remove, RemoveAcked, Load,
                            MergeStaged, MergeAcked, MarkAcked
            <4>4. ~Throw(c) /\ ~ScanBroken(c)
                BY <1>1 DEF Throw, ScanBroken, Return, Goto, TypeInv, TypeOK
            <4> QED BY <1>1, <3>2, <4>2, <4>3, <4>4 DEF Proceed, CreateMany, Repaired, InsertBatch,
                                                     ReadStore, WriteIndexes
        <3>3. ASSUME NEW w \in inflight, Land(w) \/ Lose(w)
              PROVE  FALSE
            BY <1>1, <3>3 DEF Land, LandWallet, Lose, Return, Goto, TypeInv, TypeOK, Writing
        <3>4. ~Crash
            BY <1>1 DEF Crash, Idle
        <3> QED BY <1>1, <3>1, <3>2, <3>3, <3>4 DEF vars
    <2>3. pc[c] = "scan" /\ WantedPaths(c) \subseteq Paths /\ UNCHANGED req
        BY <1>1, <2>2, RequestTyped DEF ScanStore, BatchPCs, local
    <2>4. PICK found \in [WantedPaths(c) -> Ids \cup {NoId}] :
          /\ \A q \in WantedPaths(c) :
                IF Matches(q) = {} THEN found[q] = NoId ELSE found[q] \in Matches(q)
          /\ LET kept == {q \in WantedPaths(c) : found[q] # NoId /\ IsRequested(c, found[q])}
             IN result' = [result EXCEPT ![c] = {<<q, found[q]>> : q \in kept}]
        BY <2>2 DEF ScanStore
    <2> DEFINE kept == {q \in WantedPaths(c) : found[q] # NoId /\ IsRequested(c, found[q])}
    <2>5. result'[c] = {<<q, found[q]>> : q \in kept}
        BY <1>1, <2>4 DEF TypeInv, TypeOK
    <2>6. p \in WantedPaths(c) /\ p \notin kept
        <3>1. WantedPaths(c)' = WantedPaths(c)
            BY <2>3 DEF WantedPaths
        <3>2. ASSUME NEW q \in kept
              PROVE  q \in {e[1] : e \in result'[c]}
            <4>1. <<q, found[q]>> \in result'[c] /\ <<q, found[q]>>[1] = q
                BY <2>5
            <4> QED BY <4>1
        <3> QED BY <1>1, <3>1, <3>2 DEF Missing
    <2>7. Matches(p) # {}
        BY <1>1 DEF Matches
    <2>8. found[p] \in Matches(p) /\ found[p] \in Ids
        BY <2>3, <2>4, <2>6, <2>7, NullAssumption DEF Matches, AtPath, Stored, TypeInv, TypeOK
    <2>9. accounts[found[p]] # NoAccount /\ accounts[found[p]].path # NoPath
        <3>1. \A x \in Ids : accounts[x] # NoAccount => accounts[x].path # NoPath
            BY <2>2 DEF ScanStore, Broken
        <3> QED BY <2>8, <3>1 DEF Matches, AtPath, Stored, Whole
    <2>10. accounts[found[p]].net = o[found[p]].net /\ o[found[p]] \in Origins /\ o[found[p]].path = p
        BY <2>1, <2>3, <2>6, <2>8, <2>9, MatchesOrigin DEF IsOrigin, StoreIs, RecordIs
    <2>11. accounts[found[p]].net = req[c].net
        BY <1>1, <2>3, <2>6, <2>10, BatchNetworkIsOwn DEF BatchPCs
    <2>12. found[p] # NoId /\ IsRequested(c, found[p])
        BY <2>8, <2>9, <2>11, NullAssumption DEF IsRequested
    <2> QED BY <2>6, <2>12
<1>2. TypeInv /\ OriginInv /\ [Next]_vars => [Found]_vars
    BY <1>1
<1> QED BY <1>2, OriginHolds, PTL DEF BatchFindsStored, Spec

-----------------------------------------------------------------------------
(* The accounts, as long as nothing has failed.                            *)

IdsIn(entries) == {e[2] : e \in entries}

Inserting == {"storing", "storingAccounts"}

\* The call has drawn ids whose accounts are not stored yet.
Unwritten(c) ==
    \/ pc[c] = "reading"
    \/ /\ pc[c] \in Inserting
       /\ \E w \in inflight : w.by = c /\ w.kind \in {"account", "accounts"}
Pending(id) == \E c \in Calls : Unwritten(c) /\ id \in IdsIn(fresh[c])

\* The writes that store accounts or take them away.
Decisive == {"account", "accounts"}

\* A write under way is of a call that waits for it.
WritesAreHeld ==
    /\ \A w \in inflight :
          /\ w.kind = "wallet" => pc[w.by] \in Merging
          /\ w.kind \in {"index", "account"} => pc[w.by] \in {"storing", "removing"}
          /\ w.kind = "accounts" => pc[w.by] = "storingAccounts"
          /\ w.kind = "indexes" => pc[w.by] \in {"storing", "repairing"}
    /\ \A v, w \in inflight : v.kind = "wallet" /\ v.by = w.by => v = w
    /\ \A v, w \in inflight :
          {v.kind, w.kind} \subseteq Decisive /\ v.by = w.by => v = w

\* What will be stored when an account write lands.
AccountWritesRight ==
    \A w \in inflight :
        /\ w.kind = "account" /\ pc[w.by] = "storing" =>
               IdsIn(fresh[w.by]) = {w.id} /\ w.account # NoAccount /\ w.account.path # NoPath
        /\ w.kind = "account" /\ pc[w.by] = "removing" =>
               w.id = req[w.by].id /\ w.account = NoAccount
        /\ w.kind = "accounts" => \A id \in Ids :
               w.accounts[id] # NoAccount /\ w.accounts[id].path # NoPath
                   <=> id \in Stored \cup IdsIn(fresh[w.by])
        /\ w.kind = "wallet" => ~Pending(w.id)

\* An id is pending, or stored, or its removal was begun.
IdsAreKept ==
    /\ \A id \in Ids : Pending(id) => id \in drawn /\ accounts[id] = NoAccount
    /\ \A id \in drawn : id \in Stored \cup removed \/ Pending(id)
    /\ removed \subseteq drawn

CallsAreSafe ==
    \A c \in Calls :
        /\ pc[c] \in Inserting \cup {"reading"} => IdsIn(fresh[c]) \cap removed = {}
        /\ pc[c] \notin Inserting \cup {"reading"} => \A e \in result[c] : ~Pending(e[2])
        /\ pc[c] = "storing" /\ req[c].op = "create" => result[c] = fresh[c]
        /\ pc[c] = "announce" => \A e \in result[c] : e[2] \in Stored
        /\ pc[c] \in {"retract", "remove", "removing"} => req[c].id \in removed
        /\ pc[c] \in {"remove", "removing"} => req[c].id \notin announced
        /\ pc[c] = "merging" => \A id : id = req[c].id => ~Pending(id)

AccountsInv ==
    WritesAreHeld /\ AccountWritesRight /\ IdsAreKept /\ CallsAreSafe /\ AnnouncedAreStored

LEMMA PathsAreNotNull == NoPath \notin Paths
BY CoinTypeAssumption, NullAssumption DEF Paths

\* A call that is past no write, or was told of all of them, has none under way.
LEMMA NoWriteUnderWay ==
    ASSUME WritesAreHeld, NEW c \in Calls, pc[c] \notin Writing \cup Merging,
           TypeInv
    PROVE  Landed(c)
BY DEF WritesAreHeld, Landed, Writing, TypeInv, TypeOK, Writes, IndexWrite, AccountWrite,
       WalletWrite, IndexesWrite, AccountsWrite

\* While a mutation runs nothing is pending but what it inserts itself.
LEMMA PendingIsOwn ==
    ASSUME MutualExclusion, NEW c \in Calls, pc[c] \in Mutating, NEW id, Pending(id)
    PROVE  Unwritten(c) /\ id \in IdsIn(fresh[c])
<1>1. PICK d \in Calls : Unwritten(d) /\ id \in IdsIn(fresh[d])
    BY DEF Pending
<1>2. pc[d] \in Mutating
    BY <1>1 DEF Unwritten, Inserting, Mutating, Awaiting, Writing
<1> QED BY <1>1, <1>2 DEF MutualExclusion

\* A step of a call that inserts nothing and changes no account: it may hand
\* over other writes, take note of a removal or tell the client.
LEMMA AccountsMove ==
    ASSUME TypeInv, MutualExclusion, AccountsInv, NEW c \in Calls, NEW l, Goto(c, l),
           Landed(c), pc[c] # "reading", l \notin Inserting \cup {"reading"},
           UNCHANGED <<accounts, fresh, drawn>>,
           \A d \in Calls \ {c} : result'[d] = result[d] /\ req'[d] = req[d],
           NEW ws, inflight' = inflight \cup ws,
           \A w \in ws : w.by = c /\
              \/ w.kind = "wallet" /\ l \in Merging /\ ws = {w} /\ ~Pending(w.id)
              \/ w.kind = "index" /\ l = "removing"
              \/ w.kind = "account" /\ l = "removing" /\ w.id = req'[c].id
                 /\ w.account = NoAccount
              \/ w.kind = "indexes" /\ l = "repairing",
           \A v, w \in ws : v.kind = "account" /\ w.kind = "account" => v = w,
           removed \subseteq removed', removed' \subseteq drawn, announced' \subseteq Stored,
           pc[c] \in Mutating \/ UNCHANGED <<removed, announced>>,
           \A e \in result'[c] : ~Pending(e[2]),
           l = "announce" => \A e \in result'[c] : e[2] \in Stored,
           l \in {"retract", "remove", "removing"} => req'[c].id \in removed',
           l \in {"remove", "removing"} => req'[c].id \notin announced',
           l = "merging" => \A id : id = req'[c].id => ~Pending(id)
    PROVE  AccountsInv'
<1>1. Stored' = Stored
    BY DEF Stored, Whole
<1>2. pc'[c] = l /\ \A d \in Calls \ {c} : pc'[d] = pc[d]
    BY DEF Goto, TypeInv, TypeOK
<1>3. \A w \in inflight : w.by \in Calls /\ w.by # c
    BY DEF Landed, TypeInv, TypeOK, Writes, IndexWrite, AccountWrite, WalletWrite,
           IndexesWrite, AccountsWrite
<1>4. ~Unwritten(c) /\ ~Unwritten(c)'
    BY <1>2, <1>3 DEF Unwritten
<1>5. \A d \in Calls \ {c} : Unwritten(d)' <=> Unwritten(d)
    BY <1>2 DEF Unwritten
<1>6. \A id : Pending(id)' <=> Pending(id)
    BY <1>4, <1>5 DEF Pending
<1>7. WritesAreHeld'
    <2>1. \A w \in inflight : /\ w.kind = "wallet" => pc'[w.by] \in Merging
                              /\ w.kind \in {"index", "account"} => pc'[w.by] \in {"storing", "removing"}
                              /\ w.kind = "accounts" => pc'[w.by] = "storingAccounts"
                              /\ w.kind = "indexes" => pc'[w.by] \in {"storing", "repairing"}
        BY <1>2, <1>3 DEF AccountsInv, WritesAreHeld
    <2>2. \A w \in ws : /\ w.kind = "wallet" => pc'[w.by] \in Merging
                        /\ w.kind \in {"index", "account"} => pc'[w.by] \in {"storing", "removing"}
                        /\ w.kind = "accounts" => pc'[w.by] = "storingAccounts"
                        /\ w.kind = "indexes" => pc'[w.by] \in {"storing", "repairing"}
        BY <1>2
    <2>3. \A v, w \in inflight \cup ws : v.kind = "wallet" /\ v.by = w.by => v = w
        BY <1>3 DEF AccountsInv, WritesAreHeld
    <2>4. \A v, w \in inflight \cup ws :
              {v.kind, w.kind} \subseteq Decisive /\ v.by = w.by => v = w
        BY <1>3 DEF AccountsInv, WritesAreHeld, Decisive
    <2> QED BY <2>1, <2>2, <2>3, <2>4 DEF WritesAreHeld
<1>8. AccountWritesRight'
    <2> SUFFICES ASSUME NEW w \in inflight \cup ws
                 PROVE
        /\ w.kind = "account" /\ pc'[w.by] = "storing" =>
               IdsIn(fresh[w.by]) = {w.id} /\ w.account # NoAccount /\ w.account.path # NoPath
        /\ w.kind = "account" /\ pc'[w.by] = "removing" =>
               w.id = req'[w.by].id /\ w.account = NoAccount
        /\ w.kind = "accounts" => \A id \in Ids :
               w.accounts[id] # NoAccount /\ w.accounts[id].path # NoPath
                   <=> id \in Stored \cup IdsIn(fresh[w.by])
        /\ w.kind = "wallet" => ~Pending(w.id)
        BY <1>1, <1>6 DEF AccountWritesRight, IdsIn
    <2>1. CASE w \in inflight
        BY <1>2, <1>3, <2>1 DEF AccountsInv, AccountWritesRight
    <2>2. CASE w \in ws
        BY <1>2, <2>2
    <2> QED BY <2>1, <2>2
<1>9. IdsAreKept'
    BY <1>1, <1>6 DEF AccountsInv, IdsAreKept
<1>10. CallsAreSafe'
    <2> SUFFICES ASSUME NEW d \in Calls
                 PROVE
        /\ pc'[d] \in Inserting \cup {"reading"} => IdsIn(fresh[d]) \cap removed' = {}
        /\ pc'[d] \notin Inserting \cup {"reading"} => \A e \in result'[d] : ~Pending(e[2])
        /\ pc'[d] = "storing" /\ req'[d].op = "create" => result'[d] = fresh[d]
        /\ pc'[d] = "announce" => \A e \in result'[d] : e[2] \in Stored
        /\ pc'[d] \in {"retract", "remove", "removing"} => req'[d].id \in removed'
        /\ pc'[d] \in {"remove", "removing"} => req'[d].id \notin announced'
        /\ pc'[d] = "merging" => \A id : id = req'[d].id => ~Pending(id)
        BY <1>1, <1>6 DEF CallsAreSafe, IdsIn
    <2>1. CASE d = c
        BY <1>2, <2>1 DEF Inserting
    <2>2. CASE d # c
        <3>1. pc'[d] = pc[d] /\ result'[d] = result[d] /\ req'[d] = req[d]
            BY <1>2, <2>2
        <3>2. \/ pc[d] \notin Mutating
              \/ UNCHANGED <<removed, announced>>
            BY <2>2 DEF MutualExclusion
        <3>3. CASE pc[d] \notin Mutating
            BY <3>1, <3>3 DEF AccountsInv, CallsAreSafe, Inserting, Mutating, Awaiting, Writing
        <3>4. CASE UNCHANGED <<removed, announced>>
            BY <3>1, <3>4 DEF AccountsInv, CallsAreSafe
        <3> QED BY <3>2, <3>3, <3>4
    <2> QED BY <2>1, <2>2
<1>11. AnnouncedAreStored'
    BY <1>1 DEF AnnouncedAreStored
<1> QED BY <1>7, <1>8, <1>9, <1>10, <1>11 DEF AccountsInv

\* The call keeps some of what it found and adds accounts with new ids.
Draws(c, new, kept) ==
    /\ \A e \in new : e[2] \notin drawn
    /\ drawn' = drawn \cup IdsIn(new)
    /\ fresh' = [fresh EXCEPT ![c] = new]
    /\ result' = [result EXCEPT ![c] = kept \cup new]

\* One new account is written at once, several after both maps were read.
HandsOver(c, l, new) ==
    \/ l = "reading" /\ UNCHANGED inflight
    \/ /\ l = "storing"
       /\ \E e \in new :
             new = {e} /\ inflight' = inflight \cup InsertWrites(c, e[1], e[2])

\* A step of a call that draws ids and starts to insert them.
LEMMA AccountsDraw ==
    ASSUME TypeInv, MutualExclusion, NEW o, IsOrigin(o), AccountsInv, NEW c \in Calls, NEW l,
           pc[c] \in {"derive", "batch"}, Goto(c, l), req[c].net \in Networks,
           NEW new \in SUBSET (Paths \X Ids), NEW kept \in SUBSET result[c],
           req[c].op = "create" => kept = {},
           Draws(c, new, kept), HandsOver(c, l, new), UNCHANGED <<accounts, req, removed, announced>>
    PROVE  AccountsInv'
<1>1. Stored' = Stored
    BY DEF Stored, Whole
<1> USE DEF HandsOver, Draws
<1>2. /\ pc'[c] = l /\ fresh'[c] = new /\ result'[c] = kept \cup new
      /\ \A d \in Calls \ {c} : pc'[d] = pc[d] /\ fresh'[d] = fresh[d] /\ result'[d] = result[d]
    BY DEF Goto, TypeInv, TypeOK
<1>3. pc[c] \in Mutating /\ ~Unwritten(c) /\ Landed(c)
    <2>1. pc[c] \in Mutating /\ pc[c] \notin Writing \cup Merging
        BY DEF Mutating, Awaiting, Writing
    <2> QED BY <2>1, NoWriteUnderWay DEF AccountsInv, Unwritten, Inserting
<1>4. \A id : ~Pending(id)
    BY <1>3, PendingIsOwn
<1>5. \A w \in inflight : w.by \in Calls /\ w.by # c
    BY <1>3 DEF Landed, TypeInv, TypeOK, Writes, IndexWrite, AccountWrite, WalletWrite,
                IndexesWrite, AccountsWrite
<1>6. Unwritten(c)'
    BY <1>2 DEF Unwritten, Inserting, InsertWrites
<1>7. \A d \in Calls \ {c} : ~Unwritten(d)'
    <2> SUFFICES ASSUME NEW d \in Calls \ {c} PROVE ~Unwritten(d)'
        OBVIOUS
    <2>1. pc'[d] \notin Mutating
        BY <1>2, <1>3 DEF MutualExclusion
    <2> QED BY <2>1 DEF Unwritten, Inserting, Mutating, Awaiting, Writing
<1>8. \A id : Pending(id)' <=> id \in IdsIn(new)
    BY <1>2, <1>6, <1>7 DEF Pending
<1>9. \A d \in Calls : \A e \in result[d] : e[2] \in drawn
    BY DEF IsOrigin, CallIs, EntriesAre
<1>10. \A id \in Ids \ drawn : accounts[id] = NoAccount
    BY DEF IsOrigin, StoreIs, RecordIs
<1>11. \A w \in inflight' :
          \/ w \in inflight
          \/ /\ l = "storing" /\ w.by = c /\ w.kind = "index"
          \/ /\ l = "storing" /\ w.by = c /\ w.kind = "account" /\ IdsIn(new) = {w.id}
             /\ w.account \in Account /\ w.account.path # NoPath
    <2> SUFFICES ASSUME NEW e \in new, new = {e},
                        inflight' = inflight \cup InsertWrites(c, e[1], e[2]), l = "storing",
                        NEW w \in InsertWrites(c, e[1], e[2])
                 PROVE  \/ w.by = c /\ w.kind = "index"
                        \/ w.by = c /\ w.kind = "account" /\ IdsIn(new) = {w.id}
                           /\ w.account \in Account /\ w.account.path # NoPath
        OBVIOUS
    <2>1. e[1] \in Paths /\ IdsIn(new) = {e[2]}
        BY DEF IdsIn
    <2>2. NewAccount(c, e[1]) \in Account /\ NewAccount(c, e[1]).path = e[1]
        BY <2>1, NewAccountTyped DEF NewAccount
    <2>3. e[1] # NoPath
        BY <2>1, PathsAreNotNull
    <2>4. \/ w = [kind |-> "index", by |-> c, path |-> e[1], id |-> e[2]]
          \/ w = [kind |-> "account", by |-> c, id |-> e[2], account |-> NewAccount(c, e[1])]
        BY DEF InsertWrites
    <2>5. CASE w = [kind |-> "index", by |-> c, path |-> e[1], id |-> e[2]]
        BY <2>5
    <2>6. CASE w = [kind |-> "account", by |-> c, id |-> e[2], account |-> NewAccount(c, e[1])]
        BY <2>1, <2>2, <2>3, <2>6
    <2> QED BY <2>4, <2>5, <2>6
<1>12. WritesAreHeld'
    <2>1. \A w \in inflight : pc'[w.by] = pc[w.by]
        BY <1>2, <1>5
    <2>2. \A w \in inflight' : /\ w.kind = "wallet" => pc'[w.by] \in Merging
                               /\ w.kind \in {"index", "account"} => pc'[w.by] \in {"storing", "removing"}
                               /\ w.kind = "accounts" => pc'[w.by] = "storingAccounts"
                               /\ w.kind = "indexes" => pc'[w.by] \in {"storing", "repairing"}
        BY <1>2, <1>11, <2>1 DEF AccountsInv, WritesAreHeld
    <2>3. \A v, w \in inflight' : v.kind = "wallet" /\ v.by = w.by => v = w
        BY <1>5, <1>11 DEF AccountsInv, WritesAreHeld
    <2>4. \A v, w \in inflight' \ inflight :
              {v.kind, w.kind} \subseteq Decisive => v = w
        BY DEF InsertWrites, Decisive
    <2>5. \A v, w \in inflight' :
              {v.kind, w.kind} \subseteq Decisive /\ v.by = w.by => v = w
        BY <1>5, <1>11, <2>4 DEF AccountsInv, WritesAreHeld
    <2> QED BY <2>2, <2>3, <2>5 DEF WritesAreHeld
<1>13. AccountWritesRight'
    <2> SUFFICES ASSUME NEW w \in inflight'
                 PROVE
        /\ w.kind = "account" /\ pc'[w.by] = "storing" =>
               IdsIn(fresh'[w.by]) = {w.id} /\ w.account # NoAccount /\ w.account.path # NoPath
        /\ w.kind = "account" /\ pc'[w.by] = "removing" =>
               w.id = req[w.by].id /\ w.account = NoAccount
        /\ w.kind = "accounts" => \A id \in Ids :
               w.accounts[id] # NoAccount /\ w.accounts[id].path # NoPath
                   <=> id \in Stored \cup IdsIn(fresh'[w.by])
        /\ w.kind = "wallet" => ~Pending(w.id)'
        BY <1>1 DEF AccountWritesRight, IdsIn
    <2>1. CASE w \in inflight
        <3>1. w.kind = "wallet" => w.id \in drawn
            BY <2>1 DEF IsOrigin, StoreIs, WriteIs
        <3>2. w.kind = "wallet" => ~Pending(w.id)'
            BY <1>8, <3>1 DEF IdsIn
        <3>3. pc'[w.by] = pc[w.by] /\ fresh'[w.by] = fresh[w.by]
            BY <1>2, <1>5, <2>1
        <3> QED BY <2>1, <3>2, <3>3 DEF AccountsInv, AccountWritesRight
    <2>2. CASE w \notin inflight
        BY <1>2, <1>11, <2>2, NoAccountAssumption
    <2> QED BY <2>1, <2>2
<1>14. IdsAreKept'
    <2>1. IdsIn(new) \subseteq Ids \ drawn
        BY DEF IdsIn
    <2> QED BY <1>1, <1>4, <1>8, <1>10, <2>1 DEF AccountsInv, IdsAreKept
<1>15. CallsAreSafe'
    <2> SUFFICES ASSUME NEW d \in Calls
                 PROVE
        /\ pc'[d] \in Inserting \cup {"reading"} => IdsIn(fresh'[d]) \cap removed = {}
        /\ pc'[d] \notin Inserting \cup {"reading"} => \A e \in result'[d] : ~Pending(e[2])'
        /\ pc'[d] = "storing" /\ req[d].op = "create" => result'[d] = fresh'[d]
        /\ pc'[d] = "announce" => \A e \in result'[d] : e[2] \in Stored
        /\ pc'[d] \in {"retract", "remove", "removing"} => req[d].id \in removed
        /\ pc'[d] \in {"remove", "removing"} => req[d].id \notin announced
        /\ pc'[d] = "merging" => \A id : id = req[d].id => ~Pending(id)'
        BY <1>1 DEF CallsAreSafe, IdsIn
    <2>1. CASE d = c
        <3>1. l \in {"storing", "reading"} /\ pc'[d] = l
            BY <1>2, <2>1
        <3>2. IdsIn(new) \cap removed = {}
            BY DEF AccountsInv, IdsAreKept, IdsIn
        <3>3. req[d].op = "create" => result'[d] = fresh'[d]
            BY <1>2, <2>1
        <3> QED BY <1>2, <2>1, <3>1, <3>2, <3>3 DEF Inserting
    <2>2. CASE d # c
        <3>1. pc'[d] = pc[d] /\ result'[d] = result[d] /\ fresh'[d] = fresh[d]
            BY <1>2, <2>2
        <3>2. \A e \in result'[d] : ~Pending(e[2])'
            BY <1>8, <1>9, <3>1 DEF IdsIn
        <3>3. pc[d] = "merging" => req[d].id \in drawn
            BY DEF IsOrigin, CallIs
        <3>4. pc[d] = "merging" => \A id : id = req[d].id => ~Pending(id)'
            BY <1>8, <3>3 DEF IdsIn
        <3> QED BY <3>1, <3>2, <3>4 DEF AccountsInv, CallsAreSafe
    <2> QED BY <2>1, <2>2
<1>16. AnnouncedAreStored'
    BY <1>1 DEF AccountsInv, AnnouncedAreStored
<1> QED BY <1>12, <1>13, <1>14, <1>15, <1>16 DEF AccountsInv

\* insertMany's two writes: the accounts map, then the index map.
LEMMA AccountsMany ==
    ASSUME TypeInv, MutualExclusion, NEW o, IsOrigin(o), AccountsInv, NEW c \in Calls,
           ReadStore(c) \/ WriteIndexes(c)
    PROVE  AccountsInv'
<1> USE DEF host, local, ghost, queue
<1>1. Stored' = Stored /\ UNCHANGED <<accounts, req, result, fresh, removed, drawn, announced>>
    BY DEF ReadStore, WriteIndexes, Stored, Whole
<1>2. PICK l : /\ Goto(c, l)
               /\ \/ ReadStore(c) /\ l = "storingAccounts"
                  \/ WriteIndexes(c) /\ l = "storing"
    BY DEF ReadStore, WriteIndexes
<1>3. pc'[c] = l /\ \A d \in Calls \ {c} : pc'[d] = pc[d]
    BY <1>2 DEF Goto, TypeInv, TypeOK
<1>4. Landed(c)
    BY NoWriteUnderWay DEF AccountsInv, ReadStore, WriteIndexes, Writing
<1>5. \A w \in inflight : w.by \in Calls /\ w.by # c
    BY <1>4 DEF Landed, TypeInv, TypeOK, Writes, IndexWrite, AccountWrite, WalletWrite,
                IndexesWrite, AccountsWrite
<1>6. PICK w : /\ inflight' = inflight \cup {w} /\ w.by = c
               /\ \/ ReadStore(c) /\ w.kind = "accounts" /\ w.accounts = AccountsWith(c)
                  \/ WriteIndexes(c) /\ w.kind = "indexes"
    <2>1. CASE ReadStore(c)
        <3>1. PICK w : w = [kind |-> "accounts", by |-> c, accounts |-> AccountsWith(c)]
            OBVIOUS
        <3>2. inflight' = inflight \cup {w}
            BY <2>1, <3>1 DEF ReadStore
        <3> QED BY <2>1, <3>1, <3>2
    <2>2. CASE WriteIndexes(c)
        <3>1. PICK w : w = [kind |-> "indexes", by |-> c, index |-> IndexWith(c)]
            OBVIOUS
        <3>2. inflight' = inflight \cup {w}
            BY <2>2, <3>1 DEF WriteIndexes
        <3> QED BY <2>2, <3>1, <3>2
    <2> QED BY <2>1, <2>2
<1>7. pc[c] \in Mutating /\ pc[c] \in {"reading", "storingAccounts"}
    BY DEF ReadStore, WriteIndexes, Mutating, Awaiting, Writing
<1>8. /\ ReadStore(c) => Unwritten(c) /\ Unwritten(c)'
      /\ WriteIndexes(c) => ~Unwritten(c) /\ ~Unwritten(c)'
    BY <1>2, <1>3, <1>5, <1>6 DEF ReadStore, WriteIndexes, Unwritten, Inserting
<1>9. \A d \in Calls \ {c} : ~Unwritten(d) /\ ~Unwritten(d)'
    <2> SUFFICES ASSUME NEW d \in Calls \ {c} PROVE ~Unwritten(d) /\ ~Unwritten(d)'
        OBVIOUS
    <2>1. pc[d] \notin Mutating /\ pc'[d] = pc[d]
        BY <1>3, <1>7 DEF MutualExclusion
    <2> QED BY <2>1 DEF Unwritten, Inserting, Mutating, Awaiting, Writing
<1>10. \A id : Pending(id)' <=> Pending(id)
    BY <1>1, <1>8, <1>9 DEF Pending, ReadStore, WriteIndexes
<1>11. WritesAreHeld'
    <2>1. \A v \in inflight : pc'[v.by] = pc[v.by]
        BY <1>3, <1>5
    <2>2. \/ pc'[w.by] = "storingAccounts" /\ w.kind = "accounts"
          \/ pc'[w.by] = "storing" /\ w.kind = "indexes"
        <3>1. ~(ReadStore(c) /\ WriteIndexes(c))
            BY DEF ReadStore, WriteIndexes
        <3>2. CASE ReadStore(c)
            BY <1>2, <1>3, <1>6, <3>1, <3>2
        <3>3. CASE WriteIndexes(c)
            BY <1>2, <1>3, <1>6, <3>1, <3>3
        <3> QED BY <3>2, <3>3
    <2>3. \A u, v \in inflight' : u.kind = "wallet" /\ u.by = v.by => u = v
        BY <1>5, <1>6 DEF AccountsInv, WritesAreHeld
    <2>4. \A u, v \in inflight' :
              {u.kind, v.kind} \subseteq Decisive /\ u.by = v.by => u = v
        BY <1>5, <1>6 DEF AccountsInv, WritesAreHeld
    <2> QED BY <1>6, <2>1, <2>2, <2>3, <2>4 DEF AccountsInv, WritesAreHeld
<1>12. ReadStore(c) => \A id \in Ids :
          AccountsWith(c)[id] # NoAccount /\ AccountsWith(c)[id].path # NoPath
              <=> id \in Stored \cup IdsIn(fresh[c])
    <2> SUFFICES ASSUME ReadStore(c), NEW id \in Ids
                 PROVE  AccountsWith(c)[id] # NoAccount /\ AccountsWith(c)[id].path # NoPath
                            <=> id \in Stored \cup IdsIn(fresh[c])
        OBVIOUS
    <2>1. CASE id \in IdsIn(fresh[c])
        <3>1. PICK e \in fresh[c] : AccountsWith(c)[id] = NewAccount(c, e[1])
            BY <2>1 DEF AccountsWith, IdsIn
        <3>2. e[1] \in Paths /\ req[c].net \in Networks
            <4>1. pc[c] \in BatchPCs
                BY DEF ReadStore, BatchPCs
            <4>2. fresh[c] \subseteq Paths \X Ids
                BY DEF TypeInv, TypeOK
            <4> QED BY <4>1, <4>2, RequestTyped
        <3>3. NewAccount(c, e[1]) \in Account /\ NewAccount(c, e[1]).path # NoPath
            BY <3>2, NewAccountTyped, PathsAreNotNull DEF NewAccount
        <3> QED BY <2>1, <3>1, <3>3, NoAccountAssumption
    <2>2. CASE id \notin IdsIn(fresh[c])
        BY <2>2 DEF AccountsWith, IdsIn, Stored, Whole
    <2> QED BY <2>1, <2>2
<1>13. AccountWritesRight'
    <2> SUFFICES ASSUME NEW v \in inflight'
                 PROVE
        /\ v.kind = "account" /\ pc'[v.by] = "storing" =>
               IdsIn(fresh[v.by]) = {v.id} /\ v.account # NoAccount /\ v.account.path # NoPath
        /\ v.kind = "account" /\ pc'[v.by] = "removing" =>
               v.id = req[v.by].id /\ v.account = NoAccount
        /\ v.kind = "accounts" => \A id \in Ids :
               v.accounts[id] # NoAccount /\ v.accounts[id].path # NoPath
                   <=> id \in Stored \cup IdsIn(fresh[v.by])
        /\ v.kind = "wallet" => ~Pending(v.id)
        BY <1>1, <1>10 DEF AccountWritesRight, IdsIn
    <2>1. CASE v \in inflight
        BY <1>3, <1>5, <2>1 DEF AccountsInv, AccountWritesRight
    <2>2. CASE v = w
        BY <1>6, <1>12, <2>2
    <2> QED BY <1>6, <2>1, <2>2
<1>14. IdsAreKept'
    BY <1>1, <1>10 DEF AccountsInv, IdsAreKept
<1>15. CallsAreSafe'
    <2> SUFFICES ASSUME NEW d \in Calls
                 PROVE
        /\ pc'[d] \in Inserting \cup {"reading"} => IdsIn(fresh[d]) \cap removed = {}
        /\ pc'[d] \notin Inserting \cup {"reading"} => \A e \in result[d] : ~Pending(e[2])
        /\ pc'[d] = "storing" /\ req[d].op = "create" => result[d] = fresh[d]
        /\ pc'[d] = "announce" => \A e \in result[d] : e[2] \in Stored
        /\ pc'[d] \in {"retract", "remove", "removing"} => req[d].id \in removed
        /\ pc'[d] \in {"remove", "removing"} => req[d].id \notin announced
        /\ pc'[d] = "merging" => \A id : id = req[d].id => ~Pending(id)
        BY <1>1, <1>10 DEF CallsAreSafe, IdsIn
    <2>1. CASE d = c
        <3>1. req[c].op # "create"
            BY <1>7 DEF TypeInv, RequestFits, Fits, BatchPCs, BatchRequests
        <3> QED BY <1>2, <1>3, <1>7, <2>1, <3>1 DEF AccountsInv, CallsAreSafe, Inserting
    <2>2. CASE d # c
        BY <1>3, <2>2 DEF AccountsInv, CallsAreSafe
    <2> QED BY <2>1, <2>2
<1>16. AnnouncedAreStored'
    BY <1>1 DEF AccountsInv, AnnouncedAreStored
<1> QED BY <1>11, <1>13, <1>14, <1>15, <1>16 DEF AccountsInv

\* At most one write under way stores accounts or takes one away.
LEMMA OneDecisive ==
    ASSUME MutualExclusion, WritesAreHeld, TypeInv,
           NEW v \in inflight, NEW w \in inflight, {v.kind, w.kind} \subseteq Decisive
    PROVE  v = w
<1>1. v.by \in Calls /\ w.by \in Calls
    BY DEF TypeInv, TypeOK, Writes, IndexWrite, AccountWrite, WalletWrite, IndexesWrite,
           AccountsWrite
<1>2. pc[v.by] \in Mutating /\ pc[w.by] \in Mutating
    BY DEF WritesAreHeld, Decisive, Mutating, Writing
<1>3. v.by = w.by
    BY <1>1, <1>2 DEF MutualExclusion
<1> QED BY <1>3 DEF WritesAreHeld

\* The write that stores or removes accounts lands.
LEMMA AccountsLandDecisive ==
    ASSUME TypeInv, MutualExclusion, AccountsInv, NEW w \in inflight, w.kind \in Decisive,
           inflight' = inflight \ {w},
           UNCHANGED <<pc, req, result, fresh, drawn, removed, announced>>,
           \/ pc[w.by] \in Inserting /\ Stored' = Stored \cup IdsIn(fresh[w.by])
           \/ pc[w.by] = "removing" /\ Stored' = Stored \ {req[w.by].id}
    PROVE  AccountsInv'
<1>1. w.by \in Calls
    BY DEF TypeInv, TypeOK, Writes, IndexWrite, AccountWrite, WalletWrite, IndexesWrite,
           AccountsWrite
<1>2. pc[w.by] \in Mutating /\ pc[w.by] # "reading"
    BY DEF Inserting, Mutating, Writing
<1>3. \A v \in inflight' : v.kind \notin Decisive
    BY OneDecisive DEF AccountsInv
<1>4. \A d \in Calls : pc[d] \in Mutating => d = w.by
    BY <1>1, <1>2 DEF MutualExclusion
<1>5. \A d \in Calls : ~Unwritten(d)'
    BY <1>2, <1>3, <1>4 DEF Unwritten, Decisive, Mutating, Awaiting
<1>6. \A id : ~Pending(id)'
    BY <1>5 DEF Pending
<1>7. WritesAreHeld'
    BY DEF AccountsInv, WritesAreHeld
<1>8. AccountWritesRight'
    BY <1>3, <1>6 DEF AccountWritesRight, Decisive
<1>9. IdsAreKept'
    <2>1. removed' \subseteq drawn'
        BY DEF AccountsInv, IdsAreKept
    <2>2. ASSUME NEW id \in drawn PROVE id \in Stored' \cup removed
        <3>1. CASE Pending(id)
            <4>1. PICK d \in Calls : Unwritten(d) /\ id \in IdsIn(fresh[d])
                BY <3>1 DEF Pending
            <4>2. d = w.by
                BY <1>4, <4>1 DEF Unwritten, Inserting, Mutating, Awaiting, Writing
            <4> QED BY <4>1, <4>2 DEF Unwritten, Inserting
        <3>2. CASE ~Pending(id)
            <4>1. id \in Stored \cup removed
                BY <3>2 DEF AccountsInv, IdsAreKept
            <4>2. pc[w.by] = "removing" => req[w.by].id \in removed
                BY <1>1 DEF AccountsInv, CallsAreSafe
            <4> QED BY <4>1, <4>2
        <3> QED BY <3>1, <3>2
    <2> QED BY <1>6, <2>1, <2>2 DEF IdsAreKept
<1>10. CallsAreSafe'
    <2>1. \A d \in Calls : pc[d] # "announce"
        BY <1>4 DEF Inserting, Mutating, Awaiting
    <2> QED BY <1>6, <2>1 DEF AccountsInv, CallsAreSafe, IdsIn
<1>11. AnnouncedAreStored'
    <2>1. pc[w.by] = "removing" => req[w.by].id \notin announced
        BY <1>1 DEF AccountsInv, CallsAreSafe
    <2> QED BY <2>1 DEF AccountsInv, AnnouncedAreStored
<1> QED BY <1>7, <1>8, <1>9, <1>10, <1>11 DEF AccountsInv

\* A write lands that stores no account and takes none away.
LEMMA AccountsLandQuiet ==
    ASSUME TypeInv, AccountsInv, NEW w \in inflight, w.kind \notin Decisive,
           inflight' = inflight \ {w}, Stored' = Stored,
           UNCHANGED <<req, result, fresh, drawn, removed, announced>>,
           \A id \in Ids : accounts[id] # NoAccount => accounts'[id] # NoAccount,
           \A id \in Ids : accounts[id] = NoAccount /\ accounts'[id] # NoAccount =>
                               w.kind = "wallet" /\ w.id = id,
           \/ UNCHANGED pc
           \/ w.kind = "wallet" /\ pc' = [pc EXCEPT ![w.by] = "failed"]
    PROVE  AccountsInv'
<1>1. w.by \in Calls
    BY DEF TypeInv, TypeOK, Writes, IndexWrite, AccountWrite, WalletWrite, IndexesWrite,
           AccountsWrite
<1>2. w.kind = "wallet" => pc[w.by] \in Merging /\ \A v \in inflight' : v.by # w.by
    BY DEF AccountsInv, WritesAreHeld
<1>3. \A d \in Calls : pc'[d] = pc[d] \/ (pc[d] \in Merging /\ pc'[d] = "failed")
    <2> SUFFICES ASSUME NEW d \in Calls
                 PROVE  pc'[d] = pc[d] \/ (pc[d] \in Merging /\ pc'[d] = "failed")
        OBVIOUS
    <2>1. CASE w.kind = "wallet" /\ pc' = [pc EXCEPT ![w.by] = "failed"]
        <3>1. pc'[d] = IF d = w.by THEN "failed" ELSE pc[d]
            BY <2>1 DEF TypeInv, TypeOK
        <3> QED BY <1>2, <2>1, <3>1
    <2> QED BY <2>1
<1>4. \A v \in inflight' : v.by \in Calls /\ pc'[v.by] = pc[v.by]
    BY <1>1, <1>2 DEF TypeInv, TypeOK, Writes, IndexWrite, AccountWrite, WalletWrite,
                      IndexesWrite, AccountsWrite
<1>5. \A d \in Calls : Unwritten(d)' <=> Unwritten(d)
    BY <1>3 DEF Unwritten, Inserting, Decisive
<1>6. \A id : Pending(id)' <=> Pending(id)
    BY <1>5 DEF Pending
<1>7. WritesAreHeld'
    BY <1>4 DEF AccountsInv, WritesAreHeld
<1>8. AccountWritesRight'
    BY <1>4, <1>6 DEF AccountsInv, AccountWritesRight
<1>9. IdsAreKept'
    <2>1. \A id \in Ids : Pending(id) => accounts'[id] = NoAccount
        BY DEF AccountsInv, AccountWritesRight, IdsAreKept
    <2> QED BY <1>6, <2>1 DEF AccountsInv, IdsAreKept
<1>10. CallsAreSafe'
    <2> SUFFICES ASSUME NEW d \in Calls
                 PROVE
        /\ pc'[d] \in Inserting \cup {"reading"} => IdsIn(fresh[d]) \cap removed = {}
        /\ pc'[d] \notin Inserting \cup {"reading"} => \A e \in result[d] : ~Pending(e[2])
        /\ pc'[d] = "storing" /\ req[d].op = "create" => result[d] = fresh[d]
        /\ pc'[d] = "announce" => \A e \in result[d] : e[2] \in Stored'
        /\ pc'[d] \in {"retract", "remove", "removing"} => req[d].id \in removed
        /\ pc'[d] \in {"remove", "removing"} => req[d].id \notin announced
        /\ pc'[d] = "merging" => \A id : id = req[d].id => ~Pending(id)
        BY <1>6 DEF CallsAreSafe, IdsIn
    <2>1. \A e \in result[d] : e[2] \in Ids
        BY DEF TypeInv, TypeOK
    <2>2. CASE pc'[d] = pc[d]
        BY <2>1, <2>2 DEF AccountsInv, CallsAreSafe
    <2>3. CASE pc[d] \in Merging /\ pc'[d] = "failed"
        BY <2>3 DEF AccountsInv, CallsAreSafe, Inserting
    <2> QED BY <1>3, <2>2, <2>3
<1>11. AnnouncedAreStored'
    BY DEF AccountsInv, AnnouncedAreStored
<1> QED BY <1>7, <1>8, <1>9, <1>10, <1>11 DEF AccountsInv

LEMMA AccountsLand ==
    ASSUME TypeInv, MutualExclusion, AccountsInv, NEW w \in inflight, Land(w)
    PROVE  AccountsInv'
<1> USE DEF host, local, ghost
<1>1. /\ inflight' = inflight \ {w}
      /\ UNCHANGED <<req, result, fresh, drawn, removed, announced>>
    BY DEF Land
<1>2. w \in Writes /\ accounts \in [Ids -> Account \cup {NoAccount}]
    BY DEF TypeInv, TypeOK
<1>3. CASE w.kind \in {"index", "indexes"}
    <2>1. UNCHANGED <<accounts, pc>>
        BY <1>3 DEF Land
    <2> QED BY <1>1, <1>3, <2>1, AccountsLandQuiet DEF Stored, Whole, Decisive
<1>4. CASE w.kind = "account"
    <2>1. UNCHANGED pc /\ accounts' = [accounts EXCEPT ![w.id] = w.account]
        BY <1>4 DEF Land
    <2>2. w.id \in Ids
        BY <1>2, <1>4 DEF Writes, IndexWrite, AccountWrite, WalletWrite, IndexesWrite,
                          AccountsWrite
    <2>3. \/ /\ pc[w.by] = "storing" /\ IdsIn(fresh[w.by]) = {w.id}
             /\ w.account # NoAccount /\ w.account.path # NoPath
          \/ pc[w.by] = "removing" /\ w.id = req[w.by].id /\ w.account = NoAccount
        BY <1>4 DEF AccountsInv, WritesAreHeld, AccountWritesRight
    <2>4. \/ pc[w.by] \in Inserting /\ Stored' = Stored \cup IdsIn(fresh[w.by])
          \/ pc[w.by] = "removing" /\ Stored' = Stored \ {req[w.by].id}
        BY <1>2, <2>1, <2>2, <2>3 DEF Stored, Whole, Inserting
    <2> QED BY <1>1, <1>4, <2>1, <2>4, AccountsLandDecisive DEF Decisive
<1>5. CASE w.kind = "accounts"
    <2>1. UNCHANGED pc /\ accounts' = w.accounts
        BY <1>5 DEF Land
    <2>2. \A id \in Ids : w.accounts[id] # NoAccount /\ w.accounts[id].path # NoPath
              <=> id \in Stored \cup IdsIn(fresh[w.by])
        BY <1>5 DEF AccountsInv, AccountWritesRight
    <2>3. w.by \in Calls
        BY <1>2, <1>5 DEF Writes, IndexWrite, AccountWrite, WalletWrite, IndexesWrite,
                          AccountsWrite
    <2>4. IdsIn(fresh[w.by]) \subseteq Ids
        BY <2>3 DEF TypeInv, TypeOK, IdsIn
    <2>5. Stored' = Stored \cup IdsIn(fresh[w.by])
        BY <2>1, <2>2, <2>4 DEF Stored, Whole
    <2>6. pc[w.by] \in Inserting
        BY <1>5 DEF AccountsInv, WritesAreHeld, Inserting
    <2> QED BY <1>1, <1>5, <2>1, <2>5, <2>6, AccountsLandDecisive DEF Decisive
<1>6. CASE w.kind = "wallet"
    <2>1. LandWallet(w)
        BY <1>6 DEF Land
    <2>2. w.id \in Ids
        BY <1>2, <1>6 DEF Writes, IndexWrite, AccountWrite, WalletWrite, IndexesWrite,
                          AccountsWrite
    <2>3. CASE accounts[w.id] # NoAccount /\ UNCHANGED pc
               /\ accounts' = [accounts EXCEPT ![w.id] = Overwritten(w)]
        <3>1. accounts[w.id] \in Account
            BY <1>2, <2>2, <2>3
        <3>2. accounts'[w.id] \in Account /\ accounts'[w.id].path = accounts[w.id].path
            BY <1>2, <1>6, <2>2, <2>3, <3>1 DEF Overwritten, Account, Writes, IndexWrite, AccountWrite,
               WalletWrite, IndexesWrite, AccountsWrite
        <3>3. \A id \in Ids \ {w.id} : accounts'[id] = accounts[id]
            BY <1>2, <2>3
        <3>4. Stored' = Stored
            BY <2>2, <2>3, <3>2, <3>3, NoAccountAssumption DEF Stored, Whole
        <3> QED BY <1>1, <1>6, <2>3, <3>2, <3>3, <3>4, NoAccountAssumption,
                   AccountsLandQuiet DEF Decisive
    <2>4. CASE accounts[w.id] = NoAccount /\ UNCHANGED pc
               /\ accounts' = [accounts EXCEPT ![w.id] =
                                   [path |-> NoPath, net |-> w.net, wallet |-> w.wallet]]
        <3>1. accounts'[w.id].path = NoPath
            BY <1>2, <2>2, <2>4
        <3>2. \A id \in Ids \ {w.id} : accounts'[id] = accounts[id]
            BY <1>2, <2>4
        <3>3. Stored' = Stored
            BY <2>4, <3>1, <3>2 DEF Stored, Whole
        <3> QED BY <1>1, <1>6, <2>4, <3>2, <3>3, AccountsLandQuiet DEF Decisive
    <2>5. CASE UNCHANGED accounts /\ (UNCHANGED pc \/ pc' = [pc EXCEPT ![w.by] = "failed"])
        BY <1>1, <1>6, <2>5, AccountsLandQuiet DEF Stored, Whole, Decisive
    <2> QED BY <2>1, <2>3, <2>4, <2>5 DEF LandWallet
<1> QED BY <1>3, <1>4, <1>5, <1>6 DEF Land

-----------------------------------------------------------------------------
(* The steps of a call.                                                    *)

LEMMA ResultsNotPending ==
    ASSUME MutualExclusion, AccountsInv, NEW c \in Calls, Landed(c), pc[c] # "reading"
    PROVE  /\ pc[c] \in Mutating => \A id : ~Pending(id)
           /\ \A e \in result[c] : ~Pending(e[2])
<1>1. ~Unwritten(c)
    BY DEF Unwritten, Landed
<1>2. pc[c] \in Mutating => \A id : ~Pending(id)
    BY <1>1, PendingIsOwn
<1>3. pc[c] \notin Mutating => pc[c] \notin Inserting
    BY DEF Inserting, Mutating, Writing
<1> QED BY <1>2, <1>3 DEF AccountsInv, CallsAreSafe

\* A step of a call that touches neither the accounts nor what is under way.
LEMMA AccountsQuiet ==
    ASSUME TypeInv, MutualExclusion, AccountsInv, NEW c \in Calls, NEW l, Goto(c, l),
           Landed(c), pc[c] # "reading",
           l \notin Inserting
                    \cup {"reading", "announce", "retract", "remove", "removing", "merging"},
           UNCHANGED <<accounts, inflight, fresh, drawn, removed, announced>>,
           \A d \in Calls \ {c} : result'[d] = result[d] /\ req'[d] = req[d],
           pc[c] \in Mutating \/ result'[c] = result[c]
    PROVE  AccountsInv'
<1>1. \A e \in result'[c] : ~Pending(e[2])
    BY ResultsNotPending
<1>2. removed \subseteq drawn /\ announced \subseteq Stored
    BY DEF AccountsInv, IdsAreKept, AnnouncedAreStored
<1>3. PICK ws : ws = {}
    OBVIOUS
<1>4. inflight' = inflight \cup ws
    BY <1>3
<1>5. \A w \in ws : FALSE
    BY <1>3
<1>6. removed \subseteq removed' /\ removed' \subseteq drawn /\ announced' \subseteq Stored
    BY <1>2
<1> HIDE <1>3
<1> QED BY <1>1, <1>4, <1>5, <1>6, AccountsMove

LEMMA AccountsBegin ==
    ASSUME TypeInv, MutualExclusion, AccountsInv, NEW c \in Calls, Begin(c) \/ Acquire(c)
    PROVE  AccountsInv'
<1> USE DEF store, host, queue, local, ghost
<1>1. PICK l \in {"listing", "loading", "queued", "lookup", "scan", "find"} : Goto(c, l)
    BY DEF Begin, Acquire, Enqueue
<1>2. Landed(c) /\ pc[c] # "reading"
    BY NoWriteUnderWay DEF AccountsInv, Begin, Acquire, Writing
<1>3. /\ UNCHANGED <<accounts, inflight, fresh, result, drawn, removed, announced>>
      /\ \A d \in Calls \ {c} : req'[d] = req[d]
    BY DEF Begin, Acquire, TypeInv, TypeOK
<1> QED BY <1>1, <1>2, <1>3, AccountsQuiet DEF Inserting

LEMMA AccountsCreate ==
    ASSUME TypeInv, MutualExclusion, NEW o, IsOrigin(o), AccountsInv, NEW c \in Calls,
           Create(c)
    PROVE  AccountsInv'
<1> USE DEF store, host, queue, local, ghost
<1>1. CASE ChooseIndex(c)
    <2>1. PICK l \in {"failed", "queued"} : Goto(c, l)
        BY <1>1 DEF ChooseIndex, Enqueue
    <2>2. Landed(c) /\ pc[c] # "reading"
        BY <1>1, NoWriteUnderWay DEF AccountsInv, ChooseIndex, Writing
    <2>3. /\ UNCHANGED <<accounts, inflight, fresh, result, drawn, removed, announced>>
          /\ \A d \in Calls \ {c} : req'[d] = req[d]
        BY <1>1 DEF ChooseIndex, TypeInv, TypeOK
    <2> QED BY <2>1, <2>2, <2>3, AccountsQuiet DEF Inserting
<1>2. CASE LookupIndex(c)
    <2>1. PICK l \in {"derive", "fetch"} : Goto(c, l)
        BY <1>2 DEF LookupIndex
    <2>2. Landed(c) /\ pc[c] # "reading" /\ pc[c] \in Mutating
        BY <1>2, NoWriteUnderWay DEF AccountsInv, LookupIndex, Writing, Mutating, Awaiting
    <2>3. /\ UNCHANGED <<accounts, inflight, fresh, req, drawn, removed, announced>>
          /\ \A d \in Calls \ {c} : result'[d] = result[d]
        BY <1>2 DEF LookupIndex, TypeInv, TypeOK
    <2> QED BY <2>1, <2>2, <2>3, AccountsQuiet DEF Inserting
<1>3. CASE FetchIndexed(c)
    <2>1. Landed(c) /\ pc[c] # "reading" /\ pc[c] \in Mutating
        BY <1>3, NoWriteUnderWay DEF AccountsInv, FetchIndexed, Writing, Mutating, Awaiting
    <2>2. /\ UNCHANGED <<accounts, inflight, fresh, req, drawn, removed, announced>>
          /\ \A d \in Calls \ {c} : result'[d] = result[d]
        BY <1>3 DEF FetchIndexed, TypeInv, TypeOK
    <2>3. PICK e \in result[c] :
              \/ IsRequested(c, e[2]) /\ ~IsUnusable(c, e[2])
                 /\ Goto(c, "announce") /\ UNCHANGED result
              \/ \E l \in {"derive", "failed"} : Goto(c, l)
        BY <1>3 DEF FetchIndexed, Return
    <2>4. CASE /\ IsRequested(c, e[2]) /\ ~IsUnusable(c, e[2])
               /\ Goto(c, "announce") /\ UNCHANGED result
        <3>1. Goto(c, "announce") /\ UNCHANGED result
            BY <2>4
        <3>2. \A f \in result[c] : f = e
            BY <1>3 DEF FetchIndexed, IsOrigin, CallIs
        <3>3. \A f \in result'[c] : f[2] \in Stored
            BY <2>4, <3>2 DEF IsRequested, IsUnusable, Broken, Stored, Whole, TypeInv, TypeOK
        <3>4. \A f \in result[c] : ~Pending(f[2])
            BY <2>1, ResultsNotPending
        <3>5. PICK ws : ws = {}
            OBVIOUS
        <3>6. inflight' = inflight \cup ws /\ \A w \in ws : FALSE
            BY <2>2, <3>5
        <3>7. removed' \subseteq drawn /\ announced' \subseteq Stored
            BY <2>2 DEF AccountsInv, IdsAreKept, AnnouncedAreStored
        <3> HIDE <3>5
        <3> QED BY <2>1, <2>2, <3>1, <3>3, <3>4, <3>6, <3>7, AccountsMove DEF Inserting
    <2>5. CASE \E l \in {"derive", "failed"} : Goto(c, l)
        BY <2>1, <2>2, <2>5, AccountsQuiet DEF Inserting
    <2> QED BY <2>3, <2>4, <2>5
<1>4. CASE Insert(c)
    <2>1. PICK id \in Ids \ drawn :
              /\ drawn' = drawn \cup {id}
              /\ fresh' = [fresh EXCEPT ![c] = {<<WantedPath(c), id>>}]
              /\ result' = [result EXCEPT ![c] = {<<WantedPath(c), id>>}]
              /\ inflight' = inflight \cup InsertWrites(c, WantedPath(c), id)
        BY <1>4 DEF Insert
    <2>2. WantedPath(c) \in Paths /\ req[c].net \in Networks
        BY <1>4, RequestTyped DEF Insert, CreatePCs
    <2>3. PICK p \in Paths : p = WantedPath(c)
        BY <2>2
    <2>4. PICK e \in Paths \X Ids : e = <<p, id>>
        OBVIOUS
    <2>5. PICK new \in SUBSET (Paths \X Ids) : new = {e}
        OBVIOUS
    <2>6. PICK kept \in SUBSET result[c] : kept = {}
        OBVIOUS
    <2>7. /\ drawn' = drawn \cup IdsIn(new)
          /\ fresh' = [fresh EXCEPT ![c] = new]
          /\ result' = [result EXCEPT ![c] = kept \cup new]
          /\ inflight' = inflight \cup InsertWrites(c, e[1], e[2])
          /\ e \in new /\ new = {e}
          /\ \A f \in new : f[2] \notin drawn
        BY <2>1, <2>3, <2>4, <2>5, <2>6 DEF IdsIn
    <2>8. /\ pc[c] \in {"derive", "batch"}
          /\ UNCHANGED <<accounts, req, removed, announced>>
        BY <1>4 DEF Insert
    <2>9. PICK l : l = "storing" /\ Goto(c, l)
        BY <1>4 DEF Insert
    <2>10. Draws(c, new, kept) /\ HandsOver(c, l, new)
        BY <2>7, <2>9 DEF Draws, HandsOver
    <2> HIDE <2>3, <2>4, <2>5
    <2> QED BY <2>2, <2>6, <2>8, <2>9, <2>10, AccountsDraw
<1>5. CASE InsertAcked(c)
    <2>1. Landed(c) /\ pc[c] = "storing" /\ pc[c] \in Mutating
        BY <1>5 DEF InsertAcked, InsertDone, Mutating, Writing
    <2>2. UNCHANGED <<accounts, inflight, fresh, req, result, drawn, removed, announced>>
        BY <1>5 DEF InsertAcked
    <2>3. CASE req[c].op = "createMany" /\ Goto(c, "done")
        BY <2>1, <2>2, <2>3, AccountsQuiet DEF Inserting
    <2>4. CASE req[c].op = "create" /\ Goto(c, "announce")
        <3>1. \A id : ~Pending(id)
            BY <2>1, ResultsNotPending
        <3>2. \A e \in result[c] : e[2] \in drawn /\ e[2] \notin removed
            BY <2>1, <2>4 DEF IsOrigin, CallIs, EntriesAre, AccountsInv, CallsAreSafe, IdsIn,
               Inserting
        <3>3. \A e \in result'[c] : e[2] \in Stored
            BY <2>2, <3>1, <3>2 DEF AccountsInv, IdsAreKept
        <3>5. PICK ws : ws = {}
            OBVIOUS
        <3>6. inflight' = inflight \cup ws /\ \A w \in ws : FALSE
            BY <2>2, <3>5
        <3>7. removed' \subseteq drawn /\ announced' \subseteq Stored
            BY <2>2 DEF AccountsInv, IdsAreKept, AnnouncedAreStored
        <3> HIDE <3>5
        <3> QED BY <2>1, <2>2, <2>4, <3>1, <3>3, <3>6, <3>7, AccountsMove DEF Inserting
    <2> QED BY <1>5, <2>3, <2>4 DEF InsertAcked, Return
<1>6. CASE Announce(c)
    <2>1. Landed(c) /\ pc[c] # "reading" /\ pc[c] \in Mutating
        BY <1>6, NoWriteUnderWay DEF AccountsInv, Announce, Writing, Mutating, Awaiting
    <2>2. UNCHANGED <<accounts, inflight, fresh, req, result, drawn, removed>>
        BY <1>6 DEF Announce
    <2>3. PICK l \in {"done", "schedule", "failed"} : Goto(c, l)
        BY <1>6 DEF Announce, Return
    <2>4. announced' \subseteq Stored
        <3>1. announced' = announced \cup {e[2] : e \in result[c]}
            BY <1>6 DEF Announce
        <3>2. announced \subseteq Stored
            BY DEF AccountsInv, AnnouncedAreStored
        <3>3. \A e \in result[c] : e[2] \in Stored
            BY <1>6 DEF Announce, AccountsInv, CallsAreSafe
        <3> QED BY <3>1, <3>2, <3>3
    <2>5. PICK ws : ws = {}
        OBVIOUS
    <2>6. inflight' = inflight \cup ws /\ \A w \in ws : FALSE
        BY <2>2, <2>5
    <2>7. removed' \subseteq drawn /\ \A e \in result[c] : ~Pending(e[2])
        BY <2>1, <2>2, ResultsNotPending DEF AccountsInv, IdsAreKept
    <2> HIDE <2>5
    <2> QED BY <2>1, <2>2, <2>3, <2>4, <2>6, <2>7, AccountsMove DEF Inserting
<1>7. CASE ScheduleScan(c)
    <2>1. Landed(c) /\ pc[c] # "reading" /\ Goto(c, "done")
        BY <1>7, NoWriteUnderWay DEF AccountsInv, ScheduleScan, Return, Writing
    <2>2. UNCHANGED <<accounts, inflight, fresh, req, result, drawn, removed, announced>>
        BY <1>7 DEF ScheduleScan
    <2> QED BY <2>1, <2>2, AccountsQuiet DEF Inserting
<1> QED BY <1>1, <1>2, <1>3, <1>4, <1>5, <1>6, <1>7 DEF Create

LEMMA AccountsCreateMany ==
    ASSUME TypeInv, MutualExclusion, NEW o, IsOrigin(o), AccountsInv, NEW c \in Calls,
           CreateMany(c)
    PROVE  AccountsInv'
<1> USE DEF store, host, queue, local, ghost
<1>1. CASE ScanStore(c)
    <2>1. Landed(c) /\ pc[c] # "reading" /\ pc[c] \in Mutating
        BY <1>1, NoWriteUnderWay DEF AccountsInv, ScanStore, Writing, Mutating, Awaiting
    <2>2. /\ UNCHANGED <<accounts, fresh, req, drawn, removed, announced>>
          /\ \A d \in Calls \ {c} : result'[d] = result[d]
        BY <1>1 DEF ScanStore, TypeInv, TypeOK
    <2>3. \/ Goto(c, "batch") /\ UNCHANGED inflight
          \/ /\ Goto(c, "repairing")
             /\ \E ix : inflight' = inflight \cup {[kind |-> "indexes", by |-> c, index |-> ix]}
        BY <1>1 DEF ScanStore
    <2>4. CASE Goto(c, "batch") /\ UNCHANGED inflight
        BY <2>1, <2>2, <2>4, AccountsQuiet DEF Inserting
    <2>5. CASE /\ Goto(c, "repairing")
               /\ \E ix : inflight' = inflight \cup {[kind |-> "indexes", by |-> c, index |-> ix]}
        <3>1. PICK ix : inflight' = inflight \cup {[kind |-> "indexes", by |-> c, index |-> ix]}
            BY <2>5
        <3>2. PICK ws : ws = {[kind |-> "indexes", by |-> c, index |-> ix]}
            OBVIOUS
        <3>3. inflight' = inflight \cup ws
            BY <3>1, <3>2
        <3>4. \A w \in ws : w.by = c /\ w.kind = "indexes"
            BY <3>2
        <3>5. removed' \subseteq drawn /\ announced' \subseteq Stored
            BY <2>2 DEF AccountsInv, IdsAreKept, AnnouncedAreStored
        <3>6. \A id : ~Pending(id)
            BY <2>1, ResultsNotPending
        <3> HIDE <3>2
        <3> QED BY <2>1, <2>2, <2>5, <3>3, <3>4, <3>5, <3>6, AccountsMove DEF Inserting
    <2> QED BY <2>3, <2>4, <2>5
<1>2. CASE ScanBroken(c)
    <2>1. Landed(c) /\ pc[c] # "reading" /\ Goto(c, "failed")
        BY <1>2, NoWriteUnderWay DEF AccountsInv, ScanBroken, Return, Writing
    <2>2. UNCHANGED <<accounts, inflight, fresh, req, result, drawn, removed, announced>>
        BY <1>2 DEF ScanBroken
    <2> QED BY <2>1, <2>2, AccountsQuiet DEF Inserting
<1>3. CASE Repaired(c)
    <2>1. Landed(c) /\ pc[c] # "reading" /\ Goto(c, "batch")
        BY <1>3 DEF Repaired
    <2>2. UNCHANGED <<accounts, inflight, fresh, req, result, drawn, removed, announced>>
        BY <1>3 DEF Repaired
    <2> QED BY <2>1, <2>2, AccountsQuiet DEF Inserting
<1>4. CASE InsertBatch(c)
    <2>1. pc[c] = "batch" /\ Landed(c)
        BY <1>4, NoWriteUnderWay DEF AccountsInv, InsertBatch, Writing
    <2>2. CASE /\ Goto(c, "done")
               /\ UNCHANGED <<inflight, result, fresh, drawn>>
        <3>1. UNCHANGED <<accounts, req, removed, announced>>
            BY <1>4 DEF InsertBatch
        <3> QED BY <2>1, <2>2, <3>1, AccountsQuiet DEF Inserting
    <2>3. CASE \E id \in [Missing(c) -> Ids \ drawn] :
               /\ \A p, q \in Missing(c) : p # q => id[p] # id[q]
               /\ LET new == {<<p, id[p]>> : p \in Missing(c)} IN
                  /\ drawn' = drawn \cup {e[2] : e \in new}
                  /\ fresh' = [fresh EXCEPT ![c] = new]
                  /\ result' = [result EXCEPT ![c] = @ \cup new]
                  /\ \/ /\ \E p \in Missing(c) :
                              /\ Missing(c) = {p}
                              /\ inflight' = inflight \cup InsertWrites(c, p, id[p])
                        /\ Goto(c, "storing")
                     \/ /\ \A p \in Missing(c) : Missing(c) # {p}
                        /\ Goto(c, "reading")
                        /\ UNCHANGED inflight
        <3>1. PICK id \in [Missing(c) -> Ids \ drawn] :
               LET new == {<<p, id[p]>> : p \in Missing(c)} IN
                  /\ drawn' = drawn \cup {e[2] : e \in new}
                  /\ fresh' = [fresh EXCEPT ![c] = new]
                  /\ result' = [result EXCEPT ![c] = @ \cup new]
                  /\ \/ /\ \E p \in Missing(c) :
                              /\ Missing(c) = {p}
                              /\ inflight' = inflight \cup InsertWrites(c, p, id[p])
                        /\ Goto(c, "storing")
                     \/ /\ Goto(c, "reading")
                        /\ UNCHANGED inflight
            BY <2>3
        <3>2. Missing(c) \subseteq Paths /\ req[c].net \in Networks /\ req[c].op # "create"
            <4>1. pc[c] \in BatchPCs
                BY <2>1 DEF BatchPCs
            <4>2. req[c].op # "create"
                BY <4>1 DEF TypeInv, RequestFits, Fits, BatchRequests
            <4> QED BY <4>1, <4>2, RequestTyped DEF Missing
        <3>3. PICK new \in SUBSET (Paths \X Ids) : new = {<<p, id[p]>> : p \in Missing(c)}
            <4>1. \A p \in Missing(c) : <<p, id[p]>> \in Paths \X Ids
                BY <3>2
            <4>2. {<<p, id[p]>> : p \in Missing(c)} \in SUBSET (Paths \X Ids)
                BY <4>1
            <4> QED BY <4>2
        <3>4. PICK kept \in SUBSET result[c] : kept = result[c]
            OBVIOUS
        <3>5. \A e \in new : e[2] \notin drawn
            BY <3>3
        <3>6. /\ drawn' = drawn \cup IdsIn(new)
              /\ fresh' = [fresh EXCEPT ![c] = new]
            BY <3>1, <3>3 DEF IdsIn
        <3>7. result' = [result EXCEPT ![c] = kept \cup new]
            BY <3>1, <3>3, <3>4 DEF TypeInv, TypeOK
        <3>8. PICK l \in {"storing", "reading"} :
                 /\ Goto(c, l)
                 /\ \/ l = "reading" /\ UNCHANGED inflight
                    \/ /\ l = "storing"
                       /\ \E p \in Missing(c) :
                              /\ Missing(c) = {p}
                              /\ inflight' = inflight \cup InsertWrites(c, p, id[p])
            BY <3>1
        <3>9. HandsOver(c, l, new)
            <4>1. ASSUME NEW p \in Missing(c), Missing(c) = {p},
                         inflight' = inflight \cup InsertWrites(c, p, id[p])
                  PROVE  \E e \in new : new = {e} /\ inflight' = inflight \cup InsertWrites(c, e[1], e[2])
                <5>1. new = {<<p, id[p]>>}
                    BY <3>3, <4>1
                <5> QED BY <4>1, <5>1
            <4> QED BY <3>8, <4>1 DEF HandsOver
        <3>10. UNCHANGED <<accounts, req, removed, announced>>
            BY <1>4 DEF InsertBatch
        <3>11. Goto(c, l) /\ pc[c] \in {"derive", "batch"} /\ (req[c].op = "create" => kept = {})
            BY <2>1, <3>2, <3>8
        <3> HIDE <3>3
        <3>12. Draws(c, new, kept)
            BY <3>5, <3>6, <3>7 DEF Draws
        <3> QED BY <3>2, <3>9, <3>10, <3>11, <3>12, AccountsDraw
    <2> QED BY <1>4, <2>2, <2>3 DEF InsertBatch, Return
<1>5. CASE ReadStore(c) \/ WriteIndexes(c)
    BY <1>5, AccountsMany
<1> QED BY <1>1, <1>2, <1>3, <1>4, <1>5 DEF CreateMany

LEMMA AccountsDelete ==
    ASSUME TypeInv, MutualExclusion, NEW o, IsOrigin(o), AccountsInv, NEW c \in Calls,
           Delete(c)
    PROVE  AccountsInv'
<1> USE DEF store, host, queue, local, ghost
<1>1. UNCHANGED <<accounts, fresh, req, result, drawn>> /\ pc[c] # "reading"
    BY DEF Delete, FindAccount, Retract, Remove, RemoveAcked
<1>2. Landed(c) /\ pc[c] \in Mutating
    BY NoWriteUnderWay DEF AccountsInv, Delete, FindAccount, Retract, Remove, RemoveAcked,
       Writing, Mutating, Awaiting
<1>3. \A e \in result[c] : ~Pending(e[2])
    BY <1>1, <1>2, ResultsNotPending
<1>4. removed \subseteq drawn /\ announced \subseteq Stored
    BY DEF AccountsInv, IdsAreKept, AnnouncedAreStored
<1>5. PICK none : none = {}
    OBVIOUS
<1>6. (\A w \in none : FALSE) /\ inflight = inflight \cup none
    BY <1>5
<1> HIDE <1>5
<1>7. CASE FindAccount(c)
    <2>1. UNCHANGED <<inflight, announced>>
        BY <1>7 DEF FindAccount
    <2>2. CASE Goto(c, "failed") /\ UNCHANGED removed
        BY <1>1, <1>2, <2>1, <2>2, AccountsQuiet DEF Inserting
    <2>3. CASE /\ HasWallet(req[c].id)
               /\ removed' = removed \cup {req[c].id}
               /\ Goto(c, "retract")
        <3>1. req[c].id \in Ids
            BY <1>7, RequestTyped DEF FindAccount, DeletePCs
        <3>2. req[c].id \in drawn
            BY <2>3, <3>1 DEF IsOrigin, StoreIs, RecordIs, HasWallet
        <3>3. removed \subseteq removed' /\ removed' \subseteq drawn /\ req'[c].id \in removed'
            BY <1>1, <1>4, <2>3, <3>2
        <3> QED BY <1>1, <1>2, <1>3, <1>4, <1>6, <2>1, <2>3, <3>3, AccountsMove DEF Inserting
    <2> QED BY <1>7, <2>2, <2>3 DEF FindAccount, Return
<1>8. CASE Retract(c)
    <2>1. /\ Goto(c, "remove") /\ UNCHANGED <<inflight, removed>>
          /\ announced' = announced \ {req[c].id}
        BY <1>8 DEF Retract
    <2>2. req[c].id \in removed
        BY <1>8 DEF Retract, AccountsInv, CallsAreSafe
    <2>3. req'[c].id \in removed' /\ req'[c].id \notin announced' /\ announced' \subseteq Stored
        BY <1>1, <1>4, <2>1, <2>2
    <2> QED BY <1>1, <1>2, <1>3, <1>4, <1>6, <2>1, <2>3, AccountsMove DEF Inserting
<1>9. CASE Remove(c)
    <2>1. UNCHANGED <<removed, announced>>
        BY <1>9 DEF Remove
    <2>2. req[c].id \in removed /\ req[c].id \notin announced
        BY <1>9 DEF Remove, AccountsInv, CallsAreSafe
    <2>3. CASE \E l \in {"done", "failed"} : Goto(c, l) /\ UNCHANGED inflight
        BY <1>1, <1>2, <2>1, <2>3, AccountsQuiet DEF Inserting
    <2>4. CASE Goto(c, "removing") /\ inflight' = inflight \cup RemoveWrites(c, req[c].id)
        <3>1. PICK ws : ws = RemoveWrites(c, req[c].id)
            OBVIOUS
        <3>2. inflight' = inflight \cup ws
            BY <2>4, <3>1
        <3>3. \A w \in ws : w.by = c /\
                  \/ w.kind = "index"
                  \/ w.kind = "account" /\ w.id = req'[c].id /\ w.account = NoAccount
            BY <1>1, <3>1 DEF RemoveWrites
        <3>5. PICK l : l = "removing" /\ Goto(c, l)
            BY <2>4
        <3>6. \A w \in ws : w.by = c /\
              \/ w.kind = "wallet" /\ l \in Merging /\ ws = {w} /\ ~Pending(w.id)
              \/ w.kind = "index" /\ l = "removing"
              \/ w.kind = "account" /\ l = "removing" /\ w.id = req'[c].id
                 /\ w.account = NoAccount
              \/ w.kind = "indexes" /\ l = "repairing"
            BY <3>3, <3>5
        <3>7. /\ removed \subseteq removed' /\ removed' \subseteq drawn
              /\ announced' \subseteq Stored
              /\ req'[c].id \in removed' /\ req'[c].id \notin announced'
              /\ \A e \in result'[c] : ~Pending(e[2])
            BY <1>1, <1>3, <1>4, <2>1, <2>2
        <3>4. \A v, w \in ws : v.kind = "account" /\ w.kind = "account" => v = w
            BY <3>1 DEF RemoveWrites
        <3> HIDE <3>1
        <3> QED BY <1>1, <1>2, <3>2, <3>4, <3>5, <3>6, <3>7, AccountsMove DEF Inserting
    <2> QED BY <1>9, <2>3, <2>4 DEF Remove, Return
<1>10. CASE RemoveAcked(c)
    <2>1. Goto(c, "done") /\ UNCHANGED <<inflight, removed, announced>>
        BY <1>10 DEF RemoveAcked, Return
    <2> QED BY <1>1, <1>2, <2>1, AccountsQuiet DEF Inserting
<1> QED BY <1>7, <1>8, <1>9, <1>10 DEF Delete

LEMMA AccountsUpdate ==
    ASSUME TypeInv, MutualExclusion, AccountsInv, NEW c \in Calls, UpdateAccount(c)
    PROVE  AccountsInv'
<1> USE DEF store, host, queue, local, ghost
<1>1. /\ UNCHANGED <<accounts, fresh, req, result, drawn, removed, announced>>
      /\ pc[c] # "reading"
    BY DEF UpdateAccount, Load, MergeStaged, MergeAcked, MarkAcked
<1>2. Landed(c)
    BY NoWriteUnderWay DEF AccountsInv, UpdateAccount, Load, MergeStaged, MergeAcked, MarkAcked, Writing
<1>3. CASE \E l \in {"failed", "syncing", "done"} : Goto(c, l) /\ UNCHANGED inflight
    BY <1>1, <1>2, <1>3, AccountsQuiet DEF Inserting
<1>4. CASE \/ /\ pc[c] = "syncing" /\ Goto(c, "merging") /\ HasWallet(req[c].id)
              /\ inflight' = inflight \cup {StagedWrite(c, req[c].id)}
           \/ /\ pc[c] = "merging" /\ Goto(c, "marking")
              /\ \E net \in Networks : inflight' = inflight \cup {InscriptionsWrite(c, net)}
    <2>1. req[c].id \in Ids
        BY <1>4, RequestTyped DEF UpdatePCs
    <2>2. ~Pending(req[c].id)
        BY <1>4, <2>1 DEF AccountsInv, IdsAreKept, CallsAreSafe, HasWallet
    <2>3. PICK w : /\ inflight' = inflight \cup {w}
                   /\ w.by = c /\ w.kind = "wallet" /\ w.id = req[c].id
        <3>1. CASE inflight' = inflight \cup {StagedWrite(c, req[c].id)}
            <4>1. PICK w : w = StagedWrite(c, req[c].id)
                OBVIOUS
            <4>2. w.by = c /\ w.kind = "wallet" /\ w.id = req[c].id
                BY <4>1 DEF StagedWrite
            <4> QED BY <3>1, <4>1, <4>2
        <3>2. ASSUME NEW net \in Networks, inflight' = inflight \cup {InscriptionsWrite(c, net)}
              PROVE  \E w : /\ inflight' = inflight \cup {w}
                            /\ w.by = c /\ w.kind = "wallet" /\ w.id = req[c].id
            <4>1. PICK w : w = InscriptionsWrite(c, net)
                OBVIOUS
            <4>2. w.by = c /\ w.kind = "wallet" /\ w.id = req[c].id
                BY <4>1 DEF InscriptionsWrite
            <4> QED BY <3>2, <4>1, <4>2
        <3> QED BY <1>4, <3>1, <3>2
    <2>4. w.by = c /\ w.kind = "wallet" /\ ~Pending(w.id)
        BY <2>2, <2>3
    <2>5. inflight' = inflight \cup {w}
        BY <2>3
    <2>11. PICK l \in Merging : Goto(c, l)
        BY <1>4
    <2>6. PICK ws : ws = {w}
        OBVIOUS
    <2>7. inflight' = inflight \cup ws
        BY <2>5, <2>6
    <2>8. \A v \in ws : v.by = c /\ v.kind = "wallet" /\ ~Pending(v.id) /\ ws = {v}
        BY <2>4, <2>6
    <2>9. removed \subseteq drawn /\ announced \subseteq Stored
        BY DEF AccountsInv, IdsAreKept, AnnouncedAreStored
    <2>10. \A e \in result[c] : ~Pending(e[2])
        BY <1>1, <1>2, ResultsNotPending
    <2> HIDE <2>3, <2>6
    <2> QED BY <1>1, <1>2, <2>2, <2>7, <2>8, <2>9, <2>10, <2>11, AccountsMove DEF Inserting
<1> QED BY <1>3, <1>4 DEF UpdateAccount, Load, MergeStaged, MergeAcked, MarkAcked

LEMMA AccountsInit == Init => AccountsInv
<1> SUFFICES ASSUME Init PROVE AccountsInv
    OBVIOUS
<1>1. \A id : ~Pending(id)
    BY DEF Init, Pending, Unwritten, Inserting
<1> QED BY <1>1 DEF Init, AccountsInv, WritesAreHeld, AccountWritesRight, IdsAreKept,
                    CallsAreSafe, AnnouncedAreStored, Inserting

\* As long as nothing has failed every step keeps AccountsInv.
LEMMA AccountsStep ==
    ASSUME TypeInv, OriginInv, MutualExclusion, faults = 0 => AccountsInv, [Next]_vars
    PROVE  (faults = 0 => AccountsInv)'
<1> SUFFICES ASSUME faults' = 0 PROVE AccountsInv'
    OBVIOUS
<1> USE DEF store, host, queue, local, ghost
<1>1. faults \in Nat
    BY FaultAssumption DEF TypeInv, TypeOK
<1>2. CASE UNCHANGED vars
    BY <1>2 DEF vars, AccountsInv, WritesAreHeld, AccountWritesRight, IdsAreKept, CallsAreSafe,
       AnnouncedAreStored, Pending, Unwritten, Stored, Whole, IdsIn
<1>3. PICK o : IsOrigin(o)
    BY DEF OriginInv
<1>4. CASE \E c \in Calls : Begin(c) \/ Proceed(c)
    <2>1. PICK c \in Calls : Begin(c) \/ Proceed(c)
        BY <1>4
    <2>2. CASE Begin(c) \/ Acquire(c)
        <3>1. AccountsInv
            BY <2>2 DEF Begin, Acquire
        <3> QED BY <2>2, <3>1, AccountsBegin
    <2>3. CASE Create(c)
        <3>1. AccountsInv
            BY <2>3 DEF Create, ChooseIndex, LookupIndex, FetchIndexed, Insert, InsertAcked,
               Announce, ScheduleScan
        <3> QED BY <1>3, <2>3, <3>1, AccountsCreate
    <2>4. CASE CreateMany(c)
        <3>1. AccountsInv
            BY <2>4 DEF CreateMany, ScanStore, ScanBroken, Repaired, InsertBatch, ReadStore,
               WriteIndexes
        <3> QED BY <1>3, <2>4, <3>1, AccountsCreateMany
    <2>5. CASE Delete(c)
        <3>1. AccountsInv
            BY <2>5 DEF Delete, FindAccount, Retract, Remove, RemoveAcked
        <3> QED BY <1>3, <2>5, <3>1, AccountsDelete
    <2>6. CASE UpdateAccount(c)
        <3>1. AccountsInv
            BY <2>6 DEF UpdateAccount, Load, MergeStaged, MergeAcked, MarkAcked
        <3> QED BY <2>6, <3>1, AccountsUpdate
    <2> QED BY <2>1, <2>2, <2>3, <2>4, <2>5, <2>6 DEF Proceed
<1>5. CASE \E w \in inflight : Land(w)
    <2>1. AccountsInv
        BY <1>5 DEF Land
    <2> QED BY <1>5, <2>1, AccountsLand
<1>6. CASE \/ \E c \in Calls : Throw(c)
           \/ \E w \in inflight : Lose(w)
           \/ Crash
    BY <1>1, <1>6 DEF Throw, Lose, Crash, Fault
<1>7. CASE Quiescent
    BY <1>2, <1>7 DEF Quiescent
<1> QED BY <1>2, <1>4, <1>5, <1>6, <1>7 DEF Next

LEMMA AccountsHold == Spec => [](TypeInv /\ OriginInv /\ MutualExclusion
                                /\ (faults = 0 => AccountsInv))
<1>1. Init => (faults = 0 => AccountsInv)
    BY AccountsInit
<1>2. TypeInv /\ OriginInv /\ MutualExclusion /\ (faults = 0 => AccountsInv) /\ [Next]_vars
          => (faults = 0 => AccountsInv)'
    BY AccountsStep
<1> QED BY <1>1, <1>2, OriginHolds, Exclusion, PTL DEF Spec

\* As long as no host call has failed and the snap was not killed, an account
\* the client was told of is in the persisted state: the created event follows
\* both writes of the insertion and the deleted event precedes the removal.
THEOREM AnnouncedStay == Spec => [](faults = 0 => AnnouncedAreStored)
<1>1. AccountsInv => AnnouncedAreStored
    BY DEF AccountsInv
<1> QED BY <1>1, AccountsHold, PTL

-----------------------------------------------------------------------------
(* The path index, as long as nothing has failed and no two networks share *)
(* their paths.                                                            *)

PathsAreOwn == \A m, n \in Networks : CoinType[m] = CoinType[n] => m = n

\* Nothing under way will change the path index, or an account, for the call.
IndexLanded(c) == \A w \in inflight : w.by = c => w.kind \notin {"index", "indexes"}
AccountLanded(c) == \A w \in inflight : w.by = c => w.kind # "account"

\* A call is writing the account or its index entry.
Touched(id) ==
    \E c \in Calls : \/ pc[c] \in Inserting /\ id \in IdsIn(fresh[c])
                     \/ pc[c] = "removing" /\ id = req[c].id

\* The index and the accounts agree on all that no call is writing, and where
\* one is, the index has the new entry or none.
IndexLeads ==
    /\ \A p \in Paths : index[p] # NoId => index[p] \in Stored \/ Touched(index[p])
    /\ \A id \in Stored : /\ index[accounts[id].path] \in {id, NoId}
                          /\ ~Touched(id) => index[accounts[id].path] = id

Paired(entries) == \A e, f \in entries : e[1] = f[1] \/ e[2] = f[2] => e = f

\* What a mutation has learnt of the index, and what it has made of it.
Knows(c) ==
    /\ pc[c] # "repairing"
    /\ pc[c] = "fetch" => \A e \in result[c] : e[1] = WantedPath(c) /\ e[2] = index[e[1]]
    /\ pc[c] = "derive" => index[WantedPath(c)] = NoId
    /\ pc[c] = "batch" => \A p \in Missing(c) : index[p] = NoId
    /\ pc[c] \in {"reading", "storingAccounts"} => \A e \in fresh[c] : index[e[1]] = NoId
    /\ pc[c] = "storingAccounts" => indexCopy[c] = index
    /\ pc[c] = "storing" => \A e \in fresh[c] : index[e[1]] \in {NoId, e[2]}
    /\ pc[c] = "storing" /\ IndexLanded(c) => \A e \in fresh[c] : index[e[1]] = e[2]
    /\ pc[c] = "removing" /\ IndexLanded(c) => \A p \in Paths : index[p] # req[c].id
    /\ pc[c] = "removing" /\ AccountLanded(c) => req[c].id \notin Stored

\* A write of the index changes no entry but those of its call's accounts.
IndexWriteRight(w) ==
    /\ w.kind = "index" /\ pc[w.by] = "storing" => fresh[w.by] = {<<w.path, w.id>>}
    /\ w.kind = "index" /\ pc[w.by] = "removing" =>
           /\ w.id = NoId
           /\ index[w.path] \in {req[w.by].id, NoId}
           /\ \A p \in Paths : index[p] = req[w.by].id => p = w.path
    /\ w.kind = "indexes" => \A p \in Paths :
           \/ \E e \in fresh[w.by] : e[1] = p /\ w.index[p] = e[2]
           \/ w.index[p] = index[p] /\ \A e \in fresh[w.by] : e[1] # p

IndexInv ==
    /\ IndexLeads
    /\ \A c \in Calls : Paired(fresh[c]) /\ Knows(c)
    /\ \A w \in inflight : IndexWriteRight(w)

LEMMA WriteBy == ASSUME TypeInv, NEW w \in inflight PROVE w.by \in Calls
BY DEF TypeInv, TypeOK, Writes, IndexWrite, AccountWrite, WalletWrite, IndexesWrite,
       AccountsWrite

\* Only a mutation writes, so that while one is not writing nothing is written.
LEMMA TouchedBy ==
    ASSUME MutualExclusion, NEW c \in Calls, pc[c] \in Mutating, NEW id, Touched(id)
    PROVE  \/ pc[c] \in Inserting /\ id \in IdsIn(fresh[c])
           \/ pc[c] = "removing" /\ id = req[c].id
<1>1. PICK d \in Calls : \/ pc[d] \in Inserting /\ id \in IdsIn(fresh[d])
                         \/ pc[d] = "removing" /\ id = req[d].id
    BY DEF Touched
<1>2. pc[d] \in Mutating
    BY <1>1 DEF Inserting, Mutating, Writing
<1>3. d = c
    BY <1>2 DEF MutualExclusion
<1> QED BY <1>1, <1>3

\* A stored account has the path and the network of its origin.
LEMMA StoredOrigin ==
    ASSUME NEW o, IsOrigin(o), NEW id \in Stored
    PROVE  /\ id \in drawn /\ o[id] \in Origins
           /\ accounts[id].path = o[id].path /\ accounts[id].net = o[id].net
BY DEF IsOrigin, StoreIs, RecordIs, Stored, Whole

LEMMA OriginPath ==
    ASSUME NEW a \in Origins
    PROVE  a.path \in Paths /\ \E s \in Slots : a.path = PathOf(a.net, s)
BY PathTyped DEF Origins

\* No two stored accounts have the same path.
LEMMA PathsUnique ==
    ASSUME TypeInv, MutualExclusion, NEW o, IsOrigin(o), IndexInv,
           NEW a \in Stored, NEW b \in Stored, accounts[a].path = accounts[b].path
    PROVE  a = b
<1>1. /\ index[accounts[a].path] \in {a, NoId} /\ (~Touched(a) => index[accounts[a].path] = a)
      /\ index[accounts[b].path] \in {b, NoId} /\ (~Touched(b) => index[accounts[b].path] = b)
    BY DEF IndexInv, IndexLeads
<1>2. a # NoId /\ b # NoId
    BY NullAssumption DEF Stored
<1>3. CASE ~Touched(a) \/ ~Touched(b)
    BY <1>1, <1>2, <1>3
<1>4. CASE Touched(a) /\ Touched(b)
    <2>1. PICK c \in Calls : \/ pc[c] \in Inserting /\ a \in IdsIn(fresh[c])
                             \/ pc[c] = "removing" /\ a = req[c].id
        BY <1>4 DEF Touched
    <2>2. pc[c] \in Mutating
        BY <2>1 DEF Inserting, Mutating, Writing
    <2>3. \/ pc[c] \in Inserting /\ b \in IdsIn(fresh[c])
          \/ pc[c] = "removing" /\ b = req[c].id
        BY <1>4, <2>2, TouchedBy
    <2>4. CASE pc[c] \in Inserting
        <3>1. PICK e \in fresh[c] : e[2] = a
            BY <2>1, <2>4 DEF Inserting, IdsIn
        <3>2. PICK f \in fresh[c] : f[2] = b
            BY <2>3, <2>4 DEF Inserting, IdsIn
        <3>3. o[a].path = e[1] /\ o[b].path = f[1]
            BY <3>1, <3>2 DEF IsOrigin, CallIs, EntriesAre
        <3>4. e[1] = f[1]
            BY <3>3, StoredOrigin
        <3> QED BY <3>1, <3>2, <3>4 DEF IndexInv, Paired
    <2>5. CASE pc[c] = "removing"
        BY <2>1, <2>3, <2>5 DEF Inserting
    <2> QED BY <2>1, <2>4, <2>5
<1> QED BY <1>3, <1>4

\* A step of a call that has no write under way changes no map.
LEMMA IndexMove ==
    ASSUME TypeInv, IndexInv, NEW c \in Calls, Landed(c), UNCHANGED <<accounts, index>>,
           \A d \in Calls \ {c} : /\ pc'[d] = pc[d] /\ req'[d] = req[d]
                                  /\ result'[d] = result[d] /\ fresh'[d] = fresh[d]
                                  /\ indexCopy'[d] = indexCopy[d],
           NEW ws, inflight' = inflight \cup ws,
           \A w \in ws : w.by = c /\ IndexWriteRight(w)',
           Paired(fresh'[c]), Knows(c)',
           \A id : Touched(id) => \/ Touched(id)'
                                  \/ id \in Stored /\ index[accounts[id].path] = id
                                  \/ id \notin Stored /\ \A p \in Paths : index[p] # id
    PROVE  IndexInv'
<1>1. Stored' = Stored
    BY DEF Stored, Whole
<1>2. IndexLeads'
    <2>1. ASSUME NEW p \in Paths, index[p] # NoId
          PROVE  index[p] \in Stored \/ Touched(index[p])'
        BY <2>1 DEF IndexInv, IndexLeads
    <2>2. ASSUME NEW id \in Stored
          PROVE  /\ index[accounts[id].path] \in {id, NoId}
                 /\ ~Touched(id)' => index[accounts[id].path] = id
        BY <2>2 DEF IndexInv, IndexLeads
    <2> QED BY <1>1, <2>1, <2>2 DEF IndexLeads
<1>3. ASSUME NEW d \in Calls
      PROVE  Paired(fresh'[d]) /\ Knows(d)'
    <2>1. CASE d = c
        BY <2>1
    <2>2. CASE d # c
        <3>1. IndexLanded(d)' => IndexLanded(d)
            BY <2>2 DEF IndexLanded
        <3>2. AccountLanded(d)' => AccountLanded(d)
            BY <2>2 DEF AccountLanded
        <3>3. Paired(fresh[d]) /\ Knows(d)
            BY DEF IndexInv
        <3>4. /\ pc'[d] = pc[d] /\ req'[d] = req[d] /\ result'[d] = result[d]
              /\ fresh'[d] = fresh[d] /\ indexCopy'[d] = indexCopy[d]
            BY <2>2
        <3>5. WantedPath(d)' = WantedPath(d) /\ Missing(d)' = Missing(d)
            BY <3>4 DEF WantedPath, Missing, WantedPaths
        <3> QED BY <1>1, <3>1, <3>2, <3>3, <3>4, <3>5 DEF Knows
    <2> QED BY <2>1, <2>2
<1>4. ASSUME NEW w \in inflight'
      PROVE  IndexWriteRight(w)'
    <2>1. CASE w \in inflight
        <3>1. w.by \in Calls \ {c}
            BY <2>1, WriteBy DEF Landed
        <3>2. IndexWriteRight(w)
            BY <2>1 DEF IndexInv
        <3> QED BY <3>1, <3>2 DEF IndexWriteRight
    <2> QED BY <2>1
<1>5. \A d \in Calls : (Paired(fresh[d]) /\ Knows(d))'
    BY <1>3
<1> QED BY <1>2, <1>4, <1>5 DEF IndexInv

\* The calls that read or write the index are mutations.
LEMMA KnowsNothing ==
    ASSUME NEW c \in Calls,
           pc[c] \notin {"fetch", "derive", "batch", "reading", "storingAccounts", "storing",
                         "removing", "repairing"}
    PROVE  Knows(c)
BY DEF Knows

\* A step to where a call knows nothing, from where it writes nothing.
LEMMA IndexQuiet ==
    ASSUME TypeInv, IndexInv, NEW c \in Calls, NEW l, Goto(c, l), Landed(c),
           UNCHANGED <<accounts, index, fresh, indexCopy>>,
           \A d \in Calls \ {c} : req'[d] = req[d] /\ result'[d] = result[d],
           pc[c] \notin Inserting \cup {"removing"},
           NEW ws, inflight' = inflight \cup ws, \A w \in ws : w.by = c /\ w.kind = "wallet",
           l \notin {"fetch", "derive", "batch", "reading", "storingAccounts", "storing",
                     "removing", "repairing"}
    PROVE  IndexInv'
<1>1. pc'[c] = l /\ \A d \in Calls \ {c} : pc'[d] = pc[d]
    BY DEF Goto, TypeInv, TypeOK
<1>2. Knows(c)'
    BY <1>1, KnowsNothing DEF Knows
<1>3. \A id : Touched(id) => Touched(id)'
    BY <1>1 DEF Touched
<1>4. \A w \in ws : w.by = c /\ IndexWriteRight(w)'
    BY DEF IndexWriteRight
<1>5. Paired(fresh'[c])
    BY DEF IndexInv
<1>6. \A d \in Calls \ {c} : /\ pc'[d] = pc[d] /\ req'[d] = req[d]
                             /\ result'[d] = result[d] /\ fresh'[d] = fresh[d]
                             /\ indexCopy'[d] = indexCopy[d]
    BY <1>1
<1> QED BY <1>2, <1>3, <1>4, <1>5, <1>6, IndexMove

\* While a mutation is not writing, the index names stored accounts, and, since
\* the path tells the network, the account it names is the one asked for.
LEMMA IndexedIsRequested ==
    ASSUME PathsAreOwn, TypeInv, MutualExclusion, NEW o, IsOrigin(o), IndexInv,
           NEW c \in Calls, pc[c] \in Mutating, pc[c] \notin Inserting \cup {"removing"},
           NEW p \in Paths, index[p] # NoId
    PROVE  /\ index[p] \in Stored /\ accounts[index[p]].path = p
           /\ req[c].net \in Networks /\ (\E s \in Slots : p = PathOf(req[c].net, s))
                  => IsRequested(c, index[p]) /\ ~IsUnusable(c, index[p])
<1>1. index[p] \in Stored
    <2>1. ~Touched(index[p])
        BY TouchedBy
    <2> QED BY <2>1 DEF IndexInv, IndexLeads
<1>2. PICK id \in Stored : id = index[p]
    BY <1>1
<1>3. /\ o[id] \in Origins
      /\ accounts[id].path = o[id].path /\ accounts[id].net = o[id].net
    BY <1>2, StoredOrigin
<1>4. o[id].path = p
    BY <1>2 DEF IsOrigin, StoreIs, IndexIs
<1>5. ASSUME req[c].net \in Networks, NEW s \in Slots, p = PathOf(req[c].net, s)
      PROVE  IsRequested(c, id) /\ ~IsUnusable(c, id)
    <2>1. PICK n \in Networks, t \in Slots : o[id] = [path |-> PathOf(n, t), net |-> n]
        BY <1>3 DEF Origins
    <2>2. CoinType[n] = CoinType[req[c].net]
        BY <1>4, <1>5, <2>1 DEF PathOf
    <2>3. n = req[c].net
        BY <1>5, <2>2 DEF PathsAreOwn
    <2> QED BY <1>3, <2>1, <2>3 DEF IsRequested, IsUnusable, Broken, Stored, Whole
<1> QED BY <1>1, <1>2, <1>3, <1>4, <1>5

\* And where it names none, no account of that path is stored.
LEMMA UnindexedIsFree ==
    ASSUME TypeInv, MutualExclusion, IndexInv,
           NEW c \in Calls, pc[c] \in Mutating, pc[c] \notin Inserting \cup {"removing"},
           NEW p \in Paths, index[p] = NoId
    PROVE  AtPath(p) = {}
<1> SUFFICES ASSUME NEW id \in Stored, accounts[id].path = p PROVE FALSE
    BY DEF AtPath
<1>1. ~Touched(id)
    BY TouchedBy
<1>2. index[p] = id
    BY <1>1 DEF IndexInv, IndexLeads
<1> QED BY <1>2, NullAssumption DEF Stored

LEMMA IndexBegin ==
    ASSUME TypeInv, AccountsInv, IndexInv, NEW c \in Calls, Begin(c) \/ Acquire(c)
    PROVE  IndexInv'
<1> USE DEF store, host, queue, local, ghost
<1>1. PICK l \in {"listing", "loading", "queued", "lookup", "scan", "find"} : Goto(c, l)
    BY DEF Begin, Acquire, Enqueue
<1>2. Landed(c) /\ pc[c] \notin Inserting \cup {"removing"}
    BY NoWriteUnderWay DEF AccountsInv, Begin, Acquire, Writing, Inserting
<1>3. /\ UNCHANGED <<accounts, index, inflight, fresh, result, indexCopy>>
      /\ \A d \in Calls \ {c} : req'[d] = req[d] /\ result'[d] = result[d]
    BY DEF Begin, Acquire, TypeInv, TypeOK
<1>4. PICK none : none = {}
    OBVIOUS
<1>5. inflight' = inflight \cup none /\ \A w \in none : FALSE
    BY <1>3, <1>4
<1> HIDE <1>4
<1> QED BY <1>1, <1>2, <1>3, <1>5, IndexQuiet

LEMMA IndexUpdate ==
    ASSUME TypeInv, AccountsInv, IndexInv, NEW c \in Calls,
           UpdateAccount(c) \/ ChooseIndex(c)
    PROVE  IndexInv'
<1> USE DEF store, host, queue, local, ghost
<1>1. PICK l \in {"failed", "queued", "syncing", "done"} \cup Merging : Goto(c, l)
    BY DEF UpdateAccount, Load, MergeStaged, MergeAcked, MarkAcked, ChooseIndex, Enqueue
<1>2. Landed(c) /\ pc[c] \notin Inserting \cup {"removing"}
    BY NoWriteUnderWay DEF AccountsInv, UpdateAccount, Load, MergeStaged, MergeAcked, MarkAcked, ChooseIndex,
       Writing, Inserting
<1>3. /\ UNCHANGED <<accounts, index, fresh, result, indexCopy>>
      /\ \A d \in Calls \ {c} : req'[d] = req[d] /\ result'[d] = result[d]
    BY DEF UpdateAccount, Load, MergeStaged, MergeAcked, MarkAcked, ChooseIndex, TypeInv, TypeOK
<1>4. PICK ws : /\ inflight' = inflight \cup ws
                /\ \A w \in ws : w.by = c /\ w.kind = "wallet"
    <2>1. CASE UNCHANGED inflight
        <3>1. PICK ws : ws = {}
            OBVIOUS
        <3>2. inflight' = inflight \cup ws /\ \A w \in ws : FALSE
            BY <2>1, <3>1
        <3> QED BY <3>2
    <2>2. CASE inflight' = inflight \cup {StagedWrite(c, req[c].id)}
        <3>1. PICK ws : ws = {StagedWrite(c, req[c].id)}
            OBVIOUS
        <3>2. inflight' = inflight \cup ws /\ \A w \in ws : w.by = c /\ w.kind = "wallet"
            BY <2>2, <3>1 DEF StagedWrite
        <3> QED BY <3>2
    <2>3. CASE \E net \in Networks : inflight' = inflight \cup {InscriptionsWrite(c, net)}
        <3>1. PICK net \in Networks : inflight' = inflight \cup {InscriptionsWrite(c, net)}
            BY <2>3
        <3>2. PICK ws : ws = {InscriptionsWrite(c, net)}
            OBVIOUS
        <3>3. inflight' = inflight \cup ws /\ \A w \in ws : w.by = c /\ w.kind = "wallet"
            BY <3>1, <3>2 DEF InscriptionsWrite
        <3> QED BY <3>3
    <2> QED BY <2>1, <2>2, <2>3
            DEF UpdateAccount, Load, MergeStaged, MergeAcked, MarkAcked, ChooseIndex
<1> QED BY <1>1, <1>2, <1>3, <1>4, IndexQuiet

\* What a call has inserted is stored when its writes have landed.
LEMMA InsertedAreStored ==
    ASSUME TypeInv, MutualExclusion, NEW o, IsOrigin(o), AccountsInv, IndexInv,
           NEW c \in Calls, pc[c] = "storing", Landed(c), NEW id, Touched(id)
    PROVE  id \in Stored /\ index[accounts[id].path] = id
<1>1. pc[c] \in Mutating
    BY DEF Mutating, Writing
<1>2. id \in IdsIn(fresh[c])
    BY <1>1, TouchedBy
<1>3. PICK e \in fresh[c] : e[2] = id
    BY <1>2 DEF IdsIn
<1>4. id \in drawn /\ o[id].path = e[1]
    BY <1>3 DEF IsOrigin, CallIs, EntriesAre
<1>5. ~Pending(id)
    BY <1>1, ResultsNotPending
<1>6. id \notin removed
    BY <1>2 DEF AccountsInv, CallsAreSafe, Inserting
<1>7. id \in Stored
    BY <1>4, <1>5, <1>6 DEF AccountsInv, IdsAreKept
<1>8. index[e[1]] = e[2]
    BY <1>3 DEF IndexInv, Knows, IndexLanded, Landed
<1> QED BY <1>3, <1>4, <1>7, <1>8, StoredOrigin

LEMMA IndexCreate ==
    ASSUME PathsAreOwn, TypeInv, MutualExclusion, NEW o, IsOrigin(o), AccountsInv, IndexInv,
           NEW c \in Calls, Create(c)
    PROVE  IndexInv'
<1> USE DEF store, host, queue, local, ghost
<1>1. PICK none : none = {}
    OBVIOUS
<1>2. (\A w \in none : FALSE) /\ inflight = inflight \cup none
    BY <1>1
<1> HIDE <1>1
<1>3. CASE ChooseIndex(c)
    BY <1>3, IndexUpdate
<1>4. CASE LookupIndex(c)
    <2>1. /\ Landed(c) /\ pc[c] \in Mutating /\ pc[c] \notin Inserting \cup {"removing"}
          /\ pc[c] = "lookup"
        BY <1>4, NoWriteUnderWay DEF AccountsInv, LookupIndex, Writing, Mutating, Awaiting, Inserting
    <2>2. /\ UNCHANGED <<accounts, index, inflight, fresh, req, indexCopy>>
          /\ \A d \in Calls \ {c} : pc'[d] = pc[d] /\ result'[d] = result[d]
        BY <1>4 DEF LookupIndex, Goto, TypeInv, TypeOK
    <2>3. \/ pc'[c] = "derive" /\ index[WantedPath(c)] = NoId
          \/ pc'[c] = "fetch" /\ result'[c] = {<<WantedPath(c), index[WantedPath(c)]>>}
        BY <1>4 DEF LookupIndex, Goto, TypeInv, TypeOK
    <2>4. Knows(c)'
        <3>1. WantedPath(c)' = WantedPath(c)
            BY <2>2 DEF WantedPath
        <3> QED BY <2>2, <2>3, <3>1 DEF Knows
    <2>5. \A id : ~Touched(id)
        BY <2>1, TouchedBy
    <2>6. Paired(fresh'[c])
        BY <2>2 DEF IndexInv
    <2> QED BY <1>2, <2>1, <2>2, <2>4, <2>5, <2>6, IndexMove
<1>5. CASE FetchIndexed(c)
    <2>1. /\ Landed(c) /\ pc[c] \in Mutating /\ pc[c] \notin Inserting \cup {"removing"}
          /\ pc[c] = "fetch"
        BY <1>5, NoWriteUnderWay DEF AccountsInv, FetchIndexed, Writing, Mutating, Awaiting, Inserting
    <2>2. /\ UNCHANGED <<accounts, index, inflight, fresh, req, indexCopy>>
          /\ \A d \in Calls \ {c} : req'[d] = req[d] /\ result'[d] = result[d]
        BY <1>5 DEF FetchIndexed, TypeInv, TypeOK
    <2>3. PICK e \in result[c] :
              IsRequested(c, e[2]) /\ ~IsUnusable(c, e[2]) => Goto(c, "announce")
        BY <1>5 DEF FetchIndexed
    <2>4. e[1] = WantedPath(c) /\ e[2] = index[e[1]] /\ e[1] \in Paths /\ e[2] # NoId
        BY <2>1, NullAssumption DEF IndexInv, Knows, TypeInv, TypeOK
    <2>5. req[c].net \in Networks /\ req[c].slot \in Slots
        BY <2>1 DEF TypeInv, RequestFits, Fits, CreatePCs, CreateRequests
    <2>6. IsRequested(c, e[2]) /\ ~IsUnusable(c, e[2])
        BY <2>1, <2>4, <2>5, IndexedIsRequested DEF WantedPath
    <2> QED BY <1>2, <2>1, <2>2, <2>3, <2>6, IndexQuiet
<1>6. CASE Insert(c)
    <2>1. PICK id \in Ids \ drawn :
              /\ fresh' = [fresh EXCEPT ![c] = {<<WantedPath(c), id>>}]
              /\ inflight' = inflight \cup InsertWrites(c, WantedPath(c), id)
        BY <1>6 DEF Insert
    <2>2. /\ Landed(c) /\ pc[c] \in Mutating /\ pc[c] \notin Inserting \cup {"removing"}
          /\ pc[c] = "derive"
        BY <1>6, NoWriteUnderWay DEF AccountsInv, Insert, Writing, Mutating, Awaiting, Inserting
    <2>3. /\ UNCHANGED <<accounts, index, req, indexCopy>>
          /\ pc'[c] = "storing" /\ fresh'[c] = {<<WantedPath(c), id>>}
          /\ \A d \in Calls \ {c} : /\ pc'[d] = pc[d] /\ result'[d] = result[d]
                                    /\ fresh'[d] = fresh[d]
        BY <1>6, <2>1 DEF Insert, Goto, TypeInv, TypeOK
    <2>4. PICK ws : ws = InsertWrites(c, WantedPath(c), id)
        OBVIOUS
    <2>5. inflight' = inflight \cup ws
        BY <2>1, <2>4
    <2>6. \A w \in ws : w.by = c /\ IndexWriteRight(w)'
        BY <2>3, <2>4 DEF InsertWrites, IndexWriteRight
    <2>7. \E w \in ws : w.by = c /\ w.kind = "index"
        BY <2>4 DEF InsertWrites
    <2> HIDE <2>4
    <2>8. Paired(fresh'[c])
        BY <2>3 DEF Paired
    <2>9. Knows(c)'
        <3>1. index[WantedPath(c)] = NoId
            BY <2>2 DEF IndexInv, Knows
        <3>2. ~IndexLanded(c)'
            BY <2>5, <2>7 DEF IndexLanded
        <3> QED BY <2>3, <3>1, <3>2 DEF Knows
    <2>10. \A id_1 : ~Touched(id_1)
        BY <2>2, TouchedBy
    <2> QED BY <2>2, <2>3, <2>5, <2>6, <2>8, <2>9, <2>10, IndexMove
<1>7. CASE InsertAcked(c)
    <2>1. pc[c] = "storing" /\ Landed(c)
        BY <1>7 DEF InsertAcked, InsertDone
    <2>2. /\ UNCHANGED <<accounts, index, inflight, fresh, result, req, indexCopy>>
          /\ pc'[c] \in {"announce", "done"} /\ \A d \in Calls \ {c} : pc'[d] = pc[d]
        BY <1>7 DEF InsertAcked, Return, Goto, TypeInv, TypeOK
    <2>3. Knows(c)'
        BY <2>2 DEF Knows
    <2>4. \A id : Touched(id) => id \in Stored /\ index[accounts[id].path] = id
        BY <2>1, InsertedAreStored
    <2>5. Paired(fresh'[c])
        BY <2>2 DEF IndexInv
    <2> QED BY <1>2, <2>1, <2>2, <2>3, <2>4, <2>5, IndexMove
<1>8. CASE Announce(c) \/ ScheduleScan(c)
    <2>1. PICK l \in {"done", "schedule", "failed"} : Goto(c, l)
        BY <1>8 DEF Announce, ScheduleScan, Return
    <2>2. Landed(c) /\ pc[c] \notin Inserting \cup {"removing"}
        BY <1>8, NoWriteUnderWay DEF AccountsInv, Announce, ScheduleScan, Writing, Inserting
    <2>3. UNCHANGED <<accounts, index, inflight, fresh, result, req, indexCopy>>
        BY <1>8 DEF Announce, ScheduleScan
    <2> QED BY <1>2, <2>1, <2>2, <2>3, IndexQuiet
<1> QED BY <1>3, <1>4, <1>5, <1>6, <1>7, <1>8 DEF Create

\* getByDerivationPaths finds exactly the accounts that the index names, and has
\* nothing to repair.
LEMMA ScanFindsIndexed ==
    ASSUME PathsAreOwn, TypeInv, MutualExclusion, NEW o, IsOrigin(o), AccountsInv, IndexInv,
           NEW c \in Calls, ScanStore(c)
    PROVE  /\ Goto(c, "batch") /\ UNCHANGED inflight
           /\ \A p \in WantedPaths(c) : index[p] # NoId => \E e \in result'[c] : e[1] = p
<1>1. /\ pc[c] = "scan" /\ pc[c] \in Mutating /\ pc[c] \notin Inserting \cup {"removing"}
      /\ pc[c] \in BatchPCs
    BY DEF ScanStore, Mutating, Awaiting, Inserting, BatchPCs
<1>2. WantedPaths(c) \subseteq Paths /\ req[c].net \in Networks
    BY <1>1, RequestTyped
<1>3. \A p \in WantedPaths(c) : \E s \in Slots : p = PathOf(req[c].net, s)
    <2>1. req[c] \in BatchRequests
        BY <1>1 DEF TypeInv, RequestFits, Fits
    <2> QED BY <2>1, SlotAssumption DEF BatchRequests, WantedPaths
<1>4. PICK found \in [WantedPaths(c) -> Ids \cup {NoId}] :
          /\ \A p \in WantedPaths(c) :
                IF Matches(p) = {} THEN found[p] = NoId ELSE found[p] \in Matches(p)
          /\ LET repaired == {p \in WantedPaths(c) : found[p] # NoId /\ index[p] # found[p]}
                 kept == {p \in WantedPaths(c) : found[p] # NoId /\ IsRequested(c, found[p])}
             IN /\ result' = [result EXCEPT ![c] = {<<p, found[p]>> : p \in kept}]
                /\ \/ /\ repaired = {}
                      /\ Goto(c, "batch")
                      /\ UNCHANGED inflight
                   \/ repaired # {}
    BY DEF ScanStore
<1>5. ASSUME NEW p \in WantedPaths(c)
      PROVE  found[p] = index[p] /\ (index[p] # NoId => IsRequested(c, found[p]))
    <2>1. CASE index[p] # NoId
        <3>1. index[p] \in Stored /\ IsRequested(c, index[p])
            BY <1>1, <1>2, <1>3, <2>1, IndexedIsRequested
        <3>2. Matches(p) = {index[p]}
            BY <2>1, <3>1 DEF Matches, Stored, Whole
        <3> QED BY <1>4, <3>1, <3>2
    <2>2. CASE index[p] = NoId
        <3>1. AtPath(p) = {}
            BY <1>1, <1>2, <2>2, UnindexedIsFree
        <3>2. Matches(p) = {}
            BY <2>2, <3>1 DEF Matches
        <3> QED BY <1>4, <2>2, <3>2
    <2> QED BY <2>1, <2>2
<1>6. Goto(c, "batch") /\ UNCHANGED inflight
    BY <1>4, <1>5
<1>7. ASSUME NEW p \in WantedPaths(c), index[p] # NoId
      PROVE  \E e \in result'[c] : e[1] = p
    <2>1. result'[c] = {<<q, found[q]>> : q \in
                 {r \in WantedPaths(c) : found[r] # NoId /\ IsRequested(c, found[r])}}
        BY <1>4 DEF TypeInv, TypeOK
    <2>2. <<p, found[p]>> \in result'[c]
        BY <1>5, <1>7, <2>1
    <2> QED BY <2>2
<1> QED BY <1>6, <1>7

LEMMA IndexCreateMany ==
    ASSUME PathsAreOwn, TypeInv, MutualExclusion, NEW o, IsOrigin(o), AccountsInv, IndexInv,
           NEW c \in Calls, CreateMany(c)
    PROVE  IndexInv'
<1> USE DEF store, host, queue, local, ghost
<1>1. PICK none : none = {}
    OBVIOUS
<1>2. (\A w \in none : FALSE) /\ inflight = inflight \cup none
    BY <1>1
<1> HIDE <1>1
<1>3. CASE ScanStore(c)
    <2>1. /\ Landed(c) /\ pc[c] \in Mutating /\ pc[c] \notin Inserting \cup {"removing"}
        BY <1>3, NoWriteUnderWay DEF AccountsInv, ScanStore, Writing, Mutating, Awaiting, Inserting
    <2>2. /\ UNCHANGED <<accounts, index, fresh, req, indexCopy>>
          /\ \A d \in Calls \ {c} : result'[d] = result[d]
        BY <1>3 DEF ScanStore, TypeInv, TypeOK
    <2>3. /\ Goto(c, "batch") /\ UNCHANGED inflight
          /\ \A p \in WantedPaths(c) : index[p] # NoId => \E e \in result'[c] : e[1] = p
        BY <1>3, ScanFindsIndexed
    <2>4. pc'[c] = "batch" /\ \A d \in Calls \ {c} : pc'[d] = pc[d]
        BY <2>3 DEF Goto, TypeInv, TypeOK
    <2>5. \A p \in Missing(c)' : index[p] = NoId
        BY <2>2, <2>3 DEF Missing, WantedPaths
    <2>6. Knows(c)'
        BY <2>2, <2>4, <2>5 DEF Knows
    <2>7. \A id : ~Touched(id)
        BY <2>1, TouchedBy
    <2>8. Paired(fresh'[c])
        BY <2>2 DEF IndexInv
    <2> QED BY <1>2, <2>1, <2>2, <2>3, <2>4, <2>6, <2>7, <2>8, IndexMove
<1>4. CASE ScanBroken(c)
    <2>1. Landed(c) /\ pc[c] \notin Inserting \cup {"removing"} /\ Goto(c, "failed")
        BY <1>4, NoWriteUnderWay DEF AccountsInv, ScanBroken, Return, Writing, Inserting
    <2>2. UNCHANGED <<accounts, index, inflight, fresh, result, req, indexCopy>>
        BY <1>4 DEF ScanBroken
    <2> QED BY <1>2, <2>1, <2>2, IndexQuiet
<1>5. CASE Repaired(c)
    BY <1>5 DEF Repaired, IndexInv, Knows
<1>6. CASE InsertBatch(c)
    <2>1. /\ Landed(c) /\ pc[c] \in Mutating /\ pc[c] \notin Inserting \cup {"removing"}
          /\ pc[c] = "batch"
        BY <1>6, NoWriteUnderWay DEF AccountsInv, InsertBatch, Writing, Mutating, Awaiting, Inserting
    <2>2. CASE Missing(c) = {}
        <3>1. Goto(c, "done") /\ UNCHANGED <<accounts, index, inflight, fresh, result, req, indexCopy>>
            BY <1>6, <2>2 DEF InsertBatch, Return
        <3> QED BY <1>2, <2>1, <3>1, IndexQuiet
    <2>3. CASE Missing(c) # {}
        <3>1. PICK id \in [Missing(c) -> Ids \ drawn] :
                  /\ \A p, q \in Missing(c) : p # q => id[p] # id[q]
                  /\ fresh' = [fresh EXCEPT ![c] = {<<p, id[p]>> : p \in Missing(c)}]
                  /\ result' = [result EXCEPT ![c] = @ \cup {<<p, id[p]>> : p \in Missing(c)}]
                  /\ \/ /\ \E p \in Missing(c) :
                              /\ Missing(c) = {p}
                              /\ inflight' = inflight \cup InsertWrites(c, p, id[p])
                        /\ Goto(c, "storing")
                     \/ /\ Goto(c, "reading")
                        /\ UNCHANGED inflight
            BY <1>6, <2>3 DEF InsertBatch
        <3>2. /\ UNCHANGED <<accounts, index, req, indexCopy>>
              /\ fresh'[c] = {<<p, id[p]>> : p \in Missing(c)}
              /\ \A d \in Calls \ {c} : result'[d] = result[d] /\ fresh'[d] = fresh[d]
            BY <1>6, <3>1 DEF InsertBatch, TypeInv, TypeOK
        <3>3. Paired(fresh'[c])
            BY <3>1, <3>2 DEF Paired
        <3>4. \A e \in fresh'[c] : index[e[1]] = NoId
            BY <2>1, <3>2 DEF IndexInv, Knows
        <3>5. \A x : ~Touched(x)
            BY <2>1, TouchedBy
        <3>6. CASE Goto(c, "reading") /\ UNCHANGED inflight
            <4>1. pc'[c] = "reading" /\ \A d \in Calls \ {c} : pc'[d] = pc[d]
                BY <3>6 DEF Goto, TypeInv, TypeOK
            <4>2. Knows(c)'
                BY <3>2, <3>4, <4>1 DEF Knows
            <4> QED BY <1>2, <2>1, <3>2, <3>3, <3>5, <3>6, <4>1, <4>2, IndexMove
        <3>7. CASE /\ \E p \in Missing(c) :
                         /\ Missing(c) = {p}
                         /\ inflight' = inflight \cup InsertWrites(c, p, id[p])
                   /\ Goto(c, "storing")
            <4>1. pc'[c] = "storing" /\ \A d \in Calls \ {c} : pc'[d] = pc[d]
                BY <3>7 DEF Goto, TypeInv, TypeOK
            <4>2. PICK p \in Missing(c) :
                         /\ Missing(c) = {p}
                         /\ inflight' = inflight \cup InsertWrites(c, p, id[p])
                BY <3>7
            <4>3. fresh'[c] = {<<p, id[p]>>}
                BY <3>2, <4>2
            <4>4. PICK ws : ws = InsertWrites(c, p, id[p])
                OBVIOUS
            <4>5. inflight' = inflight \cup ws
                BY <4>2, <4>4
            <4>6. \A w \in ws : w.by = c /\ IndexWriteRight(w)'
                BY <4>1, <4>3, <4>4 DEF InsertWrites, IndexWriteRight
            <4>7. \E w \in ws : w.by = c /\ w.kind = "index"
                BY <4>4 DEF InsertWrites
            <4> HIDE <4>4
            <4>8. ~IndexLanded(c)'
                BY <4>5, <4>7 DEF IndexLanded
            <4>9. Knows(c)'
                BY <3>2, <3>4, <4>1, <4>8 DEF Knows
            <4> QED BY <2>1, <3>2, <3>3, <3>5, <4>1, <4>5, <4>6, <4>9, IndexMove
        <3> QED BY <3>1, <3>6, <3>7
    <2> QED BY <2>2, <2>3
<1>7. CASE ReadStore(c)
    <2>1. /\ Landed(c) /\ pc[c] \in Mutating /\ pc[c] \notin Inserting \cup {"removing"}
          /\ pc[c] = "reading"
        BY <1>7, NoWriteUnderWay DEF AccountsInv, ReadStore, Writing, Mutating, Awaiting, Inserting
    <2>2. /\ UNCHANGED <<accounts, index, req, result, fresh>>
          /\ pc'[c] = "storingAccounts" /\ indexCopy'[c] = index
          /\ \A d \in Calls \ {c} : pc'[d] = pc[d] /\ indexCopy'[d] = indexCopy[d]
        BY <1>7 DEF ReadStore, Goto, TypeInv, TypeOK
    <2>3. PICK ws : ws = {[kind |-> "accounts", by |-> c, accounts |-> AccountsWith(c)]}
        OBVIOUS
    <2>4. inflight' = inflight \cup ws
        BY <1>7, <2>3 DEF ReadStore
    <2>5. \A w \in ws : w.by = c /\ IndexWriteRight(w)'
        BY <2>3 DEF IndexWriteRight
    <2> HIDE <2>3
    <2>6. Paired(fresh'[c]) /\ \A e \in fresh[c] : index[e[1]] = NoId
        BY <2>1, <2>2 DEF IndexInv, Knows
    <2>7. Knows(c)'
        BY <2>2, <2>6 DEF Knows
    <2>8. \A id : ~Touched(id)
        BY <2>1, TouchedBy
    <2> QED BY <2>1, <2>2, <2>4, <2>5, <2>6, <2>7, <2>8, IndexMove
<1>8. CASE WriteIndexes(c)
    <2>1. Landed(c) /\ pc[c] = "storingAccounts"
        BY <1>8 DEF WriteIndexes
    <2>2. /\ UNCHANGED <<accounts, index, req, result, fresh, indexCopy>>
          /\ pc'[c] = "storing" /\ \A d \in Calls \ {c} : pc'[d] = pc[d]
        BY <1>8 DEF WriteIndexes, Goto, TypeInv, TypeOK
    <2>3. PICK ws : ws = {[kind |-> "indexes", by |-> c, index |-> IndexWith(c)]}
        OBVIOUS
    <2>4. inflight' = inflight \cup ws
        BY <1>8, <2>3 DEF WriteIndexes
    <2>5. Paired(fresh'[c]) /\ (\A e \in fresh[c] : index[e[1]] = NoId) /\ indexCopy[c] = index
        BY <2>1, <2>2 DEF IndexInv, Knows
    <2>6. \A p \in Paths :
              \/ \E e \in fresh[c] : e[1] = p /\ IndexWith(c)[p] = e[2]
              \/ IndexWith(c)[p] = index[p] /\ \A e \in fresh[c] : e[1] # p
        <3> SUFFICES ASSUME NEW p \in Paths
                     PROVE  \/ \E e \in fresh[c] : e[1] = p /\ IndexWith(c)[p] = e[2]
                            \/ IndexWith(c)[p] = index[p] /\ \A e \in fresh[c] : e[1] # p
            OBVIOUS
        <3>1. IndexWith(c)[p] = IF \E e \in fresh[c] : e[1] = p
                                THEN (CHOOSE e \in fresh[c] : e[1] = p)[2] ELSE index[p]
            BY <2>5 DEF IndexWith
        <3> QED BY <3>1
    <2>7. \A w \in ws : /\ w.by = c /\ IndexWriteRight(w)'
                        /\ w.kind = "indexes"
        BY <2>2, <2>3, <2>6 DEF IndexWriteRight
    <2>8. \E w \in ws : w.by = c /\ w.kind = "indexes"
        BY <2>3
    <2> HIDE <2>3
    <2>9. ~IndexLanded(c)'
        BY <2>4, <2>8 DEF IndexLanded
    <2>10. Knows(c)'
        BY <2>2, <2>5, <2>9 DEF Knows
    <2>11. \A id : Touched(id) => Touched(id)'
        BY <2>1, <2>2 DEF Touched, Inserting
    <2> QED BY <2>1, <2>2, <2>4, <2>5, <2>7, <2>10, <2>11, IndexMove
<1> QED BY <1>3, <1>4, <1>5, <1>6, <1>7, <1>8 DEF CreateMany

LEMMA IndexDelete ==
    ASSUME TypeInv, MutualExclusion, NEW o, IsOrigin(o), AccountsInv, IndexInv,
           NEW c \in Calls, Delete(c)
    PROVE  IndexInv'
<1> USE DEF store, host, queue, local, ghost
<1>1. PICK none : none = {}
    OBVIOUS
<1>2. (\A w \in none : FALSE) /\ inflight = inflight \cup none
    BY <1>1
<1> HIDE <1>1
<1>3. UNCHANGED <<accounts, index, fresh, req, result, indexCopy>> /\ pc[c] \notin Inserting
    BY DEF Delete, FindAccount, Retract, Remove, RemoveAcked, Inserting
<1>4. Landed(c) /\ pc[c] \in Mutating
    BY NoWriteUnderWay DEF AccountsInv, Delete, FindAccount, Retract, Remove, RemoveAcked,
       Writing, Mutating, Awaiting
<1>5. CASE \E l \in {"retract", "failed", "remove", "done"} :
              Goto(c, l) /\ UNCHANGED inflight /\ pc[c] # "removing"
    BY <1>2, <1>3, <1>4, <1>5, IndexQuiet
<1>6. CASE /\ pc[c] = "remove" /\ Whole(req[c].id) /\ Goto(c, "removing")
           /\ inflight' = inflight \cup RemoveWrites(c, req[c].id)
    <2>1. PICK id : id = req[c].id
        OBVIOUS
    <2>2. id \in Stored
        BY <1>6, <2>1, RequestTyped DEF Stored, DeletePCs
    <2>3. pc'[c] = "removing" /\ \A d \in Calls \ {c} : pc'[d] = pc[d]
        BY <1>6 DEF Goto, TypeInv, TypeOK
    <2>4. PICK ws : ws = RemoveWrites(c, id)
        OBVIOUS
    <2>5. inflight' = inflight \cup ws
        BY <1>6, <2>1, <2>4
    <2>6. /\ index[accounts[id].path] \in {id, NoId}
          /\ \A p \in Paths : index[p] = id => p = accounts[id].path
        <3>1. accounts[id].path = o[id].path
            BY <2>2, StoredOrigin
        <3>2. id # NoId
            BY <2>2, NullAssumption DEF Stored
        <3>3. \A p \in Paths : index[p] = id => o[id].path = p
            BY <3>2 DEF IsOrigin, StoreIs, IndexIs
        <3> QED BY <2>2, <3>1, <3>3 DEF IndexInv, IndexLeads
    <2>7. \A w \in ws : w.by = c /\ IndexWriteRight(w)'
        BY <1>3, <2>1, <2>3, <2>4, <2>6 DEF RemoveWrites, IndexWriteRight
    <2>8. (\E w \in ws : w.by = c /\ w.kind = "index") /\ \E w \in ws : w.by = c /\ w.kind = "account"
        BY <2>4 DEF RemoveWrites
    <2> HIDE <2>4
    <2>9. ~IndexLanded(c)' /\ ~AccountLanded(c)'
        BY <2>5, <2>8 DEF IndexLanded, AccountLanded
    <2>10. Knows(c)'
        BY <2>3, <2>9 DEF Knows
    <2>11. \A x : ~Touched(x)
        BY <1>3, <1>4, <1>6, TouchedBy
    <2>12. Paired(fresh'[c])
        BY <1>3 DEF IndexInv
    <2> QED BY <1>3, <1>4, <2>3, <2>5, <2>7, <2>10, <2>11, <2>12, IndexMove
<1>7. CASE RemoveAcked(c)
    <2>1. pc[c] = "removing" /\ UNCHANGED inflight
        BY <1>7 DEF RemoveAcked
    <2>2. pc'[c] = "done" /\ \A d \in Calls \ {c} : pc'[d] = pc[d]
        BY <1>7 DEF RemoveAcked, Return, Goto, TypeInv, TypeOK
    <2>3. Knows(c)'
        BY <2>2 DEF Knows
    <2>4. \A id : Touched(id) => id = req[c].id
        BY <1>3, <1>4, TouchedBy
    <2>5. req[c].id \notin Stored /\ \A p \in Paths : index[p] # req[c].id
        BY <1>4, <2>1 DEF IndexInv, Knows, IndexLanded, AccountLanded, Landed
    <2>6. Paired(fresh'[c])
        BY <1>3 DEF IndexInv
    <2> QED BY <1>2, <1>3, <1>4, <2>1, <2>2, <2>3, <2>4, <2>5, <2>6, IndexMove
<1> QED BY <1>5, <1>6, <1>7 DEF Delete, FindAccount, Retract, Remove, RemoveAcked, Return

\* A write of the index lands.
LEMMA IndexLandIndex ==
    ASSUME TypeInv, MutualExclusion, NEW o, IsOrigin(o), AccountsInv, IndexInv,
           NEW w \in inflight, w.kind \in {"index", "indexes"}, Land(w)
    PROVE  IndexInv'
<1> USE DEF store, host, queue, local, ghost
<1>1. PICK c \in Calls : c = w.by
    BY WriteBy
<1>2. /\ w.kind = "index" => pc[c] \in {"storing", "removing"}
      /\ w.kind = "indexes" => pc[c] = "storing"
    BY <1>1 DEF AccountsInv, WritesAreHeld, IndexInv, Knows
<1>3. pc[c] \in Mutating
    BY <1>2 DEF Mutating, Writing
<1>4. /\ inflight' = inflight \ {w}
      /\ UNCHANGED <<accounts, pc, req, result, fresh, indexCopy>>
    BY DEF Land
<1>5. Stored' = Stored /\ \A id : Touched(id)' <=> Touched(id)
    BY <1>4 DEF Stored, Whole, Touched
<1>6. IndexWriteRight(w) /\ Paired(fresh[c]) /\ Knows(c)
    BY DEF IndexInv
<1>7. w \in Writes /\ index \in [Paths -> Ids \cup {NoId}]
    BY DEF TypeInv, TypeOK
<1>8. \/ /\ pc[c] = "storing"
         /\ \A p \in Paths : \/ \E e \in fresh[c] : e[1] = p /\ index'[p] = e[2]
                             \/ index'[p] = index[p] /\ \A e \in fresh[c] : e[1] # p
      \/ /\ pc[c] = "removing" /\ w.kind = "index"
         /\ \A p \in Paths : index'[p] = IF p = w.path THEN NoId ELSE index[p]
    <2>1. CASE w.kind = "index"
        <3>1. w.path \in Paths
            BY <1>7, <2>1 DEF Writes, IndexWrite, AccountWrite, WalletWrite, IndexesWrite,
                              AccountsWrite
        <3>2. \A p \in Paths : index'[p] = IF p = w.path THEN w.id ELSE index[p]
            BY <1>7, <2>1, <3>1 DEF Land
        <3>3. CASE pc[c] = "storing"
            <4>1. fresh[c] = {<<w.path, w.id>>}
                BY <1>1, <1>6, <2>1, <3>3 DEF IndexWriteRight
            <4> QED BY <3>2, <3>3, <4>1
        <3>4. CASE pc[c] = "removing"
            <4>1. w.id = NoId
                BY <1>1, <1>6, <2>1, <3>4 DEF IndexWriteRight
            <4> QED BY <2>1, <3>2, <3>4, <4>1
        <3> QED BY <1>2, <2>1, <3>3, <3>4
    <2>2. CASE w.kind = "indexes"
        <3>1. index' = w.index
            BY <2>2 DEF Land
        <3> QED BY <1>1, <1>2, <1>6, <2>2, <3>1 DEF IndexWriteRight
    <2> QED BY <2>1, <2>2
<1>9. \A d \in Calls : pc[d] \in Mutating => d = c
    BY <1>3 DEF MutualExclusion
<1>10. \A d \in Calls \ {c} : Knows(d)'
    BY <1>4, <1>9 DEF Knows, Mutating, Awaiting, Writing
<1>11. \A v \in inflight' : v.kind \in {"index", "indexes"} =>
           v.by = c /\ IndexWriteRight(v) /\ (v.kind = "indexes" => pc[c] = "storing")
    <2> SUFFICES ASSUME NEW v \in inflight, v.kind \in {"index", "indexes"}
                 PROVE  v.by = c /\ IndexWriteRight(v) /\ (v.kind = "indexes" => pc[c] = "storing")
        BY <1>4
    <2>1. IndexWriteRight(v) /\ v.by \in Calls
        BY WriteBy DEF IndexInv
    <2>2. pc[v.by] \in Mutating /\ (v.kind = "indexes" => pc[v.by] = "storing")
        BY <2>1 DEF AccountsInv, WritesAreHeld, IndexInv, Knows, Mutating, Writing
    <2> QED BY <1>9, <2>1, <2>2
<1>12. CASE /\ pc[c] = "storing"
            /\ \A p \in Paths : \/ \E e \in fresh[c] : e[1] = p /\ index'[p] = e[2]
                                \/ index'[p] = index[p] /\ \A e \in fresh[c] : e[1] # p
    <2>1. \A e \in fresh[c] : index[e[1]] \in {NoId, e[2]} /\ e[1] \in Paths /\ e[2] \in Ids
        BY <1>6, <1>12 DEF Knows, TypeInv, TypeOK
    <2>2. \A e \in fresh[c] : Touched(e[2])
        BY <1>12 DEF Touched, Inserting, IdsIn
    <2>3. \A e \in fresh[c] : index'[e[1]] = e[2]
        BY <1>6, <1>12, <2>1 DEF Paired
    <2>4. \A id \in Stored : Touched(id) => \E e \in fresh[c] : e[2] = id /\ e[1] = accounts[id].path
        <3> SUFFICES ASSUME NEW id \in Stored, Touched(id)
                     PROVE  \E e \in fresh[c] : e[2] = id /\ e[1] = accounts[id].path
            OBVIOUS
        <3>1. PICK e \in fresh[c] : e[2] = id
            BY <1>3, <1>12, TouchedBy DEF IdsIn
        <3>2. o[id].path = e[1]
            BY <3>1 DEF IsOrigin, CallIs, EntriesAre
        <3> QED BY <3>1, <3>2, StoredOrigin
    <2>5. IndexLeads'
        <3>1. ASSUME NEW p \in Paths, index'[p] # NoId
              PROVE  index'[p] \in Stored \/ Touched(index'[p])
            BY <1>12, <2>2, <3>1 DEF IndexInv, IndexLeads
        <3>2. ASSUME NEW id \in Stored
              PROVE  /\ index'[accounts[id].path] \in {id, NoId}
                     /\ ~Touched(id) => index'[accounts[id].path] = id
            <4>1. accounts[id].path \in Paths /\ id # NoId
                BY StoredOrigin, OriginPath, NullAssumption DEF Stored
            <4>2. CASE Touched(id)
                BY <2>3, <2>4, <4>2
            <4>3. CASE ~Touched(id)
                <5>1. index[accounts[id].path] = id
                    BY <4>3 DEF IndexInv, IndexLeads
                <5>2. \A e \in fresh[c] : e[1] # accounts[id].path
                    BY <2>1, <2>2, <4>1, <4>3, <5>1
                <5> QED BY <1>12, <4>1, <4>3, <5>1, <5>2
            <4> QED BY <4>2, <4>3
        <3> QED BY <1>4, <1>5, <3>1, <3>2 DEF IndexLeads
    <2>6. Knows(c)'
        BY <1>4, <1>12, <2>3 DEF Knows
    <2>7. ASSUME NEW v \in inflight'
          PROVE  IndexWriteRight(v)'
        <3>1. CASE v.kind = "index"
            BY <1>4, <1>11, <1>12, <3>1 DEF IndexWriteRight
        <3>2. CASE v.kind = "indexes"
            <4>1. v.by = c /\ IndexWriteRight(v)
                BY <1>11, <3>2
            <4>2. ASSUME NEW p \in Paths
                  PROVE  \/ \E e \in fresh[c] : e[1] = p /\ v.index[p] = e[2]
                         \/ v.index[p] = index'[p] /\ \A e \in fresh[c] : e[1] # p
                <5>1. \/ \E e \in fresh[c] : e[1] = p /\ v.index[p] = e[2]
                      \/ v.index[p] = index[p] /\ \A e \in fresh[c] : e[1] # p
                    BY <3>2, <4>1 DEF IndexWriteRight
                <5> QED BY <1>12, <5>1
            <4> QED BY <1>4, <3>2, <4>1, <4>2 DEF IndexWriteRight
        <3>3. CASE v.kind \notin {"index", "indexes"}
            BY <3>3 DEF IndexWriteRight
        <3> QED BY <3>1, <3>2, <3>3
    <2>8. \A d \in Calls : (Paired(fresh[d]) /\ Knows(d))'
        BY <1>4, <1>10, <2>6 DEF IndexInv
    <2> QED BY <2>5, <2>7, <2>8 DEF IndexInv
<1>13. CASE /\ pc[c] = "removing" /\ w.kind = "index"
            /\ \A p \in Paths : index'[p] = IF p = w.path THEN NoId ELSE index[p]
    <2>1. /\ index[w.path] \in {req[c].id, NoId}
          /\ \A p \in Paths : index[p] = req[c].id => p = w.path
        BY <1>1, <1>6, <1>13 DEF IndexWriteRight
    <2>2. \A id : Touched(id) <=> id = req[c].id
        BY <1>3, <1>13, TouchedBy DEF Touched, Inserting
    <2>3. req[c].id # NoId
        BY <1>13, RequestTyped, NullAssumption DEF DeletePCs
    <2>4. \A p \in Paths : index'[p] # req[c].id
        BY <1>13, <2>1, <2>3
    <2>5. IndexLeads'
        <3>1. ASSUME NEW p \in Paths, index'[p] # NoId
              PROVE  index'[p] \in Stored \/ Touched(index'[p])
            BY <1>13, <3>1 DEF IndexInv, IndexLeads
        <3>2. ASSUME NEW id \in Stored
              PROVE  /\ index'[accounts[id].path] \in {id, NoId}
                     /\ ~Touched(id) => index'[accounts[id].path] = id
            <4>1. accounts[id].path \in Paths /\ id # NoId
                BY StoredOrigin, OriginPath, NullAssumption DEF Stored
            <4>2. /\ index[accounts[id].path] \in {id, NoId}
                  /\ ~Touched(id) => index[accounts[id].path] = id
                BY DEF IndexInv, IndexLeads
            <4>3. ~Touched(id) => accounts[id].path # w.path
                BY <2>1, <2>2, <4>1, <4>2
            <4> QED BY <1>13, <4>1, <4>2, <4>3
        <3> QED BY <1>4, <1>5, <3>1, <3>2 DEF IndexLeads
    <2>6. Knows(c)'
        <3>1. AccountLanded(c)' => AccountLanded(c)
            BY <1>4, <1>13 DEF AccountLanded
        <3> QED BY <1>4, <1>5, <1>6, <1>13, <2>4, <3>1 DEF Knows
    <2>7. ASSUME NEW v \in inflight'
          PROVE  IndexWriteRight(v)'
        <3>1. CASE v.kind = "index"
            <4>1. v.by = c /\ IndexWriteRight(v) /\ v.path \in Paths
                BY <1>4, <1>11, <3>1 DEF TypeInv, TypeOK, Writes, IndexWrite, AccountWrite,
                   WalletWrite, IndexesWrite, AccountsWrite
            <4>2. v.id = NoId /\ index[v.path] \in {req[c].id, NoId}
                BY <1>13, <3>1, <4>1 DEF IndexWriteRight
            <4>3. index'[v.path] \in {req[c].id, NoId}
                BY <1>13, <4>1, <4>2
            <4> QED BY <1>4, <1>13, <2>4, <3>1, <4>1, <4>2, <4>3 DEF IndexWriteRight
        <3>2. CASE v.kind # "index"
            BY <1>11, <1>13, <3>2 DEF IndexWriteRight
        <3> QED BY <3>1, <3>2
    <2>8. \A d \in Calls : (Paired(fresh[d]) /\ Knows(d))'
        BY <1>4, <1>10, <2>6 DEF IndexInv
    <2> QED BY <2>5, <2>7, <2>8 DEF IndexInv
<1> QED BY <1>8, <1>12, <1>13

\* Any other write lands: it may store accounts that are being inserted, or take
\* away one that is being removed.
LEMMA IndexLandOther ==
    ASSUME TypeInv, IndexInv, NEW w \in inflight, w.kind \notin {"index", "indexes"},
           inflight' = inflight \ {w}, UNCHANGED <<index, req, result, fresh, indexCopy>>,
           \A d \in Calls : pc'[d] = pc[d] \/ (pc[d] \in Merging /\ pc'[d] = "failed"),
           \A id \in Stored' \cap Stored : accounts'[id].path = accounts[id].path,
           \A id \in Stored' \ Stored :
               Touched(id) /\ index[accounts'[id].path] \in {id, NoId},
           \A id \in Stored \ Stored' : Touched(id),
           \A c \in Calls : pc[c] = "removing" /\ AccountLanded(c)' => req[c].id \notin Stored'
    PROVE  IndexInv'
<1>1. \A id : Touched(id)' <=> Touched(id)
    BY DEF Touched, Inserting
<1>2. IndexLeads'
    <2>1. ASSUME NEW p \in Paths, index[p] # NoId
          PROVE  index[p] \in Stored' \/ Touched(index[p])
        BY <2>1 DEF IndexInv, IndexLeads
    <2>2. ASSUME NEW id \in Stored'
          PROVE  /\ index[accounts'[id].path] \in {id, NoId}
                 /\ ~Touched(id) => index[accounts'[id].path] = id
        <3>1. CASE id \in Stored
            BY <3>1 DEF IndexInv, IndexLeads
        <3>2. CASE id \notin Stored
            BY <3>2
        <3> QED BY <3>1, <3>2
    <2> QED BY <1>1, <2>1, <2>2 DEF IndexLeads
<1>3. ASSUME NEW d \in Calls
      PROVE  Paired(fresh'[d]) /\ Knows(d)'
    <2>1. IndexLanded(d)' => IndexLanded(d)
        BY DEF IndexLanded
    <2>2. Paired(fresh[d]) /\ Knows(d)
        BY DEF IndexInv
    <2>3. WantedPath(d)' = WantedPath(d) /\ Missing(d)' = Missing(d)
        BY DEF WantedPath, Missing, WantedPaths
    <2>4. CASE pc'[d] = pc[d]
        BY <2>1, <2>2, <2>3, <2>4 DEF Knows
    <2>5. CASE pc'[d] = "failed"
        BY <2>2, <2>5 DEF Knows
    <2> QED BY <2>2, <2>4, <2>5
<1>4. ASSUME NEW v \in inflight'
      PROVE  IndexWriteRight(v)'
    <2>1. IndexWriteRight(v) /\ v.by \in Calls
        BY WriteBy DEF IndexInv
    <2>2. /\ pc'[v.by] = "storing" => pc[v.by] = "storing"
          /\ pc'[v.by] = "removing" => pc[v.by] = "removing"
        BY <2>1
    <2> QED BY <2>1, <2>2 DEF IndexWriteRight
<1>5. \A d \in Calls : (Paired(fresh[d]) /\ Knows(d))'
    BY <1>3
<1> QED BY <1>2, <1>4, <1>5 DEF IndexInv

LEMMA IndexLand ==
    ASSUME TypeInv, MutualExclusion, NEW o, IsOrigin(o), AccountsInv, IndexInv,
           NEW w \in inflight, Land(w)
    PROVE  IndexInv'
<1> USE DEF store, host, queue, local, ghost
<1>1. PICK c \in Calls : c = w.by
    BY WriteBy
<1>2. /\ inflight' = inflight \ {w}
      /\ UNCHANGED <<req, result, fresh, indexCopy>>
    BY DEF Land
<1>3. w \in Writes /\ accounts \in [Ids -> Account \cup {NoAccount}]
    BY DEF TypeInv, TypeOK
<1>4. Paired(fresh[c]) /\ Knows(c)
    BY DEF IndexInv
<1>5. \A d \in Calls : pc[c] \in Mutating /\ pc[d] \in Mutating => d = c
    BY DEF MutualExclusion
<1>6. CASE w.kind \in {"index", "indexes"}
    BY <1>6, IndexLandIndex
<1>7. CASE w.kind = "account"
    <2>1. UNCHANGED <<pc, index>> /\ accounts' = [accounts EXCEPT ![w.id] = w.account]
        BY <1>7 DEF Land
    <2>2. w.id \in Ids
        BY <1>3, <1>7 DEF Writes, IndexWrite, AccountWrite, WalletWrite, IndexesWrite,
                          AccountsWrite
    <2>3. \A id \in Ids : accounts'[id] = IF id = w.id THEN w.account ELSE accounts[id]
        BY <1>3, <2>1, <2>2
    <2>4. pc[c] \in {"storing", "removing"} /\ pc[c] \in Mutating
        BY <1>1, <1>7 DEF AccountsInv, WritesAreHeld, Mutating, Writing
    <2>5. CASE pc[c] = "storing"
        <3>1. IdsIn(fresh[c]) = {w.id} /\ w.account # NoAccount /\ w.account.path # NoPath
            BY <1>1, <1>7, <2>5 DEF AccountsInv, AccountWritesRight
        <3>2. PICK e \in fresh[c] : e[2] = w.id
            BY <3>1 DEF IdsIn
        <3>3. w.account.path = e[1]
            BY <1>7, <3>1, <3>2 DEF IsOrigin, StoreIs, WriteIs, RecordIs, CallIs, EntriesAre
        <3>4. Touched(w.id) /\ index[w.account.path] \in {w.id, NoId}
            BY <1>4, <2>5, <3>1, <3>2, <3>3 DEF Knows, Touched, Inserting
        <3>5. Stored' = Stored \cup {w.id}
            BY <2>2, <2>3, <3>1 DEF Stored, Whole
        <3>6. \A id \in Stored \cap Stored' : accounts'[id].path = accounts[id].path
            <4>1. w.id \in Stored => accounts[w.id].path = e[1]
                BY <3>2, StoredOrigin DEF IsOrigin, CallIs, EntriesAre
            <4> QED BY <2>3, <3>3, <4>1 DEF Stored
        <3>7. \A d \in Calls : pc[d] # "removing"
            BY <1>5, <2>4, <2>5 DEF Mutating, Writing
        <3>8. \A id \in Stored' \ Stored :
                  Touched(id) /\ index[accounts'[id].path] \in {id, NoId}
            BY <2>2, <2>3, <3>4, <3>5
        <3>9. \A d \in Calls : pc'[d] = pc[d] \/ (pc[d] \in Merging /\ pc'[d] = "failed")
            BY <2>1
        <3> QED BY <1>2, <1>7, <2>1, <3>5, <3>6, <3>7, <3>8, <3>9, IndexLandOther
    <2>6. CASE pc[c] = "removing"
        <3>1. w.id = req[c].id /\ w.account = NoAccount
            BY <1>1, <1>7, <2>6 DEF AccountsInv, AccountWritesRight
        <3>2. Stored' = Stored \ {w.id}
            BY <2>2, <2>3, <3>1 DEF Stored, Whole
        <3>3. Touched(w.id)
            BY <2>6, <3>1 DEF Touched
        <3>4. \A id \in Stored' : accounts'[id].path = accounts[id].path
            BY <2>3, <3>2 DEF Stored
        <3>5. \A d \in Calls : pc[d] = "removing" => req[d].id \notin Stored'
            BY <1>5, <2>4, <3>1, <3>2 DEF Mutating, Writing
        <3>6. \A d \in Calls : pc'[d] = pc[d] \/ (pc[d] \in Merging /\ pc'[d] = "failed")
            BY <2>1
        <3> QED BY <1>2, <1>7, <2>1, <3>2, <3>3, <3>4, <3>5, <3>6, IndexLandOther
    <2> QED BY <2>4, <2>5, <2>6
<1>8. CASE w.kind = "accounts"
    <2>1. UNCHANGED <<pc, index>> /\ accounts' = w.accounts
        BY <1>8 DEF Land
    <2>2. pc[c] = "storingAccounts" /\ pc[c] \in Mutating
        BY <1>1, <1>8 DEF AccountsInv, WritesAreHeld, Mutating, Writing
    <2>3. \A id \in Ids : w.accounts[id] # NoAccount /\ w.accounts[id].path # NoPath
              <=> id \in Stored \cup IdsIn(fresh[c])
        BY <1>1, <1>8 DEF AccountsInv, AccountWritesRight
    <2>4. IdsIn(fresh[c]) \subseteq Ids
        BY DEF TypeInv, TypeOK, IdsIn
    <2>5. Stored' = Stored \cup IdsIn(fresh[c])
        BY <2>1, <2>3, <2>4 DEF Stored, Whole
    <2>6. \A id \in Stored' : accounts'[id].path = o[id].path
        BY <1>8, <2>1 DEF Stored, Whole, IsOrigin, StoreIs, WriteIs, RecordIs
    <2>7. \A id \in Stored \cap Stored' : accounts'[id].path = accounts[id].path
        BY <2>6, StoredOrigin
    <2>8. \A id \in Stored' \ Stored : Touched(id) /\ index[accounts'[id].path] \in {id, NoId}
        <3> SUFFICES ASSUME NEW id \in Stored' \ Stored
                     PROVE  Touched(id) /\ index[accounts'[id].path] \in {id, NoId}
            OBVIOUS
        <3>1. PICK e \in fresh[c] : e[2] = id
            BY <2>5 DEF IdsIn
        <3>2. o[id].path = e[1] /\ index[e[1]] = NoId
            BY <1>4, <2>2, <3>1 DEF IsOrigin, CallIs, EntriesAre, Knows
        <3>3. Touched(id)
            BY <2>2, <3>1 DEF Touched, Inserting, IdsIn
        <3> QED BY <2>6, <3>2, <3>3
    <2>9. \A d \in Calls : pc[d] # "removing"
        BY <1>5, <2>2 DEF Mutating, Writing
    <2>10. \A d \in Calls : pc'[d] = pc[d] \/ (pc[d] \in Merging /\ pc'[d] = "failed")
        BY <2>1
    <2> QED BY <1>2, <1>8, <2>1, <2>5, <2>7, <2>8, <2>9, <2>10, IndexLandOther
<1>9. CASE w.kind = "wallet"
    <2>1. LandWallet(w) /\ UNCHANGED index
        BY <1>9 DEF Land
    <2>2. w.id \in Ids
        BY <1>3, <1>9 DEF Writes, IndexWrite, AccountWrite, WalletWrite, IndexesWrite,
                          AccountsWrite
    <2>3. \A id \in Ids \ {w.id} : accounts'[id] = accounts[id]
        BY <1>3, <2>1 DEF LandWallet
    <2>4. \/ accounts'[w.id] = accounts[w.id]
          \/ accounts[w.id] = NoAccount /\ accounts'[w.id].path = NoPath
          \/ /\ accounts[w.id] # NoAccount /\ accounts'[w.id] # NoAccount
             /\ accounts'[w.id].path = accounts[w.id].path
        <3>1. CASE accounts[w.id] # NoAccount /\ accounts' = [accounts EXCEPT ![w.id] = Overwritten(w)]
            <4>1. accounts[w.id] \in Account
                BY <1>3, <2>2, <3>1
            <4>2. accounts'[w.id] \in Account /\ accounts'[w.id].path = accounts[w.id].path
                BY <1>3, <1>9, <2>2, <3>1, <4>1 DEF Overwritten, Account, Writes, IndexWrite, AccountWrite,
                   WalletWrite, IndexesWrite, AccountsWrite
            <4> QED BY <3>1, <4>2, NoAccountAssumption
        <3>2. CASE accounts[w.id] = NoAccount /\
                   accounts' = [accounts EXCEPT ![w.id] =
                                    [path |-> NoPath, net |-> w.net, wallet |-> w.wallet]]
            BY <1>3, <2>2, <3>2
        <3>3. CASE UNCHANGED accounts
            BY <3>3
        <3> QED BY <2>1, <3>1, <3>2, <3>3 DEF LandWallet
    <2>5. Stored' = Stored
        BY <2>2, <2>3, <2>4 DEF Stored, Whole
    <2>6. \A id \in Stored : accounts'[id].path = accounts[id].path
        BY <2>3, <2>4 DEF Stored, Whole
    <2>7. \A d \in Calls : pc'[d] = pc[d] \/ (pc[d] \in Merging /\ pc'[d] = "failed")
        <3>1. pc[c] \in Merging
            BY <1>1, <1>9 DEF AccountsInv, WritesAreHeld
        <3>2. UNCHANGED pc \/ pc' = [pc EXCEPT ![c] = "failed"]
            BY <1>1, <2>1 DEF LandWallet
        <3> QED BY <3>1, <3>2 DEF TypeInv, TypeOK
    <2>8. \A d \in Calls : pc[d] = "removing" /\ AccountLanded(d)' => req[d].id \notin Stored
        <3> SUFFICES ASSUME NEW d \in Calls, pc[d] = "removing", AccountLanded(d)'
                     PROVE  req[d].id \notin Stored
            OBVIOUS
        <3>1. AccountLanded(d)
            BY <1>2, <1>9 DEF AccountLanded
        <3> QED BY <3>1 DEF IndexInv, Knows
    <2> QED BY <1>2, <1>9, <2>1, <2>5, <2>6, <2>7, <2>8, IndexLandOther
<1> QED BY <1>6, <1>7, <1>8, <1>9 DEF Land

LEMMA IndexInit == Init => IndexInv
<1> SUFFICES ASSUME Init PROVE IndexInv
    OBVIOUS
<1>1. Stored = {}
    BY DEF Init, Stored, Whole
<1>2. \A c \in Calls : Paired(fresh[c]) /\ Knows(c)
    BY DEF Init, Paired, Knows
<1> QED BY <1>1, <1>2 DEF Init, IndexInv, IndexLeads

\* As long as nothing has failed every step keeps IndexInv.
LEMMA IndexStep ==
    ASSUME PathsAreOwn, TypeInv, OriginInv, MutualExclusion,
           faults = 0 => AccountsInv /\ IndexInv, [Next]_vars
    PROVE  (faults = 0 => IndexInv)'
<1> SUFFICES ASSUME faults' = 0 PROVE IndexInv'
    OBVIOUS
<1> USE DEF store, host, queue, local, ghost
<1>1. faults \in Nat
    BY FaultAssumption DEF TypeInv, TypeOK
<1>2. CASE UNCHANGED vars
    <2>1. IndexInv
        BY <1>2 DEF vars
    <2>2. Stored' = Stored /\ \A id : Touched(id)' <=> Touched(id)
        BY <1>2 DEF vars, Stored, Whole, Touched
    <2>3. IndexLeads'
        BY <1>2, <2>1, <2>2 DEF vars, IndexInv, IndexLeads
    <2>4. ASSUME NEW c \in Calls PROVE (Paired(fresh[c]) /\ Knows(c))'
        <3>1. Paired(fresh[c]) /\ Knows(c)
            BY <2>1 DEF IndexInv
        <3>2. WantedPath(c)' = WantedPath(c) /\ Missing(c)' = Missing(c)
            BY <1>2 DEF vars, WantedPath, Missing, WantedPaths
        <3> QED BY <1>2, <2>2, <3>1, <3>2 DEF vars, Paired, Knows, IndexLanded, AccountLanded
    <2>5. ASSUME NEW w \in inflight' PROVE IndexWriteRight(w)'
        BY <1>2, <2>1, <2>5 DEF vars, IndexInv, IndexWriteRight
    <2> QED BY <2>3, <2>4, <2>5 DEF IndexInv
<1>3. PICK o : IsOrigin(o)
    BY DEF OriginInv
<1>4. CASE \E c \in Calls : Begin(c) \/ Proceed(c)
    <2>1. PICK c \in Calls : Begin(c) \/ Proceed(c)
        BY <1>4
    <2>2. CASE Begin(c) \/ Acquire(c)
        <3>1. AccountsInv /\ IndexInv
            BY <2>2 DEF Begin, Acquire
        <3> QED BY <2>2, <3>1, IndexBegin
    <2>3. CASE Create(c)
        <3>1. AccountsInv /\ IndexInv
            BY <2>3 DEF Create, ChooseIndex, LookupIndex, FetchIndexed, Insert, InsertAcked,
               Announce, ScheduleScan
        <3> QED BY <1>3, <2>3, <3>1, IndexCreate
    <2>4. CASE CreateMany(c)
        <3>1. AccountsInv /\ IndexInv
            BY <2>4 DEF CreateMany, ScanStore, ScanBroken, Repaired, InsertBatch, ReadStore,
               WriteIndexes
        <3> QED BY <1>3, <2>4, <3>1, IndexCreateMany
    <2>5. CASE Delete(c)
        <3>1. AccountsInv /\ IndexInv
            BY <2>5 DEF Delete, FindAccount, Retract, Remove, RemoveAcked
        <3> QED BY <1>3, <2>5, <3>1, IndexDelete
    <2>6. CASE UpdateAccount(c)
        <3>1. AccountsInv /\ IndexInv
            BY <2>6 DEF UpdateAccount, Load, MergeStaged, MergeAcked, MarkAcked
        <3> QED BY <2>6, <3>1, IndexUpdate
    <2> QED BY <2>1, <2>2, <2>3, <2>4, <2>5, <2>6 DEF Proceed
<1>5. CASE \E w \in inflight : Land(w)
    <2>1. AccountsInv /\ IndexInv
        BY <1>5 DEF Land
    <2> QED BY <1>3, <1>5, <2>1, IndexLand
<1>6. CASE \/ \E c \in Calls : Throw(c)
           \/ \E w \in inflight : Lose(w)
           \/ Crash
    BY <1>1, <1>6 DEF Throw, Lose, Crash, Fault
<1>7. CASE Quiescent
    BY <1>2, <1>7 DEF Quiescent
<1> QED BY <1>2, <1>4, <1>5, <1>6, <1>7 DEF Next

UniquePaths ==
    \A a, b \in Stored : accounts[a].path = accounts[b].path => a = b

\* All that the theorems below follow from.
RegistryInv ==
    /\ TypeInv /\ OriginInv /\ MutualExclusion
    /\ faults = 0 => AccountsInv /\ IndexInv /\ UniquePaths

LEMMA RegistryHolds == ASSUME PathsAreOwn PROVE Spec => []RegistryInv
<1>1. Init => (faults = 0 => IndexInv)
    BY IndexInit
<1>2. TypeInv /\ OriginInv /\ MutualExclusion /\ (faults = 0 => AccountsInv)
          /\ (faults = 0 => IndexInv) /\ [Next]_vars => (faults = 0 => IndexInv)'
    BY IndexStep
<1>3. TypeInv /\ OriginInv /\ MutualExclusion /\ (faults = 0 => AccountsInv)
          /\ (faults = 0 => IndexInv) => RegistryInv
    <2>1. TypeInv /\ OriginInv /\ MutualExclusion /\ IndexInv => UniquePaths
        BY PathsUnique DEF OriginInv, UniquePaths
    <2> QED BY <2>1 DEF RegistryInv
<1> QED BY <1>1, <1>2, <1>3, AccountsHold, PTL DEF Spec

-----------------------------------------------------------------------------
(* What follows for the store, the results, and the abstract registry.     *)

\* As long as nothing has failed, and if no two networks share their paths: when
\* no mutation runs, the path index and the accounts that are stored say the
\* same (insert, insertMany and delete write both).
THEOREM IndexIsRight ==
    ASSUME PathsAreOwn
    PROVE  Spec => [](faults = 0 => IndexAgrees)
<1>1. ASSUME RegistryInv, faults = 0 PROVE IndexAgrees
    <2> SUFFICES ASSUME \A c \in Calls : pc[c] \notin Mutating
                 PROVE  {<<p, index[p]>> : p \in {q \in Paths : index[q] # NoId}}
                            = {<<accounts[id].path, id>> : id \in Stored}
        BY DEF IndexAgrees
    <2>1. PICK o : IsOrigin(o)
        BY <1>1 DEF RegistryInv, OriginInv
    <2>2. \A id : ~Touched(id)
        BY DEF Touched, Inserting, Mutating, Writing
    <2>3. IndexLeads
        BY <1>1 DEF RegistryInv, IndexInv
    <2>4. \A p \in Paths : index[p] # NoId =>
              index[p] \in Stored /\ accounts[index[p]].path = p
        <3> SUFFICES ASSUME NEW p \in Paths, index[p] # NoId
                     PROVE  index[p] \in Stored /\ accounts[index[p]].path = p
            OBVIOUS
        <3>1. index[p] \in Stored
            BY <2>2, <2>3 DEF IndexLeads
        <3>2. o[index[p]].path = p
            BY <2>1 DEF IsOrigin, StoreIs, IndexIs
        <3> QED BY <2>1, <3>1, <3>2, StoredOrigin
    <2>5. \A id \in Stored :
              /\ accounts[id].path \in Paths
              /\ index[accounts[id].path] = id /\ id # NoId
        BY <2>1, <2>2, <2>3, StoredOrigin, OriginPath, NullAssumption DEF IndexLeads, Stored
    <2> QED BY <2>4, <2>5
<1>2. RegistryInv => (faults = 0 => IndexAgrees)
    BY <1>1
<1> QED BY <1>2, RegistryHolds, PTL

\* Under the same two hypotheses: whichever calls asked for an account of one
\* path and network, one after the other or at once, by create or createMany,
\* they return the same account, unless its removal has begun.
THEOREM CreationIsIdempotent ==
    ASSUME PathsAreOwn
    PROVE  Spec => [](faults = 0 => Idempotent)
<1>1. ASSUME RegistryInv, faults = 0 PROVE Idempotent
    <2> SUFFICES ASSUME NEW c \in Calls, NEW d \in Calls, NEW e \in result[c], NEW f \in result[d],
                        pc[c] = "done", pc[d] = "done", e[1] = f[1],
                        {e[2], f[2]} \cap removed = {}
                 PROVE  e[2] = f[2]
        BY DEF Idempotent
    <2>1. PICK o : IsOrigin(o)
        BY <1>1 DEF RegistryInv, OriginInv
    <2>2. /\ e[2] \in drawn /\ o[e[2]].path = e[1]
          /\ f[2] \in drawn /\ o[f[2]].path = f[1]
        BY <2>1 DEF IsOrigin, CallIs, EntriesAre
    <2>3. ~Pending(e[2]) /\ ~Pending(f[2])
        BY <1>1 DEF RegistryInv, AccountsInv, CallsAreSafe, Inserting
    <2>4. e[2] \in Stored /\ f[2] \in Stored
        BY <1>1, <2>2, <2>3 DEF RegistryInv, AccountsInv, IdsAreKept
    <2>5. accounts[e[2]].path = accounts[f[2]].path
        BY <2>1, <2>2, <2>4, StoredOrigin
    <2> QED BY <1>1, <2>4, <2>5 DEF RegistryInv, UniquePaths
<1>2. RegistryInv => (faults = 0 => Idempotent)
    BY <1>1
<1> QED BY <1>2, RegistryHolds, PTL

\* The registry that the persisted accounts make up.
Reg == {[id |-> id, path |-> accounts[id].path, net |-> accounts[id].net] : id \in Stored}

\* A step that stores new accounts adds entries to the registry.
LEMMA AddStep ==
    ASSUME RegistryInv, RegistryInv', faults = 0, faults' = 0,
           Stored \subseteq Stored', UNCHANGED removed,
           \A id \in Stored : accounts'[id].path = accounts[id].path
                              /\ accounts'[id].net = accounts[id].net,
           \A id \in Stored' \ Stored : id \notin removed
    PROVE  [AccountRegistry!Next]_<<Reg, removed>>
<1>1. PICK o : IsOrigin(o)'
    BY DEF RegistryInv, OriginInv
<1>2. ASSUME NEW id \in Stored'
      PROVE  accounts'[id].path \in Paths /\ accounts'[id].net \in Networks /\ id \in Ids
    <2>1. id \in Ids /\ o[id] \in Origins /\ accounts'[id].path = o[id].path
          /\ accounts'[id].net = o[id].net
        BY <1>1 DEF IsOrigin, StoreIs, RecordIs, Stored, Whole
    <2> QED BY <2>1, PathTyped DEF Origins
<1>3. ASSUME NEW a \in Stored', NEW b \in Stored', accounts'[a].path = accounts'[b].path
      PROVE  a = b
    BY <1>3 DEF RegistryInv, UniquePaths
<1>4. Reg' \in SUBSET AccountRegistry!Entries
    BY <1>2 DEF Reg, AccountRegistry!Entries
<1>5. Reg \subseteq Reg'
    BY DEF Reg
<1>6. ASSUME NEW n \in Reg' \ Reg
      PROVE  /\ n.id \notin removed
             /\ \A e \in Reg' : e.id = n.id \/ (e.path = n.path /\ e.net = n.net) => e = n
    <2>1. PICK a \in Stored' : n = [id |-> a, path |-> accounts'[a].path, net |-> accounts'[a].net]
        BY DEF Reg
    <2>2. a \notin Stored
        BY <2>1 DEF Reg
    <2>3. ASSUME NEW e \in Reg', e.id = n.id \/ (e.path = n.path /\ e.net = n.net)
          PROVE  e = n
        <3>1. PICK b \in Stored' : e = [id |-> b, path |-> accounts'[b].path, net |-> accounts'[b].net]
            BY DEF Reg
        <3>2. a = b
            BY <1>3, <2>1, <2>3, <3>1
        <3> QED BY <2>1, <3>1, <3>2
    <2> QED BY <2>1, <2>2, <2>3
<1>7. AccountRegistry!Add \/ UNCHANGED <<Reg, removed>>
    BY <1>4, <1>5, <1>6 DEF AccountRegistry!Add, Reg
<1> QED BY <1>7 DEF AccountRegistry!Next

\* A write that lands adds entries, removes one, or changes none.
LEMMA LandRefines ==
    ASSUME RegistryInv, RegistryInv', faults = 0, faults' = 0, NEW w \in inflight, Land(w)
    PROVE  [AccountRegistry!Next]_<<Reg, removed>>
<1> USE DEF store, host, queue, local, ghost
<1>1. TypeInv /\ AccountsInv
    BY DEF RegistryInv
<1>2. PICK o : IsOrigin(o)
    BY DEF RegistryInv, OriginInv
<1>3. PICK c \in Calls : c = w.by
    BY <1>1, WriteBy
<1>4. UNCHANGED removed
    BY DEF Land
<1>5. w \in Writes /\ accounts \in [Ids -> Account \cup {NoAccount}]
    BY <1>1 DEF TypeInv, TypeOK
<1>6. CASE w.kind \in {"index", "indexes"}
    <2>1. UNCHANGED accounts
        BY <1>6 DEF Land
    <2> QED BY <1>4, <2>1 DEF Reg, Stored, Whole
<1>7. CASE w.kind = "account"
    <2>1. accounts' = [accounts EXCEPT ![w.id] = w.account]
        BY <1>7 DEF Land
    <2>2. w.id \in Ids
        BY <1>5, <1>7 DEF Writes, IndexWrite, AccountWrite, WalletWrite, IndexesWrite,
                          AccountsWrite
    <2>3. \A id \in Ids : accounts'[id] = IF id = w.id THEN w.account ELSE accounts[id]
        BY <1>5, <2>1, <2>2
    <2>4. pc[c] \in {"storing", "removing"}
        BY <1>1, <1>3, <1>7 DEF AccountsInv, WritesAreHeld
    <2>5. CASE pc[c] = "storing"
        <3>1. IdsIn(fresh[c]) = {w.id} /\ w.account # NoAccount /\ w.account.path # NoPath
            BY <1>1, <1>3, <1>7, <2>5 DEF AccountsInv, AccountWritesRight
        <3>2. w.account.path = o[w.id].path /\ w.account.net = o[w.id].net
            BY <1>2, <1>7, <3>1 DEF IsOrigin, StoreIs, WriteIs, RecordIs
        <3>3. Stored' = Stored \cup {w.id}
            BY <2>2, <2>3, <3>1 DEF Stored, Whole
        <3>4. \A id \in Stored : accounts'[id].path = accounts[id].path
                                 /\ accounts'[id].net = accounts[id].net
            BY <1>2, <2>3, <3>2, StoredOrigin DEF Stored
        <3>5. w.id \notin removed
            BY <1>1, <2>5, <3>1 DEF AccountsInv, CallsAreSafe, Inserting
        <3> QED BY <1>4, <3>3, <3>4, <3>5, AddStep
    <2>6. CASE pc[c] = "removing"
        <3>1. w.id = req[c].id /\ w.account = NoAccount
            BY <1>1, <1>3, <1>7, <2>6 DEF AccountsInv, AccountWritesRight
        <3>2. w.id \in removed
            BY <1>1, <2>6, <3>1 DEF AccountsInv, CallsAreSafe
        <3>3. Stored' = Stored \ {w.id} /\ \A id \in Stored' : accounts'[id] = accounts[id]
            BY <2>2, <2>3, <3>1 DEF Stored, Whole
        <3>4. Reg' = {e \in Reg : e.id # w.id}
            BY <3>3 DEF Reg
        <3>5. AccountRegistry!Remove(w.id)
            BY <1>4, <3>2, <3>4 DEF AccountRegistry!Remove, Reg
        <3> QED BY <2>2, <3>5 DEF AccountRegistry!Next
    <2> QED BY <2>4, <2>5, <2>6
<1>8. CASE w.kind = "accounts"
    <2>1. accounts' = w.accounts
        BY <1>8 DEF Land
    <2>2. pc[c] = "storingAccounts"
        BY <1>1, <1>3, <1>8 DEF AccountsInv, WritesAreHeld
    <2>3. \A id \in Ids : w.accounts[id] # NoAccount /\ w.accounts[id].path # NoPath
              <=> id \in Stored \cup IdsIn(fresh[c])
        BY <1>1, <1>3, <1>8 DEF AccountsInv, AccountWritesRight
    <2>4. IdsIn(fresh[c]) \subseteq Ids
        BY <1>1 DEF TypeInv, TypeOK, IdsIn
    <2>5. Stored' = Stored \cup IdsIn(fresh[c])
        BY <2>1, <2>3, <2>4 DEF Stored, Whole
    <2>6. \A id \in Stored' : accounts'[id].path = o[id].path /\ accounts'[id].net = o[id].net
        BY <1>2, <1>8, <2>1 DEF Stored, Whole, IsOrigin, StoreIs, WriteIs, RecordIs
    <2>7. \A id \in Stored : accounts'[id].path = accounts[id].path
                             /\ accounts'[id].net = accounts[id].net
        BY <1>2, <2>5, <2>6, StoredOrigin
    <2>8. IdsIn(fresh[c]) \cap removed = {}
        BY <1>1, <2>2 DEF AccountsInv, CallsAreSafe, Inserting
    <2> QED BY <1>4, <2>5, <2>7, <2>8, AddStep
<1>9. CASE w.kind = "wallet"
    <2>1. LandWallet(w)
        BY <1>9 DEF Land
    <2>2. w.id \in Ids
        BY <1>5, <1>9 DEF Writes, IndexWrite, AccountWrite, WalletWrite, IndexesWrite,
                          AccountsWrite
    <2>3. CASE accounts[w.id] # NoAccount
               /\ accounts' = [accounts EXCEPT ![w.id] = Overwritten(w)]
        <3>1. accounts[w.id] \in Account
            BY <1>5, <2>2, <2>3
        <3>6. w.part = "wallet" /\ w.id \in Stored => w.net = accounts[w.id].net
            BY <1>2, <1>9, <2>2 DEF IsOrigin, StoreIs, WriteIs, RecordIs, Stored, Whole
        <3>2. /\ accounts'[w.id] \in Account
              /\ accounts'[w.id].path = accounts[w.id].path
              /\ w.id \in Stored => accounts'[w.id].net = accounts[w.id].net
            BY <1>5, <1>9, <2>2, <2>3, <3>1, <3>6 DEF Overwritten, Account, Writes, IndexWrite,
               AccountWrite, WalletWrite, IndexesWrite, AccountsWrite
        <3>3. \A id \in Ids \ {w.id} : accounts'[id] = accounts[id]
            BY <1>5, <2>3
        <3>4. Stored' = Stored
            BY <2>2, <2>3, <3>2, <3>3, NoAccountAssumption DEF Stored, Whole
        <3>5. \A id \in Stored : accounts'[id].path = accounts[id].path
                                 /\ accounts'[id].net = accounts[id].net
            BY <3>2, <3>3 DEF Stored
        <3> QED BY <1>4, <3>4, <3>5, AddStep
    <2>4. CASE accounts[w.id] = NoAccount /\
               accounts' = [accounts EXCEPT ![w.id] =
                                [path |-> NoPath, net |-> w.net, wallet |-> w.wallet]]
        <3>1. accounts'[w.id].path = NoPath
            BY <1>5, <2>2, <2>4
        <3>2. \A id \in Ids \ {w.id} : accounts'[id] = accounts[id]
            BY <1>5, <2>4
        <3>3. Stored' = Stored /\ w.id \notin Stored
            BY <2>4, <3>1, <3>2 DEF Stored, Whole
        <3>4. \A id \in Stored : accounts'[id] = accounts[id]
            BY <3>2, <3>3 DEF Stored
        <3> QED BY <1>4, <3>3, <3>4, AddStep
    <2>5. CASE UNCHANGED accounts
        BY <1>4, <2>5 DEF Reg, Stored, Whole
    <2> QED BY <2>1, <2>3, <2>4, <2>5 DEF LandWallet
<1> QED BY <1>6, <1>7, <1>8, <1>9 DEF Land

\* Every step without a failure is one of the abstract registry, or none.
LEMMA StepRefines ==
    ASSUME RegistryInv, RegistryInv', faults = 0, faults' = 0, [Next]_vars
    PROVE  [AccountRegistry!Next]_<<Reg, removed>>
<1> USE DEF store, host, queue, local, ghost
<1>1. CASE UNCHANGED <<accounts, removed>>
    BY <1>1 DEF Reg, Stored, Whole
<1>2. CASE UNCHANGED vars
    BY <1>1, <1>2 DEF vars
<1>3. CASE \E c \in Calls : Begin(c) \/ Proceed(c)
    <2>1. PICK c \in Calls : Begin(c) \/ Proceed(c)
        BY <1>3
    <2>2. CASE \/ Begin(c) \/ Acquire(c) \/ Create(c) \/ CreateMany(c) \/ UpdateAccount(c)
               \/ Retract(c) \/ Remove(c) \/ RemoveAcked(c)
        BY <1>1, <2>2 DEF Begin, Acquire, Create, ChooseIndex, LookupIndex, FetchIndexed, Insert,
           InsertAcked, Announce, ScheduleScan, CreateMany, ScanStore, ScanBroken, Repaired,
           InsertBatch, ReadStore, WriteIndexes, UpdateAccount, Load, MergeStaged, MergeAcked, MarkAcked,
           Retract, Remove, RemoveAcked
    <2>3. CASE FindAccount(c)
        <3>1. TypeInv /\ AccountsInv
            BY DEF RegistryInv
        <3>2. PICK o : IsOrigin(o)
            BY DEF RegistryInv, OriginInv
        <3>3. req[c].id \in Ids
            BY <2>3, <3>1, RequestTyped DEF FindAccount, DeletePCs
        <3>4. CASE UNCHANGED removed
            BY <1>1, <2>3, <3>4 DEF FindAccount
        <3>5. CASE HasWallet(req[c].id) /\ removed' = removed \cup {req[c].id}
            <4>1. req[c].id \in drawn /\ ~Pending(req[c].id)
                BY <3>1, <3>2, <3>3, <3>5 DEF HasWallet, IsOrigin, StoreIs, RecordIs, AccountsInv, IdsAreKept
            <4>2. CASE req[c].id \in removed
                BY <1>1, <2>3, <3>5, <4>2 DEF FindAccount
            <4>3. CASE req[c].id \in Stored
                <5>1. Reg' = Reg
                    BY <2>3 DEF FindAccount, Reg, Stored, Whole
                <5>2. req[c].id \in AccountRegistry!IdsOf(Reg)
                    <6>1. \A id \in Stored : [id |-> id, path |-> accounts[id].path,
                                              net |-> accounts[id].net] \in Reg
                        BY DEF Reg
                    <6>2. PICK e : e = [id |-> req[c].id, path |-> accounts[req[c].id].path,
                                        net |-> accounts[req[c].id].net]
                        OBVIOUS
                    <6>3. e \in Reg /\ e.id = req[c].id
                        BY <4>3, <6>1, <6>2
                    <6> QED BY <6>3 DEF AccountRegistry!IdsOf
                <5>3. AccountRegistry!Condemn(req[c].id)
                    BY <3>5, <5>1, <5>2 DEF AccountRegistry!Condemn, Reg
                <5> QED BY <3>3, <5>3 DEF AccountRegistry!Next
            <4> QED BY <3>1, <4>1, <4>2, <4>3 DEF AccountsInv, IdsAreKept
        <3> QED BY <2>3, <3>4, <3>5 DEF FindAccount
    <2> QED BY <2>1, <2>2, <2>3 DEF Proceed, Delete
<1>4. CASE \E w \in inflight : Land(w)
    BY <1>4, LandRefines
<1>5. CASE \/ \E c \in Calls : Throw(c)
           \/ \E w \in inflight : Lose(w)
           \/ Crash
    BY <1>5 DEF Throw, Lose, Crash, Fault
<1>6. CASE Quiescent
    BY <1>2, <1>6 DEF Quiescent
<1> QED BY <1>2, <1>3, <1>4, <1>5, <1>6 DEF Next

\* As long as nothing fails, and if no two networks share their paths, the
\* concurrent mutations and updates implement the atomic registry: accounts
\* appear once for a path and network, are never changed, and go only when their
\* removal was asked for.
THEOREM RegistryIsImplemented ==
    ASSUME PathsAreOwn
    PROVE  Spec /\ [](faults = 0) => RegistryImplemented
<1>1. Init => AccountRegistry!Init
    BY DEF Init, AccountRegistry!Init, Stored, Whole
<1>2. RegistryInv /\ RegistryInv' /\ faults = 0 /\ (faults = 0)' /\ [Next]_vars
          => [AccountRegistry!Next]_<<{[id |-> id, path |-> accounts[id].path,
                                       net |-> accounts[id].net] : id \in Stored}, removed>>
    BY StepRefines DEF Reg
<1> QED BY <1>1, <1>2, RegistryHolds, PTL DEF Spec, RegistryImplemented, AccountRegistry!Spec
=============================================================================
