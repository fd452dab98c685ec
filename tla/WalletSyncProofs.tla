-------------------------- MODULE WalletSyncProofs --------------------------
(***************************************************************************)
(* Proofs about WalletSync, for any accounts and transactions, any number  *)
(* of overlapping jobs, of failures, restarts and reorganisations.         *)
(***************************************************************************)
EXTENDS WalletSync, TLAPS

JobType ==
    [kind : Kinds, pc : PCs, part : [Accounts -> Parts],
     before : Wallets, after : Wallets, read : Wallets, tell : SUBSET Accounts]

\* A wallet calls confirmed only what is, or was until a reorganisation.
Grounded(w, ch, re) == \A t \in Txs : w[t] = "confirmed" => ch[t] = "confirmed" \/ t \in re

\* What is true of a job q at any time, for a chain ch, the reorganised
\* transactions re and the persisted ones wr.
Views(q, ch, re) ==
    Grounded(q.before, ch, re) /\ Grounded(q.after, ch, re) /\ Grounded(q.read, ch, re)

Progress(q) ==
    /\ q.pc \in {"idle", "list"} => q.before = Empty /\ q.after = Empty
    /\ q.pc = "list" => \A a \in Accounts : q.part[a] \in {"out", "query"}
    /\ q.pc # "emit" => q.tell = {}
    /\ \A a \in q.tell : q.part[a] = "ok"

\* The part of a job whose wallet is stored.
Persisted == {"mark", "ok"}
USE DEF Persisted

Learning(q, re, wr) ==
    \A t \in Txs :
        /\ q.before[t] # "unseen" => t \in wr /\ q.after[t] # "unseen"
        /\ q.part[Owner[t]] = "query" => q.after[t] = q.before[t]
        /\ q.part[Owner[t]] \in Persisted /\ q.after[t] # "unseen" => t \in wr
        /\ q.part[Owner[t]] \in {"read", "write", "mark", "ok"}
               /\ q.before[t] = "confirmed" /\ q.after[t] = "pending" => t \in re

Sound(q, ch, re, wr) == Views(q, ch, re) /\ Progress(q) /\ Learning(q, re, wr)

SyncInv ==
    /\ TypeOK
    /\ \A j \in Jobs : Sound(job[j], chain, reorged, written)
    /\ Grounded(stored, chain, reorged)
    /\ \A t \in Txs : stored[t] # "unseen" => t \in written
    /\ PersistedFirst

-----------------------------------------------------------------------------
LEMMA EmptyIsWallet == Empty \in Wallets /\ \A t \in Txs : Empty[t] = "unseen"
BY DEF Empty, Wallets, Statuses

LEMMA RestFits ==
    /\ Rest \in JobType /\ Rest.pc = "idle"
    /\ \A ch, re, wr : Sound(Rest, ch, re, wr)
BY EmptyIsWallet, OwnerAssumption
   DEF Rest, JobType, Kinds, PCs, Parts, Sound, Views, Grounded, Progress, Learning

LEMMA SyncInit == Init => SyncInv
<1> SUFFICES ASSUME Init PROVE SyncInv
    OBVIOUS
<1>1. events \subseteq Events
    BY AccountAssumption DEF Init, Events
<1>2. \A j \in Jobs : job[j].before = Empty /\ job[j].after = Empty
    BY DEF Init, Rest
<1>3. TypeOK
    BY <1>1, <1>2, EmptyIsWallet, RestFits, BoundAssumption DEF Init, TypeOK, JobType
<1>4. PersistedFirst /\ Grounded(stored, chain, reorged)
      /\ \A t \in Txs : stored[t] # "unseen" => t \in written
    BY EmptyIsWallet DEF Init, PersistedFirst, Grounded
<1> QED BY <1>3, <1>4, RestFits DEF Init, SyncInv

\* The chain only loses a confirmation by a reorganisation, and the histories
\* only grow.
Grows(ch, ch2, re, re2, wr, wr2) ==
    /\ re \subseteq re2 /\ wr \subseteq wr2
    /\ \A t \in Txs : ch[t] = "confirmed" => ch2[t] = "confirmed" \/ t \in re2

LEMMA SoundStays ==
    ASSUME NEW q, NEW ch, NEW ch2, NEW re, NEW re2, NEW wr, NEW wr2,
           Grows(ch, ch2, re, re2, wr, wr2), Sound(q, ch, re, wr)
    PROVE  Sound(q, ch2, re2, wr2)
BY DEF Grows, Sound, Views, Grounded, Learning

\* A step in which one job becomes q.
LEMMA OneJob ==
    ASSUME SyncInv, NEW j \in Jobs, NEW q \in JobType,
           job' = [job EXCEPT ![j] = q],
           Grows(chain, chain', reorged, reorged', written, written'),
           Sound(q, chain', reorged', written'),
           chain' \in Wallets, stored' \in Wallets, told' \in Wallets,
           selected' \subseteq Accounts, events' \subseteq Events,
           written' \subseteq Txs, reorged' \subseteq Txs, faults' \in 0..MaxFaults,
           Grounded(stored', chain', reorged'),
           \A t \in Txs : /\ stored'[t] # "unseen" => t \in written'
                          /\ told'[t] # "unseen" => t \in written'
    PROVE  SyncInv'
<1>1. job \in [Jobs -> JobType] /\ job' \in [Jobs -> JobType]
    BY DEF SyncInv, TypeOK, JobType
<1>2. \A i \in Jobs : Sound(job'[i], chain', reorged', written')
    BY <1>1, SoundStays DEF SyncInv
<1>3. TypeOK'
    BY <1>1, <1>2 DEF TypeOK, JobType, Sound, Progress
<1> QED BY <1>2, <1>3 DEF SyncInv, PersistedFirst

\* The same for a step that leaves the chain, the state and the client alone.
LEMMA OneJobOnly ==
    ASSUME SyncInv, NEW j \in Jobs, NEW q \in JobType,
           job' = [job EXCEPT ![j] = q],
           Sound(q, chain, reorged, written),
           UNCHANGED <<chain, stored, told, selected, written, reorged>>,
           events' \subseteq events, faults' \in 0..MaxFaults
    PROVE  SyncInv'
<1>1. Grows(chain, chain', reorged, reorged', written, written')
    BY DEF Grows
<1>2. Sound(q, chain', reorged', written') /\ Grounded(stored', chain', reorged')
    BY DEF SyncInv
<1> QED BY <1>1, <1>2, OneJob DEF SyncInv, TypeOK, PersistedFirst

\* What is known of a job before its step.
LEMMA JobFacts ==
    ASSUME SyncInv, NEW j \in Jobs
    PROVE  /\ job[j] \in JobType /\ Sound(job[j], chain, reorged, written)
           /\ chain \in Wallets /\ stored \in Wallets /\ told \in Wallets
           /\ Grounded(stored, chain, reorged)
           /\ written \subseteq Txs /\ reorged \subseteq Txs /\ faults \in 0..MaxFaults
           /\ faults' = faults \/ Fault => faults' \in 0..MaxFaults
BY BoundAssumption DEF SyncInv, TypeOK, JobType, Fault

LEMMA StartKeeps ==
    ASSUME SyncInv, NEW j \in Jobs, Start(j)
    PROVE  SyncInv'
<1>1. PICK kind \in Kinds, ids \in SUBSET Accounts :
          /\ Begin(j, kind, ids) /\ events' \subseteq events
          /\ UNCHANGED <<chain, stored, told, selected, written, reorged, faults>>
    <2> USE DEF client, history
    <2>1. CASE SynchronizeAccounts(j)
        BY <2>1 DEF SynchronizeAccounts, SyncInv, TypeOK, Kinds
    <2>2. CASE \E e \in events : Fire(j, e)
        BY <2>2 DEF Fire, SyncInv, TypeOK, Events, Kinds
    <2>3. CASE \E t \in Txs : BeginSend(j, t)
        BY <2>3, OwnerAssumption DEF BeginSend, Kinds
    <2> QED BY <2>1, <2>2, <2>3 DEF Start
<1> DEFINE q == [Rest EXCEPT !.kind = kind, !.pc = "list",
                             !.part = [a \in Accounts |-> IF a \in ids THEN "query" ELSE "out"]]
<1>2. q \in JobType
    BY EmptyIsWallet DEF Rest, JobType, PCs, Parts
<1>3. Sound(q, chain, reorged, written)
    BY EmptyIsWallet, OwnerAssumption DEF Rest, Sound, Views, Grounded, Progress, Learning
<1>4. job' = [job EXCEPT ![j] = q]
    BY <1>1 DEF Begin
<1> HIDE DEF q
<1> QED BY <1>1, <1>2, <1>3, <1>4, JobFacts, OneJobOnly

LEMMA LoadKeeps ==
    ASSUME SyncInv, NEW j \in Jobs, Load(j)
    PROVE  SyncInv'
<1> DEFINE mine == [t \in Txs |-> IF Owner[t] \in Members(j) THEN stored[t] ELSE "unseen"]
           q == [job[j] EXCEPT !.pc = "work", !.before = mine, !.after = mine]
<1>1. job[j] \in JobType /\ job[j].pc = "list" /\ Sound(job[j], chain, reorged, written)
    BY JobFacts DEF Load
<1>2. mine \in Wallets /\ q \in JobType
    BY <1>1, JobFacts DEF JobType, Wallets, Statuses, PCs
<1>3. Views(q, chain, reorged)
    BY <1>1, JobFacts DEF JobType, Sound, Views, Grounded
<1>4. Progress(q)
    BY <1>1 DEF JobType, Sound, Progress
<1>5. Learning(q, reorged, written)
    <2>1. /\ q.before = mine /\ q.after = mine
          /\ \A a \in Accounts : q.part[a] \in {"out", "query"}
        BY <1>1 DEF JobType, Sound, Progress
    <2>2. \A t \in Txs : mine[t] # "unseen" => t \in written
        BY DEF SyncInv
    <2> HIDE DEF q, mine
    <2> QED BY <2>1, <2>2, OwnerAssumption DEF Learning
<1>6. job' = [job EXCEPT ![j] = q]
    BY DEF Load
<1>7. UNCHANGED <<chain, stored, told, selected, written, reorged, faults, events>>
    BY DEF Load, client, history
<1> HIDE DEF q
<1> QED BY <1>2, <1>3, <1>4, <1>5, <1>6, <1>7, JobFacts, OneJobOnly DEF Sound

LEMMA QueryKeeps ==
    ASSUME SyncInv, NEW j \in Jobs, NEW a \in Accounts, Query(j, a)
    PROVE  SyncInv'
<1> DEFINE wallet == Answered(j, a)
           p == [job[j] EXCEPT !.part[a] = "read", !.after = wallet]
           q == [job[j] EXCEPT !.part[a] = "ok"]
<1>1. /\ job[j] \in JobType /\ job[j].pc = "work" /\ job[j].part[a] = "query"
      /\ Sound(job[j], chain, reorged, written)
    BY JobFacts DEF Query
<1>2. /\ wallet \in Wallets
      /\ \A t \in Txs : /\ wallet[t] = job[j].after[t] \/ (wallet[t] = chain[t] /\ chain[t] # "unseen")
                        /\ Owner[t] # a => wallet[t] = job[j].after[t]
    <2>1. job[j].after \in [Txs -> Statuses] /\ chain \in [Txs -> Statuses]
        BY <1>1, JobFacts DEF JobType, Wallets
    <2>2. \A t \in Txs : wallet[t] \in {chain[t], job[j].after[t]}
        BY DEF Answered
    <2> QED BY <2>1, <2>2 DEF Answered, Wallets
<1>3. UNCHANGED <<chain, stored, told, selected, written, reorged, faults, events>>
    BY DEF Query, client, history
<1> HIDE DEF wallet
<1>4. CASE job' = [job EXCEPT ![j].part[a] = "read", ![j].after = wallet]
    <2>1. p \in JobType
        BY <1>1, <1>2 DEF JobType, Parts
    <2>2. Views(p, chain, reorged)
        BY <1>1, <1>2 DEF JobType, Sound, Views, Grounded
    <2>3. Progress(p)
        BY <1>1 DEF JobType, Sound, Progress
    <2>4. Learning(p, reorged, written)
        <3> SUFFICES ASSUME NEW t \in Txs
                     PROVE  /\ p.before[t] # "unseen" => t \in written /\ p.after[t] # "unseen"
                            /\ p.part[Owner[t]] = "query" => p.after[t] = p.before[t]
                            /\ p.part[Owner[t]] \in Persisted /\ p.after[t] # "unseen" => t \in written
                            /\ p.part[Owner[t]] \in {"read", "write", "mark", "ok"}
                                   /\ p.before[t] = "confirmed" /\ p.after[t] = "pending"
                               => t \in reorged
            BY DEF Learning
        <3>1. /\ p.before = job[j].before /\ p.after = wallet /\ Owner[t] \in Accounts
              /\ p.part[Owner[t]] = IF Owner[t] = a THEN "read" ELSE job[j].part[Owner[t]]
            BY <1>1, OwnerAssumption DEF JobType
        <3> HIDE DEF p
        <3> QED BY <1>1, <1>2, <3>1 DEF Sound, Learning, Views, Grounded
    <2>5. job' = [job EXCEPT ![j] = p]
        BY <1>4
    <2> HIDE DEF p
    <2> QED BY <1>3, <2>1, <2>2, <2>3, <2>4, <2>5, JobFacts, OneJobOnly DEF Sound
<1>5. CASE Step(j, a, "ok")
    <2>1. q \in JobType
        BY <1>1 DEF JobType, Parts
    <2>2. Views(q, chain, reorged) /\ Progress(q)
        BY <1>1 DEF JobType, Sound, Views, Progress
    <2>3. Learning(q, reorged, written)
        BY <1>1, OwnerAssumption DEF JobType, Sound, Learning
    <2>4. job' = [job EXCEPT ![j] = q]
        BY <1>5 DEF Step
    <2> HIDE DEF q
    <2> QED BY <1>3, <2>1, <2>2, <2>3, <2>4, JobFacts, OneJobOnly DEF Sound
<1> QED BY <1>4, <1>5 DEF Query, wallet

LEMMA BroadcastKeeps ==
    ASSUME SyncInv, NEW j \in Jobs, NEW t \in Txs, Broadcast(j, t)
    PROVE  SyncInv'
<1> DEFINE q == [job[j] EXCEPT !.part[Owner[t]] = "read", !.after[t] = "pending"]
<1>1. /\ job[j] \in JobType /\ job[j].pc = "work" /\ job[j].part[Owner[t]] = "query"
      /\ chain[t] = "unseen" /\ Owner[t] \in Accounts
      /\ Sound(job[j], chain, reorged, written)
    BY JobFacts, OwnerAssumption DEF Broadcast
<1>2. /\ chain' = [chain EXCEPT ![t] = "pending"]
      /\ UNCHANGED <<stored, told, selected, written, reorged, faults, events>>
    BY DEF Broadcast, client, history
<1>3. /\ chain' \in Wallets
      /\ Grows(chain, chain', reorged, reorged', written, written')
      /\ Grounded(stored, chain', reorged)
    BY <1>1, <1>2, JobFacts DEF Wallets, Statuses, Grows, Grounded
<1>4. q \in JobType
    BY <1>1 DEF JobType, Parts, Wallets, Statuses
<1>5. Sound(job[j], chain', reorged', written')
    BY <1>1, <1>3, SoundStays
<1>6. Views(q, chain', reorged')
    BY <1>1, <1>5 DEF JobType, Wallets, Sound, Views, Grounded
<1>7. Progress(q)
    BY <1>1 DEF JobType, Sound, Progress
<1>8. Learning(q, reorged', written')
    <2> SUFFICES ASSUME NEW u \in Txs
                 PROVE  /\ q.before[u] # "unseen" => u \in written' /\ q.after[u] # "unseen"
                        /\ q.part[Owner[u]] = "query" => q.after[u] = q.before[u]
                        /\ q.part[Owner[u]] \in Persisted /\ q.after[u] # "unseen" => u \in written'
                        /\ q.part[Owner[u]] \in {"read", "write", "mark", "ok"}
                               /\ q.before[u] = "confirmed" /\ q.after[u] = "pending"
                           => u \in reorged'
        BY DEF Learning
    <2>1. /\ q.before = job[j].before /\ Owner[u] \in Accounts
          /\ q.after[u] = IF u = t THEN "pending" ELSE job[j].after[u]
          /\ q.part[Owner[u]] = IF Owner[u] = Owner[t] THEN "read" ELSE job[j].part[Owner[u]]
        BY <1>1, OwnerAssumption DEF JobType, Wallets
    <2> HIDE DEF q
    <2>2. u # t /\ Owner[u] = Owner[t] => q.after[u] = q.before[u]
        BY <1>1, <2>1 DEF Sound, Learning
    <2>3. u = t /\ q.before[u] = "confirmed" => u \in reorged'
        BY <1>1, <1>2, <2>1 DEF Sound, Views, Grounded
    <2> QED BY <1>1, <1>2, <1>5, <2>1, <2>2, <2>3 DEF Sound, Learning
<1>9. job' = [job EXCEPT ![j] = q]
    BY DEF Broadcast
<1> HIDE DEF q
<1> QED BY <1>2, <1>3, <1>4, <1>6, <1>7, <1>8, <1>9, JobFacts, OneJob
        DEF Sound, SyncInv, TypeOK, PersistedFirst

\* Refuse, Read, Mark and Fail change one part of a job, and perhaps what it read.
LEMMA PartKeeps ==
    ASSUME SyncInv, NEW j \in Jobs, NEW a \in Accounts, NEW p \in Parts, NEW w \in Wallets,
           job[j].pc = "work",
           \/ p = "failed"
           \/ p = "write" /\ job[j].part[a] = "read"
           \/ p = "ok" /\ job[j].part[a] = "mark",
           Grounded(w, chain, reorged),
           \/ job' = [job EXCEPT ![j].part[a] = p, ![j].read = w]
           \/ job' = [job EXCEPT ![j].part[a] = p],
           UNCHANGED <<chain, stored, told, selected, written, reorged, events>>,
           faults' = faults \/ Fault
    PROVE  SyncInv'
<1>1. /\ job[j] \in JobType /\ Sound(job[j], chain, reorged, written)
      /\ faults' \in 0..MaxFaults
    BY JobFacts
<1>2. PICK v \in Wallets : /\ Grounded(v, chain, reorged)
                           /\ job' = [job EXCEPT ![j] = [job[j] EXCEPT !.part[a] = p, !.read = v]]
    <2>1. CASE job' = [job EXCEPT ![j].part[a] = p, ![j].read = w]
        BY <2>1
    <2>2. CASE job' = [job EXCEPT ![j].part[a] = p]
        <3>1. /\ job[j].read \in Wallets /\ Grounded(job[j].read, chain, reorged)
              /\ [job[j] EXCEPT !.part[a] = p] = [job[j] EXCEPT !.part[a] = p, !.read = job[j].read]
            BY <1>1 DEF JobType, Sound, Views
        <3> QED BY <2>2, <3>1
    <2> QED BY <2>1, <2>2
<1> DEFINE q == [job[j] EXCEPT !.part[a] = p, !.read = v]
<1>3. q \in JobType
    BY <1>1 DEF JobType
<1>4. Views(q, chain, reorged)
    BY <1>1, <1>2 DEF JobType, Sound, Views
<1>5. Progress(q)
    BY <1>1 DEF JobType, Sound, Progress
<1>6. Learning(q, reorged, written)
    BY <1>1, OwnerAssumption DEF JobType, Sound, Learning
<1>7. job' = [job EXCEPT ![j] = q]
    BY <1>2
<1> HIDE DEF q
<1> QED BY <1>1, <1>3, <1>4, <1>5, <1>6, <1>7, OneJobOnly DEF Sound

LEMMA ReplaceIsWallet ==
    ASSUME NEW v \in Wallets, NEW w \in Wallets, NEW a
    PROVE  /\ Replace(v, a, w) \in Wallets
           /\ \A ch, re : Grounded(v, ch, re) /\ Grounded(w, ch, re)
                             => Grounded(Replace(v, a, w), ch, re)
BY DEF Replace, Wallets, Grounded

LEMMA ReadAndFailKeep ==
    ASSUME SyncInv, NEW j \in Jobs,
           \/ \E a \in Accounts : Read(j, a) \/ Mark(j, a) \/ Fail(j, a)
           \/ \E t \in Txs : Refuse(j, t)
    PROVE  SyncInv'
<1> USE DEF client, history
<1>1. /\ job[j].read \in Wallets /\ Grounded(job[j].read, chain, reorged)
      /\ stored \in Wallets /\ Grounded(stored, chain, reorged)
      /\ Empty \in Wallets /\ Grounded(Empty, chain, reorged)
    BY JobFacts, EmptyIsWallet DEF JobType, Sound, Views, Grounded
<1>2. ASSUME NEW a \in Accounts, Read(j, a) PROVE SyncInv'
    <2>1. job' = [job EXCEPT ![j].part[a] = "write",
                             ![j].read = Replace(job[j].read, a, stored)]
        BY <1>2 DEF Read
    <2>2. /\ Replace(job[j].read, a, stored) \in Wallets
          /\ Grounded(Replace(job[j].read, a, stored), chain, reorged)
        BY <1>1, ReplaceIsWallet
    <2> QED BY <1>2, <2>1, <2>2, PartKeeps DEF Read, Parts
<1>3. ASSUME NEW a \in Accounts, Fail(j, a) PROVE SyncInv'
    <2>1. job' = [job EXCEPT ![j].part[a] = "failed",
                             ![j].read = Replace(job[j].read, a, Empty)]
        BY <1>3 DEF Fail
    <2>2. /\ Replace(job[j].read, a, Empty) \in Wallets
          /\ Grounded(Replace(job[j].read, a, Empty), chain, reorged)
        BY <1>1, ReplaceIsWallet
    <2> QED BY <1>3, <2>1, <2>2, PartKeeps DEF Fail, Parts
<1>4. ASSUME NEW t \in Txs, Refuse(j, t) PROVE SyncInv'
    BY <1>1, <1>4, OwnerAssumption, PartKeeps DEF Refuse, Parts, Step
<1>5. ASSUME NEW a \in Accounts, Mark(j, a) PROVE SyncInv'
    BY <1>1, <1>5, PartKeeps DEF Mark, Parts, Step
<1> QED BY <1>2, <1>3, <1>4, <1>5

-----------------------------------------------------------------------------
(* Storing.                                                                *)

\* ChangeSet.merge invents nothing: a transaction is seen if a side has seen it,
\* and confirmed only if a side says so.
LEMMA MergesFacts ==
    ASSUME NEW t, NEW mine \in Statuses, NEW theirs \in Statuses,
           NEW m \in Merges(t, mine, theirs)
    PROVE  /\ m \in Statuses
           /\ m = "unseen" <=> mine = "unseen" /\ theirs = "unseen"
           /\ m = "confirmed" => mine = "confirmed" \/ theirs = "confirmed"
BY DEF Merges, Statuses

\* What a write leaves of each transaction of its account, and of the others.
LEMMA WriteFacts ==
    ASSUME SyncInv, NEW j \in Jobs, NEW a \in Accounts, Write(j, a), NEW t \in Txs
    PROVE  /\ stored' \in Wallets
           /\ Owner[t] # a => stored'[t] = stored[t]
           /\ Owner[t] = a => /\ stored'[t] = "unseen" <=>
                                     Staged(j)[t] = "unseen" /\ job[j].read[t] = "unseen"
                              /\ stored'[t] = "confirmed" =>
                                     job[j].after[t] = "confirmed" \/ job[j].read[t] = "confirmed"
           /\ Staged(j)[t] = "unseen" \/ Staged(j)[t] = job[j].after[t]
           /\ job[j].after[t] # "unseen" /\ Staged(j)[t] = "unseen" =>
                  job[j].before[t] # "unseen"
<1>1. PICK merged \in Wallets :
          /\ stored' = Replace(stored, a, merged)
          /\ \A u \in Txs : merged[u] \in Merges(u, Staged(j)[u], job[j].read[u])
    BY DEF Write, ToStore
<1>2. stored \in Wallets /\ job[j] \in JobType
    BY JobFacts
<1>3. stored' \in Wallets /\ stored'[t] = IF Owner[t] = a THEN merged[t] ELSE stored[t]
    BY <1>1, <1>2, ReplaceIsWallet DEF Replace
<1>4. /\ Staged(j)[t] = IF job[j].after[t] # job[j].before[t] THEN job[j].after[t] ELSE "unseen"
      /\ job[j].after[t] \in Statuses /\ job[j].read[t] \in Statuses
    BY <1>2 DEF Staged, JobType, Wallets
<1>5. Staged(j)[t] \in Statuses
    BY <1>4 DEF Statuses
<1> QED BY <1>1, <1>3, <1>4, <1>5, MergesFacts

LEMMA WriteKeeps ==
    ASSUME SyncInv, NEW j \in Jobs, NEW a \in Accounts, Write(j, a)
    PROVE  SyncInv'
<1>0. PICK p \in Persisted : p = IF StoresInscriptions(j, a) THEN "mark" ELSE "ok"
    OBVIOUS
<1> DEFINE w == Replace(job[j].read, a, Empty)
           q == [job[j] EXCEPT !.part[a] = p, !.read = w]
<1>1. /\ job[j] \in JobType /\ job[j].pc = "work" /\ job[j].part[a] = "write"
      /\ Sound(job[j], chain, reorged, written)
      /\ chain \in Wallets /\ stored \in Wallets /\ Grounded(stored, chain, reorged)
    BY JobFacts DEF Write
<1>2. /\ written' = written \cup {t \in Txs : stored'[t] # "unseen"}
      /\ UNCHANGED <<chain, told, selected, events, reorged, faults>>
      /\ job' = [job EXCEPT ![j] = q]
    BY <1>0 DEF Write, client
<1>3. Grows(chain, chain', reorged, reorged', written, written')
    BY <1>2 DEF Grows
<1>4. /\ w \in Wallets /\ Grounded(w, chain, reorged)
    BY <1>1, EmptyIsWallet, ReplaceIsWallet DEF JobType, Sound, Views, Grounded
<1>5. q \in JobType
    BY <1>1, <1>4 DEF JobType, Parts
<1>6. Sound(job[j], chain', reorged', written')
    BY <1>1, <1>3, SoundStays
<1>7. Views(q, chain', reorged')
    BY <1>1, <1>2, <1>4, <1>6 DEF JobType, Sound, Views
<1>8. Progress(q)
    BY <1>1 DEF JobType, Sound, Progress
<1>9. stored' \in Wallets
    <2>1. CASE Txs = {}
        BY <2>1, <1>1, ReplaceIsWallet DEF Write, ToStore
    <2>2. CASE Txs # {}
        BY <2>2, WriteFacts
    <2> QED BY <2>1, <2>2
<1>10. Grounded(stored', chain', reorged')
    BY <1>1, <1>2, WriteFacts DEF Grounded, Sound, Views
<1>11. \A t \in Txs : stored'[t] # "unseen" => t \in written'
    BY <1>2
<1>12. Learning(q, reorged', written')
    <2> SUFFICES ASSUME NEW t \in Txs
                 PROVE  /\ q.before[t] # "unseen" => t \in written' /\ q.after[t] # "unseen"
                        /\ q.part[Owner[t]] = "query" => q.after[t] = q.before[t]
                        /\ q.part[Owner[t]] \in Persisted /\ q.after[t] # "unseen" => t \in written'
                        /\ q.part[Owner[t]] \in {"read", "write", "mark", "ok"}
                               /\ q.before[t] = "confirmed" /\ q.after[t] = "pending"
                           => t \in reorged'
        BY DEF Learning
    <2>1. /\ q.before = job[j].before /\ q.after = job[j].after /\ Owner[t] \in Accounts
          /\ q.part[Owner[t]] = IF Owner[t] = a THEN p ELSE job[j].part[Owner[t]]
        BY <1>1, OwnerAssumption DEF JobType
    <2> HIDE DEF q
    <2>2. Owner[t] = a /\ q.after[t] # "unseen" => t \in written'
        <3> SUFFICES ASSUME Owner[t] = a, job[j].after[t] # "unseen" PROVE t \in written'
            BY <2>1
        <3>1. CASE Staged(j)[t] = "unseen"
            BY <3>1, <1>6, WriteFacts DEF Sound, Learning
        <3>2. CASE Staged(j)[t] # "unseen"
            BY <3>2, <1>11, WriteFacts
        <3> QED BY <3>1, <3>2
    <2> QED BY <1>1, <1>6, <2>1, <2>2 DEF Sound, Learning
<1>13. \A t \in Txs : told'[t] # "unseen" => t \in written'
    BY <1>2 DEF SyncInv, PersistedFirst
<1> HIDE DEF q
<1> QED BY <1>2, <1>3, <1>5, <1>7, <1>8, <1>9, <1>10, <1>11, <1>12, <1>13, OneJob
        DEF Sound, SyncInv, TypeOK

-----------------------------------------------------------------------------
(* Telling.                                                                *)

LEMMA SettleKeeps ==
    ASSUME SyncInv, NEW j \in Jobs, Settle(j)
    PROVE  SyncInv'
<1> DEFINE q == [job[j] EXCEPT !.pc = "emit", !.tell = Succeeded(j)]
<1>1. /\ job[j] \in JobType /\ Sound(job[j], chain, reorged, written)
      /\ job[j].pc = "work" /\ faults \in 0..MaxFaults
      /\ UNCHANGED <<chain, stored, told, selected, events, written, reorged, faults>>
    BY JobFacts DEF Settle, client, history
<1>2. CASE End(j)
    BY <1>1, <1>2, RestFits, OneJobOnly DEF End
<1>3. CASE job' = [job EXCEPT ![j].pc = "emit", ![j].tell = Succeeded(j)]
    <2>1. q \in JobType
        BY <1>1 DEF JobType, PCs, Succeeded
    <2>2. Progress(q)
        BY <1>1 DEF JobType, Sound, Progress, Succeeded
    <2>3. Views(q, chain, reorged) /\ Learning(q, reorged, written)
        BY <1>1 DEF JobType, Sound, Views, Learning
    <2>4. job' = [job EXCEPT ![j] = q]
        BY <1>3
    <2> HIDE DEF q
    <2> QED BY <1>1, <2>1, <2>2, <2>3, <2>4, OneJobOnly DEF Sound
<1> QED BY <1>2, <1>3 DEF Settle

LEMMA EmitKeeps ==
    ASSUME SyncInv, NEW j \in Jobs, NEW a \in Accounts, EmitTransactions(j, a)
    PROVE  SyncInv'
<1>1. /\ job[j] \in JobType /\ Sound(job[j], chain, reorged, written)
      /\ job[j].pc = "emit" /\ a \in job[j].tell /\ job[j].part[a] = "ok"
      /\ told' = [t \in Txs |-> IF t \in News(j, a) THEN job[j].after[t] ELSE told[t]]
      /\ UNCHANGED <<chain, stored, selected, events, written, reorged, faults>>
    BY JobFacts DEF EmitTransactions, history, Sound, Progress
<1>2. told' \in Wallets
    BY <1>1, JobFacts DEF JobType, Wallets
<1>3. \A t \in Txs : told'[t] # "unseen" => t \in written
    <2> SUFFICES ASSUME NEW t \in Txs, told'[t] # "unseen" PROVE t \in written
        OBVIOUS
    <2>1. CASE t \in News(j, a)
        BY <2>1, <1>1 DEF News, TxsOf, Sound, Learning
    <2>2. CASE t \notin News(j, a)
        BY <2>2, <1>1 DEF SyncInv, PersistedFirst
    <2> QED BY <2>1, <2>2
<1>4. Grows(chain, chain', reorged, reorged', written, written')
    BY <1>1 DEF Grows
<1>5. PICK q \in JobType : job' = [job EXCEPT ![j] = q] /\ Sound(q, chain, reorged, written)
    <2>1. CASE End(j)
        BY <2>1, RestFits DEF End
    <2>2. CASE job' = [job EXCEPT ![j].tell = @ \ {a}]
        <3> DEFINE q == [job[j] EXCEPT !.tell = @ \ {a}]
        <3>1. q \in JobType /\ Sound(q, chain, reorged, written)
            BY <1>1 DEF JobType, Sound, Views, Progress, Learning
        <3>2. job' = [job EXCEPT ![j] = q]
            BY <2>2
        <3> HIDE DEF q
        <3> QED BY <3>1, <3>2
    <2> QED BY <2>1, <2>2 DEF EmitTransactions
<1> QED BY <1>1, <1>2, <1>3, <1>4, <1>5, OneJob DEF SyncInv, TypeOK

\* Throw and Restart give up jobs, Confirm and its like change the chain.
LEMMA OthersKeep ==
    ASSUME SyncInv,
           \/ \E t \in Txs : Arrive(t) \/ Confirm(t) \/ Reorg(t)
           \/ \E ids \in Selections : SetSelectedAccounts(ids)
           \/ \E e \in events : Skip(e)
           \/ \E j \in Jobs : Throw(j)
           \/ Restart
           \/ UNCHANGED vars
    PROVE  SyncInv'
<1> USE DEF client, history
<1>0. /\ chain \in Wallets /\ Grounded(stored, chain, reorged)
      /\ \A j \in Jobs : job[j] \in JobType /\ Sound(job[j], chain, reorged, written)
    BY JobFacts DEF SyncInv, TypeOK
<1>1. CASE \E t \in Txs : Arrive(t) \/ Confirm(t) \/ Reorg(t)
    <2>1. PICK t \in Txs, s \in Statuses :
              /\ chain' = [chain EXCEPT ![t] = s]
              /\ chain[t] = "confirmed" => t \in reorged'
              /\ reorged' = reorged \/ reorged' = reorged \cup {t}
              /\ UNCHANGED <<stored, told, selected, events, job, written, faults>>
        BY <1>1 DEF Arrive, Confirm, Reorg, Statuses
    <2>2. /\ chain' \in Wallets /\ reorged' \subseteq Txs
          /\ Grows(chain, chain', reorged, reorged', written, written')
          /\ Grounded(stored, chain', reorged')
        BY <1>0, <2>1 DEF Wallets, Grows, Grounded, SyncInv, TypeOK
    <2>3. \A j \in Jobs : Sound(job[j], chain', reorged', written')
        BY <1>0, <2>2, SoundStays
    <2> QED BY <2>1, <2>2, <2>3 DEF SyncInv, TypeOK, PersistedFirst
<1>2. CASE \E ids \in Selections : SetSelectedAccounts(ids)
    <2>1. PICK ids \in SUBSET Accounts :
              /\ selected' = ids /\ events' = events \cup {[kind |-> "sync", ids |-> ids]}
              /\ UNCHANGED <<chain, stored, told, job, written, reorged, faults>>
        BY <1>2, AccountAssumption DEF SetSelectedAccounts
    <2>2. events' \subseteq Events /\ selected' \subseteq Accounts
        BY <2>1 DEF SyncInv, TypeOK, Events
    <2> QED BY <2>1, <2>2 DEF SyncInv, TypeOK, PersistedFirst
<1>3. CASE (\E e \in events : Skip(e)) \/ UNCHANGED vars
    <2>1. /\ events' \subseteq events
          /\ UNCHANGED <<chain, stored, told, selected, job, written, reorged, faults>>
        BY <1>3 DEF Skip, vars
    <2> QED BY <2>1 DEF SyncInv, TypeOK, PersistedFirst
<1>4. CASE \E j \in Jobs : Throw(j)
    BY <1>4, RestFits, JobFacts, OneJobOnly DEF Throw, End
<1>5. CASE Restart
    <2>1. /\ job' = [j \in Jobs |-> Rest] /\ faults' \in 0..MaxFaults
          /\ UNCHANGED <<chain, stored, told, selected, events, written, reorged>>
        BY <1>5, JobFacts DEF Restart, Busy
    <2>2. job' \in [Jobs -> JobType]
          /\ \A j \in Jobs : Sound(job'[j], chain', reorged', written')
        BY <2>1, RestFits
    <2>3. TypeOK'
        BY <2>1, <2>2 DEF SyncInv, TypeOK, JobType, Sound, Progress
    <2> QED BY <2>1, <2>2, <2>3 DEF SyncInv, PersistedFirst
<1> QED BY <1>1, <1>2, <1>3, <1>4, <1>5

LEMMA SyncStep == SyncInv /\ [Next]_vars => SyncInv'
<1> SUFFICES ASSUME SyncInv, [Next]_vars PROVE SyncInv'
    OBVIOUS
<1>1. ASSUME NEW j \in Jobs, Work(j) PROVE SyncInv'
    BY <1>1, LoadKeeps, SettleKeeps, QueryKeeps, ReadAndFailKeep, WriteKeeps, EmitKeeps,
       BroadcastKeeps DEF Work
<1>2. ASSUME NEW j \in Jobs, NEW a \in Accounts, Fail(j, a) PROVE SyncInv'
    BY <1>2, ReadAndFailKeep
<1> QED BY <1>1, <1>2, StartKeeps, OthersKeep DEF Next

-----------------------------------------------------------------------------
\* The persisted wallets, the jobs and what the client was told keep their types.
THEOREM SyncTyped == Spec => []TypeOK
<1>1. SyncInv => TypeOK
    BY DEF SyncInv
<1> QED BY SyncInit, SyncStep, <1>1, PTL DEF Spec

\* However jobs overlap, fail and restart, the client hears only of transactions
\* that were persisted before.
THEOREM ToldWasPersisted == Spec => []PersistedFirst
<1>1. SyncInv => PersistedFirst
    BY DEF SyncInv
<1> QED BY SyncInit, SyncStep, <1>1, PTL DEF Spec

\* synchronize reports a reorganisation only of a transaction that had one.
THEOREM NoFalseReorgs == Spec => []ReorgsAreReal
<1>1. SyncInv => ReorgsAreReal
    BY DEF SyncInv, ReorgsAreReal, LostConfirmation, TxsOf, Sound, Learning
<1> QED BY SyncInit, SyncStep, <1>1, PTL DEF Spec

-----------------------------------------------------------------------------
(* Updates of one account that overlap.                                    *)

\* Steps other than Write leave the persisted wallets.
LEMMA OnlyWriteStores ==
    ASSUME [Next]_vars, \A j \in Jobs, a \in Accounts : ~Write(j, a)
    PROVE  stored' = stored
BY DEF Next, Start, Work, vars, Arrive, Confirm, Reorg, SetSelectedAccounts, Skip,
       SynchronizeAccounts, Fire, BeginSend, Load, Settle, Query, Read, Mark, EmitTransactions,
       Broadcast, Refuse, Throw, Fail, Restart

\* An update drops a persisted transaction only if another one stored it, or
\* something else of the account, between its read and its write.
THEOREM UpdatesAreKept == Spec => UpdatesKeep
<1> DEFINE Kept == \A t \in Txs : stored[t] # "unseen" /\ stored'[t] = "unseen" =>
                      \E j \in Jobs : /\ job[j].part[Owner[t]] = "write"
                                      /\ \E u \in TxsOf(Owner[t]) : job[j].read[u] # stored[u]
<1>1. SyncInv /\ [Next]_vars => Kept
    <2> SUFFICES ASSUME SyncInv, [Next]_vars, NEW t \in Txs,
                        stored[t] # "unseen", stored'[t] = "unseen"
                 PROVE  \E j \in Jobs : /\ job[j].part[Owner[t]] = "write"
                                        /\ \E u \in TxsOf(Owner[t]) : job[j].read[u] # stored[u]
        OBVIOUS
    <2>1. PICK j \in Jobs, a \in Accounts : Write(j, a)
        BY OnlyWriteStores
    <2>2. Owner[t] = a /\ job[j].read[t] = "unseen"
        BY <2>1, WriteFacts
    <2>3. job[j].part[a] = "write" /\ t \in TxsOf(a)
        BY <2>1, <2>2 DEF Write, TxsOf
    <2> QED BY <2>2, <2>3
<1>2. Kept => [Kept]_vars
    OBVIOUS
<1> QED BY SyncInit, SyncStep, <1>1, PTL DEF Spec, UpdatesKeep

-----------------------------------------------------------------------------
(* What is persisted is told.                                              *)

IsNews(q, t) ==
    IF q.kind = "scan" THEN q.after[t] # "unseen" ELSE q.after[t] # q.before[t]

LEMMA NewsMembers ==
    ASSUME NEW j, NEW a
    PROVE  News(j, a) = {t \in Txs : Owner[t] = a /\ IsNews(job[j], t)}
BY DEF News, TxsOf, IsNews

\* The job is going to tell the client of the transaction.
WillTell(q, t) ==
    /\ q.part[Owner[t]] \in Persisted /\ IsNews(q, t)
    /\ q.pc = "work" \/ (q.pc = "emit" /\ Owner[t] \in q.tell)

\* The job has told the client all it is not going to tell.
HasTold(q, tl) ==
    q.pc = "emit" =>
        \A t \in Txs : q.part[Owner[t]] = "ok" /\ IsNews(q, t) /\ Owner[t] \notin q.tell =>
            tl[t] # "unseen"

Promised(t) == told[t] # "unseen" \/ \E j \in Jobs : WillTell(job[j], t)

TellInv ==
    /\ SyncInv
    /\ \A j \in Jobs : HasTold(job[j], told)
    /\ faults = 0 => \A t \in Txs :
           stored[t] # "unseen" \/ (\E j \in Jobs : job[j].read[t] # "unseen") => Promised(t)

LEMMA TellInit == Init => TellInv
<1> SUFFICES ASSUME Init PROVE TellInv
    OBVIOUS
<1>1. \A j \in Jobs : job[j].pc = "idle" /\ job[j].read = Empty
    BY DEF Init, Rest
<1> QED BY <1>1, SyncInit, EmptyIsWallet DEF Init, TellInv, HasTold

\* A step of one job keeps the promises, if the job keeps its own and reads only
\* what was promised.
LEMMA PromisesKept ==
    ASSUME TellInv, [Next]_vars, NEW j \in Jobs, NEW q, job' = [job EXCEPT ![j] = q],
           \A t \in Txs : told[t] # "unseen" => told'[t] # "unseen",
           HasTold(q, told'),
           faults' = 0 => faults = 0,
           faults' = 0 => \A t \in Txs :
               /\ WillTell(job[j], t) => WillTell(q, t) \/ told'[t] # "unseen"
               /\ q.read[t] # "unseen" => stored[t] # "unseen" \/ job[j].read[t] # "unseen"
               /\ stored'[t] # "unseen" =>
                      stored[t] # "unseen" \/ job[j].read[t] # "unseen" \/ WillTell(q, t)
    PROVE  TellInv'
<1>1. SyncInv' /\ job \in [Jobs -> JobType]
    BY SyncStep DEF TellInv, SyncInv, TypeOK, JobType
<1>2. job'[j] = q /\ \A i \in Jobs \ {j} : job'[i] = job[i]
    BY <1>1
<1>3. \A i \in Jobs : HasTold(job'[i], told')
    BY <1>2 DEF TellInv, HasTold
<1>4. ASSUME faults' = 0, NEW t \in Txs,
             stored'[t] # "unseen" \/ \E i \in Jobs : job'[i].read[t] # "unseen"
      PROVE  told'[t] # "unseen" \/ \E i \in Jobs : WillTell(job'[i], t)
    <2>1. CASE WillTell(q, t)
        BY <2>1, <1>2
    <2>2. CASE ~WillTell(q, t)
        <3>1. stored[t] # "unseen" \/ \E i \in Jobs : job[i].read[t] # "unseen"
            BY <1>2, <1>4, <2>2
        <3>2. told[t] # "unseen" \/ \E i \in Jobs : WillTell(job[i], t)
            BY <1>4, <3>1 DEF TellInv, Promised
        <3> QED BY <1>2, <1>4, <3>2
    <2> QED BY <2>1, <2>2
<1> QED BY <1>1, <1>3, <1>4 DEF TellInv, Promised, WillTell, IsNews

\* A job that gives up after a failure.
LEMMA FaultsArePositive == SyncInv /\ Fault => faults' # 0
BY BoundAssumption DEF SyncInv, TypeOK, Fault

LEMMA StartKeepsPromises ==
    ASSUME TellInv, NEW j \in Jobs, Start(j)
    PROVE  TellInv'
<1> USE DEF client, history
<1>1. PICK kind, ids :
          Begin(j, kind, ids) /\ UNCHANGED <<stored, told, faults>>
    BY DEF Start, SynchronizeAccounts, Fire, BeginSend
<1> DEFINE q == [Rest EXCEPT !.kind = kind, !.pc = "list",
                             !.part = [a \in Accounts |-> IF a \in ids THEN "query" ELSE "out"]]
<1>2. q.pc = "list" /\ \A t \in Txs : q.read[t] = "unseen"
    BY EmptyIsWallet DEF Rest
<1>3. job' = [job EXCEPT ![j] = q] /\ job[j].pc = "idle"
    BY <1>1 DEF Begin, Free
<1>4. [Next]_vars
    BY DEF Next
<1> HIDE DEF q
<1> QED BY <1>1, <1>2, <1>3, <1>4, PromisesKept DEF HasTold, WillTell

\* A step of a job at work changes one of its accounts, which has nothing to
\* tell before its wallet is stored, and keeps it while nothing fails.
LEMMA WorkKeepsPromises ==
    ASSUME TellInv, NEW j \in Jobs, NEW a \in Accounts,
           \/ Query(j, a) \/ Read(j, a) \/ Write(j, a) \/ Mark(j, a) \/ Fail(j, a)
           \/ \E t \in Txs : Owner[t] = a /\ (Broadcast(j, t) \/ Refuse(j, t))
    PROVE  TellInv'
<1> USE DEF client, history
<1>0. /\ SyncInv /\ [Next]_vars /\ job[j] \in JobType
      /\ job[j].pc = "work" /\ job[j].part[a] \in {"query", "read", "write", "mark"}
      /\ told' = told
    BY JobFacts DEF TellInv, Next, Work, Query, Read, Write, Mark, Fail, Broadcast, Refuse
<1> DEFINE OneAccount(q) ==
              /\ job' = [job EXCEPT ![j] = q] /\ q \in JobType
              /\ q.kind = job[j].kind /\ q.pc = "work"
              /\ \A t \in Txs : Owner[t] # a =>
                    /\ q.part[Owner[t]] = job[j].part[Owner[t]]
                    /\ q.before[t] = job[j].before[t] /\ q.after[t] = job[j].after[t]
           Reads(q) == \A t \in Txs :
              q.read[t] # "unseen" => stored[t] # "unseen" \/ job[j].read[t] # "unseen"
           Keeps(q) == faults' = 0 /\ job[j].part[a] = "mark" =>
              q.part[a] = "ok" /\ q.before = job[j].before /\ q.after = job[j].after
<1>1. ASSUME NEW q, OneAccount(q), Reads(q), Keeps(q), faults' = 0 => faults = 0,
             faults' = 0 => \A t \in Txs : stored'[t] # "unseen" =>
                 stored[t] # "unseen" \/ job[j].read[t] # "unseen" \/ WillTell(q, t)
      PROVE  TellInv'
    <2>1. faults' = 0 => \A t \in Txs : WillTell(job[j], t) => WillTell(q, t)
        <3> SUFFICES ASSUME faults' = 0, NEW t \in Txs, WillTell(job[j], t)
                     PROVE  WillTell(q, t)
            OBVIOUS
        <3>1. CASE Owner[t] # a
            BY <1>0, <1>1, <3>1 DEF WillTell, IsNews
        <3>2. CASE Owner[t] = a
            BY <1>0, <1>1, <3>2 DEF WillTell, IsNews
        <3> QED BY <3>1, <3>2
    <2>2. HasTold(q, told')
        BY <1>1 DEF HasTold
    <2> HIDE DEF OneAccount, Keeps
    <2>3. job' = [job EXCEPT ![j] = q]
        BY <1>1 DEF OneAccount
    <2> QED BY <1>0, <1>1, <2>1, <2>2, <2>3, PromisesKept
<1>2. \A w \in Wallets, t \in Txs :
          /\ Replace(job[j].read, a, w)[t] = IF Owner[t] = a THEN w[t] ELSE job[j].read[t]
          /\ Replace(job[j].read, a, w) \in Wallets
    BY <1>0, ReplaceIsWallet DEF Replace, JobType
<1>3. stored \in Wallets /\ chain \in Wallets /\ Empty \in Wallets
    BY <1>0, JobFacts, EmptyIsWallet
<1>4. CASE Query(j, a)
    <2> DEFINE wallet == Answered(j, a)
               p == [job[j] EXCEPT !.part[a] = "read", !.after = wallet]
               q == [job[j] EXCEPT !.part[a] = "ok"]
    <2>1. job[j].part[a] = "query" /\ UNCHANGED <<stored, faults>>
        BY <1>4 DEF Query
    <2>2. wallet \in Wallets /\ \A t \in Txs : Owner[t] # a => wallet[t] = job[j].after[t]
        <3>1. \A t \in Txs : wallet[t] \in {chain[t], job[j].after[t]}
            BY DEF Answered
        <3> QED BY <1>0, <1>3, <3>1 DEF Answered, JobType, Wallets
    <2> HIDE DEF wallet
    <2>3. CASE job' = [job EXCEPT ![j].part[a] = "read", ![j].after = wallet]
        <3>1. OneAccount(p) /\ Reads(p) /\ Keeps(p)
            BY <1>0, <2>1, <2>2, <2>3, OwnerAssumption DEF JobType, Parts
        <3> HIDE DEF p, OneAccount, Reads, Keeps
        <3> QED BY <1>1, <2>1, <3>1
    <2>4. CASE Step(j, a, "ok")
        <3>1. OneAccount(q) /\ Reads(q) /\ Keeps(q)
            BY <1>0, <2>1, <2>4, OwnerAssumption DEF JobType, Parts, Step
        <3> HIDE DEF q, OneAccount, Reads, Keeps
        <3> QED BY <1>1, <2>1, <3>1
    <2> QED BY <1>4, <2>3, <2>4 DEF Query, wallet
<1>5. CASE Read(j, a)
    <2> DEFINE w == Replace(job[j].read, a, stored)
               q == [job[j] EXCEPT !.part[a] = "write", !.read = w]
    <2>1. job[j].part[a] = "read" /\ UNCHANGED <<stored, faults>> /\ job' = [job EXCEPT ![j] = q]
        BY <1>5 DEF Read
    <2>2. w \in Wallets /\ \A t \in Txs : w[t] = IF Owner[t] = a THEN stored[t] ELSE job[j].read[t]
        BY <1>2, <1>3, <1>0, ReplaceIsWallet DEF JobType
    <2> HIDE DEF w
    <2>3. OneAccount(q) /\ Reads(q) /\ Keeps(q)
        BY <1>0, <2>1, <2>2, OwnerAssumption DEF JobType, Parts
    <2> HIDE DEF q, OneAccount, Reads, Keeps
    <2> QED BY <1>1, <2>1, <2>3
<1>6. CASE Write(j, a)
    <2>0. PICK p \in Persisted : p = IF StoresInscriptions(j, a) THEN "mark" ELSE "ok"
        OBVIOUS
    <2> DEFINE w == Replace(job[j].read, a, Empty)
               q == [job[j] EXCEPT !.part[a] = p, !.read = w]
    <2>1. job[j].part[a] = "write" /\ UNCHANGED <<faults>> /\ job' = [job EXCEPT ![j] = q]
        BY <1>6, <2>0 DEF Write
    <2>2. /\ w \in Wallets
          /\ \A t \in Txs : w[t] = IF Owner[t] = a THEN "unseen" ELSE job[j].read[t]
        BY <1>2, <1>3, <1>0, ReplaceIsWallet, EmptyIsWallet DEF JobType
    <2> HIDE DEF w
    <2>3. OneAccount(q) /\ Reads(q) /\ Keeps(q)
        BY <1>0, <2>1, <2>2, OwnerAssumption DEF JobType, Parts
    <2>4. ASSUME NEW t \in Txs, stored'[t] # "unseen"
          PROVE  stored[t] # "unseen" \/ job[j].read[t] # "unseen" \/ WillTell(q, t)
        <3>1. CASE Owner[t] # a
            BY <1>0, <1>6, <2>4, <3>1, WriteFacts
        <3>2. CASE Owner[t] = a /\ Staged(j)[t] = "unseen"
            BY <1>0, <1>6, <2>4, <3>2, WriteFacts
        <3>3. CASE Owner[t] = a /\ Staged(j)[t] # "unseen"
            <4>1. job[j].after[t] # job[j].before[t] /\ job[j].after[t] # "unseen"
                BY <3>3 DEF Staged
            <4>2. /\ q.part[a] \in Persisted /\ q.pc = "work"
                  /\ q.after = job[j].after /\ q.before = job[j].before
                BY <1>0 DEF JobType
            <4> HIDE DEF q
            <4> QED BY <3>3, <4>1, <4>2 DEF WillTell, IsNews
        <3> QED BY <3>1, <3>2, <3>3
    <2> HIDE DEF q, OneAccount, Reads, Keeps
    <2> QED BY <1>1, <2>1, <2>3, <2>4
<1>7. CASE Fail(j, a)
    <2> DEFINE w == Replace(job[j].read, a, Empty)
               q == [job[j] EXCEPT !.part[a] = "failed", !.read = w]
    <2>1. faults' # 0 /\ job' = [job EXCEPT ![j] = q]
        BY <1>0, <1>7, FaultsArePositive DEF Fail
    <2>2. /\ w \in Wallets
          /\ \A t \in Txs : w[t] = IF Owner[t] = a THEN "unseen" ELSE job[j].read[t]
        BY <1>2, <1>3, <1>0, ReplaceIsWallet, EmptyIsWallet DEF JobType
    <2> HIDE DEF w
    <2>3. OneAccount(q) /\ Reads(q) /\ Keeps(q)
        BY <1>0, <2>1, <2>2, OwnerAssumption DEF JobType, Parts
    <2> HIDE DEF q, OneAccount, Reads, Keeps
    <2> QED BY <1>1, <2>1, <2>3
<1>8. ASSUME NEW t \in Txs, Owner[t] = a, Broadcast(j, t)
      PROVE  TellInv'
    <2> DEFINE q == [job[j] EXCEPT !.part[Owner[t]] = "read", !.after[t] = "pending"]
    <2>1. job[j].part[a] = "query" /\ UNCHANGED <<stored, faults>> /\ job' = [job EXCEPT ![j] = q]
        BY <1>8 DEF Broadcast
    <2>2. OneAccount(q) /\ Reads(q) /\ Keeps(q)
        BY <1>0, <1>8, <2>1, OwnerAssumption DEF JobType, Parts, Wallets, Statuses
    <2> HIDE DEF q, OneAccount, Reads, Keeps
    <2> QED BY <1>1, <2>1, <2>2
<1>9. ASSUME NEW t \in Txs, Owner[t] = a, Refuse(j, t)
      PROVE  TellInv'
    <2> DEFINE q == [job[j] EXCEPT !.part[Owner[t]] = "failed"]
    <2>1. job[j].part[a] = "query" /\ UNCHANGED <<stored, faults>> /\ job' = [job EXCEPT ![j] = q]
        BY <1>9 DEF Refuse, Step
    <2>2. OneAccount(q) /\ Reads(q) /\ Keeps(q)
        BY <1>0, <1>9, <2>1, OwnerAssumption DEF JobType, Parts
    <2> HIDE DEF q, OneAccount, Reads, Keeps
    <2> QED BY <1>1, <2>1, <2>2
<1>10. CASE Mark(j, a)
    <2> DEFINE q == [job[j] EXCEPT !.part[a] = "ok"]
    <2>1. UNCHANGED <<stored, faults>> /\ job' = [job EXCEPT ![j] = q]
        BY <1>10 DEF Mark, Step
    <2>2. OneAccount(q) /\ Reads(q) /\ Keeps(q)
        BY <1>0, <2>1, OwnerAssumption DEF JobType, Parts
    <2> HIDE DEF q, OneAccount, Reads, Keeps
    <2> QED BY <1>1, <2>1, <2>2
<1> QED BY <1>4, <1>5, <1>6, <1>7, <1>8, <1>9, <1>10

LEMMA LoadKeepsPromises ==
    ASSUME TellInv, NEW j \in Jobs, Load(j)
    PROVE  TellInv'
<1> DEFINE mine == [t \in Txs |-> IF Owner[t] \in Members(j) THEN stored[t] ELSE "unseen"]
           q == [job[j] EXCEPT !.pc = "work", !.before = mine, !.after = mine]
<1>1. /\ SyncInv /\ [Next]_vars /\ job[j] \in JobType /\ job[j].pc = "list"
      /\ UNCHANGED <<stored, told, faults>> /\ job' = [job EXCEPT ![j] = q]
    BY JobFacts DEF TellInv, Next, Work, Load, client, history
<1>2. q.pc = "work" /\ q.read = job[j].read
    BY <1>1 DEF JobType
<1> HIDE DEF q
<1> QED BY <1>1, <1>2, PromisesKept DEF HasTold, WillTell

LEMMA SettleKeepsPromises ==
    ASSUME TellInv, NEW j \in Jobs, Settle(j)
    PROVE  TellInv'
<1> DEFINE q == [job[j] EXCEPT !.pc = "emit", !.tell = Succeeded(j)]
<1>1. /\ SyncInv /\ [Next]_vars /\ job[j] \in JobType
      /\ UNCHANGED <<stored, told, faults>>
    BY JobFacts DEF TellInv, Next, Work, Settle, client, history
<1>2. CASE Succeeded(j) = {} /\ End(j)
    <2>1. /\ job' = [job EXCEPT ![j] = Rest]
          /\ Rest.pc = "idle" /\ \A t \in Txs : Rest.read[t] = "unseen"
        BY <1>2, EmptyIsWallet DEF End, Rest
    <2>2. \A t \in Txs : ~WillTell(job[j], t)
        BY <1>2, OwnerAssumption DEF Settle, Succeeded, WillTell
    <2> QED BY <1>1, <2>1, <2>2, PromisesKept DEF HasTold
<1>3. CASE job' = [job EXCEPT ![j].pc = "emit", ![j].tell = Succeeded(j)]
    <2>1. /\ job' = [job EXCEPT ![j] = q]
          /\ q.pc = "emit" /\ q.tell = Succeeded(j) /\ q.kind = job[j].kind
          /\ q.part = job[j].part /\ q.read = job[j].read
          /\ q.before = job[j].before /\ q.after = job[j].after
        BY <1>1, <1>3 DEF JobType
    <2> HIDE DEF q
    <2>2. \A t \in Txs : q.part[Owner[t]] \in Persisted => Owner[t] \in q.tell
        BY <2>1, OwnerAssumption DEF Settle, Succeeded
    <2>3. HasTold(q, told') /\ \A t \in Txs : WillTell(job[j], t) => WillTell(q, t)
        BY <2>1, <2>2 DEF HasTold, WillTell, IsNews
    <2> QED BY <1>1, <2>1, <2>3, PromisesKept
<1> QED BY <1>2, <1>3 DEF Settle

\* What an event of transactions tells: the news of the account, all of them seen.
LEMMA EmitFacts ==
    ASSUME SyncInv, NEW j \in Jobs, NEW a \in Accounts, EmitTransactions(j, a), NEW t \in Txs
    PROVE  /\ told[t] # "unseen" => told'[t] # "unseen"
           /\ Owner[t] = a /\ IsNews(job[j], t) => told'[t] # "unseen"
<1>1. told'[t] = IF Owner[t] = a /\ IsNews(job[j], t) THEN job[j].after[t] ELSE told[t]
    BY NewsMembers DEF EmitTransactions
<1>2. IsNews(job[j], t) => job[j].after[t] # "unseen"
    BY JobFacts DEF IsNews, Sound, Learning
<1> QED BY <1>1, <1>2

LEMMA EmitKeepsPromises ==
    ASSUME TellInv, NEW j \in Jobs, NEW a \in Accounts, EmitTransactions(j, a)
    PROVE  TellInv'
<1>1. /\ SyncInv /\ [Next]_vars /\ job[j] \in JobType /\ job[j].pc = "emit"
      /\ UNCHANGED <<stored, faults>>
    BY JobFacts DEF TellInv, Next, Work, EmitTransactions, history
<1>2. \A t \in Txs : /\ told[t] # "unseen" => told'[t] # "unseen"
                     /\ Owner[t] = a /\ IsNews(job[j], t) => told'[t] # "unseen"
    BY <1>1, EmitFacts
<1>3. CASE job[j].tell = {a} /\ End(j)
    <2>1. /\ job' = [job EXCEPT ![j] = Rest]
          /\ Rest.pc = "idle" /\ \A t \in Txs : Rest.read[t] = "unseen"
        BY <1>3, EmptyIsWallet DEF End, Rest
    <2>2. \A t \in Txs : WillTell(job[j], t) => told'[t] # "unseen"
        BY <1>1, <1>2, <1>3 DEF WillTell
    <2> QED BY <1>1, <1>2, <2>1, <2>2, PromisesKept DEF HasTold
<1>4. CASE job' = [job EXCEPT ![j].tell = @ \ {a}]
    <2> DEFINE q == [job[j] EXCEPT !.tell = @ \ {a}]
    <2>1. /\ job' = [job EXCEPT ![j] = q]
          /\ q.pc = "emit" /\ q.tell = job[j].tell \ {a} /\ q.kind = job[j].kind
          /\ q.part = job[j].part /\ q.read = job[j].read
          /\ q.before = job[j].before /\ q.after = job[j].after
        BY <1>1, <1>4 DEF JobType
    <2> HIDE DEF q
    <2>2. \A t \in Txs : WillTell(job[j], t) => WillTell(q, t) \/ told'[t] # "unseen"
        BY <1>1, <1>2, <2>1 DEF WillTell, IsNews
    <2>3. HasTold(q, told')
        BY <1>1, <1>2, <2>1 DEF TellInv, HasTold, IsNews
    <2> QED BY <1>1, <1>2, <2>1, <2>2, <2>3, PromisesKept
<1> QED BY <1>3, <1>4 DEF EmitTransactions

LEMMA OthersKeepPromises ==
    ASSUME TellInv,
           \/ \E t \in Txs : Arrive(t) \/ Confirm(t) \/ Reorg(t)
           \/ \E ids \in Selections : SetSelectedAccounts(ids)
           \/ \E e \in events : Skip(e)
           \/ \E j \in Jobs : Throw(j)
           \/ Restart
           \/ UNCHANGED vars
    PROVE  TellInv'
<1> USE DEF client, history
<1>1. SyncInv /\ SyncInv'
    BY OthersKeep DEF TellInv
<1>2. CASE (\E j \in Jobs : Throw(j)) \/ Restart
    <2>1. faults' # 0 /\ told' = told
        BY <1>1, <1>2, FaultsArePositive DEF Throw, Restart
    <2>2. \A j \in Jobs : job'[j].pc = "idle" \/ job'[j] = job[j]
        BY <1>1, <1>2 DEF Throw, Restart, End, Rest, SyncInv, TypeOK
    <2> QED BY <1>1, <2>1, <2>2 DEF TellInv, HasTold
<1>3. CASE ~((\E j \in Jobs : Throw(j)) \/ Restart)
    <2>1. UNCHANGED <<stored, told, job, faults>>
        BY <1>3 DEF Arrive, Confirm, Reorg, SetSelectedAccounts, Skip, vars
    <2> QED BY <1>1, <2>1 DEF TellInv, HasTold, Promised, WillTell, IsNews
<1> QED BY <1>2, <1>3

LEMMA TellStep == TellInv /\ [Next]_vars => TellInv'
<1> SUFFICES ASSUME TellInv, [Next]_vars PROVE TellInv'
    OBVIOUS
<1>1. ASSUME NEW j \in Jobs, Work(j) PROVE TellInv'
    BY <1>1, OwnerAssumption, LoadKeepsPromises, SettleKeepsPromises, EmitKeepsPromises,
       WorkKeepsPromises DEF Work
<1>2. ASSUME NEW j \in Jobs, NEW a \in Accounts, Fail(j, a) PROVE TellInv'
    BY <1>2, WorkKeepsPromises
<1> QED BY <1>1, <1>2, StartKeepsPromises, OthersKeepPromises DEF Next

-----------------------------------------------------------------------------
\* While nothing fails, all that is persisted has been told once the jobs are
\* over, however many of them worked on one account at once.
THEOREM StoredIsAnnounced == Spec => []StoredIsTold
<1>1. TellInv => StoredIsTold
    BY DEF TellInv, StoredIsTold, Promised, WillTell, Busy, Free
<1> QED BY TellInit, TellStep, <1>1, PTL DEF Spec

\* A job that ends has told the news of every account that was synchronised,
\* though others of its accounts failed.
THEOREM OneFailureIsOne == Spec => FailuresAreIsolated
<1> DEFINE Isolated ==
        \A j \in Jobs, a \in Accounts :
            /\ job[j].part[a] = "ok" /\ faults' = faults
            /\ ~Free(j) /\ job'[j].pc = "idle"
            => \A t \in News(j, a) : told'[t] # "unseen"
<1>1. TellInv /\ [Next]_vars => Isolated
    <2> SUFFICES ASSUME TellInv, [Next]_vars, NEW j \in Jobs, NEW a \in Accounts,
                        job[j].part[a] = "ok", faults' = faults,
                        job[j].pc # "idle", job'[j].pc = "idle",
                        NEW t \in Txs, Owner[t] = a, IsNews(job[j], t)
                 PROVE  told'[t] # "unseen"
        BY NewsMembers DEF Free
    <2>0. SyncInv /\ job[j] \in JobType /\ job \in [Jobs -> JobType] /\ faults \in Nat
        BY JobFacts, BoundAssumption DEF TellInv, SyncInv, TypeOK, JobType
    <2>1. \/ Settle(j) /\ End(j) /\ Succeeded(j) = {}
          \/ \E b \in Accounts : EmitTransactions(j, b) /\ job[j].tell = {b} /\ job[j].pc = "emit"
        <3>1. PICK i \in Jobs : Start(i) \/ Work(i)
            <4>1. faults' # faults + 1
                BY <2>0
            <4>2. job' # job
                OBVIOUS
            <4>3. \A i \in Jobs : ~Throw(i) /\ \A b \in Accounts : ~Fail(i, b)
                BY <4>1 DEF Throw, Fail, Fault
            <4>4. ~Restart
                BY <4>1 DEF Restart, Fault
            <4>5. /\ ~UNCHANGED vars /\ \A e \in events : ~Skip(e)
                  /\ \A ids \in Selections : ~SetSelectedAccounts(ids)
                  /\ \A u \in Txs : ~Arrive(u) /\ ~Confirm(u) /\ ~Reorg(u)
                BY <4>2 DEF vars, Arrive, Confirm, Reorg, SetSelectedAccounts, Skip
            <4> QED BY <4>3, <4>4, <4>5 DEF Next
        <3>2. i = j
            BY <2>0, <3>1 DEF Start, SynchronizeAccounts, Fire, BeginSend, Begin, Work, Load,
                        Settle, End, Query, Step, Read, Write, Mark, EmitTransactions, Broadcast,
                        Refuse
        <3>3. ~Start(j)
            BY DEF Start, SynchronizeAccounts, Fire, BeginSend, Begin, Free
        <3>4. /\ ~Load(j)
              /\ \A b \in Accounts : ~Query(j, b) /\ ~Read(j, b) /\ ~Write(j, b) /\ ~Mark(j, b)
              /\ \A u \in Txs : ~Broadcast(j, u) /\ ~Refuse(j, u)
            <4>1. ~Load(j)
                BY <2>0 DEF Load, JobType
            <4>2. \A b \in Accounts : ~Query(j, b) /\ ~Read(j, b) /\ ~Write(j, b) /\ ~Mark(j, b)
                BY <2>0 DEF Query, Step, Read, Write, Mark, JobType
            <4>3. \A u \in Txs : ~Broadcast(j, u) /\ ~Refuse(j, u)
                BY <2>0 DEF Step, Broadcast, Refuse, JobType
            <4> QED BY <4>1, <4>2, <4>3
        <3>5. Settle(j) \/ \E b \in Accounts : EmitTransactions(j, b)
            BY <3>1, <3>2, <3>3, <3>4 DEF Work
        <3> QED BY <2>0, <3>5 DEF Settle, EmitTransactions, End, JobType
    <2>2. CASE Succeeded(j) = {}
        BY <2>2 DEF Succeeded
    <2>3. ASSUME NEW b \in Accounts, EmitTransactions(j, b),
                 job[j].tell = {b}, job[j].pc = "emit"
          PROVE  told'[t] # "unseen"
        <3>1. CASE a = b
            BY <2>0, <2>3, <3>1, EmitFacts
        <3>2. CASE a # b
            BY <2>0, <2>3, <3>2, EmitFacts DEF TellInv, HasTold
        <3> QED BY <3>1, <3>2
    <2> QED BY <2>1, <2>2, <2>3
<1>2. Isolated => [Isolated]_vars
    OBVIOUS
<1> QED BY TellInit, TellStep, <1>1, PTL DEF Spec, FailuresAreIsolated
=============================================================================
