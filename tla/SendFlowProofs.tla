--------------------------- MODULE SendFlowProofs ---------------------------
(***************************************************************************)
(* Proofs about SendFlow, for any accounts, wallets and how they change,   *)
(* amounts, recipients, rates and event ids, any number of handlers at     *)
(* once, of inputs, of loops and of failures.                              *)
(***************************************************************************)
EXTENDS SendFlow, FiniteSetTheorems, TLAPS

\* The handlers are records of three fields, whatever they keep.
Handlers ==
    task = [t \in Tasks |->
               [kind |-> task[t].kind, pc |-> task[t].pc, ctx |-> task[t].ctx]]

\* What a step does to the handlers: it leaves them alone, or changes one.
OneHandler(t, kind, pc, ctx) ==
    task' = [task EXCEPT ![t] = [kind |-> kind, pc |-> pc, ctx |-> ctx]]

\* The steps that give one handler another pc or context.
LEMMA HandlerSteps ==
    ASSUME Handlers, NEW t \in Tasks
    PROVE  /\ \A pc : Goto(t, pc) => OneHandler(t, task[t].kind, pc, task[t].ctx)
           /\ \A pc, ctx : Carry(t, pc, ctx) => OneHandler(t, task[t].kind, pc, ctx)
           /\ \A kind, pc, ctx : Become(t, kind, pc, ctx) => OneHandler(t, kind, pc, ctx)
           /\ Finish(t) => OneHandler(t, "edit", "idle", None)
BY DEF Handlers, Goto, Carry, Become, Finish, OneHandler, Rest

\* One handler changed: what each handler is afterwards.
LEMMA HandlerChanged ==
    ASSUME Handlers, NEW t \in Tasks, NEW kind, NEW pc, NEW ctx,
           OneHandler(t, kind, pc, ctx)
    PROVE  /\ Handlers'
           /\ task'[t] = [kind |-> kind, pc |-> pc, ctx |-> ctx]
           /\ \A u \in Tasks \ {t} : task'[u] = task[u]
BY DEF Handlers, OneHandler

-----------------------------------------------------------------------------
(* No loop forks.                                                          *)

LoopInv ==
    /\ Handlers
    /\ IsFiniteSet(scheduled) /\ IsFiniteSet(Refreshes)
    /\ loops \in Nat /\ LoopsBounded

LEMMA LoopInit == Init => LoopInv
<1> SUFFICES ASSUME Init PROVE LoopInv
    OBVIOUS
<1>1. Handlers /\ scheduled = {} /\ Refreshes = {} /\ loops = 0
    BY DEF Init, Handlers, Refreshes, Refreshing, Rest
<1> QED BY <1>1, FS_EmptySet DEF LoopInv, LoopsBounded

LEMMA RefreshesChanged ==
    ASSUME Handlers, NEW t \in Tasks, NEW kind, NEW pc, NEW ctx,
           OneHandler(t, kind, pc, ctx)
    PROVE  Refreshes' = IF pc \in Refreshing THEN Refreshes \cup {t} ELSE Refreshes \ {t}
<1>1. \A u \in Tasks : task'[u].pc = IF u = t THEN pc ELSE task[u].pc
    <2>1. /\ task'[t] = [kind |-> kind, pc |-> pc, ctx |-> ctx]
          /\ \A u \in Tasks \ {t} : task'[u] = task[u]
        BY HandlerChanged
    <2> QED BY <2>1
<1> QED BY <1>1 DEF Refreshes

\* What a step may do to the loops: stop one; go on with one; turn its event
\* into a refresh, or back; or start one and count it.
LEMMA LoopKept ==
    ASSUME LoopInv, NEW t \in Tasks, NEW kind, NEW pc, NEW ctx,
           OneHandler(t, kind, pc, ctx),
           \/ pc \notin Refreshing /\ loops' = loops
              /\ (scheduled' = scheduled \/ \E e : scheduled' = scheduled \ {e})
           \/ t \in Refreshes /\ loops' = loops /\ scheduled' = scheduled
           \/ loops' = loops /\ \E e \in scheduled : scheduled' = scheduled \ {e}
           \/ loops' = loops + 1 /\ scheduled' = scheduled
           \/ t \in Refreshes /\ pc \notin Refreshing /\ loops' = loops
              /\ \E e : scheduled' = scheduled \cup {e}
    PROVE  LoopInv'
<1>0. /\ IsFiniteSet(scheduled) /\ IsFiniteSet(Refreshes) /\ loops \in Nat
      /\ Cardinality(scheduled) \in Nat /\ Cardinality(Refreshes) \in Nat
      /\ Cardinality(scheduled) + Cardinality(Refreshes) <= loops
    BY FS_CardinalityType DEF LoopInv, LoopsBounded
<1>1. Handlers'
    BY HandlerChanged DEF LoopInv
<1>2. Refreshes' = IF pc \in Refreshing THEN Refreshes \cup {t} ELSE Refreshes \ {t}
    BY RefreshesChanged DEF LoopInv
<1>3. /\ IsFiniteSet(Refreshes')
      /\ Cardinality(Refreshes') = IF pc \in Refreshing
                            THEN IF t \in Refreshes THEN Cardinality(Refreshes) ELSE Cardinality(Refreshes) + 1
                            ELSE IF t \in Refreshes THEN Cardinality(Refreshes) - 1 ELSE Cardinality(Refreshes)
    BY <1>0, <1>2, FS_AddElement, FS_RemoveElement
<1>4. \A e : /\ IsFiniteSet(scheduled \ {e}) /\ IsFiniteSet(scheduled \cup {e})
             /\ Cardinality(scheduled \ {e}) =
                    IF e \in scheduled THEN Cardinality(scheduled) - 1 ELSE Cardinality(scheduled)
             /\ Cardinality(scheduled \cup {e}) =
                    IF e \in scheduled THEN Cardinality(scheduled) ELSE Cardinality(scheduled) + 1
    BY <1>0, FS_AddElement, FS_RemoveElement
<1>5. /\ IsFiniteSet(scheduled') /\ loops' \in Nat
      /\ Cardinality(scheduled') + Cardinality(Refreshes') <= loops'
    <2>1. CASE scheduled' = scheduled
        BY <2>1, <1>0, <1>3
    <2>2. CASE \E e : scheduled' = scheduled \ {e}
        <3>1. PICK e : scheduled' = scheduled \ {e}
            BY <2>2
        <3>2. /\ IsFiniteSet(scheduled')
              /\ Cardinality(scheduled') = IF e \in scheduled THEN Cardinality(scheduled) - 1
                                                            ELSE Cardinality(scheduled)
            BY <3>1, <1>4
        <3>3. \/ pc \notin Refreshing /\ loops' = loops
              \/ t \in Refreshes /\ loops' = loops
              \/ loops' = loops /\ e \in scheduled
              \/ loops' = loops + 1
            BY <3>1
        <3> QED BY <3>2, <3>3, <1>0, <1>3
    <2>3. CASE /\ t \in Refreshes /\ pc \notin Refreshing /\ loops' = loops
               /\ \E e : scheduled' = scheduled \cup {e}
        <3>1. PICK e : scheduled' = scheduled \cup {e}
            BY <2>3
        <3>2. /\ IsFiniteSet(scheduled')
              /\ Cardinality(scheduled') = IF e \in scheduled THEN Cardinality(scheduled)
                                                            ELSE Cardinality(scheduled) + 1
            BY <3>1, <1>4
        <3>3. Cardinality(Refreshes') = Cardinality(Refreshes) - 1
            BY <2>3, <1>3
        <3> QED BY <3>2, <3>3, <2>3, <1>0
    <2> QED BY <2>1, <2>2, <2>3
<1> QED BY <1>1, <1>3, <1>5 DEF LoopInv, LoopsBounded

LEMMA LoopStep == LoopInv /\ [Next]_vars => LoopInv'
<1> SUFFICES ASSUME LoopInv, [Next]_vars PROVE LoopInv'
    OBVIOUS
<1> USE DEF interface, history
<1>0. Handlers /\ \A t \in Tasks : task[t].pc \in Refreshing => t \in Refreshes
    BY DEF LoopInv, Refreshes
<1>1. CASE Display \/ Back
    <2>1. PICK t \in Tasks : \E kind, pc, ctx : OneHandler(t, kind, pc, ctx)
        BY <1>1, <1>0, HandlerSteps DEF Display, Back, Begin
    <2> QED BY <2>1, <1>1, LoopKept DEF Display, Back
<1>2. CASE Edit \/ Confirm \/ Cancel \/ Send
    <2>1. PICK t \in Tasks : \E kind, pc, ctx :
              OneHandler(t, kind, pc, ctx) /\ pc \notin Refreshing
        BY <1>2, <1>0, HandlerSteps DEF Edit, Confirm, Cancel, Send, Begin, Refreshing
    <2>2. scheduled' = scheduled /\ loops' = loops
        BY <1>2 DEF Edit, Confirm, Cancel, Send
    <2> QED BY <2>1, <2>2, LoopKept
<1>3. ASSUME NEW e \in Events, Fire(e) PROVE LoopInv'
    <2>1. PICK t \in Tasks : OneHandler(t, "refresh", "getContext", None)
        BY <1>3, <1>0, HandlerSteps DEF Fire, Begin
    <2> QED BY <2>1, <1>3, LoopKept DEF Fire
<1>4. ASSUME NEW t \in Tasks, Step(t) \/ Throw(t) PROVE LoopInv'
    <2> USE <1>0, HandlerSteps
    <2>0. CASE EditForm(t)
        <3>1. \E ctx : OneHandler(t, task[t].kind, "show", ctx)
            BY <2>0 DEF EditForm
        <3> QED BY <3>1, <2>0, LoopKept DEF EditForm, Refreshing
    <2>1. CASE GetContext(t) \/ FetchRates(t) \/ Reopen(t)
        <3>1. t \in Refreshes /\ scheduled' = scheduled /\ loops' = loops
            BY <2>1 DEF GetContext, FetchRates, Reopen, Refuse, Refreshing
        <3>2. \E kind, pc, ctx : OneHandler(t, kind, pc, ctx)
            BY <2>1 DEF GetContext, NoContext, FetchRates, Reopen, Refuse
        <3> QED BY <3>1, <3>2, LoopKept
    <2>2. CASE Schedule(t)
        <3>1. t \in Refreshes /\ loops' = loops /\ \E e : scheduled' = scheduled \cup {e}
            BY <2>2 DEF Schedule, Refreshing
        <3>2. \E ctx : OneHandler(t, task[t].kind, "show", ctx)
            BY <2>2 DEF Schedule
        <3> QED BY <3>1, <3>2, LoopKept DEF Refreshing
    <2>3. CASE Show(t) \/ ReviewForm(t) \/ Resolve(t) \/ CancelEvent(t) \/ Throw(t)
        <3>1. /\ loops' = loops
              /\ scheduled' = scheduled \/ \E e : scheduled' = scheduled \ {e}
            BY <2>3 DEF Show, ReviewForm, Resolve, CancelEvent, Throw, Refuse
        <3>2. \E kind, pc, ctx : OneHandler(t, kind, pc, ctx) /\ pc \notin Refreshing
            BY <2>3 DEF Show, ReviewForm, Resolve, CancelEvent, AfterCancel, Throw, Refuse,
                        Refreshing
        <3> QED BY <3>1, <3>2, LoopKept
    <2> QED BY <1>4, <2>0, <2>1, <2>2, <2>3 DEF Step
<1>5. CASE CloseDialog \/ Sign \/ (\E a \in Accounts : Synchronize(a)) \/ UNCHANGED vars
    <2>1. UNCHANGED <<task, scheduled, loops>>
        BY <1>5 DEF CloseDialog, Sign, Synchronize, vars
    <2> QED BY <2>1 DEF LoopInv, Handlers, Refreshes, LoopsBounded
<1>6. ASSUME NEW e \in Events, Skip(e) PROVE LoopInv'
    <2>1. UNCHANGED <<task, loops>> /\ scheduled' = scheduled \ {e}
        BY <1>6 DEF Skip
    <2>2. /\ Handlers' /\ Refreshes' = Refreshes
        BY <2>1, <1>0 DEF Handlers, Refreshes
    <2>3. IsFiniteSet(scheduled) /\ e \in scheduled /\ Cardinality(scheduled) \in Nat
        BY <1>6, FS_CardinalityType DEF LoopInv, Skip
    <2>4. /\ IsFiniteSet(scheduled \ {e})
          /\ Cardinality(scheduled \ {e}) = Cardinality(scheduled) - 1
        BY <2>3, FS_RemoveElement
    <2>5. Cardinality(Refreshes) \in Nat
        BY FS_CardinalityType DEF LoopInv
    <2> QED BY <2>1, <2>2, <2>3, <2>4, <2>5 DEF LoopInv, LoopsBounded
<1> QED BY <1>1, <1>2, <1>3, <1>4, <1>5, <1>6 DEF Next, Ended

\* However inputs, refreshes and failures interleave, no more refreshes are
\* pending or under way than display and HeaderBack started.
THEOREM NoLoopForks == Spec => []LoopsBounded
<1>1. LoopInv => LoopsBounded
    BY DEF LoopInv
<1> QED BY LoopInit, LoopStep, <1>1, PTL DEF Spec

-----------------------------------------------------------------------------
(* The contexts the handlers keep: their types, and the fee in them.       *)

\* What the fee field of a form tells: Confirm is possible only on a form with
\* an amount and a recipient, and with drain the amount is what the fee leaves.
Fillable(form) ==
    /\ form \in FormContext
    /\ form.fee # None =>
           /\ form.amount # None /\ form.recipient # None
           /\ form.drain => /\ Drains(form.fee)
                            /\ form.amount = form.balance - Cost(form.fee)

\* A form whose fee, when nothing is wrong with it, is the fee of that form.
SoundForm(form) ==
    /\ Fillable(form)
    /\ form.fee # None /\ form.errors = {} =>
           /\ form.fee.account = form.account /\ form.fee.recipient = form.recipient
           /\ ~form.drain => form.fee.takes = form.amount

SoundReview(ctx) == ctx \in ReviewContext /\ SoundForm(ctx.form) /\ Tells(ctx)

\* The kinds of handlers and the awaits each of them passes, with what it holds.
SoundHandler(kind, pc, ctx) ==
    /\ kind \in Kinds /\ pc \in PCs
    /\ pc = "idle" => kind = "edit" /\ ctx = None
    /\ pc = "getContext" => kind = "refresh" /\ ctx = None
    /\ pc = "edit" => kind = "edit"
    /\ pc \in {"fetch", "schedule"} => kind \in {"display", "refresh", "back"}
    /\ pc = "show" => kind \notin {"send", "cancel"}
    /\ pc = "reopen" => kind = "back"
    /\ pc = "cancelEvent" => kind \in {"confirm", "cancel"}
    /\ pc = "review" => kind = "confirm"
    /\ pc = "resolve" => kind \in {"cancel", "send"}
    /\ kind = "send" => ctx \in [psbt : Quote]
    /\ kind = "cancel" => ctx \in [event : Events \cup {None}]
    /\ kind = "refresh" /\ pc # "getContext" => SoundForm(ctx) \/ SoundReview(ctx)
    /\ kind \in {"display", "edit", "back"} /\ pc # "idle" => SoundForm(ctx)
    /\ kind = "confirm" => \/ SoundForm(ctx) /\ ctx.fee # None
                           \/ pc = "show" /\ SoundReview(ctx)

SoundHandlers ==
    \A t \in Tasks : SoundHandler(task[t].kind, task[t].pc, task[t].ctx)

\* What the host keeps with the interface.
SoundScreen ==
    /\ view \in {"none", "form", "review", "closed"}
    /\ view = "form" => SoundForm(context)
    /\ view = "review" => SoundReview(context)
    /\ view \in {"none", "closed"} => context = None

\* Before the interface is displayed nothing runs.
NothingBefore ==
    /\ flow = "idle" => view = "none" /\ loops = 0
    /\ view = "none" => scheduled = {} /\ \A t \in Tasks : task[t].pc = "idle"

SoundRest ==
    /\ wallet \in [Accounts -> Wallets]
    /\ scheduled \subseteq Events
    /\ flow \in {"idle", "open", "signing", "sent", "failed", "cancelled"}
    /\ answer \in Quote \cup {None}
    /\ edits \in 0..MaxEdits /\ loops \in 0..MaxLoops /\ faults \in 0..MaxFaults
    /\ confirmed \in BOOLEAN
    /\ \A review \in approved : SoundReview(review)

FormInv == Handlers /\ SoundHandlers /\ SoundScreen /\ NothingBefore /\ SoundRest

\* While nothing has failed and the user has not confirmed, the loop goes on, or
\* a handler of Cancel is about to close the interface.
LoopGoesOn ==
    /\ view = "review" => confirmed
    /\ \A t \in Tasks : task[t].kind = "confirm" => confirmed
    /\ view = "form" /\ faults = 0 /\ ~confirmed =>
           \/ scheduled # {} \/ Refreshes # {}
           \/ \E t \in Tasks : task[t].kind = "cancel" /\ task[t].pc = "resolve"

AliveInv == FormInv /\ LoopGoesOn

-----------------------------------------------------------------------------
(* What the handlers compute from a form.                                  *)

LEMMA NewFormIsSound ==
    ASSUME wallet \in [Accounts -> Wallets], NEW a \in Accounts, NEW rate \in Rates
    PROVE  SoundForm(NewForm(a, rate))
<1>1. Trusted[wallet[a]] \in Nat
    BY WalletAssumption
<1> QED BY <1>1 DEF SoundForm, Fillable, NewForm, FormContext

\* What draining a wallet costs is a number of satoshis.
LEMMA CostIsNat ==
    ASSUME NEW quote \in Quote, Drains(quote)
    PROVE  Cost(quote) \in Nat /\ Whole[quote.takes] \in Nat
BY WalletAssumption DEF Drains, Cost, Quote

\* A form without the amount or the recipient has no fee, one with both gets
\* the fee of its own fields or an error.
LEMMA WithFeeIsSound ==
    ASSUME wallet \in [Accounts -> Wallets],
           NEW form, Fillable(form), NEW f \in WithFee(form)
    PROVE  SoundForm(f)
<1>0. /\ form \in FormContext
      /\ form.fee # None => form.amount # None /\ form.recipient # None
    BY DEF Fillable
<1>1. CASE form.amount = None \/ form.recipient = None
    BY <1>0, <1>1 DEF WithFee, SoundForm, Fillable
<1>2. CASE form.amount # None /\ form.recipient # None
    <2> DEFINE quote == QuoteOf(form)
               amount == IF form.drain THEN form.balance - Cost(quote) ELSE form.amount
    <2>1. /\ quote \in Quote /\ quote.account = form.account
          /\ quote.recipient = form.recipient
          /\ form.drain => Drains(quote)
          /\ ~form.drain => quote.takes = form.amount
        BY <1>0, <1>2 DEF QuoteOf, Quote, FormContext, Drains
    <2>2. amount \in Int
        BY <1>0, <1>2, <2>1, CostIsNat DEF FormContext
    <2>3. CASE f = [form EXCEPT !.fee = quote, !.amount = amount]
        <3> HIDE DEF quote, amount
        <3>1. f \in FormContext
            BY <1>0, <2>1, <2>2, <2>3 DEF FormContext
        <3>2. /\ f.fee = quote /\ f.amount = amount /\ f.account = form.account
              /\ f.recipient = form.recipient /\ f.balance = form.balance
              /\ f.drain = form.drain
            BY <1>0, <2>3 DEF FormContext
        <3>3. f.amount # None
            BY <2>2, <3>2, NoneAssumption
        <3> QED BY <3>1, <3>2, <3>3, <1>2, <2>1 DEF SoundForm, Fillable, amount
    <2>4. CASE f = [form EXCEPT !.errors = @ \cup {"tx"}]
        <3>1. /\ f \in FormContext /\ f.errors # {} /\ f.fee = form.fee
              /\ f.amount = form.amount /\ f.recipient = form.recipient
              /\ f.balance = form.balance /\ f.drain = form.drain
            BY <1>0, <2>4 DEF FormContext
        <3> QED BY <3>1 DEF SoundForm, Fillable
    <2> QED BY <1>2, <2>3, <2>4 DEF WithFee
<1> QED BY <1>1, <1>2

\* The amount and the drain order are set together.
LEMMA AmountSet ==
    ASSUME NEW form \in FormContext, NEW n \in Int \cup {None}, NEW drain \in BOOLEAN
    PROVE  LET f == [form EXCEPT !.amount = n, !.drain = drain]
           IN  f \in FormContext /\ f.fee = form.fee
BY DEF FormContext

\* A form without a fee may be filled in any way.
LEMMA NoFeeIsSound ==
    ASSUME NEW form \in FormContext, form.fee = None
    PROVE  SoundForm(form)
BY DEF SoundForm, Fillable

\* An event on the form: whatever the user changed, the fee is of the new form,
\* or gone, or the form has an error.
LEMMA EditsAreSound ==
    ASSUME wallet \in [Accounts -> Wallets],
           NEW form, SoundForm(form), NEW f \in Edits(form)
    PROVE  SoundForm(f)
<1>0. form \in FormContext /\ Fillable(form)
    BY DEF SoundForm, Fillable
<1>1. WithoutFee(form) \in FormContext /\ WithoutFee(form).fee = None
    BY <1>0 DEF WithoutFee, FormContext
<1>2. SoundForm(ClearAmount(form)) /\ SoundForm(ClearRecipient(form))
    <2>1. ClearAmount(form) \in FormContext /\ ClearAmount(form).fee = None
        BY <1>1 DEF ClearAmount, FormContext
    <2>2. ClearRecipient(form) \in FormContext /\ ClearRecipient(form).fee = None
        BY <1>0 DEF ClearRecipient, FormContext
    <2> QED BY <2>1, <2>2, NoFeeIsSound
<1>3. ASSUME f \in SetMax(form) PROVE SoundForm(f)
    <2> DEFINE whole == [WithoutFee(form) EXCEPT !.amount = form.balance, !.drain = TRUE]
    <2>1. whole \in FormContext /\ whole.fee = None
        <3>1. form.balance \in Int
            BY <1>0 DEF FormContext
        <3> QED BY <3>1, <1>1, AmountSet
    <2>2. f \in WithFee(whole)
        BY <1>3 DEF SetMax
    <2> HIDE DEF whole
    <2> QED BY <2>1, <2>2, NoFeeIsSound, WithFeeIsSound DEF SoundForm
<1>4. ASSUME NEW a \in Amounts, f \in SetAmount(form, a) PROVE SoundForm(f)
    <2> DEFINE cleared == [WithoutFee(form) EXCEPT !.drain = FALSE]
               filled  == [cleared EXCEPT !.amount = a]
    <2>0. cleared \in FormContext /\ cleared.fee = None
        BY <1>1 DEF FormContext
    <2>1. filled \in FormContext /\ filled.fee = None
        <3>1. a \in Int
            BY WalletAssumption
        <3> HIDE DEF cleared
        <3> QED BY <2>0, <3>1 DEF FormContext
    <2>2. f \in WithFee(filled) \/ f = cleared \/ f = filled
        BY <1>4 DEF SetAmount
    <2> HIDE DEF cleared, filled
    <2> QED BY <2>0, <2>1, <2>2, NoFeeIsSound, WithFeeIsSound DEF SoundForm
<1>5. ASSUME NEW r \in Recipients, f \in SetRecipient(form, r) PROVE SoundForm(f)
    <2> DEFINE cleared == [form EXCEPT !.errors = @ \ {"recipient", "tx"}]
               filled  == [cleared EXCEPT !.recipient = r]
    <2>1. Fillable(cleared) /\ Fillable(filled)
        BY <1>0, NoneAssumption DEF Fillable, FormContext
    <2>2. \/ f \in WithFee(filled)
          \/ f = [cleared EXCEPT !.errors = @ \cup {"recipient"}]
          \/ f = [filled EXCEPT !.errors = @ \cup {"recipient"}]
        BY <1>5 DEF SetRecipient
    <2>3. CASE f \in WithFee(filled)
        BY <2>3, <2>1, WithFeeIsSound
    <2>4. ASSUME NEW g, Fillable(g), f = [g EXCEPT !.errors = @ \cup {"recipient"}]
          PROVE  SoundForm(f)
        <3>1. /\ g \in FormContext /\ f \in FormContext /\ f.errors # {}
              /\ f.fee = g.fee /\ f.amount = g.amount /\ f.recipient = g.recipient
              /\ f.balance = g.balance /\ f.drain = g.drain
            BY <2>4 DEF Fillable, FormContext
        <3> QED BY <2>4, <3>1 DEF SoundForm, Fillable
    <2> HIDE DEF cleared, filled
    <2> QED BY <2>1, <2>2, <2>3, <2>4
<1>6. ASSUME NEW a \in Accounts, f = NewForm(a, form.rate) PROVE SoundForm(f)
    BY <1>6, <1>0, NewFormIsSound DEF FormContext
<1>7. \/ f \in SetMax(form)
      \/ \E a \in Amounts : f \in SetAmount(form, a)
      \/ \E r \in Recipients : f \in SetRecipient(form, r)
      \/ f \in {ClearRecipient(form), ClearAmount(form), form}
      \/ \E a \in Accounts : f = NewForm(a, form.rate)
    BY DEF Edits
<1> QED BY <1>2, <1>3, <1>4, <1>5, <1>6, <1>7

\* A refresh changes the rate, and the fee with it or not at all.
LEMMA FetchedIsSound ==
    ASSUME wallet \in [Accounts -> Wallets],
           NEW ctx, SoundForm(ctx) \/ SoundReview(ctx), NEW f \in Fetched(ctx)
    PROVE  (SoundForm(ctx) => SoundForm(f)) /\ (SoundForm(f) \/ SoundReview(f))
<1>1. CASE f = ctx
    BY <1>1
<1>2. CASE f # ctx
    <2>1. /\ IsForm(ctx)
          /\ \E r \in Rates : f \in WithFee([ctx EXCEPT !.rate = r]) \cup {[ctx EXCEPT !.rate = r]}
        BY <1>2 DEF Fetched
    <2>2. SoundForm(ctx)
        BY <2>1 DEF SoundReview, ReviewContext, IsForm
    <2>3. PICK r \in Rates :
              f \in WithFee([ctx EXCEPT !.rate = r]) \cup {[ctx EXCEPT !.rate = r]}
        BY <2>1
    <2> DEFINE g == [ctx EXCEPT !.rate = r]
    <2>4. ctx \in FormContext
        BY <2>2 DEF SoundForm, Fillable
    <2>5. /\ g \in FormContext /\ g.fee = ctx.fee /\ g.amount = ctx.amount
          /\ g.recipient = ctx.recipient /\ g.account = ctx.account /\ g.errors = ctx.errors
          /\ g.balance = ctx.balance /\ g.drain = ctx.drain
        BY <2>4 DEF FormContext
    <2> HIDE DEF g
    <2>6. SoundForm(g)
        BY <2>2, <2>5 DEF SoundForm, Fillable
    <2>7. f \in WithFee(g) => SoundForm(f)
        BY <2>6, WithFeeIsSound DEF SoundForm
    <2> QED BY <2>3, <2>6, <2>7 DEF g
<1> QED BY <1>1, <1>2

\* The id of the next refresh is written over the one before.
LEMMA WithEventIsSound ==
    ASSUME NEW ctx, SoundForm(ctx) \/ SoundReview(ctx), NEW e \in Events
    PROVE  /\ SoundForm(ctx) => SoundForm(WithEvent(ctx, e))
           /\ SoundForm(WithEvent(ctx, e)) \/ SoundReview(WithEvent(ctx, e))
<1>1. CASE SoundForm(ctx)
    <2>1. IsForm(ctx) /\ ctx \in FormContext
        BY <1>1 DEF SoundForm, Fillable, FormContext, IsForm
    <2>2. WithEvent(ctx, e) = [ctx EXCEPT !.event = e]
        BY <2>1 DEF WithEvent
    <2> DEFINE f == WithEvent(ctx, e)
    <2>3. /\ f \in FormContext /\ f.fee = ctx.fee /\ f.amount = ctx.amount
          /\ f.recipient = ctx.recipient /\ f.account = ctx.account /\ f.errors = ctx.errors
          /\ f.balance = ctx.balance /\ f.drain = ctx.drain
        BY <2>1, <2>2 DEF FormContext
    <2> HIDE DEF f
    <2>4. SoundForm(f)
        BY <1>1, <2>3 DEF SoundForm, Fillable
    <2> QED BY <2>4 DEF f
<1>2. CASE SoundReview(ctx)
    <2>1. ~IsForm(ctx)
        BY <1>2 DEF SoundReview, ReviewContext, IsForm
    <2>2. ctx \notin FormContext
        BY <2>1 DEF FormContext, IsForm
    <2> QED BY <1>2, <2>1, <2>2 DEF WithEvent, SoundForm, Fillable
<1> QED BY <1>1, <1>2

\* The review of a form that has a fee: what a psbt needs is there, and shown.
LEMMA ReviewIsSound ==
    ASSUME wallet \in [Accounts -> Wallets], NEW form, SoundForm(form), form.fee # None
    PROVE  SoundReview(ReviewOf(form))
<1> DEFINE psbt == QuoteOf(form)
<1>1. /\ form \in FormContext /\ form.amount \in Int /\ form.recipient \in Recipients
      /\ form.fee \in Quote
      /\ form.drain => Drains(form.fee) /\ form.amount = form.balance - Cost(form.fee)
    BY DEF SoundForm, Fillable, FormContext
<1>2. /\ psbt \in Quote /\ psbt.account = form.account /\ psbt.recipient = form.recipient
      /\ form.drain => Drains(psbt)
      /\ ~form.drain => psbt.takes = form.amount
    BY <1>1 DEF QuoteOf, FormContext, Quote, Drains
<1>3. ~form.drain => ~Drains(psbt)
    BY <1>1, <1>2, WalletAssumption DEF Drains
<1>4. ReviewOf(form) \in ReviewContext
    BY <1>1, <1>2 DEF ReviewOf, ReviewContext, FormContext
<1> HIDE DEF psbt
<1>5. ReviewOf(form) = [psbt |-> psbt, from |-> form.account, amount |-> form.amount,
                        recipient |-> form.recipient, form |-> form]
    BY DEF ReviewOf, psbt
<1>6. form.amount - Pays(psbt) =
          IF Drains(psbt)
          THEN (form.balance - Whole[psbt.takes]) - (Cost(form.fee) - Cost(psbt))
          ELSE 0
    <2>1. CASE form.drain
        <3>1. /\ Cost(form.fee) \in Nat /\ Cost(psbt) \in Nat /\ Whole[psbt.takes] \in Nat
              /\ form.balance \in Nat
            BY <2>1, <1>1, <1>2, CostIsNat DEF FormContext
        <3>2. Pays(psbt) = Whole[psbt.takes] - Cost(psbt)
            BY <2>1, <1>2 DEF Pays
        <3> QED BY <2>1, <1>1, <1>2, <3>1, <3>2
    <2>2. CASE ~form.drain
        <3>1. Pays(psbt) = form.amount
            BY <2>2, <1>2, <1>3 DEF Pays
        <3> QED BY <2>2, <1>1, <1>3, <3>1
    <2> QED BY <1>1, <2>1, <2>2 DEF FormContext
<1>7. Tells(ReviewOf(form))
    BY <1>2, <1>5, <1>6 DEF Tells
<1> QED BY <1>4, <1>5, <1>7 DEF SoundReview

\* The build failed: the form with an error.
LEMMA FailedIsSound ==
    ASSUME NEW form, SoundForm(form), form.fee # None
    PROVE  /\ SoundForm([form EXCEPT !.errors = @ \cup {"tx"}])
           /\ [form EXCEPT !.errors = @ \cup {"tx"}].fee # None
<1> DEFINE f == [form EXCEPT !.errors = @ \cup {"tx"}]
<1>1. /\ form \in FormContext /\ f \in FormContext /\ f.errors # {}
      /\ f.fee = form.fee /\ f.amount = form.amount /\ f.recipient = form.recipient
      /\ f.balance = form.balance /\ f.drain = form.drain
    BY DEF SoundForm, Fillable, FormContext
<1> HIDE DEF f
<1>2. SoundForm(f) /\ f.fee # None
    BY <1>1 DEF SoundForm, Fillable
<1> QED BY <1>2 DEF f

-----------------------------------------------------------------------------
(* The contexts stay of their types, and forms keep their own fee.         *)

\* Initially nothing is displayed and no handler runs.
LEMMA FormInit == Init => FormInv
<1> SUFFICES ASSUME Init PROVE FormInv
    OBVIOUS
<1>1. Handlers /\ \A t \in Tasks : task[t] = Rest
    BY DEF Init, Handlers, Rest
<1>2. SoundHandler("edit", "idle", None)
    BY DEF SoundHandler, Kinds, PCs
<1>3. SoundHandlers
    BY <1>1, <1>2 DEF SoundHandlers, Rest
<1>4. SoundScreen /\ NothingBefore
    BY <1>1 DEF Init, SoundScreen, NothingBefore, Rest
<1>5. /\ edits = 0 /\ loops = 0 /\ faults = 0
      /\ 0 \in 0..MaxEdits /\ 0 \in 0..MaxLoops /\ 0 \in 0..MaxFaults
    BY BoundAssumption DEF Init
<1>6. SoundRest
    BY <1>5 DEF Init, SoundRest
<1> QED BY <1>1, <1>3, <1>4, <1>6 DEF FormInv

\* One handler changed: what is left to show of it.
LEMMA SoundKept ==
    ASSUME FormInv, NEW t \in Tasks, NEW kind, NEW pc, NEW ctx,
           OneHandler(t, kind, pc, ctx), SoundHandler(kind, pc, ctx),
           SoundScreen', SoundRest', view' # "none", flow' # "idle"
    PROVE  FormInv'
<1>1. /\ Handlers'
      /\ task'[t] = [kind |-> kind, pc |-> pc, ctx |-> ctx]
      /\ \A u \in Tasks \ {t} : task'[u] = task[u]
    BY HandlerChanged DEF FormInv
<1>2. SoundHandlers'
    <2> SUFFICES ASSUME NEW u \in Tasks
                 PROVE  SoundHandler(task'[u].kind, task'[u].pc, task'[u].ctx)
        BY DEF SoundHandlers, SoundHandler
    <2>1. CASE u = t
        BY <2>1, <1>1
    <2>2. CASE u # t
        BY <2>2, <1>1 DEF FormInv, SoundHandlers
    <2> QED BY <2>1, <2>2
<1> QED BY <1>1, <1>2 DEF FormInv, NothingBefore

\* A handler that ended is sound.
LEMMA RestIsSound == SoundHandler("edit", "idle", None)
BY DEF SoundHandler, Kinds, PCs

\* The handlers the request, the user and the clock start.
LEMMA StartKeepsForms ==
    ASSUME FormInv,
           \/ Display \/ Edit \/ Confirm \/ Cancel \/ Send \/ Back \/ \E e \in Events : Fire(e)
    PROVE  FormInv'
<1> USE DEF Begin, interface, history
<1>0. /\ Handlers /\ SoundScreen /\ NothingBefore /\ SoundRest
      /\ view # "none" => flow # "idle"
    BY DEF FormInv, NothingBefore, SoundScreen
<1>1. CASE Display
    <2>1. PICK t \in Tasks :
              OneHandler(t, "display", "fetch", NewForm(Start, FallbackRate))
        BY <1>1, <1>0, HandlerSteps DEF Display
    <2>2. SoundForm(NewForm(Start, FallbackRate))
        BY <1>0, NewFormIsSound, StartAssumption DEF SoundRest
    <2>3. SoundHandler("display", "fetch", NewForm(Start, FallbackRate))
        BY <2>2 DEF SoundHandler, Kinds, PCs, Refreshing
    <2>4. SoundScreen'
        BY <2>2, <1>1 DEF Display, SoundScreen, SoundForm, Fillable
    <2>5. SoundRest'
        BY <1>1, <1>0, BoundAssumption DEF Display, SoundRest, NothingBefore
    <2> QED BY <2>1, <2>3, <2>4, <2>5, <1>1, SoundKept DEF Display
<1> USE DEF SoundScreen, SoundRest, SoundForm, Fillable, SoundReview
<1>2. CASE Edit
    <2>1. PICK t \in Tasks : OneHandler(t, "edit", "edit", context)
        BY <1>2, <1>0, HandlerSteps DEF Edit
    <2>2. SoundHandler("edit", "edit", context)
        BY <1>0, <1>2 DEF SoundHandler, Kinds, PCs, Edit
    <2>3. SoundRest' /\ SoundScreen'
        BY <1>2, <1>0, BoundAssumption DEF Edit
    <2> QED BY <2>1, <2>2, <2>3, <1>2, <1>0, SoundKept DEF Edit
<1>3. CASE Confirm
    <2>1. PICK t \in Tasks, pc \in {"cancelEvent", "review"} :
              OneHandler(t, "confirm", pc, context)
        BY <1>3, <1>0, HandlerSteps DEF Confirm
    <2>2. SoundHandler("confirm", pc, context)
        BY <2>1, <1>0, <1>3 DEF SoundHandler, Kinds, PCs, Confirm
    <2> QED BY <2>1, <2>2, <1>3, <1>0, SoundKept DEF Confirm
<1>4. CASE Cancel
    <2>1. PICK t \in Tasks, pc \in {"cancelEvent", "resolve"} :
              OneHandler(t, "cancel", pc, [event |-> context.event])
        BY <1>4, <1>0, HandlerSteps DEF Cancel
    <2>2. context.event \in Events \cup {None}
        BY <1>0, <1>4 DEF Cancel, FormContext
    <2>3. SoundHandler("cancel", pc, [event |-> context.event])
        BY <2>1, <2>2 DEF SoundHandler, Kinds, PCs
    <2> QED BY <2>1, <2>3, <1>4, <1>0, SoundKept DEF Cancel
<1>5. CASE Send
    <2>1. PICK t \in Tasks : OneHandler(t, "send", "resolve", [psbt |-> context.psbt])
        BY <1>5, <1>0, HandlerSteps DEF Send
    <2>2. context \in ReviewContext
        BY <1>0, <1>5 DEF Send
    <2>3. context.psbt \in Quote /\ SoundReview(context)
        BY <2>2, <1>0, <1>5 DEF Send, ReviewContext
    <2>4. SoundHandler("send", "resolve", [psbt |-> context.psbt])
        BY <2>3 DEF SoundHandler, Kinds, PCs
    <2>5. SoundRest' /\ SoundScreen'
        BY <2>3, <1>5, <1>0 DEF Send
    <2> QED BY <2>1, <2>4, <2>5, <1>5, <1>0, SoundKept DEF Send
<1>6. CASE Back
    <2>1. PICK t \in Tasks : OneHandler(t, "back", "reopen", context.form)
        BY <1>6, <1>0, HandlerSteps DEF Back
    <2>2. SoundHandler("back", "reopen", context.form)
        BY <1>0, <1>6 DEF SoundHandler, Kinds, PCs, Refreshing, Back
    <2>3. SoundRest' /\ SoundScreen'
        BY <1>6, <1>0, BoundAssumption DEF Back
    <2> QED BY <2>1, <2>2, <2>3, <1>6, <1>0, SoundKept DEF Back
<1>7. CASE \E e \in Events : Fire(e)
    <2>1. PICK t \in Tasks : OneHandler(t, "refresh", "getContext", None)
        BY <1>7, <1>0, HandlerSteps DEF Fire
    <2>2. SoundHandler("refresh", "getContext", None)
        BY DEF SoundHandler, Kinds, PCs, Refreshing
    <2>3. SoundRest' /\ SoundScreen' /\ view # "none"
        BY <1>7, <1>0 DEF Fire, NothingBefore
    <2> QED BY <2>1, <2>2, <2>3, <1>7, <1>0, SoundKept DEF Fire
<1> QED BY <1>1, <1>2, <1>3, <1>4, <1>5, <1>6, <1>7

\* Each await of a handler, and its failure.
LEMMA StepKeepsForms ==
    ASSUME FormInv, NEW t \in Tasks, Step(t) \/ Throw(t)
    PROVE  FormInv'
<1> USE DEF interface, history
<1>0. /\ Handlers /\ SoundScreen /\ NothingBefore /\ SoundRest
      /\ SoundHandler(task[t].kind, task[t].pc, task[t].ctx)
    BY DEF FormInv, SoundHandlers
<1>a. task[t].pc # "idle"
    BY <1>0 DEF Step, EditForm, GetContext, FetchRates, Schedule, Show, Reopen, CancelEvent, ReviewForm,
                Resolve, Throw, Active
<1>b. view # "none" /\ flow # "idle"
    BY <1>a, <1>0 DEF NothingBefore
<1> USE DEF SoundScreen, SoundRest
<1>e. CASE EditForm(t)
    <2>1. PICK form \in Edits(task[t].ctx) : OneHandler(t, task[t].kind, "show", form)
        BY <1>e, <1>0, HandlerSteps DEF EditForm
    <2>2. task[t].kind = "edit" /\ SoundForm(task[t].ctx)
        BY <1>0, <1>e DEF EditForm, SoundHandler
    <2>3. SoundHandler("edit", "show", form)
        BY <2>2, <1>0, EditsAreSound DEF SoundHandler, Kinds, PCs
    <2>4. SoundScreen' /\ SoundRest' /\ view' # "none" /\ flow' # "idle"
        BY <1>0, <1>b, <1>e DEF EditForm, SoundForm, Fillable, SoundReview
    <2> QED BY <2>1, <2>2, <2>3, <2>4, SoundKept
<1>1. CASE GetContext(t)
    <2>1. task[t].kind = "refresh"
        BY <1>0, <1>1 DEF GetContext, SoundHandler
    <2>2. SoundScreen' /\ SoundRest' /\ view' # "none" /\ flow' # "idle"
        BY <1>0, <1>b, <1>1 DEF GetContext, SoundForm, Fillable, SoundReview
    <2>3. CASE view = "closed"
        <3>1. OneHandler(t, "edit", "idle", None)
            BY <1>1, <1>0, <2>3, HandlerSteps DEF GetContext, NoContext
        <3> QED BY <3>1, <2>2, RestIsSound, SoundKept
    <2>4. CASE view # "closed"
        <3>1. OneHandler(t, "refresh", "fetch", context)
            BY <1>1, <1>0, <2>1, <2>4, HandlerSteps DEF GetContext
        <3>2. SoundForm(context) \/ SoundReview(context)
            BY <1>0, <1>b, <2>4
        <3>3. SoundHandler("refresh", "fetch", context)
            BY <3>2 DEF SoundHandler, Kinds, PCs, Refreshing
        <3> QED BY <3>1, <3>3, <2>2, SoundKept
    <2> QED BY <2>3, <2>4
<1>2. CASE FetchRates(t)
    <2>1. PICK ctx \in Fetched(task[t].ctx) : OneHandler(t, task[t].kind, "schedule", ctx)
        BY <1>2, <1>0, HandlerSteps DEF FetchRates
    <2>2. /\ task[t].kind \in {"display", "refresh", "back"}
          /\ SoundForm(task[t].ctx) \/ SoundReview(task[t].ctx)
          /\ task[t].kind # "refresh" => SoundForm(task[t].ctx)
        BY <1>0, <1>2 DEF FetchRates, SoundHandler
    <2>3. SoundHandler(task[t].kind, "schedule", ctx)
        BY <1>0, <2>1, <2>2, FetchedIsSound DEF SoundHandler, Kinds, PCs, Refreshing
    <2>4. SoundScreen' /\ SoundRest' /\ view' # "none" /\ flow' # "idle"
        BY <1>0, <1>b, <1>2 DEF FetchRates, SoundForm, Fillable, SoundReview
    <2> QED BY <2>1, <2>3, <2>4, SoundKept
<1>3. CASE Schedule(t)
    <2>1. PICK e \in Events : /\ OneHandler(t, task[t].kind, "show", WithEvent(task[t].ctx, e))
                              /\ scheduled' = scheduled \cup {e}
        BY <1>3, <1>0, HandlerSteps DEF Schedule, Forgotten
    <2>2. /\ task[t].kind \in {"display", "refresh", "back"}
          /\ SoundForm(task[t].ctx) \/ SoundReview(task[t].ctx)
          /\ task[t].kind # "refresh" => SoundForm(task[t].ctx)
        BY <1>0, <1>3 DEF Schedule, SoundHandler
    <2>3. SoundHandler(task[t].kind, "show", WithEvent(task[t].ctx, e))
        BY <2>2, WithEventIsSound DEF SoundHandler, Kinds, PCs
    <2>4. SoundScreen' /\ SoundRest' /\ view' # "none" /\ flow' # "idle"
        BY <1>0, <1>b, <1>3, <2>1 DEF Schedule, SoundForm, Fillable, SoundReview
    <2> QED BY <2>1, <2>3, <2>4, SoundKept
<1>4. CASE Show(t)
    <2>1. OneHandler(t, "edit", "idle", None)
        BY <1>4, <1>0, HandlerSteps DEF Show, Refuse
    <2>2. SoundForm(task[t].ctx) \/ SoundReview(task[t].ctx)
        BY <1>0, <1>4 DEF Show, SoundHandler, Kinds
    <2>3. IsForm(task[t].ctx) <=> SoundForm(task[t].ctx)
        BY <2>2 DEF IsForm, SoundReview, ReviewContext, SoundForm, Fillable, FormContext
    <2>4. \/ UNCHANGED <<view, context>>
          \/ SoundForm(task[t].ctx) /\ view' = "form" /\ context' = task[t].ctx
          \/ SoundReview(task[t].ctx) /\ view' = "review" /\ context' = task[t].ctx
        BY <1>4, <2>2, <2>3 DEF Show, Refuse
    <2>5. SoundRest' /\ flow' # "idle"
        BY <1>0, <1>b, <1>4 DEF Show, Refuse
    <2>6. SoundScreen' /\ view' # "none"
        BY <1>0, <1>b, <2>4 DEF SoundForm, Fillable, SoundReview
    <2> QED BY <2>1, <2>5, <2>6, RestIsSound, SoundKept
<1>5. CASE Reopen(t)
    <2>1. task[t].kind = "back" /\ SoundForm(task[t].ctx)
        BY <1>0, <1>5 DEF Reopen, SoundHandler
    <2>2. SoundScreen' /\ SoundRest' /\ view' # "none" /\ flow' # "idle"
        BY <1>0, <1>b, <1>5, <2>1 DEF Reopen, Refuse, SoundForm, Fillable, SoundReview
    <2>3. \/ OneHandler(t, "edit", "idle", None)
          \/ OneHandler(t, "back", "fetch", task[t].ctx)
        BY <1>5, <1>0, <2>1, HandlerSteps DEF Reopen, Refuse
    <2>4. SoundHandler("back", "fetch", task[t].ctx)
        BY <2>1 DEF SoundHandler, Kinds, PCs, Refreshing
    <2> QED BY <2>2, <2>3, <2>4, RestIsSound, SoundKept
<1>6. CASE CancelEvent(t)
    <2>1. task[t].kind \in {"confirm", "cancel"}
        BY <1>0, <1>6 DEF CancelEvent, SoundHandler
    <2>2. \/ OneHandler(t, "edit", "idle", None)
          \/ OneHandler(t, task[t].kind, AfterCancel(t), task[t].ctx)
        BY <1>6, <1>0, HandlerSteps DEF CancelEvent
    <2>3. SoundHandler(task[t].kind, AfterCancel(t), task[t].ctx)
        BY <2>1, <1>0, <1>6 DEF CancelEvent, SoundHandler, AfterCancel, PCs
    <2>4. SoundScreen' /\ SoundRest' /\ view' # "none" /\ flow' # "idle"
        BY <1>0, <1>b, <1>6 DEF CancelEvent, SoundForm, Fillable, SoundReview
    <2> QED BY <2>2, <2>3, <2>4, RestIsSound, SoundKept
<1>7. CASE ReviewForm(t)
    <2> DEFINE form == task[t].ctx
               failed == [form EXCEPT !.errors = @ \cup {"tx"}]
    <2>1. task[t].kind = "confirm" /\ SoundForm(form) /\ form.fee # None
        BY <1>0, <1>7 DEF ReviewForm, SoundHandler
    <2>2. SoundReview(ReviewOf(form)) /\ SoundForm(failed) /\ failed.fee # None
        BY <1>0, <2>1, ReviewIsSound, FailedIsSound
    <2>3. \/ OneHandler(t, "edit", "idle", None)
          \/ OneHandler(t, "confirm", "show", failed)
          \/ OneHandler(t, "confirm", "show", ReviewOf(form))
        BY <1>7, <1>0, <2>1, HandlerSteps DEF ReviewForm
    <2>4. /\ SoundHandler("confirm", "show", failed)
          /\ SoundHandler("confirm", "show", ReviewOf(form))
        BY <2>2 DEF SoundHandler, Kinds, PCs
    <2>5. SoundScreen' /\ SoundRest' /\ view' # "none" /\ flow' # "idle"
        BY <1>0, <1>b, <1>7 DEF ReviewForm, SoundForm, Fillable, SoundReview
    <2> QED BY <2>3, <2>4, <2>5, RestIsSound, SoundKept
<1>8. CASE Resolve(t)
    <2>1. OneHandler(t, "edit", "idle", None)
        BY <1>8, <1>0, HandlerSteps DEF Resolve
    <2>2. task[t].kind = "send" => task[t].ctx.psbt \in Quote
        BY <1>0 DEF SoundHandler
    <2>3. answer' = answer \/ answer' \in Quote
        BY <1>8, <2>2 DEF Resolve
    <2>4. SoundScreen' /\ SoundRest' /\ view' # "none" /\ flow' # "idle"
        BY <1>0, <1>b, <1>8, <2>3 DEF Resolve
    <2> QED BY <2>1, <2>4, RestIsSound, SoundKept
<1>9. CASE Throw(t)
    <2>1. OneHandler(t, "edit", "idle", None)
        BY <1>9, <1>0, HandlerSteps DEF Throw
    <2>2. SoundScreen' /\ SoundRest' /\ view' # "none" /\ flow' # "idle"
        BY <1>0, <1>b, <1>9, BoundAssumption DEF Throw, SoundForm, Fillable, SoundReview
    <2> QED BY <2>1, <2>2, RestIsSound, SoundKept
<1> QED BY <1>e, <1>1, <1>2, <1>3, <1>4, <1>5, <1>6, <1>7, <1>8, <1>9 DEF Step

LEMMA FormStep == FormInv /\ [Next]_vars => FormInv'
<1> SUFFICES ASSUME FormInv, [Next]_vars PROVE FormInv'
    OBVIOUS
<1> USE DEF interface, history
<1>1. CASE CloseDialog \/ Sign \/ (\E e \in Events : Skip(e)) \/ \E a \in Accounts : Synchronize(a)
    <2>1. task' = task /\ scheduled' \subseteq scheduled
        BY <1>1 DEF CloseDialog, Sign, Skip, Synchronize
    <2>2. Handlers' /\ SoundHandlers' /\ NothingBefore'
        BY <2>1, <1>1 DEF CloseDialog, Sign, Skip, Synchronize, FormInv, Handlers, SoundHandlers,
                          SoundHandler, NothingBefore
    <2>3. SoundScreen'
        BY <1>1 DEF CloseDialog, Sign, Skip, Synchronize, FormInv, SoundScreen, SoundForm,
                    Fillable, SoundReview
    <2>4. SoundRest'
        BY <1>1, BoundAssumption DEF CloseDialog, Sign, Skip, Synchronize, FormInv, SoundRest
    <2> QED BY <2>2, <2>3, <2>4 DEF FormInv
<1>2. CASE UNCHANGED vars
    <2>1. UNCHANGED <<task, wallet, view, context, scheduled, flow, answer, edits, loops, approved,
                      confirmed, faults>>
        BY <1>2 DEF vars
    <2>2. Handlers' /\ SoundHandlers' /\ NothingBefore'
        BY <2>1 DEF FormInv, Handlers, SoundHandlers, SoundHandler, NothingBefore
    <2>3. SoundScreen' /\ SoundRest'
        BY <2>1 DEF FormInv, SoundScreen, SoundForm, Fillable, SoundReview, SoundRest
    <2> QED BY <2>2, <2>3 DEF FormInv
<1> QED BY <1>1, <1>2, StartKeepsForms, StepKeepsForms DEF Next, Ended

\* Every context the host and the handlers keep has the type the source gives it.
THEOREM FormsAreTyped == Spec => []TypeOK
<1>1. FormInv => TypeOK
    <2> SUFFICES ASSUME FormInv PROVE TypeOK
        OBVIOUS
    <2>1. SoundScreen /\ SoundRest
        BY DEF FormInv
    <2>2. context \in CASE view = "form"   -> FormContext
                        [] view = "review" -> ReviewContext
                        [] OTHER           -> {None}
        BY <2>1 DEF SoundScreen, SoundForm, Fillable, SoundReview
    <2>3. ASSUME NEW t \in Tasks
          PROVE  /\ task[t].kind \in Kinds /\ task[t].pc \in PCs
                 /\ IF task[t].pc \in {"idle", "getContext"}
                    THEN task[t].ctx = None
                    ELSE task[t].ctx \in CASE task[t].kind = "send"    -> [psbt : Quote]
                                           [] task[t].kind = "cancel"  -> [event : Events \cup {None}]
                                           [] task[t].kind = "refresh" -> FormContext \cup ReviewContext
                                           [] task[t].kind = "confirm" /\ task[t].pc = "show" ->
                                                  FormContext \cup ReviewContext
                                           [] OTHER                    -> FormContext
        <3>1. SoundHandler(task[t].kind, task[t].pc, task[t].ctx)
            BY DEF FormInv, SoundHandlers
        <3>2. \A ctx : (SoundForm(ctx) => ctx \in FormContext)
                      /\ (SoundReview(ctx) => ctx \in ReviewContext)
            BY DEF SoundForm, Fillable, SoundReview
        <3>3. CASE task[t].pc \in {"idle", "getContext"}
            BY <3>1, <3>3 DEF SoundHandler
        <3>4. CASE task[t].pc \notin {"idle", "getContext"}
            BY <3>1, <3>2, <3>4 DEF SoundHandler, Kinds
        <3> QED BY <3>3, <3>4
    <2>4. approved \subseteq ReviewContext
        BY <2>1 DEF SoundRest, SoundReview
    <2> QED BY <2>1, <2>2, <2>3, <2>4 DEF TypeOK, SoundScreen, SoundRest
<1> QED BY FormInit, FormStep, <1>1, PTL DEF Spec

\* A form on the screen without an error shows the fee of its own account, amount
\* and recipient, though handlers write stale forms over newer ones; with Max,
\* amount and fee make up the balance.
THEOREM FeeBelongs == Spec => []FeeIsOfForm
<1>1. FormInv => FeeIsOfForm
    <2> SUFFICES ASSUME FormInv, view = "form", context.fee # None, context.errors = {}
                 PROVE  /\ context.fee.account = context.account
                        /\ context.fee.recipient = context.recipient
                        /\ IF context.drain
                           THEN /\ Drains(context.fee)
                                /\ context.amount + Cost(context.fee) = context.balance
                           ELSE context.fee.takes = context.amount
        BY DEF FeeIsOfForm
    <2>1. SoundForm(context) /\ context.fee \in Quote /\ context.balance \in Nat
        BY DEF FormInv, SoundScreen, SoundForm, Fillable, FormContext
    <2>2. context.drain => Cost(context.fee) \in Nat
        BY <2>1, CostIsNat DEF SoundForm, Fillable
    <2> QED BY <2>1, <2>2 DEF SoundForm, Fillable
<1> QED BY FormInit, FormStep, <1>1, PTL DEF Spec

\* The assertion of #handleConfirm holds: whatever came between, the form a
\* Confirm works on has an amount and a recipient.
THEOREM ConfirmHolds == Spec => []ConfirmIsConsistent
<1>1. FormInv => ConfirmIsConsistent
    <2> SUFFICES ASSUME FormInv, NEW t \in Tasks, task[t].kind = "confirm"
                 PROVE  task[t].ctx.amount # None /\ task[t].ctx.recipient # None
        BY DEF ConfirmIsConsistent
    <2>1. \/ SoundForm(task[t].ctx) /\ task[t].ctx.fee # None
          \/ task[t].ctx \in ReviewContext
        BY DEF FormInv, SoundHandlers, SoundHandler, SoundReview
    <2> QED BY <2>1, NoneAssumption DEF SoundForm, Fillable, ReviewContext
<1> QED BY FormInit, FormStep, <1>1, PTL DEF Spec

-----------------------------------------------------------------------------
(* The loop goes on until the user confirms or cancels.                    *)

\* One handler changed: the loop goes on if it goes on with that handler.
LEMMA AliveKept ==
    ASSUME FormInv, LoopGoesOn, NEW t \in Tasks, NEW kind, NEW pc, NEW ctx,
           OneHandler(t, kind, pc, ctx),
           kind = "confirm" \/ view' = "review" => confirmed',
           confirmed => confirmed', faults' # 0 \/ faults' = faults,
           \* The screen without its loop is new or the loop is this handler's.
           view' = "form" /\ faults' = 0 /\ ~confirmed' =>
               \/ scheduled' # {}
               \/ pc \in Refreshing
               \/ kind = "cancel" /\ pc = "resolve"
               \/ /\ view = "form" /\ scheduled' = scheduled
                  /\ task[t].pc \notin Refreshing
                  /\ ~(task[t].kind = "cancel" /\ task[t].pc = "resolve")
    PROVE  LoopGoesOn'
<1>1. /\ task'[t] = [kind |-> kind, pc |-> pc, ctx |-> ctx]
      /\ \A u \in Tasks \ {t} : task'[u] = task[u]
    BY HandlerChanged DEF FormInv
<1>2. \A u \in Tasks : task'[u].kind = "confirm" => confirmed'
    BY <1>1 DEF LoopGoesOn
<1>3. ASSUME view' = "form", faults' = 0, ~confirmed'
      PROVE  \/ scheduled' # {} \/ Refreshes' # {}
             \/ \E u \in Tasks : task'[u].kind = "cancel" /\ task'[u].pc = "resolve"
    <2>1. CASE pc \in Refreshing
        BY <1>1, <2>1 DEF Refreshes
    <2>2. CASE kind = "cancel" /\ pc = "resolve"
        BY <1>1, <2>2
    <2>3. CASE /\ view = "form" /\ scheduled' = scheduled
               /\ task[t].pc \notin Refreshing
               /\ ~(task[t].kind = "cancel" /\ task[t].pc = "resolve")
        <3>1. \/ scheduled # {} \/ Refreshes # {}
              \/ \E u \in Tasks : task[u].kind = "cancel" /\ task[u].pc = "resolve"
            BY <1>3, <2>3 DEF LoopGoesOn
        <3>2. CASE Refreshes # {}
            <4>1. PICK u \in Tasks : task[u].pc \in Refreshing
                BY <3>2 DEF Refreshes
            <4> QED BY <4>1, <2>3, <1>1 DEF Refreshes
        <3>3. CASE \E u \in Tasks : task[u].kind = "cancel" /\ task[u].pc = "resolve"
            BY <3>3, <2>3, <1>1
        <3> QED BY <3>1, <3>2, <3>3, <2>3
    <2> QED BY <1>3, <2>1, <2>2, <2>3
<1> QED BY <1>2, <1>3 DEF LoopGoesOn

\* What the request, the user and the clock start leaves the loop, or is its
\* next refresh.
LEMMA StartKeepsLoop ==
    ASSUME FormInv, LoopGoesOn,
           \/ Display \/ Edit \/ Confirm \/ Cancel \/ Send \/ Back \/ \E e \in Events : Fire(e)
    PROVE  LoopGoesOn'
<1> USE DEF interface, history, Refreshing
<1>0. /\ Handlers /\ (view = "review" => confirmed)
      /\ \A t \in Tasks : ~Active(t) => task[t].pc = "idle"
    BY DEF FormInv, LoopGoesOn, Active
<1>1. CASE Display
    <2>1. PICK t \in Tasks :
              OneHandler(t, "display", "fetch", NewForm(Start, FallbackRate))
        BY <1>1, <1>0, HandlerSteps DEF Display, Begin
    <2> QED BY <2>1, <1>1, AliveKept DEF Display
<1>2. CASE Edit \/ Cancel \/ Send
    <2>1. PICK t \in Tasks : /\ task[t].pc = "idle"
                             /\ \E kind, pc, ctx : /\ OneHandler(t, kind, pc, ctx)
                                                   /\ kind \in {"edit", "cancel", "send"}
        BY <1>2, <1>0, HandlerSteps DEF Edit, Cancel, Send, Begin
    <2>2. UNCHANGED <<view, scheduled, confirmed, faults>>
        BY <1>2 DEF Edit, Cancel, Send
    <2> QED BY <2>1, <2>2, <1>0, AliveKept
<1>3. CASE Confirm
    <2>1. PICK t \in Tasks : \E pc : OneHandler(t, "confirm", pc, context)
        BY <1>3, <1>0, HandlerSteps DEF Confirm, Begin
    <2> QED BY <2>1, <1>3, AliveKept DEF Confirm
<1>4. CASE Back
    <2>1. PICK t \in Tasks : OneHandler(t, "back", "reopen", context.form)
        BY <1>4, <1>0, HandlerSteps DEF Back, Begin
    <2> QED BY <2>1, <1>4, <1>0, AliveKept DEF Back
<1>5. CASE \E e \in Events : Fire(e)
    <2>1. PICK t \in Tasks : OneHandler(t, "refresh", "getContext", None)
        BY <1>5, <1>0, HandlerSteps DEF Fire, Begin
    <2> QED BY <2>1, <1>5, <1>0, AliveKept DEF Fire
<1> QED BY <1>1, <1>2, <1>3, <1>4, <1>5

\* A refresh ends only once the next one is scheduled, or the interface closed.
LEMMA StepKeepsLoop ==
    ASSUME FormInv, LoopGoesOn, NEW t \in Tasks, Step(t) \/ Throw(t)
    PROVE  LoopGoesOn'
<1> USE DEF interface, history
<1>0. /\ Handlers /\ (view = "review" => confirmed)
      /\ task[t].kind = "confirm" => confirmed
      /\ faults \in Nat
    BY BoundAssumption DEF FormInv, LoopGoesOn, SoundRest
<1>s. SoundHandler(task[t].kind, task[t].pc, task[t].ctx)
    BY DEF FormInv, SoundHandlers
<1>e. CASE EditForm(t)
    <2>1. task[t].kind = "edit" /\ task[t].pc = "edit"
        BY <1>s, <1>e DEF EditForm, SoundHandler
    <2>2. /\ UNCHANGED <<view, scheduled, confirmed, faults>>
          /\ \E ctx : OneHandler(t, "edit", "show", ctx)
        BY <1>e, <1>0, <2>1, HandlerSteps DEF EditForm
    <2> QED BY <2>1, <2>2, <1>0, AliveKept DEF Refreshing
<1>1. CASE GetContext(t) \/ FetchRates(t) \/ Reopen(t)
    <2>1. UNCHANGED <<scheduled, confirmed, faults>> /\ (view' = view \/ view' = "form")
        BY <1>1 DEF GetContext, FetchRates, Reopen, Refuse
    <2>2. \/ view' = "closed" /\ OneHandler(t, "edit", "idle", None)
          \/ \E pc \in Refreshing : \E ctx : OneHandler(t, task[t].kind, pc, ctx)
        BY <1>1, <1>0, HandlerSteps DEF GetContext, NoContext, FetchRates, Reopen, Refuse,
                                        Refreshing
    <2> QED BY <2>1, <2>2, <1>0, AliveKept
<1>2. CASE Schedule(t)
    <2>1. /\ UNCHANGED <<view, confirmed, faults>> /\ scheduled' # {}
          /\ \E ctx : OneHandler(t, task[t].kind, "show", ctx)
        BY <1>2, <1>0, HandlerSteps DEF Schedule
    <2> QED BY <2>1, <1>0, AliveKept
<1>3. CASE Show(t)
    <2>1. /\ task[t].pc \notin Refreshing
          /\ ~(task[t].kind = "cancel" /\ task[t].pc = "resolve")
          /\ task[t].pc = "show"
        BY <1>3 DEF Show, Refreshing
    <2>2. OneHandler(t, "edit", "idle", None) /\ UNCHANGED <<scheduled, confirmed, faults>>
        BY <1>3, <1>0, HandlerSteps DEF Show, Refuse
    <2>3. CASE view = "form" \/ view' = "closed" \/ view' = "review" \/ view = "review"
        <3>1. view' = "review" => confirmed'
            BY <1>3, <1>0, <2>2 DEF Show, Refuse
        <3> QED BY <2>1, <2>2, <2>3, <3>1, <1>0, AliveKept
    <2>4. CASE view \in {"none", "closed"}
        <3>1. view # "none"
            BY <2>1 DEF FormInv, NothingBefore
        <3>2. view' = "closed"
            BY <3>1, <2>4, <1>3 DEF Show, Refuse
        <3> QED BY <3>2, <2>3
    <2> QED BY <2>3, <2>4 DEF FormInv, SoundScreen
<1>4. CASE CancelEvent(t)
    <2>1. task[t].kind \in {"confirm", "cancel"} /\ task[t].pc = "cancelEvent"
        BY <1>s, <1>4 DEF CancelEvent, SoundHandler
    <2>2. UNCHANGED <<view, confirmed, faults>>
        BY <1>4 DEF CancelEvent
    <2>3. CASE task[t].kind = "confirm"
        <3>1. \E kind, pc, ctx : OneHandler(t, kind, pc, ctx)
            BY <1>4, <1>0, HandlerSteps DEF CancelEvent
        <3> QED BY <3>1, <2>2, <2>3, <1>0, AliveKept
    <2>4. CASE task[t].kind = "cancel"
        <3>1. \/ OneHandler(t, "cancel", "resolve", task[t].ctx)
              \/ OneHandler(t, "edit", "idle", None) /\ scheduled' = scheduled
            BY <1>4, <1>0, <2>4, HandlerSteps DEF CancelEvent, AfterCancel
        <3> QED BY <3>1, <2>1, <2>2, <1>0, AliveKept DEF Refreshing
    <2> QED BY <2>1, <2>3, <2>4
<1>5. CASE ReviewForm(t)
    <2>1. task[t].kind = "confirm" /\ confirmed
        BY <1>0, <1>s, <1>5 DEF ReviewForm, SoundHandler
    <2>2. UNCHANGED <<confirmed, faults>> /\ \E kind, pc, ctx : OneHandler(t, kind, pc, ctx)
        BY <1>5, <1>0, HandlerSteps DEF ReviewForm
    <2> QED BY <2>1, <2>2, AliveKept
<1>6. CASE Resolve(t)
    <2>1. OneHandler(t, "edit", "idle", None) /\ view' = "closed" /\ UNCHANGED <<confirmed, faults>>
        BY <1>6, <1>0, HandlerSteps DEF Resolve
    <2> QED BY <2>1, AliveKept
<1>7. CASE Throw(t)
    <2>1. OneHandler(t, "edit", "idle", None) /\ UNCHANGED <<view, confirmed>> /\ faults' # 0
        BY <1>7, <1>0, HandlerSteps DEF Throw
    <2> QED BY <2>1, <1>0, AliveKept
<1> QED BY <1>e, <1>1, <1>2, <1>3, <1>4, <1>5, <1>6, <1>7 DEF Step

LEMMA AliveStep == AliveInv /\ [Next]_vars => AliveInv'
<1> SUFFICES ASSUME FormInv, LoopGoesOn, [Next]_vars PROVE LoopGoesOn'
    BY FormStep DEF AliveInv
<1> USE DEF interface, history
<1>1. CASE CloseDialog \/ Sign \/ (\E a \in Accounts : Synchronize(a)) \/ UNCHANGED vars
    <2>1. /\ UNCHANGED <<task, scheduled, confirmed>>
          /\ view' = view \/ view' = "closed"
          /\ faults' = faults \/ faults' # 0
        BY <1>1, BoundAssumption DEF CloseDialog, Sign, Synchronize, vars, FormInv, SoundRest
    <2> QED BY <2>1 DEF LoopGoesOn, Refreshes
<1>2. ASSUME NEW e \in Events, Skip(e) PROVE LoopGoesOn'
    <2>1. UNCHANGED <<task, confirmed, view>> /\ faults' # 0
        BY <1>2, BoundAssumption DEF Skip, FormInv, SoundRest
    <2> QED BY <2>1 DEF LoopGoesOn
<1> QED BY <1>1, <1>2, StartKeepsLoop, StepKeepsLoop DEF Next, Ended

\* The rates on the form keep being refreshed: while no host call fails and no
\* event is dropped, whatever the user enters and however stale the contexts
\* the handlers write, a refresh is pending or under way until Confirm or Cancel.
THEOREM LoopStaysAlive == Spec => []LoopAlive
<1>1. Init => AliveInv
    <2> SUFFICES ASSUME Init PROVE LoopGoesOn
        BY FormInit DEF AliveInv
    <2> QED BY DEF Init, LoopGoesOn, Rest
<1>2. AliveInv => LoopAlive
    BY DEF AliveInv, LoopGoesOn, LoopAlive
<1> QED BY <1>1, AliveStep, <1>2, PTL DEF Spec
-----------------------------------------------------------------------------
(* The transaction that is signed is one the user approved.                *)

\* The psbt of a review on which the user pressed Send.
Approved(psbt) == \E review \in approved : review.psbt = psbt

\* A handler of Send holds an approved psbt, and does nothing but resolve the
\* interface with it.
SendIsApproved ==
    \A t \in Tasks : task[t].kind = "send" =>
        task[t].pc = "resolve" /\ Approved(task[t].ctx.psbt)

ApprovalInv == FormInv /\ SendIsApproved /\ (answer # None => Approved(answer))

LEMMA ApprovalInit == Init => ApprovalInv
<1> SUFFICES ASSUME Init PROVE SendIsApproved /\ answer = None
    BY FormInit DEF ApprovalInv
<1> QED BY DEF Init, SendIsApproved, Rest

\* Most steps leave what was approved and answered.
LEMMA ApprovalKept ==
    ASSUME ApprovalInv, NEW t \in Tasks, NEW kind, NEW pc, NEW ctx,
           OneHandler(t, kind, pc, ctx),
           kind = "send" => pc = "resolve" /\ Approved(ctx.psbt)',
           approved \subseteq approved',
           answer' = answer \/ Approved(answer)'
    PROVE  SendIsApproved' /\ (answer' # None => Approved(answer)')
<1>1. /\ task'[t] = [kind |-> kind, pc |-> pc, ctx |-> ctx]
      /\ \A u \in Tasks \ {t} : task'[u] = task[u]
    BY HandlerChanged DEF ApprovalInv, FormInv
<1>2. \A psbt : Approved(psbt) => \E review \in approved' : review.psbt = psbt
    BY DEF Approved
<1>3. SendIsApproved'
    <2> SUFFICES ASSUME NEW u \in Tasks, task'[u].kind = "send"
                 PROVE  /\ task'[u].pc = "resolve"
                        /\ \E review \in approved' : review.psbt = task'[u].ctx.psbt
        BY DEF SendIsApproved, Approved
    <2>1. CASE u = t
        BY <2>1, <1>1 DEF Approved
    <2>2. CASE u # t
        <3>1. task[u].pc = "resolve" /\ Approved(task[u].ctx.psbt) /\ task'[u] = task[u]
            BY <2>2, <1>1 DEF ApprovalInv, SendIsApproved
        <3> QED BY <3>1, <1>2
    <2> QED BY <2>1, <2>2
<1>4. answer' # None => Approved(answer)'
    BY <1>2 DEF ApprovalInv, Approved
<1> QED BY <1>3, <1>4

LEMMA ApprovalStep == ApprovalInv /\ [Next]_vars => ApprovalInv'
<1> SUFFICES ASSUME ApprovalInv, [Next]_vars
             PROVE  SendIsApproved' /\ (answer' # None => Approved(answer)')
    BY FormStep DEF ApprovalInv
<1> USE DEF Begin, interface, history
<1>0. Handlers /\ SoundHandlers
    BY DEF ApprovalInv, FormInv
<1>1. CASE Display \/ Edit \/ Confirm \/ Cancel \/ Back \/ \E e \in Events : Fire(e)
    <2>1. PICK t \in Tasks, kind \in Kinds \ {"send"} : \E pc, ctx : OneHandler(t, kind, pc, ctx)
        BY <1>1, <1>0, HandlerSteps DEF Display, Edit, Confirm, Cancel, Back, Fire, Kinds
    <2>2. UNCHANGED <<answer, approved>>
        BY <1>1 DEF Display, Edit, Confirm, Cancel, Back, Fire
    <2> QED BY <2>1, <2>2, ApprovalKept
<1>2. CASE Send
    <2>1. PICK t \in Tasks : OneHandler(t, "send", "resolve", [psbt |-> context.psbt])
        BY <1>2, <1>0, HandlerSteps DEF Send
    <2>2. approved' = approved \cup {context} /\ answer' = answer
        BY <1>2 DEF Send
    <2>3. \E review \in approved' : review.psbt = [psbt |-> context.psbt].psbt
        BY <2>2
    <2> QED BY <2>1, <2>2, <2>3, ApprovalKept DEF Approved
<1>3. ASSUME NEW t \in Tasks, Step(t) \/ Throw(t)
      PROVE  SendIsApproved' /\ (answer' # None => Approved(answer)')
    <2>0. approved' = approved
        BY <1>3 DEF Step, EditForm, GetContext, FetchRates, Schedule, Show, Reopen, CancelEvent,
                    ReviewForm, Resolve, Throw, Refuse
    <2>1. CASE Resolve(t)
        <3>1. OneHandler(t, "edit", "idle", None)
            BY <2>1, <1>0, HandlerSteps DEF Resolve
        <3>2. answer' = answer \/ Approved(answer)'
            BY <2>0, <2>1 DEF Resolve, ApprovalInv, SendIsApproved, Approved
        <3> QED BY <3>1, <3>2, <2>0, ApprovalKept
    <2>2. CASE ~Resolve(t)
        <3>1. answer' = answer
            BY <1>3, <2>2 DEF Step, EditForm, GetContext, FetchRates, Schedule, Show, Reopen,
                              CancelEvent, ReviewForm, Throw, Refuse
        <3>2. \/ OneHandler(t, "edit", "idle", None)
              \/ task[t].pc # "resolve" /\ \E pc, ctx : OneHandler(t, task[t].kind, pc, ctx)
            BY <1>3, <2>2, <1>0, HandlerSteps DEF Step, EditForm, GetContext, NoContext,
                   FetchRates, Schedule, Show, Reopen, CancelEvent, ReviewForm, Throw, Refuse
        <3>3. task[t].pc # "resolve" => task[t].kind # "send"
            BY DEF ApprovalInv, SendIsApproved
        <3> QED BY <3>1, <3>2, <3>3, <2>0, ApprovalKept
    <2> QED BY <2>1, <2>2
<1>4. CASE \/ CloseDialog \/ Sign \/ \E e \in Events : Skip(e)
           \/ (\E a \in Accounts : Synchronize(a)) \/ UNCHANGED vars
    <2>1. UNCHANGED <<task, answer, approved>>
        BY <1>4 DEF CloseDialog, Sign, Skip, Synchronize, vars
    <2> QED BY <2>1 DEF ApprovalInv, SendIsApproved, Approved
<1> QED BY <1>1, <1>2, <1>3, <1>4 DEF Next, Ended

\* The transaction #executeSendFlow signs is that of a review on which the user
\* pressed Send, and which told what it moves, however handlers, refreshes and
\* failures interleave and wallets change.
THEOREM SentReviewed == Spec => []SentWasReviewed
<1>1. ApprovalInv => SentWasReviewed
    BY DEF ApprovalInv, Approved, FormInv, SoundRest, SoundReview, SentWasReviewed
<1> QED BY ApprovalInit, ApprovalStep, <1>1, PTL DEF Spec
=============================================================================
