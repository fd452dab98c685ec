------------------------------ MODULE SendFlow ------------------------------
(***************************************************************************)
(* The send flow: RpcHandler.#executeSendFlow, which displays one          *)
(* interface and sends what it resolves to, with the user's events on the  *)
(* interface and the background loop that refreshes its rates              *)
(* (SendFlowUseCases).                                                     *)
(*                                                                         *)
(* Every handler works on the context the host gave it when its event came *)
(* and, some awaits later, writes a whole context back.  A handler in      *)
(* progress is a task; its awaits are its pc.                              *)
(*                                                                         *)
(* Abstractions.  A wallet is one of a few states, which synchronisations  *)
(* change while the form is open; all the flow sees of it is the balance   *)
(* and what draining it takes and costs.  A fee and a psbt are what they   *)
(* were computed from, but for the coins a fixed payment spends.  A build  *)
(* may fail at any time.  Locale, currency and exchange rate are left out: *)
(* they are display only, so SwitchCurrency writes its context back.  So   *)
(* is the error of the amount field.                                       *)
(***************************************************************************)
EXTENDS Integers, FiniteSets

CONSTANTS
    Accounts,
    Start,          \* the account the flow is started for
    Amounts,        \* amounts the user may enter
    Recipients, Rates,
    Wallets,        \* the states an account's wallet may be in
    Trusted,        \* balance.trusted_spendable of each of them
    Whole,          \* what drainWallet takes: pending coins nobody vouches for as well
    DrainFee,       \* what draining costs, at each rate
    FallbackRate,   \* Config.fallbackFeeRate
    Tasks,          \* slots for handlers in progress: a bound on their number
    Events,         \* ids of background events, reused once forgotten
    MaxEdits,       \* bound on the user's inputs
    MaxLoops,       \* bound on the refresh loops started
    MaxFaults,      \* bound on host calls that fail and events that are dropped
    None

ASSUME StartAssumption == Start \in Accounts /\ FallbackRate \in Rates
ASSUME WalletAssumption ==
    /\ Amounts \subseteq Nat /\ \A w \in Wallets : w \notin Int
    /\ Trusted \in [Wallets -> Nat] /\ Whole \in [Wallets -> Nat]
    /\ DrainFee \in [Wallets -> [Rates -> Nat]]
ASSUME EventAssumption == Events \subseteq Nat
ASSUME BoundAssumption == MaxEdits \in Nat /\ MaxLoops \in Nat \ {0} /\ MaxFaults \in Nat
ASSUME NoneAssumption == None \notin Accounts \cup Recipients \cup Events \cup Int

\* What a psbt takes from the account: an amount, or the wallet as it is, whole.
Quote == [account : Accounts, takes : Int \cup Wallets, recipient : Recipients, rate : Rates]

\* The balance is that of the moment the account was chosen.
FormContext ==
    [account : Accounts, balance : Nat, amount : Int \cup {None}, drain : BOOLEAN,
     recipient : Recipients \cup {None}, fee : Quote \cup {None}, rate : Rates,
     errors : SUBSET {"tx", "recipient"}, event : Events \cup {None}]

ReviewContext ==
    [psbt : Quote, from : Accounts, amount : Int, recipient : Recipients, form : FormContext]

Kinds == {"display", "refresh", "edit", "confirm", "cancel", "send", "back"}
Refreshing == {"getContext", "reopen", "fetch", "schedule"}
PCs == Refreshing \cup {"idle", "edit", "show", "cancelEvent", "review", "resolve"}

VARIABLES
    wallet,     \* the persisted wallet of each account
    view,       \* what the interface shows; "closed" once it is resolved
    context,    \* the context the host keeps with the interface
    scheduled,  \* background events the host will fire
    task,       \* the handlers in progress: kind, pc and their copy of the context
    flow,       \* how far #executeSendFlow is
    answer,     \* the psbt displayInterface returned, or None
    edits,      \* inputs of the user so far
    loops,      \* refresh loops started so far
    approved,   \* history: the reviews on which the user pressed Send
    confirmed,  \* history: Confirm was pressed
    faults      \* host calls that failed and events dropped so far

interface == <<view, context>>
history == <<edits, loops, approved, confirmed, faults>>
vars == <<wallet, interface, scheduled, task, flow, answer, history>>

-----------------------------------------------------------------------------
IsForm(ctx) == "fee" \in DOMAIN ctx
IdsIn(ctx) ==
    {ctx.event : f \in {"event"} \cap DOMAIN ctx}
    \cup {ctx.form.event : f \in {"form"} \cap DOMAIN ctx}

Rest == [kind |-> "edit", pc |-> "idle", ctx |-> None]
Active(t) == task[t].pc # "idle"
Refreshes == {t \in Tasks : task[t].pc \in Refreshing}

Become(t, kind, pc, ctx) ==
    task' = [task EXCEPT ![t] = [kind |-> kind, pc |-> pc, ctx |-> ctx]]
Goto(t, pc) == task' = [task EXCEPT ![t].pc = pc]
Carry(t, pc, ctx) == task' = [task EXCEPT ![t].pc = pc, ![t].ctx = ctx]
Finish(t) == task' = [task EXCEPT ![t] = Rest]

\* The contexts that the host and the handlers keep.
Kept == ({context} \cup {task[t].ctx : t \in Tasks}) \ {None}

\* An id no one refers to: the host's ids are never used twice.
Forgotten == Events \ (scheduled \cup UNION {IdsIn(ctx) : ctx \in Kept})

NewForm(a, rate) ==
    [account |-> a, balance |-> Trusted[wallet[a]], amount |-> None, drain |-> FALSE,
     recipient |-> None, fee |-> None, rate |-> rate, errors |-> {}, event |-> None]

\* buildTx on the account as it is persisted now.
QuoteOf(form) ==
    [account |-> form.account, recipient |-> form.recipient, rate |-> form.rate,
     takes |-> IF form.drain THEN wallet[form.account] ELSE form.amount]

Drains(quote) == quote.takes \in Wallets
Cost(quote) == DrainFee[quote.takes][quote.rate]

\* What the recipient gets.
Pays(psbt) == IF Drains(psbt) THEN Whole[psbt.takes] - Cost(psbt) ELSE psbt.takes

-----------------------------------------------------------------------------
(* What the handlers compute from their copy of the form.                  *)

\* #computeFee: nothing to do, the fee, or the form with an error.  With drain the
\* amount becomes what the balance on the form leaves after the fee.
WithFee(form) ==
    LET quote == QuoteOf(form)
    IN  IF form.amount = None \/ form.recipient = None
        THEN {form}
        ELSE {[form EXCEPT !.fee = quote,
                           !.amount = IF form.drain THEN form.balance - Cost(quote) ELSE @],
              [form EXCEPT !.errors = @ \cup {"tx"}]}

\* Mutant: the fee computed for the amount before stays.
WithoutErrors(form) == [form EXCEPT !.errors = @ \ {"tx"}]
WithoutFee(form) == [form EXCEPT !.fee = None, !.errors = @ \ {"tx"}]

\* #handleSetAmount: an invalid amount, or an account that is gone when the fee
\* is computed, leaves the form without a fee; the number Max entered stays then.
SetAmount(form, a) ==
    LET cleared == [WithoutFee(form) EXCEPT !.drain = FALSE]
        filled  == [cleared EXCEPT !.amount = a]
    IN  WithFee(filled) \cup {cleared, filled}

\* #handleSetMax: here an account that is gone ends the handler.
SetMax(form) == WithFee([WithoutFee(form) EXCEPT !.amount = form.balance, !.drain = TRUE])

\* #handleSetRecipient: the fee computed before stays when this one fails.
SetRecipient(form, r) ==
    LET cleared == [form EXCEPT !.errors = @ \ {"recipient", "tx"}]
        filled  == [cleared EXCEPT !.recipient = r]
    IN  WithFee(filled)
        \cup {[f EXCEPT !.errors = @ \cup {"recipient"}] : f \in {cleared, filled}}

\* Mutant: the fee stays when the recipient is cleared.
ClearRecipientKeepFee(form) ==
    [form EXCEPT !.recipient = None, !.errors = @ \ {"recipient", "tx"}]
ClearRecipient(form) ==
    [form EXCEPT !.recipient = None, !.errors = @ \ {"recipient", "tx"}, !.fee = None]
ClearAmount(form) == [WithoutFee(form) EXCEPT !.amount = None, !.drain = FALSE]

\* The form as the user's event may leave it: an input, a cleared input, the
\* currency switched, or another account, which forgets the background event.
Edits(form) ==
    SetMax(form)
    \cup (UNION {SetAmount(form, a) : a \in Amounts})
    \cup (UNION {SetRecipient(form, r) : r \in Recipients})
    \cup {ClearRecipient(form), ClearAmount(form), form}
    \cup {NewForm(a, form.rate) : a \in Accounts}

\* #refreshRates: the new rate and fee; what was there when fetching failed;
\* the new rate alone when the account is gone.  A review context has no
\* account, which fails in the same way.
Fetched(ctx) ==
    IF IsForm(ctx)
    THEN {ctx} \cup UNION {WithFee(f) \cup {f} : f \in {[ctx EXCEPT !.rate = r] : r \in Rates}}
    ELSE {ctx}

\* Mutant: what the review shows is taken from the context on the screen.
ReviewOfScreen(form) ==
    LET shown == IF view = "form" /\ context.fee # None THEN context ELSE form
    IN  [psbt |-> QuoteOf(form), from |-> shown.account, amount |-> shown.amount,
         recipient |-> shown.recipient, form |-> form]

\* #handleConfirm: what is shown comes from the form it was given, and so does the
\* psbt, but for the wallet, which is drained as it is now.
ReviewOf(form) ==
    [psbt |-> QuoteOf(form), from |-> form.account, amount |-> form.amount,
     recipient |-> form.recipient, form |-> form]

Init ==
    /\ wallet \in [Accounts -> Wallets]
    /\ view = "none" /\ context = None
    /\ scheduled = {}
    /\ task = [t \in Tasks |-> Rest]
    /\ flow = "idle" /\ answer = None
    /\ edits = 0 /\ loops = 0 /\ approved = {} /\ confirmed = FALSE /\ faults = 0

-----------------------------------------------------------------------------
(* What starts a handler: the request, the user, the clock.                *)

\* A synchronisation persists another wallet (WalletSync).
Synchronize(a) ==
    /\ \E w \in Wallets \ {wallet[a]} : wallet' = [wallet EXCEPT ![a] = w]
    /\ UNCHANGED <<interface, scheduled, task, flow, answer, history>>

\* A new handler takes a free slot.
Begin(kind, pc, ctx) == \E t \in Tasks : ~Active(t) /\ Become(t, kind, pc, ctx)

\* display: the form is inserted, its first refresh starts unawaited, and
\* displayInterface blocks the request.
Display ==
    /\ flow = "idle"
    /\ flow' = "open" /\ view' = "form" /\ context' = NewForm(Start, FallbackRate)
    /\ Begin("display", "fetch", NewForm(Start, FallbackRate))
    /\ loops' = loops + 1
    /\ UNCHANGED <<wallet, scheduled, answer, edits, approved, confirmed, faults>>

\* The host fires a background event; it does so once.
Fire(e) ==
    /\ e \in scheduled
    /\ scheduled' = scheduled \ {e}
    /\ Begin("refresh", "getContext", None)
    /\ UNCHANGED <<wallet, interface, flow, answer, history>>

\* CronHandler.route drops the event while the client is locked or not active.
Skip(e) ==
    /\ e \in scheduled /\ faults < MaxFaults
    /\ faults' = faults + 1
    /\ scheduled' = scheduled \ {e}
    /\ UNCHANGED <<wallet, interface, task, flow, answer, edits, loops, approved, confirmed>>

\* The user changes a field of the form.
Edit ==
    /\ view = "form" /\ edits < MaxEdits
    /\ Begin("edit", "edit", context)
    /\ edits' = edits + 1
    /\ UNCHANGED <<wallet, interface, scheduled, flow, answer, loops, approved, confirmed, faults>>

\* The Confirm button is disabled while the form has no fee.
Confirm ==
    /\ view = "form" /\ context.fee # None
    /\ Begin("confirm", IF context.event # None THEN "cancelEvent" ELSE "review", context)
    /\ confirmed' = TRUE
    /\ UNCHANGED <<wallet, interface, scheduled, flow, answer, edits, loops, approved, faults>>

Cancel ==
    /\ view = "form"
    /\ Begin("cancel", IF context.event # None THEN "cancelEvent" ELSE "resolve",
             [event |-> context.event])
    /\ UNCHANGED <<wallet, interface, scheduled, flow, answer, history>>

Send ==
    /\ view = "review"
    /\ Begin("send", "resolve", [psbt |-> context.psbt])
    /\ approved' = approved \cup {context}
    /\ UNCHANGED <<wallet, interface, scheduled, flow, answer, edits, loops, confirmed, faults>>

\* HeaderBack: the form that was reviewed is shown again and a new loop starts.
Back ==
    /\ view = "review" /\ loops < MaxLoops
    /\ Begin("back", "reopen", context.form)
    /\ loops' = loops + 1
    /\ UNCHANGED <<wallet, interface, scheduled, flow, answer, edits, approved, confirmed, faults>>

\* The user closes the dialog itself: displayInterface resolves to null.
CloseDialog ==
    /\ view \in {"form", "review"}
    /\ view' = "closed" /\ context' = None /\ flow' = "cancelled"
    /\ UNCHANGED <<wallet, scheduled, task, answer, history>>

-----------------------------------------------------------------------------
(* The steps of a handler, one to each await.                              *)

\* Mutant: the missing context is logged and the loop goes on.
NoContextGoOn(t) == Carry(t, "schedule", NewForm(Start, FallbackRate))
\* refresh swallows the failure of getContext.
NoContext(t) == Finish(t)

GetContext(t) ==
    /\ task[t].pc = "getContext"
    /\ IF view = "closed" THEN NoContext(t) ELSE Carry(t, "fetch", context)
    /\ UNCHANGED <<wallet, interface, scheduled, flow, answer, history>>

\* The handler of an input computes the form, on the account as it is by then.
\* Switching to an account that is gone fails and changes nothing.
EditForm(t) ==
    /\ task[t].pc = "edit"
    /\ \E form \in Edits(task[t].ctx) : Carry(t, "show", form)
    /\ UNCHANGED <<wallet, interface, scheduled, flow, answer, history>>

\* Mutant: a failure to fetch the rates is not caught.
FetchRatesThrow(t) ==
    /\ task[t].pc = "fetch"
    /\ \/ \E ctx \in Fetched(task[t].ctx) : Carry(t, "schedule", ctx)
       \/ Finish(t)
    /\ UNCHANGED <<wallet, interface, scheduled, flow, answer, history>>

\* Mutant: the catch schedules the next refresh, and then the handler does.
FetchRatesTwice(t) ==
    /\ task[t].pc = "fetch"
    /\ \E ctx \in Fetched(task[t].ctx), e \in Forgotten :
           /\ Carry(t, "schedule", ctx)
           /\ scheduled' = IF ctx = task[t].ctx THEN scheduled \cup {e} ELSE scheduled
    /\ UNCHANGED <<wallet, interface, flow, answer, history>>

\* #refreshRates up to the scheduling: a failure to fetch is swallowed.
FetchRates(t) ==
    /\ task[t].pc = "fetch"
    /\ \E ctx \in Fetched(task[t].ctx) : Carry(t, "schedule", ctx)
    /\ UNCHANGED <<wallet, interface, scheduled, flow, answer, history>>

WithEvent(ctx, e) == IF IsForm(ctx) THEN [ctx EXCEPT !.event = e] ELSE ctx

\* The next refresh is scheduled, and its id kept in the context.
Schedule(t) ==
    /\ task[t].pc = "schedule"
    /\ \E e \in Forgotten :
           /\ \A f \in Forgotten : e <= f
           /\ scheduled' = scheduled \cup {e}
           /\ Carry(t, "show", WithEvent(task[t].ctx, e))
    /\ UNCHANGED <<wallet, interface, flow, answer, history>>

\* The interface is gone: the host rejects the update, and the handler ends with that.
Refuse(t) ==
    /\ Finish(t)
    /\ UNCHANGED <<wallet, interface, scheduled, flow, answer, history>>

\* updateForm and updateReview: the whole context is replaced by the handler's
\* copy.  A refresh that renders a review context as a form throws.
Show(t) ==
    /\ task[t].pc = "show"
    /\ IF view = "closed" THEN Refuse(t)
       ELSE /\ IF IsForm(task[t].ctx) \/ task[t].kind = "confirm"
               THEN /\ view' = IF IsForm(task[t].ctx) THEN "form" ELSE "review"
                    /\ context' = task[t].ctx
               ELSE UNCHANGED interface
            /\ Finish(t)
            /\ UNCHANGED <<wallet, scheduled, flow, answer, history>>

\* onChangeReview, HeaderBack: updateForm, then #refreshRates.
Reopen(t) ==
    /\ task[t].pc = "reopen"
    /\ IF view = "closed" THEN Refuse(t)
       ELSE /\ view' = "form" /\ context' = task[t].ctx
            /\ Goto(t, "fetch")
            /\ UNCHANGED <<wallet, scheduled, flow, answer, history>>

AfterCancel(t) == IF task[t].kind = "confirm" THEN "review" ELSE "resolve"

\* cancelBackgroundEvent: an event that has fired may be unknown to the host,
\* and the call rejected.
CancelEvent(t) ==
    /\ task[t].pc = "cancelEvent"
    /\ \/ Goto(t, AfterCancel(t))
       \/ task[t].ctx.event \notin scheduled /\ Finish(t)
    /\ scheduled' = scheduled \ {task[t].ctx.event}
    /\ UNCHANGED <<wallet, interface, flow, answer, history>>

\* #handleConfirm after its await: the review, the form with an error, or
\* nothing when the account is gone.
ReviewForm(t) ==
    /\ task[t].pc = "review"
    /\ LET form == task[t].ctx
       IN  \/ Carry(t, "show", ReviewOf(form))
           \/ Carry(t, "show", [form EXCEPT !.errors = @ \cup {"tx"}])
           \/ Finish(t)
    /\ UNCHANGED <<wallet, interface, scheduled, flow, answer, history>>

\* resolveInterface: with the psbt of the review, or null.
Resolve(t) ==
    /\ task[t].pc = "resolve"
    /\ IF view = "closed"
       THEN UNCHANGED <<interface, flow, answer>>
       ELSE /\ view' = "closed" /\ context' = None
            /\ IF task[t].kind = "send"
               THEN flow' = "signing" /\ answer' = task[t].ctx.psbt
               ELSE flow' = "cancelled" /\ UNCHANGED answer
    /\ Finish(t)
    /\ UNCHANGED <<wallet, scheduled, history>>

\* A host call of the handler is rejected, and the handler ends.
Throw(t) ==
    /\ Active(t) /\ faults < MaxFaults
    /\ faults' = faults + 1
    /\ Finish(t)
    /\ UNCHANGED <<wallet, interface, scheduled, flow, answer, edits, loops, approved, confirmed>>

\* #executeSendFlow signs and broadcasts with the account of the request; the
\* inputs of another account stay unsigned and the psbt is not finalized.
Sign ==
    /\ flow = "signing"
    /\ \/ /\ flow' = IF answer.account = Start THEN "sent" ELSE "failed"
          /\ UNCHANGED faults
       \/ faults < MaxFaults /\ faults' = faults + 1 /\ flow' = "failed"
    /\ UNCHANGED <<wallet, interface, scheduled, task, answer, edits, loops, approved, confirmed>>

-----------------------------------------------------------------------------
Step(t) ==
    \/ EditForm(t) \/ GetContext(t) \/ FetchRates(t) \/ Schedule(t) \/ Show(t) \/ Reopen(t)
    \/ CancelEvent(t) \/ ReviewForm(t) \/ Resolve(t)

Ended ==
    /\ flow \in {"sent", "failed", "cancelled"} /\ scheduled = {}
    /\ \A t \in Tasks : ~Active(t)
    /\ UNCHANGED vars

Next ==
    \/ Display \/ Edit \/ Confirm \/ Cancel \/ Send \/ Back \/ CloseDialog \/ Sign
    \/ \E a \in Accounts : Synchronize(a)
    \/ \E e \in Events : Fire(e) \/ Skip(e)
    \/ \E t \in Tasks : Step(t) \/ Throw(t)
    \/ Ended

Spec == Init /\ [][Next]_vars

\* The engine resumes what can resume, the host fires what is scheduled.
Fairness ==
    /\ \A t \in Tasks : WF_vars(Step(t))
    /\ \A e \in Events : WF_vars(Fire(e))
    /\ WF_vars(Sign)

FairSpec == Spec /\ Fairness

-----------------------------------------------------------------------------
(* Properties.                                                             *)

\* Each variable keeps the type the source gives it: in particular a review is
\* only ever built from a form that has an amount and a recipient.
TypeOK ==
    /\ wallet \in [Accounts -> Wallets]
    /\ view \in {"none", "form", "review", "closed"}
    /\ context \in CASE view = "form"   -> FormContext
                     [] view = "review" -> ReviewContext
                     [] OTHER           -> {None}
    /\ scheduled \subseteq Events
    /\ \A t \in Tasks :
           /\ task[t].kind \in Kinds /\ task[t].pc \in PCs
           /\ IF task[t].pc \in {"idle", "getContext"}
              THEN task[t].ctx = None
              ELSE task[t].ctx \in CASE task[t].kind = "send"    -> [psbt : Quote]
                                     [] task[t].kind = "cancel"  -> [event : Events \cup {None}]
                                     [] task[t].kind = "refresh" -> FormContext \cup ReviewContext
                                     [] task[t].kind = "confirm" /\ task[t].pc = "show" ->
                                            FormContext \cup ReviewContext
                                     [] OTHER                    -> FormContext
    /\ flow \in {"idle", "open", "signing", "sent", "failed", "cancelled"}
    /\ answer \in Quote \cup {None}
    /\ edits \in 0..MaxEdits /\ loops \in 0..MaxLoops /\ faults \in 0..MaxFaults
    /\ confirmed \in BOOLEAN /\ approved \subseteq ReviewContext

\* A review tells what its psbt moves: the account, the recipient and the amount,
\* unless Max was used.  Then the amount is off by as much as the balance since the
\* account was chosen, and the fee since it was last computed, differ from what the
\* psbt, built when the form was confirmed, drains and pays.
Tells(review) ==
    LET psbt == review.psbt
        form == review.form
    IN  /\ review.from = psbt.account /\ review.recipient = psbt.recipient
        /\ review.amount - Pays(psbt) =
              IF Drains(psbt)
              THEN (form.balance - Whole[psbt.takes]) - (Cost(form.fee) - Cost(psbt))
              ELSE 0

\* Whatever stale contexts the handlers wrote in between, and however the wallets
\* changed, the psbt that is signed is that of a review on which the user pressed
\* Send, and that review tells what it moves.
SentWasReviewed ==
    answer # None => \E review \in approved : review.psbt = answer /\ Tells(review)

\* A form on the screen without an error shows a fee computed for its own
\* account, recipient and amount, however inputs and refreshes interleave: a
\* handler may write a stale form, never a mixture of two.  With Max, amount and fee
\* make up the balance.
FeeIsOfForm ==
    view = "form" /\ context.fee # None /\ context.errors = {} =>
        /\ context.fee.account = context.account
        /\ context.fee.recipient = context.recipient
        /\ IF context.drain
           THEN Drains(context.fee) /\ context.amount + Cost(context.fee) = context.balance
           ELSE context.fee.takes = context.amount

\* The AssertionError of #handleConfirm, 'Inconsistent Send form context', is
\* out of reach: a form that lets the user confirm has an amount and a recipient.
ConfirmIsConsistent ==
    \A t \in Tasks : task[t].kind = "confirm" =>
        task[t].ctx.amount # None /\ task[t].ctx.recipient # None

\* No loop forks: there are never more refreshes pending or under way than loops
\* started by display and HeaderBack.
LoopsBounded == Cardinality(scheduled) + Cardinality(Refreshes) <= loops

\* "We do not throw so we can reschedule": without a rejected host call or
\* a locked client the form keeps being refreshed until the user confirms or cancels.
LoopAlive ==
    view = "form" /\ faults = 0 /\ ~confirmed =>
        scheduled # {} \/ Refreshes # {} \/ \E t \in Tasks : task[t].kind = "cancel"

\* Once the interface is resolved the background loop dies out, though nothing
\* cancels the events a stale context has forgotten.
LoopEnds == view = "closed" ~> [](scheduled = {} /\ \A t \in Tasks : ~Active(t))

\* "We reset the context with the new account": a payment from the account the
\* user switched to is sent, unless the host fails.
ApprovedIsSent == flow = "failed" => faults # 0
=============================================================================
