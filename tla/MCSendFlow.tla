---------------------------- MODULE MCSendFlow ----------------------------
(***************************************************************************)
(* The send flow for TLC.                                                  *)
(***************************************************************************)
EXTENDS SendFlow, TLC

CONSTANTS few, many

\* With many, some of the coins come from a payment that is pending.
MCTrusted == [w \in Wallets |-> 3]
MCWhole == [w \in Wallets |-> IF w = few THEN 3 ELSE 5]
MCDrainFee == [w \in Wallets |-> [r \in Rates |-> IF w = few THEN 1 ELSE 2]]

\* Ids are told apart only by which event they name: those whose event has fired
\* or was cancelled are alike, and the others are known by their order.
IdSeen(e) ==
    IF e = None THEN None ELSE
    IF e \in scheduled THEN Cardinality({f \in scheduled : f <= e}) ELSE 0

Seen(ctx) ==
    IF ctx = None THEN None
    ELSE IF "event" \in DOMAIN ctx THEN [ctx EXCEPT !.event = IdSeen(@)]
    ELSE IF "form" \in DOMAIN ctx THEN [ctx EXCEPT !.form.event = IdSeen(@)]
    ELSE ctx

UpToIds ==
    <<wallet, view, Seen(context), Cardinality(scheduled), [t \in Tasks |-> [task[t] EXCEPT !.ctx = Seen(@)]],
      flow, answer, edits, loops, {[review EXCEPT !.form.event = None] : review \in approved},
      confirmed, faults>>

Symmetric == Permutations(Tasks)
=============================================================================
