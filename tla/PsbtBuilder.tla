----------------------------- MODULE PsbtBuilder -----------------------------
(***************************************************************************)
(* How a transaction is put together: what the builder of the library      *)
(* promises (BdkTxBuilderAdapter), the transfer of the send flow and the   *)
(* filling of a template (AccountUseCases.#fillPsbt).                      *)
(*                                                                         *)
(* Abstractions.  Any transaction costs Fee at the going rate.  The        *)
(* library selects coins as it likes; with untouchedOrdering it pays the   *)
(* recipients in the order they were added and appends the change; no      *)
(* change is made that would be dust.                                      *)
(***************************************************************************)
EXTENDS Naturals, Sequences, FiniteSets, SequencesExt

CONSTANTS
    Accounts, Coins, Scripts,
    CoinOwner,      \* the account of each coin
    CoinValue,
    ScriptOwner,    \* the account of each script, or Nobody
    ChangeScript,   \* where the library sends the change of an account by itself
    Fee,
    Dust,           \* the smallest output the network relays
    Nobody

ASSUME CoinAssumption ==
    /\ IsFiniteSet(Coins) /\ CoinOwner \in [Coins -> Accounts]
    /\ CoinValue \in [Coins -> Nat]
ASSUME ScriptAssumption ==
    /\ Nobody \notin Accounts /\ ScriptOwner \in [Scripts -> Accounts \cup {Nobody}]
    /\ ChangeScript \in [Accounts -> Scripts]
    /\ \A a \in Accounts : ScriptOwner[ChangeScript[a]] = a
ASSUME AmountAssumption == Fee \in Nat /\ Dust \in Nat

Outputs == [to : Scripts, value : Nat]
Psbts == [outs : Seq(Outputs), coins : SUBSET Coins, final : BOOLEAN]

CoinsOf(a) == {c \in Coins : CoinOwner[c] = a}
IsMine(a, out) == ScriptOwner[out.to] = a

Worth(coins) == SumFunctionOnSet(CoinValue, coins)
Total(outs) == SumFunction([i \in DOMAIN outs |-> outs[i].value])

\* The outputs that pay somebody else.
Others(a, outs) ==
    LET kept[i \in 0..Len(outs)] ==
            IF i = 0 THEN <<>>
            ELSE IF IsMine(a, outs[i]) THEN kept[i - 1] ELSE Append(kept[i - 1], outs[i])
    IN  kept[Len(outs)]

\* Where the change goes when a template is filled: to the last of its outputs
\* that are the account's own, if it has one.
ChangeTo(a, template) ==
    LET own == {i \in DOMAIN template : IsMine(a, template[i])}
    IN  IF own = {} THEN ChangeScript[a] ELSE template[Max(own)].to

\* finish(): the unsigned transactions the library may come up with, none if
\* there is no recipient, a payment is dust or the funds do not suffice.
Built(wallet, recipients, changeTo) ==
    LET cost == Total(recipients) + Fee
        Tx(coins) ==
            LET rest == Worth(coins) - cost
                change == IF rest < Dust \/ rest = 0 THEN <<>>
                          ELSE <<[to |-> changeTo, value |-> rest]>>
            IN  [outs |-> recipients \o change, coins |-> coins, final |-> FALSE]
    IN  IF recipients = <<>> \/ \E i \in DOMAIN recipients : recipients[i].value < Dust THEN {}
        ELSE {Tx(coins) : coins \in {s \in SUBSET wallet : Worth(s) >= cost}}

\* drainWallet().drainTo(): all coins to one script.
Drained(wallet, script) ==
    IF Worth(wallet) < Fee + Dust \/ Worth(wallet) = Fee THEN {}
    ELSE {[outs |-> <<[to |-> script, value |-> Worth(wallet) - Fee]>>,
           coins |-> wallet, final |-> FALSE]}

\* sendTransfer: the recipient gets the amount.  The ordering is left to the library,
\* which may put the change first.
Transfer(a, wallet, script, amount) ==
    UNION { {tx, [tx EXCEPT !.outs = Reverse(@)]} :
            tx \in Built(wallet, <<[to |-> script, value |-> amount]>>, ChangeScript[a]) }

\* Mutant: the recipient bears the fee as soon as the rest does not cover it.
DrainForFee(a, wallet, script, amount) ==
    IF amount + Fee > Worth(wallet) THEN Drained(wallet, script)
    ELSE Transfer(a, wallet, script, amount)

\* confirmSendFlow: an amount that is the whole balance means to drain the wallet.
SendFlowTransfer(a, wallet, script, amount) ==
    IF amount = Worth(wallet) THEN Drained(wallet, script)
    ELSE Transfer(a, wallet, script, amount)

\* Mutant: no second attempt.
FilledOnce(a, wallet, template) ==
    Built(wallet, Others(a, template), ChangeTo(a, template))

\* #fillPsbt: an output to the account itself takes what is left (the last of
\* them, if there are several), the others are paid as they are.  Where that
\* yields fewer outputs than the template has, all are paid as they are.
Filled(a, wallet, template) ==
    LET first == Built(wallet, Others(a, template), ChangeTo(a, template))
        complete(tx) == Len(tx.outs) >= Len(template)
    IN  {tx \in first : complete(tx)}
        \cup (IF \A tx \in first : complete(tx) THEN {}
              ELSE Built(wallet, template, ChangeScript[a]))

\* #fillPsbt throws where an attempt does: the first, or the second when the
\* first came out short.
FillThrows(a, wallet, template) ==
    LET first == Built(wallet, Others(a, template), ChangeTo(a, template))
    IN  \/ first = {}
        \/ /\ \E tx \in first : Len(tx.outs) < Len(template)
           /\ Built(wallet, template, ChangeScript[a]) = {}

\* sign: what the wallet knows the keys of.  A PSBT that is not final then is refused.
Signable(a, psbt) == psbt.coins # {} /\ psbt.coins \subseteq CoinsOf(a)
Signed(psbt) == [outs |-> psbt.outs, coins |-> psbt.coins, final |-> TRUE]

\* applyUnconfirmedTx: what a wallet takes note of.
Touches(a, psbt) ==
    psbt.coins \cap CoinsOf(a) # {} \/ \E i \in DOMAIN psbt.outs : IsMine(a, psbt.outs[i])
=============================================================================
