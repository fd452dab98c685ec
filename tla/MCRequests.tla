----------------------------- MODULE MCRequests -----------------------------
(***************************************************************************)
(* Requests for TLC: an account of two coins, somebody else's script, and  *)
(* a call of every kind.                                                   *)
(***************************************************************************)
EXTENDS Requests, TLC

CONSTANTS a, c1, c2, mine, back, other, r1, r2

MCOwner == [c \in Coins |-> a]
MCValue == [c \in Coins |-> 4]
MCScriptOwner == mine :> a @@ back :> a @@ other :> Nobody
MCChange == [x \in Accounts |-> back]

Plain == [form |-> "plain", of |-> Nobody, spelling |-> "canonical"]
Rewards == [form |-> "rewards", of |-> a, spelling |-> "canonical"]
Proof == [form |-> "proof", of |-> a, spelling |-> "other"]
Foreign == [form |-> "proof", of |-> Nobody, spelling |-> "canonical"]
MCMessages == {Plain, Rewards, Proof, Foreign}

Out(to, value) == [to |-> to, value |-> value]
Template(outs) == [outs |-> outs, coins |-> {}, final |-> FALSE]
Swap == Template(<<Out(other, 1), Out(mine, 1), Out(back, 1)>>)
Ready == [outs |-> <<Out(other, 3)>>, coins |-> {c1}, final |-> FALSE]
Foreigners == Template(<<Out(other, 3)>>)

Base == [method |-> "signPsbt", account |-> a, wellFormed |-> TRUE, psbt |-> None,
         fill |-> FALSE, broadcast |-> FALSE, recipient |-> None, amount |-> 0, message |-> None]

SignSwap == [Base EXCEPT !.psbt = Swap, !.fill = TRUE, !.broadcast = TRUE]
Send == [Base EXCEPT !.method = "sendTransfer", !.broadcast = TRUE,
                     !.recipient = other, !.amount = 2]
Own == [Base EXCEPT !.method = "signAndSend", !.broadcast = TRUE, !.psbt = Swap]

MCCalls ==
    { SignSwap, Send, Own,
      [Base EXCEPT !.psbt = Ready],
      [Base EXCEPT !.method = "computeFee", !.psbt = Swap],
      [Base EXCEPT !.method = "fillPsbt"],
      [Base EXCEPT !.method = "broadcastPsbt", !.broadcast = TRUE, !.psbt = Signed(Ready)],
      [Base EXCEPT !.method = "broadcastPsbt", !.broadcast = TRUE, !.psbt = Signed(Foreigners)],
      [Base EXCEPT !.method = "confirmSend", !.broadcast = TRUE, !.recipient = other, !.amount = 8],
      [Base EXCEPT !.method = "confirmSend", !.broadcast = TRUE, !.recipient = other, !.amount = 3],
      [Base EXCEPT !.method = "confirmSend", !.broadcast = TRUE, !.recipient = other, !.amount = 7],
      [Base EXCEPT !.method = "onAmountInput", !.amount = 5],
      [Base EXCEPT !.method = "getUtxo"],
      [Base EXCEPT !.method = "getUtxo", !.wellFormed = FALSE],
      [Base EXCEPT !.method = "unknown"],
      [Base EXCEPT !.method = "signMessage", !.message = Plain],
      [Base EXCEPT !.method = "signRewards", !.message = Rewards],
      [Base EXCEPT !.method = "signProof", !.message = Proof],
      [Base EXCEPT !.method = "signProof", !.message = Foreign] }

MCAsked == r1 :> MCCalls @@ r2 :> {Own}
=============================================================================
