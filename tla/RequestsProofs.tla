--------------------------- MODULE RequestsProofs ---------------------------
(***************************************************************************)
(* Proofs about Requests, for any accounts, coins, scripts and calls and   *)
(* any number of requests at once.  First what is signed and answered,     *)
(* whatever the library builds (RequestsInv); then what a built            *)
(* transaction pays, from what the library promises (SubjectsInv).         *)
(***************************************************************************)
EXTENDS Requests, FiniteSetTheorems, TLAPS

\* Requests and dialogs are records of fixed fields, whatever these hold.
RequestShape(q) == q = [f \in {"pc", "call", "what", "signature", "sent", "copy"} |-> q[f]]
DialogShape(d) == d = [f \in {"state", "shows", "pressed"} |-> d[f]]

Shapes ==
    /\ request = [r \in Requests |-> request[r]] /\ iface = [r \in Requests |-> iface[r]]
    /\ \A r \in Requests : RequestShape(request[r]) /\ DialogShape(iface[r])

\* What allows x to be signed for a call whose dialog is d: what SignedIsConfirmed says.
Authorised(c, x, d) ==
    /\ c.method \in Confirmed => d.shows = View(c, x) /\ "confirm" \in d.pressed
    /\ c.method \in OwnMessages =>
          x.of = c.account /\ Canonical(c.account, x.spelling) = "canonical"
    /\ c.method \notin Confirmed \cup OwnMessages => c.method = "signAndSend"

Builders == {"fillPsbt", "computeFee", "sendTransfer", "signAndSend", "confirmSend"}

\* Where it is when its transaction has been sent.
Sent == {"record", "write", "tell"}

\* Where a request may be, for its method.
OnItsWay(q) ==
    /\ q.pc # "idle" => q.call \in Calls /\ q.call.method \in Methods
    /\ q.pc = "get" => q.call.method \notin Builders
    /\ q.pc = "build" => q.call.method \in Builders \cup {"signPsbt"}
    /\ q.pc \in {"show", "wait"} => q.call.method \in Confirmed
    /\ q.pc = "load" => q.call.method \in Confirmed \cup OwnMessages
    /\ q.pc = "done" => ~q.call.broadcast
    /\ q.pc \in Sent \cup {"broadcast"} /\ q.call.method = "confirmSend" => q.what.final

\* What it shows, may sign and has signed.
Authority(q, d) ==
    /\ q.pc = "wait" => d.shows = View(q.call, q.what)
    /\ q.pc \in {"load", "sign"} => Authorised(q.call, q.what, d)
    /\ q.signature # None =>
          q.pc \in Sent \cup {"broadcast", "done"} /\ Authorised(q.call, q.signature, d)

\* The coins the persisted wallets have known to be spent, and what of a transaction is
\* recorded for an account.
Recorded == known \cup overwritten
OwnCoins(a, tx) == tx.coins \cap CoinsOf(a)

\* What it has sent, of the coins kn that were recorded.
Sending(q, kn) ==
    /\ q.sent => q.pc \in Sent
    /\ q.pc \in Sent => q.sent
    /\ q.pc = "tell" => OwnCoins(q.call.account, q.what) \subseteq kn

\* Its dialog d, with presses ps that wait to be handled.
Dialog(r, q, d, ps) ==
    /\ d.state = "open" => q.pc = "wait"
    /\ d.state = "open" => \A b \in Buttons : <<r, b>> \in ps => b \in d.pressed
    /\ d.state = "yes" => "confirm" \in d.pressed

Good(r, q, d, kn, ps) ==
    OnItsWay(q) /\ Authority(q, d) /\ Sending(q, kn) /\ Dialog(r, q, d, ps)

Replied(rep, kn) ==
    /\ rep.answer \in Rectifiable => ~rep.sent
    /\ rep.answer = "ok" /\ rep.call.broadcast => rep.sent
          /\ OwnCoins(rep.call.account, rep.what) \subseteq kn

RequestsInv ==
    /\ Shapes
    /\ \A r \in Requests : Good(r, request[r], iface[r], Recorded, presses)
    /\ Replied(reply, Recorded)

-----------------------------------------------------------------------------
LEMMA NoReplyIsFine == \A kn : Replied(NoReply, kn)
BY DEF NoReply, Replied, Rectifiable

LEMMA IdleIsGood ==
    /\ RequestShape(Idle) /\ DialogShape(Closed)
    /\ \A r, kn, ps : Good(r, Idle, Closed, kn, ps)
<1>1. /\ Idle.pc = "idle" /\ Idle.signature = None /\ Idle.sent = FALSE
      /\ Closed.state = "closed"
    BY DEF Idle, Closed
<1>2. RequestShape(Idle) /\ DialogShape(Closed)
    BY DEF Idle, Closed, RequestShape, DialogShape
<1>3. OnItsWay(Idle) /\ Authority(Idle, Closed)
    BY <1>1 DEF OnItsWay, Authority, Sent
<1>4. ASSUME NEW kn PROVE Sending(Idle, kn)
    BY <1>1 DEF Sending, Sent
<1>5. ASSUME NEW r, NEW ps PROVE Dialog(r, Idle, Closed, ps)
    BY <1>1 DEF Dialog
<1> QED BY <1>2, <1>3, <1>4, <1>5 DEF Good

LEMMA RequestsInit == Init => RequestsInv
<1> SUFFICES ASSUME Init PROVE RequestsInv
    OBVIOUS
<1>1. \A r \in Requests : request[r] = Idle /\ iface[r] = Closed
    BY DEF Init
<1>2. Shapes
    BY <1>1, IdleIsGood DEF Init, Shapes
<1> QED BY <1>1, <1>2, IdleIsGood, NoReplyIsFine DEF Init, RequestsInv

\* More coins recorded, and fewer presses to handle, disturb no request.
LEMMA GoodStays ==
    ASSUME NEW r, NEW q, NEW d, NEW kn, NEW kn2, NEW ps, NEW ps2,
           Good(r, q, d, kn, ps), kn \subseteq kn2,
           \A b : <<r, b>> \in ps2 => <<r, b>> \in ps
    PROVE  Good(r, q, d, kn2, ps2)
BY DEF Good, Sending, Dialog, Sent

\* A step in which one request becomes q, and its dialog d.
LEMMA OneRequest ==
    ASSUME RequestsInv, NEW r \in Requests, NEW q, NEW d,
           request' = [request EXCEPT ![r] = q], RequestShape(q),
           iface' = [iface EXCEPT ![r] = d], DialogShape(d),
           Good(r, q, d, Recorded', presses'),
           Recorded \subseteq Recorded',
           \A i \in Requests \ {r} : \A b : <<i, b>> \in presses' => <<i, b>> \in presses,
           Replied(reply', Recorded')
    PROVE  RequestsInv'
<1>1. Shapes'
    BY DEF RequestsInv, Shapes, RequestShape, DialogShape
<1>2. /\ request'[r] = q /\ iface'[r] = d
      /\ \A i \in Requests \ {r} : request'[i] = request[i] /\ iface'[i] = iface[i]
    BY DEF RequestsInv, Shapes
<1>3. \A i \in Requests : Good(i, request'[i], iface'[i], Recorded', presses')
    BY <1>2, GoodStays DEF RequestsInv
<1> QED BY <1>1, <1>3 DEF RequestsInv

LEMMA RequestFacts ==
    ASSUME RequestsInv, NEW r \in Requests
    PROVE  /\ RequestShape(request[r]) /\ DialogShape(iface[r])
           /\ Good(r, request[r], iface[r], Recorded, presses)
           /\ iface = [iface EXCEPT ![r] = iface[r]]
BY DEF RequestsInv, Shapes, RequestShape, DialogShape

\* A request that is answered: what was sent is neither forgotten nor repeated.
LEMMA AnswerKeeps ==
    ASSUME RequestsInv, NEW r \in Requests, NEW answer, Answer(r, answer),
           UNCHANGED <<Recorded, presses>>,
           request[r].sent => answer \notin Rectifiable,
           answer = "ok" /\ request[r].call.broadcast =>
               request[r].sent /\ OwnCoins(request[r].call.account, request[r].what) \subseteq Recorded
    PROVE  RequestsInv'
<1>1. Replied(reply', Recorded')
    BY DEF Answer, Replied
<1> QED BY <1>1, IdleIsGood, OneRequest DEF Answer, RequestsInv

LEMMA ErrorKeeps ==
    ASSUME RequestsInv, NEW r \in Requests, NEW error, Throw(r, error),
           UNCHANGED <<Recorded, presses>>,
           request[r].sent => error \in {"StorageError", "Error", "ExternalServiceError"}
    PROVE  RequestsInv'
<1>1. /\ request[r].sent => HostError(error) \notin Rectifiable
      /\ HostError(error) # "ok"
    BY DEF HostError, Rectifiable
<1> QED BY <1>1, AnswerKeeps DEF Throw

\* A request that goes on, with its dialog as it is.
LEMMA GoesOn ==
    ASSUME RequestsInv, NEW r \in Requests, NEW q, RequestShape(q),
           request' = [request EXCEPT ![r] = q], iface' = iface,
           Good(r, q, iface[r], Recorded', presses),
           Recorded \subseteq Recorded',
           presses' = presses, reply' = NoReply
    PROVE  RequestsInv'
BY RequestFacts, NoReplyIsFine, OneRequest

LEMMA ProceedKeeps ==
    ASSUME RequestsInv, NEW r \in Requests, Proceed(r),
           Good(r, [request[r] EXCEPT !.pc = After(request[r].call, request[r].pc)],
                iface[r], Recorded', presses),
           Recorded \subseteq Recorded', presses' = presses
    PROVE  RequestsInv'
<1> DEFINE q == [request[r] EXCEPT !.pc = After(request[r].call, request[r].pc)]
<1>1. RequestShape(q)
    BY RequestFacts DEF RequestShape
<1>2. request' = [request EXCEPT ![r] = q] /\ iface' = iface /\ reply' = NoReply
    BY DEF Proceed, Quiet
<1> QED BY <1>1, <1>2, GoesOn

-----------------------------------------------------------------------------
(* The surroundings.                                                       *)

\* A step that leaves requests and dialogs alone.
LEMMA OthersKeep ==
    ASSUME RequestsInv, UNCHANGED <<iface, presses, request>>, reply' = NoReply,
           Recorded \subseteq Recorded'
    PROVE  RequestsInv'
<1>1. ASSUME NEW r \in Requests
      PROVE  Good(r, request'[r], iface'[r], Recorded', presses')
    BY GoodStays DEF RequestsInv
<1>2. Shapes'
    BY DEF RequestsInv, Shapes
<1> QED BY <1>1, <1>2, NoReplyIsFine DEF RequestsInv

LEMMA StutterKeeps == ASSUME RequestsInv, UNCHANGED vars PROVE RequestsInv'
<1>1. ASSUME NEW r \in Requests
      PROVE  Good(r, request'[r], iface'[r], Recorded', presses')
    BY DEF RequestsInv, vars, Recorded
<1>2. Shapes' /\ Replied(reply', Recorded')
    BY DEF RequestsInv, vars, Shapes, Recorded
<1> QED BY <1>1, <1>2 DEF RequestsInv, vars, Recorded

LEMMA DeleteKeeps == ASSUME RequestsInv, NEW a \in Accounts, Delete(a) PROVE RequestsInv'
BY OthersKeep DEF Recorded, RequestsInv, Delete, Quiet

LEMMA SyncKeeps ==
    ASSUME RequestsInv, NEW a \in Accounts, SyncRead(a) \/ SyncWrite(a) PROVE RequestsInv'
<1>1. UNCHANGED <<iface, presses, request>> /\ reply' = NoReply
    BY DEF SyncRead, SyncWrite, Quiet
<1>2. Recorded \subseteq Recorded'
    BY DEF SyncRead, SyncWrite, Rewrite, Recorded
<1> QED BY <1>1, <1>2, OthersKeep

LEMMA RestartKeeps == ASSUME RequestsInv, Restart PROVE RequestsInv'
<1>1. \A r \in Requests : request'[r] = Idle /\ iface'[r] = Closed
    BY DEF Recorded, Restart
<1>2. Shapes'
    BY <1>1, IdleIsGood DEF Recorded, Restart, Shapes
<1>3. \A r \in Requests : Good(r, request'[r], iface'[r], Recorded', presses')
    BY <1>1, IdleIsGood
<1> QED BY <1>2, <1>3, NoReplyIsFine DEF Recorded, RequestsInv, Restart, Quiet

\* A step in which only a dialog changes, and the presses on it.
LEMMA DialogKeeps ==
    ASSUME RequestsInv, NEW r \in Requests, NEW d, DialogShape(d),
           d.shows = iface[r].shows, iface[r].pressed \subseteq d.pressed,
           iface' = [iface EXCEPT ![r] = d], Dialog(r, request[r], d, presses'),
           UNCHANGED <<Recorded, request>>, reply' = NoReply,
           \A i \in Requests \ {r} : \A b : <<i, b>> \in presses' => <<i, b>> \in presses
    PROVE  RequestsInv'
<1>1. Good(r, request[r], d, Recorded, presses')
  <2>1. Authority(request[r], d)
      BY RequestFacts DEF Good, Authority, Authorised, Sent
  <2> QED BY <2>1, RequestFacts DEF Good
<1>2. request' = [request EXCEPT ![r] = request[r]]
    BY DEF RequestsInv, Shapes
<1> QED BY <1>1, <1>2, RequestFacts, OneRequest, NoReplyIsFine

LEMMA PressKeeps ==
    ASSUME RequestsInv, NEW r \in Requests, NEW button \in Buttons, Press(r, button)
    PROVE  RequestsInv'
<1> DEFINE d == [iface[r] EXCEPT !.pressed = @ \cup {button}]
<1>1. DialogShape(d) /\ iface' = [iface EXCEPT ![r] = d]
    BY RequestFacts DEF Recorded, Press, DialogShape
<1>2. d.shows = iface[r].shows /\ d.state = iface[r].state
      /\ d.pressed = iface[r].pressed \cup {button}
    BY RequestFacts DEF DialogShape
<1>3. Dialog(r, request[r], d, presses')
    BY <1>2, RequestFacts DEF Recorded, Press, Good, Dialog
<1> HIDE DEF d
<1>4. \A i \in Requests \ {r} : \A b : <<i, b>> \in presses' => <<i, b>> \in presses
    BY DEF Recorded, Press
<1> QED BY <1>1, <1>2, <1>3, <1>4, DialogKeeps DEF Recorded, Press, Quiet

LEMMA CloseDialogKeeps ==
    ASSUME RequestsInv, NEW r \in Requests, CloseDialog(r) PROVE RequestsInv'
<1> DEFINE d == [iface[r] EXCEPT !.state = "no"]
<1>1. DialogShape(d) /\ iface' = [iface EXCEPT ![r] = d]
    BY RequestFacts DEF Recorded, CloseDialog, DialogShape
<1>2. d.shows = iface[r].shows /\ d.state = "no" /\ d.pressed = iface[r].pressed
    BY RequestFacts DEF DialogShape
<1>3. Dialog(r, request[r], d, presses')
    BY <1>2 DEF Dialog
<1> HIDE DEF d
<1> QED BY <1>1, <1>2, <1>3, DialogKeeps DEF Recorded, CloseDialog, Quiet

LEMMA OnChangeKeeps ==
    ASSUME RequestsInv, NEW r \in Requests, NEW button \in Buttons, OnChange(r, button)
    PROVE  RequestsInv'
<1>1. \A i, b : <<i, b>> \in presses' => <<i, b>> \in presses
    BY DEF Recorded, OnChange
<1>2. CASE iface[r].state = "open"
  <2> DEFINE d == [iface[r] EXCEPT !.state = IF button = "confirm" THEN "yes" ELSE "no"]
  <2>1. DialogShape(d) /\ iface' = [iface EXCEPT ![r] = d]
      BY <1>2, RequestFacts DEF Recorded, OnChange, DialogShape
  <2>2. d.shows = iface[r].shows /\ d.pressed = iface[r].pressed
        /\ d.state = IF button = "confirm" THEN "yes" ELSE "no"
      BY RequestFacts DEF DialogShape
  <2>3. button \in iface[r].pressed
      BY <1>2, RequestFacts DEF Recorded, OnChange, Good, Dialog
  <2>4. Dialog(r, request[r], d, presses')
      BY <2>2, <2>3 DEF Dialog
  <2> HIDE DEF d
  <2> QED BY <1>1, <2>1, <2>2, <2>4, DialogKeeps DEF Recorded, OnChange, Quiet
<1>3. CASE iface[r].state # "open"
  <2>1. Dialog(r, request[r], iface[r], presses')
      BY <1>3, RequestFacts DEF Good, Dialog
  <2>2. iface' = [iface EXCEPT ![r] = iface[r]]
      BY <1>3, RequestFacts DEF Recorded, OnChange
  <2> QED BY <1>1, <2>1, <2>2, RequestFacts, DialogKeeps DEF Recorded, OnChange, Quiet
<1> QED BY <1>2, <1>3

-----------------------------------------------------------------------------
(* The steps of a request.                                                 *)

LEMMA RouteKeeps ==
    ASSUME RequestsInv, NEW r \in Requests, NEW c \in Asked[r], Route(r, c)
    PROVE  RequestsInv'
<1>1. c \in Calls
    BY CallAssumption DEF Calls
<1>2. CASE c.method \notin Methods \/ ~c.wellFormed
  <2>1. reply'.sent = FALSE /\ reply'.answer \in {"InvalidInput", "MethodNotFound"}
      BY <1>2 DEF Recorded, Route, NoReply, HostError
  <2>2. Replied(reply', Recorded')
      BY <2>1 DEF Replied
  <2>3. \A i \in Requests : Good(i, request'[i], iface'[i], Recorded', presses')
      BY <1>2 DEF Recorded, Route, RequestsInv
  <2> QED BY <1>2, <2>2, <2>3 DEF Recorded, Route, RequestsInv, Shapes
<1>3. CASE c.method \in Methods /\ c.wellFormed
  <2> DEFINE q == [Idle EXCEPT !.call = c, !.pc = First(c)]
  <2>1. RequestShape(q) /\ q.pc = First(c) /\ q.call = c /\ q.signature = None
        /\ q.sent = FALSE
      BY DEF RequestShape, Idle
  <2>2. request' = [request EXCEPT ![r] = q] /\ iface' = iface /\ reply' = NoReply
        /\ Recorded' = Recorded /\ presses' = presses
      BY <1>3 DEF Recorded, Route, Quiet
  <2>3. /\ First(c) = "build" => c.method \in Builders
        /\ First(c) = "get" => c.method \notin Builders
        /\ First(c) \in {"get", "build"}
      BY DEF First, Builders
  <2>4. OnItsWay(q)
      BY <1>1, <1>3, <2>1, <2>3 DEF OnItsWay, Sent
  <2>5. Authority(q, iface[r]) /\ Sending(q, Recorded)
      BY <2>1, <2>3 DEF Authority, Sending, Sent
  <2>6. Dialog(r, q, iface[r], presses)
      BY <2>1, <2>3, RequestFacts DEF Recorded, Route, Free, Good, Dialog
  <2> HIDE DEF q
  <2> QED BY <2>1, <2>2, <2>4, <2>5, <2>6, GoesOn, RequestFacts DEF Good
<1> QED BY <1>2, <1>3

\* What holds of a request wherever it is, taken apart.
LEMMA Taken ==
    ASSUME RequestsInv, NEW r \in Requests
    PROVE  /\ OnItsWay(request[r]) /\ Authority(request[r], iface[r])
           /\ Sending(request[r], Recorded)
           /\ Dialog(r, request[r], iface[r], presses)
BY RequestFacts DEF Good

\* Before it is signed, a request goes on to a step that asks nothing of it.
LEMMA MovesOn ==
    ASSUME RequestsInv, NEW r \in Requests, NEW q, RequestShape(q),
           request[r].pc \in {"get", "build"},
           q.pc \in {"build", "show", "load", "sign", "broadcast", "done"},
           q.pc = "build" => request[r].call.method \in Builders \cup {"signPsbt"},
           q.pc = "show" => request[r].call.method \in Confirmed,
           q.pc = "load" => request[r].call.method \in OwnMessages,
           q.pc \in {"load", "sign"} => Authorised(request[r].call, q.what, iface[r]),
           q.pc = "done" => ~request[r].call.broadcast,
           q.pc = "broadcast" => request[r].call.method = "broadcastPsbt",
           q.call = request[r].call, q.signature = request[r].signature,
           q.sent = request[r].sent,
           request' = [request EXCEPT ![r] = q],
           UNCHANGED <<iface, Recorded, presses>>, reply' = NoReply
    PROVE  RequestsInv'
<1>1. OnItsWay(q)
    BY Taken DEF OnItsWay, Sent
<1>2. Authority(q, iface[r])
    BY Taken DEF Authority, Sent
<1>3. Sending(q, Recorded)
    BY Taken DEF Sending, Sent
<1>4. Dialog(r, q, iface[r], presses)
    BY Taken DEF Dialog
<1> QED BY <1>1, <1>2, <1>3, <1>4, GoesOn, RequestFacts DEF Good

\* Parameters fit their method.
LEMMA CallFits ==
    ASSUME RequestsInv, NEW r \in Requests, request[r].pc # "idle"
    PROVE  LET c == request[r].call IN
           /\ c.method \in MessageMethods <=> c.message # None
           /\ c.method \in Spendings => c.broadcast
           /\ c.broadcast => c.method \in Spendings \cup {"signPsbt"}
BY Taken, FitAssumption DEF OnItsWay, Sent

\* An error before anything is sent.
LEMMA EarlyError ==
    ASSUME RequestsInv, NEW r \in Requests, request[r].pc \notin Sent,
           UNCHANGED <<Recorded, presses>>,
           \/ \E error : Throw(r, error)
           \/ \E answer : answer # "ok" /\ Answer(r, answer)
    PROVE  RequestsInv'
<1>1. ~request[r].sent
    BY Taken DEF Sending, Sent
<1>2. \A error : HostError(error) # "ok"
    BY DEF HostError
<1> QED BY <1>1, <1>2, AnswerKeeps DEF Throw

\* A message without an error names the account.
LEMMA RightMessage ==
    ASSUME NEW c, c.method \in OwnMessages, MessageError(c) = "ok", NEW d
    PROVE  Authorised(c, c.message, d)
<1>1. c.message.of = c.account
      /\ (IF c.method = "signProof" THEN Canonical(c.account, c.message.spelling)
         ELSE c.message.spelling) = "canonical"
    BY DEF MessageError
<1>2. Canonical(c.account, c.message.spelling) = "canonical"
    BY <1>1 DEF Canonical
<1> QED BY <1>1, <1>2 DEF Authorised, OwnMessages, Confirmed

LEMMA GetKeeps == ASSUME RequestsInv, NEW r \in Requests, Get(r) PROVE RequestsInv'
<1> DEFINE c == request[r].call
           what == IF c.message # None THEN c.message ELSE c.psbt
<1>1. request[r].pc = "get" /\ UNCHANGED <<Recorded, presses>>
    BY DEF Recorded, Get, At
<1>3. CASE \E error : Throw(r, error)
    BY <1>1, <1>3, EarlyError DEF Sent
<1>4. CASE \E answer : Answer(r, answer) /\ c.method \in Inputs
  <2>1. ~c.broadcast
      BY <1>1, <1>4, CallFits DEF Spendings, Inputs
  <2>2. ~request[r].sent
      BY <1>1, Taken DEF Sending, Sent
  <2> QED BY <1>1, <1>4, <2>1, <2>2, AnswerKeeps
<1>5. CASE /\ request' = [request EXCEPT ![r].pc = After(c, "get"), ![r].what = what]
           /\ UNCHANGED iface /\ Quiet
           /\ c.method \in OwnMessages => MessageError(c) = "ok"
  <2>1. c.method \in Methods /\ c.method \notin Builders
      BY <1>1, Taken DEF OnItsWay, Sent
  <2> DEFINE pc == After(c, "get")
             q == [request[r] EXCEPT !.pc = pc, !.what = what]
  <2>2. /\ pc \in {"build", "show", "load", "sign", "broadcast", "done"} /\ pc # "sign"
        /\ pc = "build" => c.method \in Builders \cup {"signPsbt"}
        /\ pc = "show" => c.method \in Confirmed
        /\ pc = "load" => c.method \in OwnMessages
        /\ pc = "done" => c.method \notin {"signPsbt", "broadcastPsbt"}
        /\ pc = "broadcast" => c.method = "broadcastPsbt"
      BY DEF After, Confirmed
  <2>3. pc = "done" => ~c.broadcast
      BY <1>1, <2>1, <2>2, CallFits DEF Spendings, Builders
  <2>4. ASSUME c.method \in OwnMessages PROVE Authorised(c, what, iface[r])
    <3>1. what = c.message
        BY <1>1, <2>4, CallFits DEF MessageMethods
    <3> QED BY <1>5, <2>4, <3>1, RightMessage
  <2>5. pc \in {"load", "sign"} => Authorised(c, what, iface[r])
      BY <2>2, <2>4
  <2>6. /\ RequestShape(q) /\ q.pc = pc /\ q.what = what /\ q.call = c
        /\ q.signature = request[r].signature /\ q.sent = request[r].sent
      BY RequestFacts DEF RequestShape
  <2>7. request' = [request EXCEPT ![r] = q] /\ reply' = NoReply
        /\ UNCHANGED <<iface, Recorded, presses>> /\ request[r].pc \in {"get", "build"}
      BY <1>1, <1>5 DEF Quiet
  <2> HIDE DEF what, pc, q
  <2> QED BY <2>2, <2>3, <2>5, <2>6, <2>7, MovesOn
<1>6. GetError(c) = "ok" /\ c.method \in OwnMessages => MessageError(c) = "ok"
    BY DEF GetError
<1> QED BY <1>3, <1>4, <1>5, <1>6 DEF Recorded, Get

LEMMA NoUtxoKeeps == ASSUME RequestsInv, NEW r \in Requests, NoUtxo(r) PROVE RequestsInv'
BY EarlyError DEF Recorded, NoUtxo, At, Sent

LEMMA BuildKeeps == ASSUME RequestsInv, NEW r \in Requests, Build(r) PROVE RequestsInv'
<1> DEFINE c == request[r].call
<1>1. request[r].pc = "build" /\ UNCHANGED <<Recorded, presses>>
    BY DEF Recorded, Build, At
<1>2. \A answer \in BuildErrors(c) : answer # "ok"
    BY DEF BuildErrors, HostError
<1>3. CASE \E error : Throw(r, error)
    BY <1>1, <1>3, EarlyError DEF Sent
<1>4. CASE \E answer : answer # "ok" /\ Answer(r, answer)
    BY <1>1, <1>4, EarlyError DEF Sent
<1>5. ASSUME NEW tx, UNCHANGED iface, Quiet,
             request' = [request EXCEPT ![r].pc = After(c, "build"), ![r].what = tx]
      PROVE  RequestsInv'
  <2>1. c.method \in Builders \cup {"signPsbt"}
      BY <1>1, Taken DEF OnItsWay, Sent
  <2> DEFINE pc == After(c, "build")
             q == [request[r] EXCEPT !.pc = pc, !.what = tx]
  <2>2. /\ pc \in {"build", "show", "load", "sign", "broadcast", "done"}
        /\ pc \notin {"build", "load", "broadcast"}
        /\ pc = "show" => c.method \in Confirmed
        /\ pc = "sign" => c.method = "signAndSend"
        /\ pc = "done" => c.method \notin Confirmed \cup {"signAndSend"}
      BY DEF After
  <2>3. pc = "done" => ~c.broadcast
      BY <1>1, <2>1, <2>2, CallFits DEF Spendings, Builders, Confirmed
  <2>4. pc = "sign" => Authorised(c, tx, iface[r])
      BY <2>2 DEF Authorised, Confirmed, OwnMessages
  <2>5. /\ RequestShape(q) /\ q.pc = pc /\ q.what = tx /\ q.call = c
        /\ q.signature = request[r].signature /\ q.sent = request[r].sent
      BY RequestFacts DEF RequestShape
  <2>6. request' = [request EXCEPT ![r] = q] /\ reply' = NoReply
        /\ UNCHANGED <<iface, Recorded, presses>> /\ request[r].pc \in {"get", "build"}
      BY <1>1, <1>5 DEF Quiet
  <2> HIDE DEF pc, q
  <2> QED BY <2>2, <2>3, <2>4, <2>5, <2>6, MovesOn
<1>6. CASE \E tx \in Candidates(c) :
              /\ request' = [request EXCEPT ![r].pc = After(c, "build"), ![r].what = tx]
              /\ UNCHANGED iface /\ Quiet
    BY <1>5, <1>6
<1> QED BY <1>2, <1>3, <1>4, <1>6 DEF Recorded, Build

LEMMA ShowKeeps == ASSUME RequestsInv, NEW r \in Requests, Show(r) PROVE RequestsInv'
<1> DEFINE q == [request[r] EXCEPT !.pc = "wait"]
           d == [state |-> "open", pressed |-> {},
                 shows |-> View(request[r].call, request[r].what)]
<1>1. /\ RequestShape(q) /\ q.pc = "wait" /\ q.what = request[r].what
      /\ q.call = request[r].call
      /\ q.signature = request[r].signature /\ q.sent = request[r].sent
    BY RequestFacts DEF RequestShape
<1>2. DialogShape(d) /\ d.state = "open" /\ d.shows = View(q.call, q.what)
    BY <1>1 DEF DialogShape
<1>3. request' = [request EXCEPT ![r] = q] /\ iface' = [iface EXCEPT ![r] = d]
      /\ UNCHANGED <<Recorded, presses>> /\ reply' = NoReply
    BY DEF Recorded, Show, Quiet
<1>4. request[r].pc = "show" /\ \A b \in Buttons : <<r, b>> \notin presses
    BY DEF Recorded, Show, At
<1> HIDE DEF q, d
<1>5. OnItsWay(q)
    BY <1>1, <1>4, Taken DEF OnItsWay, Sent
<1>6. Authority(q, d)
    BY <1>1, <1>2, <1>4, Taken DEF Authority, Sent
<1>7. Sending(q, Recorded)
    BY <1>1, <1>4, Taken DEF Sending, Sent
<1>8. Dialog(r, q, d, presses)
    BY <1>1, <1>2, <1>4 DEF Dialog
<1> QED BY <1>1, <1>2, <1>3, <1>5, <1>6, <1>7, <1>8, OneRequest, NoReplyIsFine, RequestFacts
        DEF Good

LEMMA ResumeKeeps == ASSUME RequestsInv, NEW r \in Requests, Resume(r) PROVE RequestsInv'
<1>1. request[r].pc = "wait" /\ UNCHANGED <<Recorded, presses>>
    BY DEF Recorded, Resume, At
<1>2. CASE Throw(r, "UserActionError")
    BY <1>1, <1>2, EarlyError DEF Sent
<1>3. CASE iface[r].state = "yes" /\ Proceed(r)
  <2> DEFINE c == request[r].call
             q == [request[r] EXCEPT !.pc = After(c, request[r].pc)]
  <2>1. After(c, "wait") \in {"load", "sign"}
      BY DEF After
  <2>2. /\ q.pc = After(c, "wait") /\ q.what = request[r].what /\ q.call = c
        /\ q.signature = request[r].signature /\ q.sent = request[r].sent
      BY <1>1, RequestFacts DEF RequestShape
  <2> HIDE DEF q
  <2>3. OnItsWay(q)
      BY <1>1, <2>1, <2>2, Taken DEF OnItsWay, Sent
  <2>4. Authorised(c, request[r].what, iface[r])
    <3>1. c.method \in Confirmed
        BY <1>1, Taken DEF OnItsWay, Sent
    <3>2. iface[r].shows = View(c, request[r].what) /\ "confirm" \in iface[r].pressed
        BY <1>1, <1>3, Taken DEF Authority, Dialog, Sent
    <3> QED BY <3>1, <3>2 DEF Authorised, Confirmed, OwnMessages
  <2>5. Authority(q, iface[r])
      BY <1>1, <2>1, <2>2, <2>4, Taken DEF Authority, Sent
  <2>6. Sending(q, Recorded)
      BY <1>1, <2>1, <2>2, Taken DEF Sending, Sent
  <2>7. Dialog(r, q, iface[r], presses)
      BY <1>3, Taken DEF Dialog
  <2>8. Good(r, q, iface[r], Recorded, presses)
      BY <2>3, <2>5, <2>6, <2>7 DEF Good
  <2> QED BY <1>1, <1>3, <2>8, ProceedKeeps, RequestFacts DEF q
<1> QED BY <1>2, <1>3 DEF Recorded, Resume

LEMMA LoadKeeps == ASSUME RequestsInv, NEW r \in Requests, Load(r) PROVE RequestsInv'
<1>1. request[r].pc = "load" /\ UNCHANGED <<Recorded, presses>>
    BY DEF Recorded, Load, At
<1>2. CASE Throw(r, "NotFoundError")
    BY <1>1, <1>2, EarlyError DEF Sent
<1>3. CASE Proceed(r)
  <2> DEFINE q == [request[r] EXCEPT !.pc = After(request[r].call, request[r].pc)]
  <2>1. /\ q.pc = "sign" /\ q.what = request[r].what /\ q.call = request[r].call
        /\ q.signature = request[r].signature /\ q.sent = request[r].sent
      BY <1>1, RequestFacts DEF RequestShape, After
  <2> HIDE DEF q
  <2>2. OnItsWay(q) /\ Authority(q, iface[r])
      BY <1>1, <2>1, Taken DEF OnItsWay, Authority, Sent
  <2>3. Sending(q, Recorded) /\ Dialog(r, q, iface[r], presses)
      BY <1>1, <2>1, Taken DEF Sending, Dialog, Sent
  <2>4. Good(r, q, iface[r], Recorded, presses)
      BY <2>2, <2>3 DEF Good
  <2> QED BY <1>1, <1>3, <2>4, ProceedKeeps, RequestFacts DEF q
<1> QED BY <1>2, <1>3 DEF Recorded, Load

LEMMA SignKeeps == ASSUME RequestsInv, NEW r \in Requests, Sign(r) PROVE RequestsInv'
<1> DEFINE c == request[r].call
<1>1. request[r].pc = "sign" /\ UNCHANGED <<Recorded, presses>>
    BY DEF Recorded, Sign, At
<1>2. CASE Throw(r, "WalletError")
    BY <1>1, <1>2, EarlyError DEF Sent
<1>3. ASSUME NEW x, UNCHANGED iface, Quiet, c.method = "confirmSend" => x.final,
             request' = [request EXCEPT ![r].pc = After(c, "sign"),
                             ![r].signature = request[r].what, ![r].what = x]
      PROVE  RequestsInv'
  <2> DEFINE q == [request[r] EXCEPT !.pc = After(c, "sign"),
                                     !.signature = request[r].what, !.what = x]
  <2>1. /\ RequestShape(q) /\ q.what = x /\ q.pc = (IF c.broadcast THEN "broadcast" ELSE "done")
        /\ q.signature = request[r].what /\ q.call = c /\ q.sent = request[r].sent
      BY RequestFacts DEF RequestShape, After
  <2>2. request' = [request EXCEPT ![r] = q] /\ reply' = NoReply
      BY <1>3 DEF Quiet
  <2> HIDE DEF q
  <2>3. OnItsWay(q) /\ Authority(q, iface[r])
      BY <1>1, <1>3, <2>1, Taken DEF OnItsWay, Authority, Sent
  <2>4. Sending(q, Recorded) /\ Dialog(r, q, iface[r], presses)
      BY <1>1, <2>1, Taken DEF Sending, Dialog, Sent
  <2>5. Good(r, q, iface[r], Recorded, presses)
      BY <2>3, <2>4 DEF Good
  <2> QED BY <1>1, <1>3, <2>1, <2>2, <2>5, GoesOn, RequestFacts
<1>4. Signed(request[r].what).final
    BY DEF Signed
<1>5. c.method = "confirmSend" => c.method \notin MessageMethods
    BY DEF MessageMethods, OwnMessages
<1> QED BY <1>2, <1>3, <1>4, <1>5 DEF Sign

LEMMA BroadcastKeeps ==
    ASSUME RequestsInv, NEW r \in Requests, Broadcast(r) PROVE RequestsInv'
<1>1. request[r].pc = "broadcast" /\ UNCHANGED <<Recorded, presses>>
    BY DEF Recorded, Broadcast, At
<1>2. CASE Throw(r, "ExternalServiceError") /\ UNCHANGED spent
    BY <1>1, <1>2, EarlyError DEF Sent
<1>3. CASE /\ spent' = spent \cup request[r].what.coins
           /\ request' = [request EXCEPT ![r].pc = "record", ![r].sent = TRUE]
           /\ UNCHANGED iface /\ Quiet
  <2> DEFINE q == [request[r] EXCEPT !.pc = "record", !.sent = TRUE]
  <2>1. /\ RequestShape(q) /\ q.pc = "record" /\ q.sent = TRUE /\ q.what = request[r].what
        /\ q.signature = request[r].signature /\ q.call = request[r].call
      BY RequestFacts DEF RequestShape
  <2>2. request' = [request EXCEPT ![r] = q] /\ reply' = NoReply
      BY <1>3 DEF Quiet
  <2> HIDE DEF q
  <2>3. OnItsWay(q) /\ Authority(q, iface[r])
      BY <1>1, <2>1, Taken DEF OnItsWay, Authority, Sent
  <2>4. Sending(q, Recorded) /\ Dialog(r, q, iface[r], presses)
      BY <1>1, <1>3, <2>1, Taken DEF Sending, Dialog, Sent
  <2>5. Good(r, q, iface[r], Recorded, presses)
      BY <1>1, <2>3, <2>4 DEF Good
  <2> QED BY <1>1, <1>3, <2>1, <2>2, <2>5, GoesOn, RequestFacts
<1> QED BY <1>2, <1>3 DEF Recorded, Broadcast

LEMMA AnswerLostKeeps ==
    ASSUME RequestsInv, NEW r \in Requests, AnswerLost(r) PROVE RequestsInv'
<1>1. Replied(reply', Recorded')
    BY DEF Recorded, AnswerLost, HostError, Replied, Rectifiable
<1>2. /\ Recorded' = Recorded /\ presses' = presses
      /\ request' = [request EXCEPT ![r] = Idle] /\ iface' = [iface EXCEPT ![r] = Closed]
    BY DEF Recorded, AnswerLost
<1> QED BY <1>1, <1>2, IdleIsGood, RequestFacts, OneRequest

\* A request whose transaction was sent, and that goes on.
LEMMA SentMoves ==
    ASSUME RequestsInv, NEW r \in Requests, request[r].pc \in Sent,
           NEW q, RequestShape(q), q.pc \in Sent, q.what = request[r].what,
           q.call = request[r].call, q.signature = request[r].signature, q.sent = request[r].sent,
           request' = [request EXCEPT ![r] = q],
           q.pc = "tell" => OwnCoins(q.call.account, q.what) \subseteq Recorded',
           UNCHANGED <<iface, presses>>, reply' = NoReply, Recorded \subseteq Recorded'
    PROVE  RequestsInv'
<1>1. OnItsWay(q) /\ Authority(q, iface[r])
    BY Taken DEF OnItsWay, Authority, Sent
<1>2. Sending(q, Recorded')
    BY Taken DEF Sending
<1>3. Dialog(r, q, iface[r], presses)
    BY Taken DEF Dialog, Sent
<1>4. Good(r, q, iface[r], Recorded', presses)
    BY <1>1, <1>2, <1>3 DEF Good
<1> QED BY <1>4, GoesOn

LEMMA RecordKeeps == ASSUME RequestsInv, NEW r \in Requests, Record(r) PROVE RequestsInv'
<1> DEFINE a == request[r].call.account
<1>1. request[r].pc = "record" /\ UNCHANGED <<Recorded, presses>>
    BY DEF Record, At, Recorded
<1>2. CASE Throw(r, "StorageError")
    BY <1>1, <1>2, ErrorKeeps
<1>3. CASE /\ ~Touches(a, request[r].what) /\ UNCHANGED iface /\ Quiet
           /\ request' = [request EXCEPT ![r].pc = "tell"]
  <2> DEFINE q == [request[r] EXCEPT !.pc = "tell"]
  <2>1. OwnCoins(a, request[r].what) = {}
      BY <1>3 DEF Touches, OwnCoins
  <2>2. /\ RequestShape(q) /\ q.pc = "tell" /\ q.what = request[r].what
        /\ q.call = request[r].call /\ q.signature = request[r].signature
        /\ q.sent = request[r].sent /\ request' = [request EXCEPT ![r] = q]
      BY <1>3, RequestFacts DEF RequestShape
  <2> HIDE DEF q
  <2> QED BY <1>1, <1>3, <2>1, <2>2, SentMoves DEF Sent, Quiet
<1>4. CASE /\ request' = [request EXCEPT ![r].pc = "write", ![r].copy = known \cap CoinsOf(a)]
           /\ UNCHANGED iface /\ Quiet
  <2> DEFINE q == [request[r] EXCEPT !.pc = "write", !.copy = known \cap CoinsOf(a)]
  <2>1. /\ RequestShape(q) /\ q.pc = "write" /\ q.what = request[r].what
        /\ q.call = request[r].call /\ q.signature = request[r].signature
        /\ q.sent = request[r].sent /\ request' = [request EXCEPT ![r] = q]
      BY <1>4, RequestFacts DEF RequestShape
  <2> HIDE DEF q
  <2> QED BY <1>1, <1>4, <2>1, SentMoves DEF Sent, Quiet
<1> QED BY <1>2, <1>3, <1>4 DEF Record

LEMMA WriteKeeps == ASSUME RequestsInv, NEW r \in Requests, Write(r) PROVE RequestsInv'
<1> DEFINE q == [request[r] EXCEPT !.pc = "tell", !.copy = {}]
<1>1. request[r].pc = "write" /\ UNCHANGED <<iface, presses>> /\ reply' = NoReply
    BY DEF Write, At, Quiet
<1>2. /\ RequestShape(q) /\ q.pc = "tell" /\ q.what = request[r].what
      /\ q.call = request[r].call /\ q.signature = request[r].signature
      /\ q.sent = request[r].sent /\ request' = [request EXCEPT ![r] = q]
    BY RequestFacts DEF RequestShape, Write
<1>3. OwnCoins(request[r].call.account, request[r].what) \subseteq Recorded'
    BY DEF Write, Rewrite, OwnCoins, Recorded
<1>4. Recorded \subseteq Recorded'
    BY DEF Write, Rewrite, Recorded
<1> HIDE DEF q
<1> QED BY <1>1, <1>2, <1>3, <1>4, SentMoves DEF Sent

LEMMA FinishKeeps == ASSUME RequestsInv, NEW r \in Requests, Finish(r) PROVE RequestsInv'
<1>1. request[r].pc \in {"tell", "done"} /\ UNCHANGED <<Recorded, presses>>
    BY DEF Finish, Recorded
<1>2. Answer(r, "ok")
  <2>1. request[r].call.method = "confirmSend" => request[r].what.final
    <3>1. request[r].pc = "done" => ~request[r].call.broadcast /\ request[r].call.method # "confirmSend"
        BY Taken, CallFits DEF OnItsWay, Spendings, Sent
    <3> QED BY <1>1, <3>1, Taken DEF OnItsWay, Sent
  <2> QED BY <2>1 DEF Finish
<1>3. request[r].call.broadcast =>
          request[r].sent /\ OwnCoins(request[r].call.account, request[r].what) \subseteq Recorded
    BY <1>1, Taken DEF OnItsWay, Sending, Sent
<1>4. "ok" \notin Rectifiable
    BY DEF Rectifiable
<1> QED BY <1>1, <1>2, <1>3, <1>4, AnswerKeeps

LEMMA FailKeeps == ASSUME RequestsInv, NEW r \in Requests, Fail(r) PROVE RequestsInv'
<1>1. UNCHANGED <<Recorded, presses>>
    BY DEF Recorded, Fail
<1>2. Throw(r, "ExternalServiceError") \/ Throw(r, "Error")
    BY DEF Recorded, Fail
<1> QED BY <1>1, <1>2, ErrorKeeps

-----------------------------------------------------------------------------
\* Every step keeps the invariant.
LEMMA RequestsStep == RequestsInv /\ [Next]_vars => RequestsInv'
<1> SUFFICES ASSUME RequestsInv, [Next]_vars PROVE RequestsInv'
    OBVIOUS
<1>1. ASSUME NEW a \in Accounts, Delete(a) PROVE RequestsInv'
    BY <1>1, DeleteKeeps
<1>2. ASSUME NEW a \in Accounts, SyncRead(a) \/ SyncWrite(a) PROVE RequestsInv'
    BY <1>2, SyncKeeps
<1>3. CASE Restart
    BY <1>3, RestartKeeps
<1>4. ASSUME NEW r \in Requests, CloseDialog(r) PROVE RequestsInv'
    BY <1>4, CloseDialogKeeps
<1>5. ASSUME NEW r \in Requests, NEW b \in Buttons, Press(r, b) \/ OnChange(r, b)
      PROVE  RequestsInv'
    BY <1>5, PressKeeps, OnChangeKeeps
<1>6. ASSUME NEW r \in Requests, Advance(r) PROVE RequestsInv'
    BY <1>6, GetKeeps, NoUtxoKeeps, BuildKeeps, ShowKeeps, ResumeKeeps, LoadKeeps, SignKeeps,
       BroadcastKeeps, RecordKeeps, WriteKeeps, FinishKeeps DEF Advance
<1>7. ASSUME NEW r \in Requests, AnswerLost(r) \/ Fail(r) PROVE RequestsInv'
    BY <1>7, AnswerLostKeeps, FailKeeps
<1>8. ASSUME NEW r \in Requests, NEW c \in Asked[r], Route(r, c) PROVE RequestsInv'
    BY <1>8, RouteKeeps
<1>9. CASE UNCHANGED vars
    BY <1>9, StutterKeeps
<1> QED BY <1>1, <1>2, <1>3, <1>4, <1>5, <1>6, <1>7, <1>8, <1>9 DEF Next

LEMMA RequestsAlways == Spec => []RequestsInv
BY RequestsInit, RequestsStep, PTL DEF Spec

\* An error that a client may rectify and try again leaves nothing on the chain
\* (the classes of entities/error.ts, mapped by HandlerMiddleware).
THEOREM RectifiableAreHarmless == Spec => []RectifiableIsHarmless
<1>1. RequestsInv => RectifiableIsHarmless
    BY DEF RequestsInv, Replied, RectifiableIsHarmless
<1> QED BY <1>1, RequestsAlways, PTL

\* The transaction id a client gets is of a transaction on the chain, whose coins the
\* account's wallet was made to know as spent before the answer; only an update of that
\* account which had read the wallet before can have dropped them since, for any number
\* of requests and synchronisations (AccountUseCases.#broadcast, BdkAccountRepository.update).
THEOREM SentAreRecorded == Spec => []SentIsRecorded
<1>1. RequestsInv => SentIsRecorded
    BY DEF RequestsInv, Replied, SentIsRecorded, OwnCoins, Recorded
<1> QED BY <1>1, RequestsAlways, PTL
-----------------------------------------------------------------------------
(* Sums and sequences.                                                     *)

\* What holds of 0 and passes from each number to the next holds of all.
LEMMA Induct ==
    ASSUME NEW S, 0 \in S, \A n \in Nat : n \in S => n + 1 \in S
    PROVE  \A n \in Nat : n \in S
<1> DEFINE T == Nat \ S
<1> SUFFICES ASSUME T # {} PROVE FALSE
    OBVIOUS
<1>1. PICK m \in T : \A y \in T : ~(<<y, m>> \in OpToRel(<, Nat))
    BY WFMin, NatLessThanWellFounded
<1>2. m \in Nat /\ m # 0 /\ m - 1 \in Nat
    OBVIOUS
<1>3. m - 1 \in T
    BY <1>2
<1>4. <<m - 1, m>> \in OpToRel(<, Nat)
    BY <1>2 DEF OpToRel
<1> QED BY <1>1, <1>3, <1>4

\* The recursion behind a sum over the subsets of S, one element after the other.
AnyOf(s) == CHOOSE x \in s : TRUE
SumStep(S, v, f) ==
    [s \in SUBSET S |-> IF s = {} THEN 0 ELSE v[AnyOf(s)] + f[s \ {AnyOf(s)}]]

\* A sum of naturals is one: the recursion has a solution, which no other
\* function of it need be.
LEMMA SumIsNat ==
    ASSUME NEW S, IsFiniteSet(S), NEW v, \A x \in S : v[x] \in Nat
    PROVE  SumFunctionOnSet(v, S) \in Nat
<1> DEFINE Solves(f, n) ==
        \A s \in SUBSET S : Cardinality(s) <= n => f[s] = SumStep(S, v, f)[s]
    N == {n \in Nat : \E f \in [SUBSET S -> Nat] : Solves(f, n)}
<1>1. ASSUME NEW s \in SUBSET S, s # {}
      PROVE  /\ AnyOf(s) \in s /\ v[AnyOf(s)] \in Nat /\ s \ {AnyOf(s)} \in SUBSET S
             /\ Cardinality(s \ {AnyOf(s)}) = Cardinality(s) - 1
             /\ Cardinality(s) \in Nat /\ Cardinality(s \ {AnyOf(s)}) \in Nat
  <2>1. AnyOf(s) \in s
      BY <1>1 DEF AnyOf
  <2>2. IsFiniteSet(s)
      BY FS_Subset
  <2> QED BY <2>1, <2>2, FS_RemoveElement, FS_CardinalityType
<1>2. ASSUME NEW f \in [SUBSET S -> Nat] PROVE SumStep(S, v, f) \in [SUBSET S -> Nat]
  <2>1. ASSUME NEW s \in SUBSET S PROVE SumStep(S, v, f)[s] \in Nat
    <3>1. CASE s = {}
        BY <3>1 DEF SumStep
    <3>2. CASE s # {}
      <4>1. SumStep(S, v, f)[s] = v[AnyOf(s)] + f[s \ {AnyOf(s)}]
          BY <3>2 DEF SumStep
      <4>2. v[AnyOf(s)] \in Nat /\ f[s \ {AnyOf(s)}] \in Nat
          BY <1>1, <3>2
      <4> QED BY <4>1, <4>2
    <3> QED BY <3>1, <3>2
  <2> QED BY <2>1 DEF SumStep
<1>10. ASSUME NEW s \in SUBSET S, Cardinality(s) <= 0 PROVE s = {}
  <2>1. IsFiniteSet(s)
      BY FS_Subset
  <2> QED BY <1>10, <2>1, FS_EmptySet, FS_CardinalityType
<1>3. 0 \in N
  <2> DEFINE f == [s \in SUBSET S |-> 0]
  <2>2. Solves(f, 0)
      BY <1>10 DEF SumStep
  <2>3. f \in [SUBSET S -> Nat]
      OBVIOUS
  <2> QED BY <2>2, <2>3
<1>4. ASSUME NEW n \in Nat, n \in N PROVE n + 1 \in N
  <2>1. PICK f \in [SUBSET S -> Nat] : Solves(f, n)
      BY <1>4
  <2> DEFINE g == SumStep(S, v, f)
  <2>2. ASSUME NEW s \in SUBSET S, Cardinality(s) <= n + 1 PROVE g[s] = SumStep(S, v, g)[s]
    <3>1. CASE s = {}
        BY <3>1 DEF SumStep
    <3>2. CASE s # {}
      <4> DEFINE rest == s \ {AnyOf(s)}
      <4>1. rest \in SUBSET S /\ Cardinality(rest) <= n
          BY <1>1, <2>2, <3>2
      <4>2. f[rest] = g[rest]
          BY <2>1, <4>1
      <4>3. g[s] = v[AnyOf(s)] + f[rest]
          BY <3>2 DEF SumStep
      <4>4. SumStep(S, v, g)[s] = v[AnyOf(s)] + g[rest]
          BY <3>2 DEF SumStep
      <4> QED BY <4>2, <4>3, <4>4
    <3> QED BY <3>1, <3>2
  <2>3. g \in [SUBSET S -> Nat]
      BY <1>2
  <2> QED BY <2>2, <2>3
<1> DEFINE sum == CHOOSE f : f = SumStep(S, v, f)
<1>5. sum = SumStep(S, v, sum)
  <2>1. Cardinality(S) \in N
    <3> HIDE DEF N
    <3> QED BY <1>3, <1>4, Induct, FS_CardinalityType
  <2>2. PICK f \in [SUBSET S -> Nat] : Solves(f, Cardinality(S))
      BY <2>1
  <2>3. \A s \in SUBSET S : Cardinality(s) <= Cardinality(S)
      BY FS_Subset
  <2> DEFINE g == SumStep(S, v, f)
  <2>4. \A s \in SUBSET S : f[s] = g[s]
      BY <2>2, <2>3
  <2>5. g \in [SUBSET S -> Nat]
      BY <1>2
  <2> HIDE DEF g
  <2>6. f = g
      BY <2>4, <2>5
  <2> QED BY <2>6 DEF g
<1>6. SumFunctionOnSet(v, S) = sum[S]
    BY DEF SumFunctionOnSet, FoldFunctionOnSet, MapThenFoldSet, SumStep, AnyOf
<1> HIDE DEF sum
<1> DEFINE M == {n \in Nat : \A s \in SUBSET S : Cardinality(s) <= n => sum[s] \in Nat}
<1>7. 0 \in M
  <2> SUFFICES ASSUME NEW s \in SUBSET S, Cardinality(s) <= 0 PROVE sum[s] \in Nat
      OBVIOUS
  <2>1. s = {}
      BY <1>10
  <2> QED BY <1>5, <2>1 DEF SumStep
<1>8. ASSUME NEW n \in Nat, n \in M PROVE n + 1 \in M
  <2> SUFFICES ASSUME NEW s \in SUBSET S, Cardinality(s) <= n + 1 PROVE sum[s] \in Nat
      OBVIOUS
  <2>1. CASE s = {}
      BY <1>5, <2>1 DEF SumStep
  <2>2. CASE s # {}
    <3>1. sum[s \ {AnyOf(s)}] \in Nat /\ v[AnyOf(s)] \in Nat
        BY <1>1, <1>8, <2>2
    <3>2. sum[s] = v[AnyOf(s)] + sum[s \ {AnyOf(s)}]
        BY <1>5, <2>2 DEF SumStep
    <3> QED BY <3>1, <3>2
  <2> QED BY <2>1, <2>2
<1>9. Cardinality(S) \in M
  <2> HIDE DEF M
  <2> QED BY <1>7, <1>8, Induct, FS_CardinalityType
<1> QED BY <1>6, <1>9, FS_CardinalityType

\* What coins, and what the outputs of a transaction, are worth.
LEMMA WorthIsNat == ASSUME NEW coins \in SUBSET Coins PROVE Worth(coins) \in Nat
BY CoinAssumption, FS_Subset, SumIsNat DEF Worth

LEMMA TotalIsNat == ASSUME NEW outs \in Seq(Outputs) PROVE Total(outs) \in Nat
<1> DEFINE v == [i \in DOMAIN outs |-> outs[i].value]
<1>1. ASSUME NEW i \in DOMAIN outs PROVE outs[i].value \in Nat
  <2>1. outs[i] \in Outputs
      OBVIOUS
  <2> QED BY <2>1 DEF Outputs
<1>2. IsFiniteSet(DOMAIN v)
    BY FS_Interval
<1> QED BY <1>1, <1>2, SumIsNat DEF Total, SumFunction

\* One output is worth its value.
LEMMA TotalOfOne == ASSUME NEW out \in Outputs PROVE Total(<<out>>) = out.value
<1> DEFINE v == [i \in DOMAIN <<out>> |-> <<out>>[i].value]
           S == DOMAIN v
           f == [s \in SUBSET S |-> IF s = {} THEN 0 ELSE out.value]
           sum == CHOOSE g : g = SumStep(S, v, g)
<1>1. S = {1} /\ v[1] = out.value /\ out.value \in Nat
    BY DEF Outputs
<1>2. \A s \in SUBSET S : s = {} \/ s = {1}
    BY <1>1
<1>3. AnyOf({1}) = 1 /\ {1} \ {1} = {} /\ {1} # {}
    BY DEF AnyOf
<1>4. ASSUME NEW g, g[{}] = 0 PROVE SumStep(S, v, g)[{}] = 0 /\ SumStep(S, v, g)[{1}] = out.value
  <2>1. {} \in SUBSET S /\ {1} \in SUBSET S
      BY <1>1
  <2>2. SumStep(S, v, g)[{1}] = v[1] + g[{}]
      BY <1>3, <2>1 DEF SumStep
  <2> QED BY <1>1, <1>4, <2>1, <2>2 DEF SumStep
<1>5. f = SumStep(S, v, f)
  <2>1. {} \in SUBSET S /\ {1} \in SUBSET S
      BY <1>1
  <2>2. f[{}] = 0 /\ f[{1}] = out.value
      BY <1>3, <2>1
  <2>3. \A s \in SUBSET S : SumStep(S, v, f)[s] = f[s]
    <3> HIDE DEF f, v
    <3> QED BY <1>2, <1>4, <2>2
  <2> QED BY <2>3 DEF SumStep
<1>6. sum = SumStep(S, v, sum)
    BY <1>5
<1> HIDE DEF sum, f
<1>7. sum[{}] = 0
  <2>1. SumStep(S, v, sum)[{}] = 0
      BY DEF SumStep
  <2> QED BY <1>6, <2>1
<1>8. sum[{1}] = out.value
    BY <1>4, <1>6, <1>7
<1>9. Total(<<out>>) = sum[S]
    BY DEF Total, SumFunction, SumFunctionOnSet, FoldFunctionOnSet, MapThenFoldSet, SumStep, AnyOf, sum
<1> QED BY <1>1, <1>8, <1>9

-----------------------------------------------------------------------------
(* The outputs that pay others.                                            *)

Keeps(a, outs, k) ==
    /\ k[0] = <<>>
    /\ \A i \in 1..Len(outs) :
          k[i] = IF IsMine(a, outs[i]) THEN k[i - 1] ELSE Append(k[i - 1], outs[i])

\* The recursion of Others has one solution.
LEMMA OthersIs ==
    ASSUME NEW a, NEW S, NEW outs \in Seq(S),
           NEW k \in [0..Len(outs) -> Seq(S)], Keeps(a, outs, k)
    PROVE  Others(a, outs) = k[Len(outs)]
<1> DEFINE Step(f) == [i \in 0..Len(outs) |->
            IF i = 0 THEN <<>>
            ELSE IF IsMine(a, outs[i]) THEN f[i - 1] ELSE Append(f[i - 1], outs[i])]
           g == CHOOSE f : f = Step(f)
<1>1. k = Step(k)
  <2>1. \A i \in 0..Len(outs) : k[i] = Step(k)[i]
    <3> SUFFICES ASSUME NEW i \in 0..Len(outs) PROVE k[i] = Step(k)[i]
        OBVIOUS
    <3>1. CASE i = 0
        BY <3>1 DEF Keeps
    <3>2. CASE i \in 1..Len(outs)
        BY <3>2 DEF Keeps
    <3> QED BY <3>1, <3>2
  <2> QED BY <2>1
<1>2. g = Step(g)
    BY <1>1
<1>3. Others(a, outs) = g[Len(outs)]
    BY DEF Others
<1> HIDE DEF g
<1>4. \A i \in 0..Len(outs) : g[i] = IF i = 0 THEN <<>>
            ELSE IF IsMine(a, outs[i]) THEN g[i - 1] ELSE Append(g[i - 1], outs[i])
    BY <1>2, Zenon
<1> DEFINE N == {n \in Nat : n <= Len(outs) => g[n] = k[n]}
<1>5. 0 \in N
    BY <1>4 DEF Keeps
<1>6. ASSUME NEW n \in Nat, n \in N PROVE n + 1 \in N
  <2> SUFFICES ASSUME n + 1 <= Len(outs) PROVE g[n + 1] = k[n + 1]
      OBVIOUS
  <2>1. g[n] = k[n] /\ n + 1 \in 1..Len(outs) /\ n + 1 \in 0..Len(outs) /\ (n + 1) - 1 = n
      BY <1>6
  <2>2. g[n + 1] = IF IsMine(a, outs[n + 1]) THEN g[n] ELSE Append(g[n], outs[n + 1])
      BY <1>4, <2>1
  <2>3. k[n + 1] = IF IsMine(a, outs[n + 1]) THEN k[n] ELSE Append(k[n], outs[n + 1])
      BY <2>1 DEF Keeps
  <2> QED BY <2>1, <2>2, <2>3
<1> HIDE DEF N
<1>7. Len(outs) \in N
    BY <1>5, <1>6, Induct
<1> QED BY <1>3, <1>7 DEF N

OthersFrom(a, S, n) ==
    \A outs \in Seq(S) : Len(outs) = n =>
        \E k \in [0..n -> Seq(S)] : Keeps(a, outs, k)

\* The solution for one more output x than k is for.
OneMoreKept(a, outs, k, x) ==
    [i \in 0..(Len(outs) + 1) |->
        IF i <= Len(outs) THEN k[i]
        ELSE IF IsMine(a, x) THEN k[Len(outs)] ELSE Append(k[Len(outs)], x)]

\* A solution for a list gives one for the list and one more output.
LEMMA OneMore ==
    ASSUME NEW a, NEW S, NEW outs \in Seq(S), NEW x \in S,
           NEW k \in [0..Len(outs) -> Seq(S)], Keeps(a, outs, k)
    PROVE  /\ OneMoreKept(a, outs, k, x) \in [0..Len(Append(outs, x)) -> Seq(S)]
           /\ Keeps(a, Append(outs, x), OneMoreKept(a, outs, k, x))
<1> DEFINE last == IF IsMine(a, x) THEN k[Len(outs)] ELSE Append(k[Len(outs)], x)
           k2 == [i \in 0..(Len(outs) + 1) |-> IF i <= Len(outs) THEN k[i] ELSE last]
           more == Append(outs, x)
<1>1. /\ Len(more) = Len(outs) + 1 /\ more[Len(outs) + 1] = x
      /\ \A i \in 1..Len(outs) : more[i] = outs[i]
    OBVIOUS
<1>2. k[Len(outs)] \in Seq(S)
    OBVIOUS
<1>3. last \in Seq(S)
    BY <1>2
<1>4. k2 \in [0..Len(more) -> Seq(S)]
    BY <1>1, <1>3
<1>5. ASSUME NEW i \in 1..Len(more)
      PROVE  k2[i] = IF IsMine(a, more[i]) THEN k2[i - 1] ELSE Append(k2[i - 1], more[i])
  <2>1. CASE i \in 1..Len(outs)
      BY <1>1, <2>1 DEF Keeps
  <2>2. CASE i = Len(outs) + 1
    <3>1. k2[i] = last /\ k2[i - 1] = k[Len(outs)] /\ more[i] = x
        BY <1>1, <2>2
    <3> QED BY <3>1
  <2> QED BY <1>1, <2>1, <2>2
<1>6. k2[0] = <<>>
    BY DEF Keeps
<1> QED BY <1>4, <1>5, <1>6 DEF Keeps, OneMoreKept

\* There is a solution for each list, by induction on its length.
LEMMA KeptExists ==
    ASSUME NEW a, NEW S, NEW outs \in Seq(S)
    PROVE  \E k \in [0..Len(outs) -> Seq(S)] : Keeps(a, outs, k)
<1> DEFINE N == {n \in Nat : OthersFrom(a, S, n)}
<1>1. 0 \in N
  <2>1. ASSUME NEW s \in Seq(S), Len(s) = 0
        PROVE  \E k \in [0..0 -> Seq(S)] : Keeps(a, s, k)
    <3>1. [i \in 0..0 |-> <<>>] \in [0..0 -> Seq(S)] /\ Keeps(a, s, [i \in 0..0 |-> <<>>])
        BY <2>1 DEF Keeps
    <3> QED BY <3>1
  <2> QED BY <2>1 DEF OthersFrom
<1>2. ASSUME NEW n \in Nat, n \in N PROVE n + 1 \in N
  <2>1. ASSUME NEW s \in Seq(S), Len(s) = n + 1
        PROVE  \E k \in [0..(n + 1) -> Seq(S)] : Keeps(a, s, k)
    <3> DEFINE t == SubSeq(s, 1, n)
    <3>1. t \in Seq(S) /\ Len(t) = n /\ s[n + 1] \in S /\ s = Append(t, s[n + 1])
        BY <2>1
    <3>2. PICK k \in [0..n -> Seq(S)] : Keeps(a, t, k)
        BY <1>2, <3>1 DEF OthersFrom
    <3> DEFINE x == s[n + 1]
    <3>3. x \in S /\ Len(Append(t, x)) = n + 1 /\ k \in [0..Len(t) -> Seq(S)]
        BY <3>1
    <3> HIDE DEF t, x
    <3>4. /\ OneMoreKept(a, t, k, x) \in [0..Len(Append(t, x)) -> Seq(S)]
          /\ Keeps(a, Append(t, x), OneMoreKept(a, t, k, x))
        BY <3>1, <3>2, <3>3, OneMore
    <3>5. s = Append(t, x)
        BY <3>1 DEF x
    <3> QED BY <3>3, <3>4, <3>5
  <2> QED BY <2>1 DEF OthersFrom
<1> HIDE DEF N
<1>3. Len(outs) \in N
    BY <1>1, <1>2, Induct
<1> QED BY <1>3 DEF N, OthersFrom

\* Others of the empty list, and of a list with one more output.
LEMMA OthersOfNone == ASSUME NEW a PROVE Others(a, <<>>) = <<>>
<1>1. <<>> \in Seq(Outputs) /\ Len(<<>>) = 0
    OBVIOUS
<1>2. PICK k \in [0..0 -> Seq(Outputs)] : Keeps(a, <<>>, k)
    BY <1>1, KeptExists
<1>3. Others(a, <<>>) = k[0]
    BY <1>1, <1>2, OthersIs
<1> QED BY <1>2, <1>3 DEF Keeps

LEMMA OthersOfMore ==
    ASSUME NEW a, NEW S, NEW outs \in Seq(S), NEW x \in S
    PROVE  /\ Others(a, outs) \in Seq(S)
           /\ Others(a, Append(outs, x))
                 = IF IsMine(a, x) THEN Others(a, outs) ELSE Append(Others(a, outs), x)
<1>1. PICK k \in [0..Len(outs) -> Seq(S)] : Keeps(a, outs, k)
    BY KeptExists
<1>2. Others(a, outs) = k[Len(outs)] /\ k[Len(outs)] \in Seq(S)
    BY <1>1, OthersIs
<1> DEFINE last == IF IsMine(a, x) THEN k[Len(outs)] ELSE Append(k[Len(outs)], x)
           k2 == OneMoreKept(a, outs, k, x)
           more == Append(outs, x)
<1>3. k2 \in [0..Len(more) -> Seq(S)] /\ Keeps(a, more, k2)
    BY <1>1, OneMore
<1>4. more \in Seq(S) /\ Len(more) = Len(outs) + 1
    OBVIOUS
<1>6. k2[Len(outs) + 1] = last
  <2> HIDE DEF last
  <2>1. Len(outs) \in Nat
      OBVIOUS
  <2> QED BY <2>1 DEF OneMoreKept, last
<1> HIDE DEF k2, more
<1>5. Others(a, more) = k2[Len(more)]
    BY <1>3, <1>4, OthersIs
<1> QED BY <1>2, <1>4, <1>5, <1>6 DEF more

\* What pays others is kept as it is, and nothing else is: doing it again, or on
\* what is already without own outputs, changes nothing.
LEMMA OthersPaysOthers ==
    ASSUME NEW a, NEW S, NEW outs \in Seq(S)
    PROVE  /\ Others(a, outs) \in Seq(S)
           /\ Others(a, Others(a, outs)) = Others(a, outs)
<1> DEFINE Fixed(s) == Others(a, s) \in Seq(S) /\ Others(a, Others(a, s)) = Others(a, s)
           N == {n \in Nat : \A s \in Seq(S) : Len(s) = n => Fixed(s)}
<1>1. 0 \in N
  <2>1. ASSUME NEW s \in Seq(S), Len(s) = 0 PROVE Fixed(s)
    <3>1. s = <<>>
        BY <2>1
    <3> QED BY <3>1, OthersOfNone
  <2> HIDE DEF Fixed
  <2> QED BY <2>1
<1>2. ASSUME NEW n \in Nat, n \in N PROVE n + 1 \in N
  <2>1. ASSUME NEW s \in Seq(S), Len(s) = n + 1 PROVE Fixed(s)
    <3> DEFINE t == SubSeq(s, 1, n)
               x == s[n + 1]
    <3>1. t \in Seq(S) /\ Len(t) = n /\ x \in S /\ s = Append(t, x)
        BY <2>1
    <3>2. Fixed(t)
        BY <1>2, <3>1
    <3> HIDE DEF t, x
    <3>3. Others(a, s) = IF IsMine(a, x) THEN Others(a, t) ELSE Append(Others(a, t), x)
        BY <3>1, OthersOfMore
    <3>4. CASE IsMine(a, x)
        BY <3>2, <3>3, <3>4
    <3>5. CASE ~IsMine(a, x)
      <4>1. Others(a, Append(Others(a, t), x)) = Append(Others(a, Others(a, t)), x)
          BY <3>1, <3>2, <3>5, OthersOfMore
      <4>2. Append(Others(a, t), x) \in Seq(S)
          BY <3>1, <3>2
      <4> QED BY <3>2, <3>3, <3>5, <4>1, <4>2
    <3> QED BY <3>4, <3>5
  <2> HIDE DEF Fixed
  <2> QED BY <2>1
<1> HIDE DEF N, Fixed
<1>3. Len(outs) \in N
    BY <1>1, <1>2, Induct
<1> QED BY <1>3 DEF N, Fixed

\* One more output at the end of two sequences.
LEMMA Appended ==
    ASSUME NEW S, NEW s \in Seq(S), NEW x \in S
    PROVE  s \o <<x>> = Append(s, x) /\ s \o <<>> = s
OBVIOUS

\* The builder's transactions: each pays the recipients, and what is appended to
\* them, if anything, goes to changeTo.
LEMMA BuiltPays ==
    ASSUME NEW wallet \in SUBSET Coins, NEW recipients \in Seq(Outputs), NEW changeTo \in Scripts,
           NEW tx \in Built(wallet, recipients, changeTo)
    PROVE  /\ tx \in Psbts
           /\ \/ tx.outs = recipients
              \/ \E out \in Outputs : out.to = changeTo /\ tx.outs = Append(recipients, out)
           /\ Worth(tx.coins) >= Total(recipients) + Fee
<1> DEFINE cost == Total(recipients) + Fee
           rest(coins) == Worth(coins) - cost
           change(coins) == IF rest(coins) < Dust \/ rest(coins) = 0 THEN <<>>
                            ELSE <<[to |-> changeTo, value |-> rest(coins)]>>
<1>1. PICK coins \in SUBSET wallet :
         /\ Worth(coins) >= cost
         /\ tx = [outs |-> recipients \o change(coins), coins |-> coins, final |-> FALSE]
    BY DEF Built
<1>2. rest(coins) \in Nat
  <2>1. Worth(coins) \in Nat /\ Total(recipients) \in Nat
      BY WorthIsNat, TotalIsNat
  <2> QED BY <1>1, <2>1, AmountAssumption
<1> DEFINE out == [to |-> changeTo, value |-> rest(coins)]
<1>3. out \in Outputs /\ out.to = changeTo
    BY <1>2 DEF Outputs
<1>4. \/ tx.outs = recipients
      \/ tx.outs = Append(recipients, out)
  <2>1. change(coins) = <<>> \/ change(coins) = <<out>>
      OBVIOUS
  <2> HIDE DEF change, out
  <2> QED BY <1>1, <1>3, <2>1, Appended
<1> HIDE DEF out
<1>5. tx.outs \in Seq(Outputs)
    BY <1>3, <1>4
<1> DEFINE outs == recipients \o change(coins)
<1>6. tx = [outs |-> outs, coins |-> coins, final |-> FALSE] /\ outs \in Seq(Outputs)
    BY <1>1, <1>5
<1> HIDE DEF outs
<1>7. tx \in Psbts
    BY <1>6 DEF Psbts
<1> QED BY <1>1, <1>3, <1>4, <1>7

\* Pays out, and all else to where the change of account a goes.
PaysOnly(a, tx, out) ==
    \E i \in DOMAIN tx.outs :
        /\ tx.outs[i] = out
        /\ \A j \in DOMAIN tx.outs \ {i} : tx.outs[j].to = ChangeScript[a]

\* A transaction that drains a wallet pays what is there less the fee, and no change.
LEMMA DrainedPays ==
    ASSUME NEW a, NEW wallet \in SUBSET Coins, NEW script \in Scripts, NEW tx \in Drained(wallet, script)
    PROVE  /\ tx \in Psbts /\ tx.coins = wallet
           /\ PaysOnly(a, tx, [to |-> script, value |-> Worth(wallet) - Fee])
<1> DEFINE out == [to |-> script, value |-> Worth(wallet) - Fee]
<1>1. tx = [outs |-> <<out>>, coins |-> wallet, final |-> FALSE] /\ ~(Worth(wallet) < Fee + Dust)
    BY DEF Drained
<1>2. Worth(wallet) - Fee \in Nat
    BY <1>1, WorthIsNat, AmountAssumption
<1>3. out \in Outputs
    BY <1>2 DEF Outputs
<1> HIDE DEF out
<1>4. <<out>> \in Seq(Outputs) /\ DOMAIN <<out>> = {1} /\ <<out>>[1] = out
    BY <1>3
<1>5. PaysOnly(a, tx, out)
    BY <1>1, <1>4 DEF PaysOnly
<1> QED BY <1>1, <1>4, <1>5 DEF Psbts, out

\* The last index of a nonempty set of indices is one of them.
LEMMA MaxIsIn ==
    ASSUME NEW m \in Nat, NEW T \in SUBSET (1..m), T # {}
    PROVE  Max(T) \in T
<1> DEFINE N == {n \in Nat : \A U \in SUBSET (1..n) :
                    U # {} => \E x \in U : \A y \in U : x >= y}
<1>1. 0 \in N
  <2>1. \A U \in SUBSET (1..0) : U = {}
      OBVIOUS
  <2> QED BY <2>1
<1>2. ASSUME NEW n \in Nat, n \in N PROVE n + 1 \in N
  <2>1. ASSUME NEW U \in SUBSET (1..(n + 1)), U # {} PROVE \E x \in U : \A y \in U : x >= y
    <3>1. CASE n + 1 \in U
      <4>1. \A y \in U : n + 1 >= y
          OBVIOUS
      <4> QED BY <3>1, <4>1
    <3>2. CASE n + 1 \notin U
      <4>1. U \in SUBSET (1..n)
          BY <3>2
      <4> QED BY <1>2, <2>1, <4>1
    <3> QED BY <3>1, <3>2
  <2> QED BY <2>1
<1> HIDE DEF N
<1>3. m \in N
    BY <1>1, <1>2, Induct
<1>4. \E x \in T : \A y \in T : x >= y
    BY <1>3 DEF N
<1> QED BY <1>4 DEF Max

\* The change goes to the account itself.
LEMMA ChangeIsMine ==
    ASSUME NEW a \in Accounts, NEW template \in Seq(Outputs)
    PROVE  ChangeTo(a, template) \in Scripts /\ ScriptOwner[ChangeTo(a, template)] = a
<1> DEFINE own == {i \in DOMAIN template : IsMine(a, template[i])}
<1>1. CASE own = {}
    BY <1>1, ScriptAssumption DEF ChangeTo
<1>2. CASE own # {}
  <2>1. Max(own) \in own
    <3>1. own \in SUBSET (1..Len(template)) /\ Len(template) \in Nat
        OBVIOUS
    <3> HIDE DEF own
    <3> QED BY <1>2, <3>1, MaxIsIn
  <2>2. template[Max(own)] \in Outputs /\ IsMine(a, template[Max(own)])
      BY <2>1
  <2>3. ChangeTo(a, template) = template[Max(own)].to
      BY <1>2 DEF ChangeTo
  <2> QED BY <2>2, <2>3 DEF IsMine, Outputs
<1> QED BY <1>1, <1>2

\* One output, and the change before or after it.
LEMMA OneRecipient ==
    ASSUME NEW a, NEW out \in Outputs, NEW change \in Outputs, change.to = ChangeScript[a],
           NEW tx \in Psbts, tx.outs \in {<<out>>, <<out, change>>, <<change, out>>}
    PROVE  PaysOnly(a, tx, out)
<1>1. CASE tx.outs = <<out>>
    BY <1>1 DEF PaysOnly
<1>2. CASE tx.outs = <<out, change>>
  <2>1. 1 \in DOMAIN tx.outs /\ tx.outs[1] = out /\ DOMAIN tx.outs \ {1} = {2} /\ tx.outs[2] = change
      BY <1>2
  <2> QED BY <2>1 DEF PaysOnly
<1>3. CASE tx.outs = <<change, out>>
  <2>1. 2 \in DOMAIN tx.outs /\ tx.outs[2] = out /\ DOMAIN tx.outs \ {2} = {1} /\ tx.outs[1] = change
      BY <1>3
  <2> QED BY <2>1 DEF PaysOnly
<1> QED BY <1>1, <1>2, <1>3

\* A transfer pays the amount to the recipient, with coins that cover the fee as well.
LEMMA TransferPays ==
    ASSUME NEW a \in Accounts, NEW wallet \in SUBSET Coins, NEW script \in Scripts,
           NEW amount \in Nat, NEW tx \in Transfer(a, wallet, script, amount)
    PROVE  /\ tx \in Psbts /\ Worth(tx.coins) >= amount + Fee
           /\ PaysOnly(a, tx, [to |-> script, value |-> amount])
<1> DEFINE out == [to |-> script, value |-> amount]
           none == [to |-> ChangeScript[a], value |-> 0]
<1>1. out \in Outputs /\ out.value = amount /\ none \in Outputs /\ none.to = ChangeScript[a]
    BY ScriptAssumption DEF Outputs
<1>2. PICK built \in Built(wallet, <<out>>, ChangeScript[a]) :
         tx = built \/ tx = [built EXCEPT !.outs = Reverse(built.outs)]
    BY DEF Transfer
<1> HIDE DEF out, none
<1>3. <<out>> \in Seq(Outputs) /\ ChangeScript[a] \in Scripts
    BY <1>1, ScriptAssumption
<1>4. /\ built \in Psbts /\ Worth(built.coins) >= amount + Fee
      /\ \/ built.outs = <<out>>
         \/ \E x \in Outputs : x.to = ChangeScript[a] /\ built.outs = Append(<<out>>, x)
    BY <1>1, <1>3, BuiltPays, TotalOfOne
<1>5. PICK change \in Outputs : /\ change.to = ChangeScript[a]
                                /\ built.outs = <<out>> \/ built.outs = <<out, change>>
    BY <1>1, <1>4
<1>6. /\ Reverse(<<out>>) = <<out>> /\ Reverse(<<out, change>>) = <<change, out>>
      /\ {<<out>>, <<out, change>>, <<change, out>>} \subseteq Seq(Outputs)
    BY <1>1 DEF Reverse
<1>7. /\ tx.outs \in {<<out>>, <<out, change>>, <<change, out>>}
      /\ tx.coins = built.coins /\ tx.outs \in Seq(Outputs)
      /\ tx = [outs |-> tx.outs, coins |-> tx.coins, final |-> built.final]
    BY <1>2, <1>4, <1>5, <1>6 DEF Psbts
<1>8. tx \in Psbts
    BY <1>4, <1>7 DEF Psbts
<1>9. PaysOnly(a, tx, out)
    BY <1>1, <1>5, <1>7, <1>8, OneRecipient
<1> QED BY <1>4, <1>7, <1>8, <1>9 DEF out

\* What is filled pays the others what the template does, and is as long.
LEMMA FilledPays ==
    ASSUME NEW a \in Accounts, NEW wallet \in SUBSET Coins, NEW template \in Seq(Outputs),
           NEW tx \in Filled(a, wallet, template)
    PROVE  /\ tx \in Psbts
           /\ Others(a, tx.outs) = Others(a, template)
           /\ Len(tx.outs) >= Len(template)
<1>1. ASSUME NEW recipients \in Seq(Outputs), NEW script \in Scripts, ScriptOwner[script] = a,
             tx \in Built(wallet, recipients, script)
      PROVE  /\ tx \in Psbts /\ Others(a, tx.outs) = Others(a, recipients)
             /\ Len(tx.outs) >= Len(recipients)
  <2>1. tx \in Psbts
      BY <1>1, BuiltPays
  <2>2. CASE tx.outs = recipients
      BY <2>1, <2>2
  <2>3. ASSUME NEW out \in Outputs, out.to = script, tx.outs = Append(recipients, out)
        PROVE  Others(a, tx.outs) = Others(a, recipients) /\ Len(tx.outs) >= Len(recipients)
      BY <1>1, <2>3, OthersOfMore DEF IsMine
  <2> QED BY <1>1, <2>1, <2>2, <2>3, BuiltPays
<1>2. Others(a, template) \in Seq(Outputs) /\ Others(a, Others(a, template)) = Others(a, template)
    BY OthersPaysOthers
<1>3. /\ ChangeTo(a, template) \in Scripts /\ ScriptOwner[ChangeTo(a, template)] = a
      /\ ChangeScript[a] \in Scripts /\ ScriptOwner[ChangeScript[a]] = a
    BY ChangeIsMine, ScriptAssumption
<1>4. CASE tx \in Built(wallet, Others(a, template), ChangeTo(a, template))
           /\ Len(tx.outs) >= Len(template)
    BY <1>1, <1>2, <1>3, <1>4
<1>5. CASE tx \in Built(wallet, template, ChangeScript[a])
    BY <1>1, <1>3, <1>5
<1> QED BY <1>4, <1>5 DEF Filled

-----------------------------------------------------------------------------
(* Types, and what is built.                                               *)

\* What a request works on, once it has it.
Subject(q) ==
    /\ q.pc = "get" => q.what = None
    /\ q.pc \in {"show", "wait", "load", "sign"} =>
          q.what \in IF q.call.method \in MessageMethods THEN Messages ELSE Psbts
    /\ q.pc \in Sent \cup {"broadcast"} => q.what \in Psbts
    /\ q.signature # None /\ q.call.method \in Transfers => AsAsked(q.call, q.signature)
    /\ q.pc \notin {"idle", "get", "build"} /\ q.what \in Psbts
         /\ q.call.method # "broadcastPsbt" /\ (q.call.method = "signPsbt" => q.call.fill) =>
           AsAsked(q.call, q.what)

TypedDialog(d) ==
    /\ d.state \in {"closed", "open", "yes", "no"} /\ d.pressed \subseteq Buttons
    /\ d.shows # None => d.shows.account \in Accounts

SubjectsInv == TypeOK /\ \A r \in Requests : Subject(request[r])

\* A message is no transaction.
LEMMA MessagesAreNone == ASSUME NEW m \in Messages PROVE m \notin Psbts
<1>1. m \in MessageType
    BY CallAssumption
<1>2. DOMAIN m = {"form", "of", "spelling"}
    BY <1>1 DEF MessageType
<1>3. ASSUME m \in Psbts PROVE DOMAIN m = {"outs", "coins", "final"}
    BY <1>3 DEF Psbts
<1> QED BY <1>2, <1>3

LEMMA CallsAreTyped == ASSUME NEW c \in Calls PROVE c \in CallType
BY CallAssumption DEF Calls

LEMMA AnswersAreTyped ==
    /\ \A error : HostError(error) \in Answers
    /\ NoReply \in ReplyType /\ Idle \in RequestType /\ TypedDialog(Closed) /\ Subject(Idle)
<1>1. \A error : HostError(error) \in Answers
    BY DEF HostError, Answers, Rectifiable
<1>2. NoReply \in ReplyType /\ Idle \in RequestType
    BY DEF NoReply, ReplyType, Idle, RequestType, Answers, Steps
<1>3. Closed.state = "closed" /\ Closed.pressed = {} /\ Closed.shows = None /\ Idle.pc = "idle"
      /\ Idle.signature = None
    BY DEF Closed, Idle
<1>4. TypedDialog(Closed) /\ Subject(Idle)
    BY <1>3 DEF TypedDialog, Subject, Sent
<1> QED BY <1>1, <1>2, <1>4

\* What is not of a request.
CoinsTyped ==
    /\ spent \subseteq Coins /\ known \subseteq Coins /\ overwritten \subseteq Coins
    /\ syncing \in [Accounts -> (SUBSET Coins) \cup {None}]

Surroundings ==
    /\ accounts \subseteq Accounts /\ CoinsTyped
    /\ presses \subseteq Requests \X Buttons
    /\ reply \in ReplyType /\ faults \in 0..MaxFaults

LEMMA TypedFacts ==
    ASSUME SubjectsInv, NEW r \in Requests
    PROVE  /\ Surroundings /\ request[r] \in RequestType /\ TypedDialog(iface[r])
           /\ Subject(request[r])
BY DEF SubjectsInv, TypeOK, Surroundings, TypedDialog, CoinsTyped

\* A step in which one request becomes q, and its dialog d.
LEMMA OneTyped ==
    ASSUME RequestsInv, RequestsInv', SubjectsInv, NEW r \in Requests, NEW q, NEW d,
           request' = [request EXCEPT ![r] = q], q \in RequestType, Subject(q),
           iface' = [iface EXCEPT ![r] = d], TypedDialog(d), Surroundings'
    PROVE  SubjectsInv'
<1>1. request' \in [Requests -> RequestType]
    BY DEF SubjectsInv, TypeOK
<1>2. \A i \in Requests : Subject(request'[i]) /\ TypedDialog(iface'[i])
    BY TypedFacts DEF RequestsInv, Shapes
<1>3. \A i \in Requests : iface'[i].state = "open" => request'[i].pc = "wait"
    BY DEF RequestsInv, Good, Dialog
<1> QED BY <1>1, <1>2, <1>3 DEF SubjectsInv, TypeOK, Surroundings, TypedDialog, CoinsTyped, At

\* The surroundings after a step that does not answer.
LEMMA QuietSurroundings ==
    ASSUME Surroundings, accounts' \subseteq accounts, CoinsTyped', presses' \subseteq Requests \X Buttons,
           reply' = NoReply, faults' = faults \/ Fault
    PROVE  Surroundings'
<1>1. faults' \in 0..MaxFaults
    BY AccountsAssumption DEF Surroundings, Fault
<1> QED BY <1>1, AnswersAreTyped DEF Surroundings

LEMMA AnswerTyped ==
    ASSUME RequestsInv, RequestsInv', SubjectsInv, NEW r \in Requests,
           NEW answer \in Answers, Answer(r, answer),
           UNCHANGED <<accounts, spent, known, overwritten, syncing, presses>>, faults' = faults \/ Fault
    PROVE  SubjectsInv'
<1>1. request[r] \in RequestType /\ Surroundings
    BY TypedFacts
<1>2. reply' \in ReplyType
    BY <1>1 DEF Answer, ReplyType, RequestType
<1>3. faults' \in 0..MaxFaults
    BY <1>1, AccountsAssumption DEF Surroundings, Fault
<1>4. Surroundings'
    BY <1>1, <1>2, <1>3 DEF Surroundings, CoinsTyped
<1> QED BY <1>4, AnswersAreTyped, OneTyped DEF Answer

LEMMA ThrowTyped ==
    ASSUME RequestsInv, RequestsInv', SubjectsInv, NEW r \in Requests, NEW error, Throw(r, error),
           UNCHANGED <<accounts, spent, known, overwritten, syncing, presses>>, faults' = faults \/ Fault
    PROVE  SubjectsInv'
BY AnswerTyped, AnswersAreTyped DEF Throw

\* A request that goes on to s, with x.
LEMMA MovesTyped ==
    ASSUME RequestsInv, RequestsInv', SubjectsInv, NEW r \in Requests,
           NEW q, q \in RequestType, Subject(q),
           request' = [request EXCEPT ![r] = q], UNCHANGED <<iface, accounts, presses, faults>>,
           CoinsTyped', Quiet
    PROVE  SubjectsInv'
<1>1. Surroundings /\ TypedDialog(iface[r])
    BY TypedFacts
<1>2. Surroundings'
    BY <1>1, QuietSurroundings DEF Quiet, Surroundings, CoinsTyped
<1>3. iface' = [iface EXCEPT ![r] = iface[r]]
    BY RequestFacts
<1> QED BY <1>1, <1>2, <1>3, OneTyped

LEMMA StepsAre == \A c, s : After(c, s) \in Steps
BY DEF After, Steps

\* Proceed, to steps which ask for no more than the one before.
LEMMA ProceedTyped ==
    ASSUME RequestsInv, RequestsInv', SubjectsInv, NEW r \in Requests, Proceed(r),
           request[r].pc \in {"wait", "load"},
           UNCHANGED <<accounts, presses, faults>>, CoinsTyped'
    PROVE  SubjectsInv'
<1> DEFINE q == [request[r] EXCEPT !.pc = After(request[r].call, request[r].pc)]
<1>1. request[r] \in RequestType /\ Subject(request[r]) /\ Surroundings
    BY TypedFacts
<1>2. /\ q \in RequestType /\ q.pc = After(request[r].call, request[r].pc)
      /\ q.what = request[r].what /\ q.call = request[r].call
      /\ q.signature = request[r].signature
    BY <1>1, StepsAre DEF RequestType
<1>3. /\ request[r].pc = "wait" => q.pc \in {"load", "sign"}
      /\ request[r].pc = "load" => q.pc = "sign"
    BY <1>2 DEF After
<1>4. request' = [request EXCEPT ![r] = q] /\ UNCHANGED iface /\ Quiet
    BY DEF Proceed
<1> HIDE DEF q
<1>6. Subject(q)
    BY <1>1, <1>2, <1>3 DEF Subject, Sent
<1> QED BY <1>2, <1>4, <1>6, MovesTyped

-----------------------------------------------------------------------------
(* The initial state and each action.                                      *)

LEMMA SubjectsInit == Init => SubjectsInv
<1> SUFFICES ASSUME Init PROVE SubjectsInv
    OBVIOUS
<1>1. \A r \in Requests : request[r] = Idle /\ iface[r] = Closed
    BY DEF Init
<1>2. request \in [Requests -> RequestType] /\ reply \in ReplyType /\ faults \in 0..MaxFaults
    BY AnswersAreTyped, AccountsAssumption DEF Init
<1>3. \A r \in Requests : TypedDialog(iface[r]) /\ iface[r].state # "open" /\ Subject(request[r])
    BY <1>1, AnswersAreTyped DEF Closed
<1>4. CoinsTyped
    BY DEF Init, CoinsTyped
<1> QED BY <1>2, <1>3, <1>4 DEF SubjectsInv, TypeOK, TypedDialog, CoinsTyped, Init

LEMMA DeleteTyped ==
    ASSUME RequestsInv, SubjectsInv, NEW a \in Accounts, Delete(a) PROVE SubjectsInv'
BY AnswersAreTyped DEF SubjectsInv, TypeOK, Delete, Quiet, At

LEMMA SyncTyped ==
    ASSUME RequestsInv, RequestsInv', SubjectsInv, NEW a \in Accounts, SyncRead(a) \/ SyncWrite(a)
    PROVE  SubjectsInv'
<1>1. CoinsTyped
    BY DEF SubjectsInv, TypeOK, CoinsTyped
<1>2. CoinsTyped'
  <2>1. CASE SyncRead(a)
    <3>1. PICK x \in SUBSET Coins : syncing' = [syncing EXCEPT ![a] = x]
        BY <1>1, <2>1 DEF SyncRead, CoinsTyped
    <3> QED BY <1>1, <2>1, <3>1 DEF SyncRead, CoinsTyped
  <2>2. CASE SyncWrite(a)
    <3>1. /\ syncing \in [Accounts -> (SUBSET Coins) \cup {None}] /\ syncing[a] # None
          /\ syncing' = [syncing EXCEPT ![a] = None]
        BY <1>1, <2>2 DEF SyncWrite, CoinsTyped
    <3>2. syncing[a] \in SUBSET Coins /\ syncing' \in [Accounts -> (SUBSET Coins) \cup {None}]
        BY <3>1
    <3> QED BY <1>1, <2>2, <3>1, <3>2 DEF SyncWrite, Rewrite, CoinsTyped
  <2> QED BY <2>1, <2>2
<1>3. /\ UNCHANGED <<accounts, iface, presses, request, faults>> /\ reply' = NoReply
    BY DEF SyncRead, SyncWrite, Quiet
<1> QED BY <1>2, <1>3, AnswersAreTyped DEF SubjectsInv, TypeOK, CoinsTyped, At

LEMMA RestartTyped ==
    ASSUME RequestsInv, SubjectsInv, Restart PROVE SubjectsInv'
<1>1. \A r \in Requests : request'[r] = Idle /\ iface'[r] = Closed
    BY DEF Restart
<1>2. request' \in [Requests -> RequestType] /\ reply' \in ReplyType /\ faults' \in 0..MaxFaults
    BY AnswersAreTyped, AccountsAssumption DEF Restart, Quiet, Fault, SubjectsInv, TypeOK
<1>3. \A r \in Requests : /\ TypedDialog(iface'[r]) /\ iface'[r].state # "open"
                          /\ Subject(request'[r])
    BY <1>1, AnswersAreTyped DEF Closed
<1>4. accounts' \subseteq Accounts /\ presses' = {}
    BY DEF Restart, SubjectsInv, TypeOK
<1>5. CoinsTyped'
  <2>1. syncing' = [a \in Accounts |-> None]
      BY DEF Restart
  <2>2. syncing' \in [Accounts -> (SUBSET Coins) \cup {None}]
      BY <2>1
  <2> QED BY <2>2 DEF Restart, SubjectsInv, TypeOK, CoinsTyped
<1> QED BY <1>2, <1>3, <1>4, <1>5 DEF SubjectsInv, TypeOK, TypedDialog, CoinsTyped

\* A step in which only a dialog changes.
LEMMA DialogTyped ==
    ASSUME RequestsInv, RequestsInv', SubjectsInv, NEW r \in Requests, NEW d, TypedDialog(d),
           iface' = [iface EXCEPT ![r] = d], UNCHANGED <<accounts, spent, known, overwritten, syncing, request, faults>>,
           presses' \subseteq Requests \X Buttons, Quiet
    PROVE  SubjectsInv'
<1>1. request[r] \in RequestType /\ Subject(request[r]) /\ Surroundings
    BY TypedFacts
<1>2. request' = [request EXCEPT ![r] = request[r]]
    BY DEF RequestsInv, Shapes
<1>3. Surroundings'
    BY <1>1, QuietSurroundings DEF Quiet, Surroundings, CoinsTyped
<1> QED BY <1>1, <1>2, <1>3, OneTyped

LEMMA PressTyped ==
    ASSUME RequestsInv, RequestsInv', SubjectsInv, NEW r \in Requests, NEW button \in Buttons,
           Press(r, button)
    PROVE  SubjectsInv'
<1> DEFINE d == [iface[r] EXCEPT !.pressed = @ \cup {button}]
<1>1. d.state = iface[r].state /\ d.shows = iface[r].shows
      /\ d.pressed = iface[r].pressed \cup {button}
    BY RequestFacts DEF DialogShape
<1>2. iface' = [iface EXCEPT ![r] = d]
    BY DEF Press
<1> HIDE DEF d
<1>3. TypedDialog(d)
    BY <1>1, TypedFacts DEF TypedDialog
<1>4. presses' \subseteq Requests \X Buttons
    BY TypedFacts DEF Press, Surroundings
<1> QED BY <1>2, <1>3, <1>4, DialogTyped DEF Press

LEMMA CloseDialogTyped ==
    ASSUME RequestsInv, RequestsInv', SubjectsInv, NEW r \in Requests, CloseDialog(r)
    PROVE  SubjectsInv'
<1> DEFINE d == [iface[r] EXCEPT !.state = "no"]
<1>1. d.state = "no" /\ d.shows = iface[r].shows /\ d.pressed = iface[r].pressed
    BY RequestFacts DEF DialogShape
<1>2. iface' = [iface EXCEPT ![r] = d]
    BY DEF CloseDialog
<1> HIDE DEF d
<1>3. TypedDialog(d)
    BY <1>1, TypedFacts DEF TypedDialog
<1>4. presses' \subseteq Requests \X Buttons
    BY TypedFacts DEF CloseDialog, Surroundings
<1> QED BY <1>2, <1>3, <1>4, DialogTyped DEF CloseDialog

LEMMA OnChangeTyped ==
    ASSUME RequestsInv, RequestsInv', SubjectsInv, NEW r \in Requests, NEW button \in Buttons,
           OnChange(r, button)
    PROVE  SubjectsInv'
<1>1. presses' \subseteq Requests \X Buttons
    BY TypedFacts DEF OnChange, Surroundings
<1>2. CASE iface[r].state = "open"
  <2> DEFINE d == [iface[r] EXCEPT !.state = IF button = "confirm" THEN "yes" ELSE "no"]
  <2>1. /\ d.state \in {"yes", "no"} /\ d.shows = iface[r].shows
        /\ d.pressed = iface[r].pressed
      BY RequestFacts DEF DialogShape
  <2>2. iface' = [iface EXCEPT ![r] = d]
      BY <1>2 DEF OnChange
  <2> HIDE DEF d
  <2>3. TypedDialog(d)
      BY <2>1, TypedFacts DEF TypedDialog
  <2> QED BY <1>1, <2>2, <2>3, DialogTyped DEF OnChange
<1>3. CASE iface[r].state # "open"
  <2>1. iface' = [iface EXCEPT ![r] = iface[r]]
      BY <1>3, RequestFacts DEF OnChange
  <2> QED BY <1>1, <2>1, TypedFacts, DialogTyped DEF OnChange
<1> QED BY <1>2, <1>3

LEMMA RouteTyped ==
    ASSUME RequestsInv, RequestsInv', SubjectsInv, NEW r \in Requests, NEW c \in Asked[r],
           Route(r, c)
    PROVE  SubjectsInv'
<1>1. c \in Calls
    BY CallAssumption DEF Calls
<1>2. CASE c.method \notin Methods \/ ~c.wellFormed
  <2>1. \E error : reply' = [NoReply EXCEPT !.call = c, !.answer = HostError(error)]
      BY <1>2 DEF Route
  <2>2. reply' \in ReplyType
    <3>1. PICK error : reply' = [NoReply EXCEPT !.call = c, !.answer = HostError(error)]
        BY <2>1
    <3> DEFINE answer == HostError(error)
    <3>2. answer \in Answers
        BY AnswersAreTyped
    <3>3. reply' = [NoReply EXCEPT !.call = c, !.answer = answer]
        BY <3>1
    <3> HIDE DEF answer
    <3>4. NoReply \in ReplyType
        BY AnswersAreTyped
    <3> QED BY <1>1, <3>2, <3>3, <3>4 DEF ReplyType
  <2> QED BY <1>2, <2>2 DEF Route, SubjectsInv, TypeOK, At
<1>3. CASE c.method \in Methods /\ c.wellFormed
  <2> DEFINE q == [Idle EXCEPT !.call = c, !.pc = First(c)]
  <2>1. First(c) \in {"get", "build"}
      BY DEF First
  <2>2. q \in RequestType /\ q.pc = First(c) /\ q.what = None /\ q.signature = None
      BY <1>1, <2>1 DEF Idle, RequestType, Steps
  <2>3. request' = [request EXCEPT ![r] = q] /\ Quiet
        /\ UNCHANGED <<accounts, spent, known, overwritten, syncing, iface, presses, faults>>
      BY <1>3 DEF Route
  <2> HIDE DEF q
  <2>4. Subject(q)
      BY <2>1, <2>2 DEF Subject, Sent
  <2>5. CoinsTyped'
      BY <2>3, TypedFacts DEF Surroundings, CoinsTyped
  <2> QED BY <2>2, <2>3, <2>4, <2>5, MovesTyped
<1> QED BY <1>2, <1>3

LEMMA GetTyped ==
    ASSUME RequestsInv, RequestsInv', SubjectsInv, NEW r \in Requests, Get(r)
    PROVE  SubjectsInv'
<1> DEFINE c == request[r].call
           what == IF c.message # None THEN c.message ELSE c.psbt
           q == [request[r] EXCEPT !.pc = After(c, "get"), !.what = what]
<1>1. request[r].pc = "get" /\ UNCHANGED <<accounts, spent, known, overwritten, syncing, presses, faults>>
    BY DEF Get, At
<1>2. c \in Calls /\ c \in CallType /\ c.method \in Methods \ Builders
    BY <1>1, Taken, CallsAreTyped DEF OnItsWay
<1>3. CASE c.method \in Inputs
  <2>1. \A wallet : FieldError(c, wallet) \in Answers
      BY DEF FieldError, Answers, Rectifiable
  <2>2. "Invalid" \in Answers
      BY DEF Answers, Rectifiable
  <2> QED BY <1>1, <1>3, <2>1, <2>2, AnswerTyped DEF Get
<1>4. CASE Throw(r, GetError(c))
    BY <1>1, <1>4, ThrowTyped
<1>5. CASE /\ c.method \notin Inputs /\ GetError(c) = "ok"
           /\ request' = [request EXCEPT ![r] = q] /\ UNCHANGED iface /\ Quiet
  <2>1. c.method \in MessageMethods <=> c.message # None
      BY <1>1, CallFits DEF MessageMethods
  <2>2. /\ c.method \in MessageMethods => what \in Messages
        /\ c.method \notin MessageMethods => what = c.psbt
        /\ c.psbt \in Psbts \cup {None}
      BY <1>2, <2>1 DEF CallType
  <2>3. c.method \in {"signPsbt", "broadcastPsbt"} => c.psbt # None
      BY <1>5 DEF GetError
  <2>4. /\ q \in RequestType /\ q.pc = After(c, "get") /\ q.what = what /\ q.call = c
        /\ q.signature = request[r].signature
      BY <2>2, TypedFacts, StepsAre DEF RequestType, Subjects
  <2>5. /\ q.pc \in {"build", "show", "broadcast", "load", "done"}
        /\ q.pc = "show" => c.method \in {"signPsbt", "signMessage"}
        /\ q.pc = "broadcast" => c.method = "broadcastPsbt"
        /\ q.pc = "load" => c.method \in OwnMessages
      BY <2>4 DEF After
  <2> HIDE DEF q, what
  <2>6. what \in Psbts => AsAsked(c, what)
    <3> SUFFICES ASSUME what \in Psbts PROVE AsAsked(c, what)
        OBVIOUS
    <3>1. c.method \notin MessageMethods
        BY <2>2, MessagesAreNone
    <3>2. what = c.psbt
        BY <2>2, <3>1
    <3>3. c.method \notin Transfers
        BY <1>2 DEF Builders, Transfers
    <3>4. Len(what.outs) \in Nat
        BY DEF Psbts
    <3> QED BY <3>2, <3>3, <3>4 DEF AsAsked
  <2>7. Subject(q)
      BY <2>2, <2>3, <2>4, <2>5, <2>6, TypedFacts DEF Subject, MessageMethods, OwnMessages, Sent
  <2>8. CoinsTyped'
      BY <1>1, TypedFacts DEF Surroundings, CoinsTyped
  <2> QED BY <1>1, <1>5, <2>4, <2>7, <2>8, MovesTyped
<1> QED BY <1>3, <1>4, <1>5 DEF Get

LEMMA NoUtxoTyped ==
    ASSUME RequestsInv, RequestsInv', SubjectsInv, NEW r \in Requests, NoUtxo(r)
    PROVE  SubjectsInv'
BY ThrowTyped DEF NoUtxo

\* What a call may come up with is a transaction that pays what was asked for.
LEMMA CandidatesAreAsked ==
    ASSUME RequestsInv, SubjectsInv, NEW c \in Calls,
           c.method = "confirmSend" => c.recipient # None,
           c.method \notin Transfers => c.psbt # None,
           NEW tx \in Candidates(c)
    PROVE  tx \in Psbts /\ AsAsked(c, tx)
<1> DEFINE wallet == Wallet(c.account)
<1>1. /\ c.account \in Accounts /\ c.psbt \in Psbts \cup {None}
      /\ c.recipient \in Scripts \cup {None} /\ c.amount \in Nat
    BY CallsAreTyped DEF CallType
<1>2. wallet \in SUBSET Coins
    BY DEF Wallet, CoinsOf
<1> HIDE DEF wallet
<1>3. CASE c.method \in Transfers
  <2> DEFINE Pays(value) == PaysOnly(c.account, tx, [to |-> c.recipient, value |-> value])
  <2>1. /\ c.recipient \in Scripts
        /\ \/ tx \in Transfer(c.account, wallet, c.recipient, c.amount)
           \/ /\ c.method = "confirmSend" /\ c.amount = Worth(wallet)
              /\ tx \in Drained(wallet, c.recipient)
      BY <1>1, <1>3 DEF Candidates, SendFlowTransfer, Transfers, wallet
  <2>2. CASE tx \in Transfer(c.account, wallet, c.recipient, c.amount)
    <3>1. tx \in Psbts /\ Worth(tx.coins) >= c.amount + Fee /\ Pays(c.amount)
        BY <1>1, <1>2, <2>1, <2>2, TransferPays
    <3>2. Due(c, tx) = c.amount
      <4>1. Worth(tx.coins) = c.amount => Fee = 0
          BY <1>1, <3>1, AmountAssumption
      <4> QED BY <1>1, <4>1 DEF Due
    <3> QED BY <1>3, <3>1, <3>2 DEF AsAsked, PaysOnly
  <2>3. CASE /\ c.method = "confirmSend" /\ c.amount = Worth(wallet)
             /\ tx \in Drained(wallet, c.recipient)
    <3>1. tx \in Psbts /\ tx.coins = wallet /\ Pays(c.amount - Fee)
        BY <1>2, <2>1, <2>3, DrainedPays
    <3>2. Due(c, tx) = c.amount - Fee
        BY <2>3, <3>1 DEF Due
    <3> QED BY <1>3, <3>1, <3>2 DEF AsAsked, PaysOnly
  <2> QED BY <2>1, <2>2, <2>3
<1>4. CASE c.method \notin Transfers
  <2>1. c.psbt.outs \in Seq(Outputs)
      BY <1>1, <1>4 DEF Psbts
  <2>2. tx \in Filled(c.account, wallet, c.psbt.outs)
      BY <1>4 DEF Candidates, Transfers, wallet
  <2> QED BY <1>1, <1>2, <1>4, <2>1, <2>2, FilledPays DEF AsAsked
<1> QED BY <1>3, <1>4

LEMMA BuildTyped ==
    ASSUME RequestsInv, RequestsInv', SubjectsInv, NEW r \in Requests, Build(r)
    PROVE  SubjectsInv'
<1> DEFINE c == request[r].call
           wallet == Wallet(c.account)
<1>1. request[r].pc = "build" /\ UNCHANGED <<accounts, spent, known, overwritten, syncing, presses, faults>>
    BY DEF Build, At
<1>2. c \in Calls /\ c.method \in Builders \cup {"signPsbt"}
    BY <1>1, Taken DEF OnItsWay
<1>3. CASE \E error : Throw(r, error)
    BY <1>1, <1>3, ThrowTyped
<1>4. CASE Answer(r, InputError(c, wallet))
  <2>1. InputError(c, wallet) \in Answers
      BY DEF InputError, Answers, Rectifiable
  <2> QED BY <1>1, <1>4, <2>1, AnswerTyped
<1>5. CASE \E answer \in BuildErrors(c) : Answer(r, answer)
  <2>1. BuildErrors(c) \subseteq Answers
      BY AnswersAreTyped DEF BuildErrors, Answers, Rectifiable
  <2> QED BY <1>1, <1>5, <2>1, AnswerTyped
<1>6. ASSUME c.method \in Transfers \/ c.psbt # None,
             c.method = "confirmSend" => InputError(c, wallet) = "ok",
             NEW tx \in Candidates(c), UNCHANGED iface, Quiet,
             request' = [request EXCEPT ![r].pc = After(c, "build"), ![r].what = tx]
      PROVE  SubjectsInv'
  <2> DEFINE q == [request[r] EXCEPT !.pc = After(c, "build"), !.what = tx]
  <2>1. c.method = "confirmSend" => c.recipient # None
      BY <1>6 DEF InputError, InvalidAddress
  <2>2. tx \in Psbts /\ AsAsked(c, tx)
      BY <1>2, <1>6, <2>1, CandidatesAreAsked
  <2>3. /\ q \in RequestType /\ q.pc = After(c, "build") /\ q.what = tx /\ q.call = c
        /\ q.signature = request[r].signature
      BY <2>2, TypedFacts, StepsAre DEF RequestType, Subjects
  <2>4. q.pc \in {"show", "sign", "done"}
      BY <2>3 DEF After
  <2>5. request' = [request EXCEPT ![r] = q]
      BY <1>6
  <2> HIDE DEF q
  <2>6. Subject(q)
      BY <1>2, <2>2, <2>3, <2>4, TypedFacts DEF Subject, MessageMethods, OwnMessages, Builders, Sent,
           Transfers
  <2>7. CoinsTyped'
      BY <1>1, TypedFacts DEF Surroundings, CoinsTyped
  <2> QED BY <1>1, <1>6, <2>3, <2>5, <2>6, <2>7, MovesTyped
<1> QED BY <1>3, <1>4, <1>5, <1>6 DEF Build

LEMMA ShowTyped ==
    ASSUME RequestsInv, RequestsInv', SubjectsInv, NEW r \in Requests, Show(r)
    PROVE  SubjectsInv'
<1> DEFINE c == request[r].call
           q == [request[r] EXCEPT !.pc = "wait"]
           view == View(c, request[r].what)
           d == [state |-> "open", pressed |-> {}, shows |-> view]
<1>1. request[r].pc = "show" /\ UNCHANGED <<accounts, spent, known, overwritten, syncing, presses, faults>>
      /\ request' = [request EXCEPT ![r] = q] /\ iface' = [iface EXCEPT ![r] = d] /\ Quiet
    BY DEF Show, At
<1>2. request[r] \in RequestType /\ Subject(request[r]) /\ Surroundings
    BY TypedFacts
<1>3. q \in RequestType /\ q.pc = "wait" /\ q.what = request[r].what /\ q.call = c
      /\ q.signature = request[r].signature
    BY <1>2 DEF RequestType, Steps
<1>4. view.account = c.account
    BY DEF View, PsbtView, MessageView, TransferView
<1>5. c.account \in Accounts
    BY <1>1, Taken, CallsAreTyped DEF OnItsWay, CallType
<1> HIDE DEF q, view
<1>6. TypedDialog(d)
    BY <1>4, <1>5 DEF TypedDialog
<1>7. Subject(q)
    BY <1>1, <1>2, <1>3 DEF Subject, Sent
<1>8. Surroundings'
    BY <1>1, <1>2, QuietSurroundings DEF Quiet, Surroundings, CoinsTyped
<1> QED BY <1>1, <1>3, <1>6, <1>7, <1>8, OneTyped

LEMMA ResumeTyped ==
    ASSUME RequestsInv, RequestsInv', SubjectsInv, NEW r \in Requests, Resume(r) \/ Load(r)
    PROVE  SubjectsInv'
<1>1. request[r].pc \in {"wait", "load"} /\ UNCHANGED <<accounts, spent, known, overwritten, syncing, presses, faults>>
    BY DEF Resume, Load, At
<1>2. Proceed(r) \/ \E error : Throw(r, error)
    BY DEF Resume, Load
<1>3. CoinsTyped'
    BY <1>1, TypedFacts DEF Surroundings, CoinsTyped
<1> QED BY <1>1, <1>2, <1>3, ProceedTyped, ThrowTyped

LEMMA SignTyped ==
    ASSUME RequestsInv, RequestsInv', SubjectsInv, NEW r \in Requests, Sign(r)
    PROVE  SubjectsInv'
<1> DEFINE c == request[r].call
           x == request[r].what
           signed == IF c.method \in MessageMethods THEN x ELSE Signed(x)
           q == [request[r] EXCEPT !.pc = After(c, "sign"), !.signature = x, !.what = signed]
<1>1. request[r].pc = "sign" /\ UNCHANGED <<accounts, spent, known, overwritten, syncing, presses, faults>>
    BY DEF Sign, At
<1>2. request[r] \in RequestType /\ Subject(request[r])
    BY TypedFacts
<1>3. CASE Throw(r, "WalletError")
    BY <1>1, <1>3, ThrowTyped
<1>4. CASE request' = [request EXCEPT ![r] = q] /\ UNCHANGED iface /\ Quiet
  <2>1. x \in IF c.method \in MessageMethods THEN Messages ELSE Psbts
      BY <1>1, <1>2 DEF Subject
  <2>2. x \in Psbts => /\ Signed(x) \in Psbts /\ Signed(x).outs = x.outs
                       /\ Signed(x).coins = x.coins
      BY DEF Signed, Psbts
  <2>3. /\ c.method \in MessageMethods => signed = x /\ signed \in Messages
        /\ c.method \notin MessageMethods => signed = Signed(x) /\ x \in Psbts /\ signed \in Psbts
      BY <2>1, <2>2, MessagesAreNone
  <2>4. /\ q \in RequestType /\ q.pc = (IF c.broadcast THEN "broadcast" ELSE "done")
        /\ q.what = signed /\ q.call = c /\ q.signature = x
      BY <1>2, <2>1, <2>3, StepsAre DEF RequestType, Subjects, After
  <2>5. c.broadcast => c.method \notin MessageMethods
      BY <1>1, CallFits DEF MessageMethods, OwnMessages, Spendings
  <2>6. AsAsked(c, x) /\ x \in Psbts => AsAsked(c, Signed(x))
      BY <2>2 DEF AsAsked, Due
  <2>9. c.method \in Transfers => AsAsked(c, x)
      BY <1>1, <1>2, <2>3 DEF Subject, Transfers, MessageMethods, OwnMessages
  <2> HIDE DEF q, signed
  <2>7. Subject(q)
    <3>1. signed \in Psbts => c.method \notin MessageMethods
        BY <2>3, MessagesAreNone
    <3> QED BY <1>1, <1>2, <2>3, <2>4, <2>5, <2>6, <2>9, <3>1 DEF Subject, Sent
  <2>8. CoinsTyped'
      BY <1>1, TypedFacts DEF Surroundings, CoinsTyped
  <2> QED BY <1>1, <1>4, <2>4, <2>7, <2>8, MovesTyped
<1> QED BY <1>3, <1>4 DEF Sign

LEMMA BroadcastTyped ==
    ASSUME RequestsInv, RequestsInv', SubjectsInv, NEW r \in Requests, Broadcast(r)
    PROVE  SubjectsInv'
<1> DEFINE q == [request[r] EXCEPT !.pc = "record", !.sent = TRUE]
<1>1. request[r].pc = "broadcast" /\ UNCHANGED <<accounts, known, overwritten, syncing, presses, faults>>
    BY DEF Broadcast, At
<1>2. request[r] \in RequestType /\ Subject(request[r]) /\ Surroundings
    BY TypedFacts
<1>3. CASE Throw(r, "ExternalServiceError") /\ UNCHANGED spent
    BY <1>1, <1>3, ThrowTyped
<1>4. CASE /\ spent' = spent \cup request[r].what.coins
           /\ request' = [request EXCEPT ![r] = q] /\ UNCHANGED iface /\ Quiet
  <2>1. q \in RequestType /\ q.pc = "record" /\ q.what = request[r].what
        /\ q.call = request[r].call /\ q.signature = request[r].signature
      BY <1>2 DEF RequestType, Steps
  <2>2. request[r].what.coins \subseteq Coins
      BY <1>1, <1>2 DEF Subject, Psbts
  <2> HIDE DEF q
  <2>3. Subject(q)
      BY <1>1, <1>2, <2>1 DEF Subject, Sent
  <2>4. CoinsTyped'
      BY <1>1, <1>2, <1>4, <2>2 DEF Surroundings, CoinsTyped
  <2> QED BY <1>1, <1>4, <2>1, <2>3, <2>4, MovesTyped
<1> QED BY <1>3, <1>4 DEF Broadcast

LEMMA AnswerLostTyped ==
    ASSUME RequestsInv, RequestsInv', SubjectsInv, NEW r \in Requests, AnswerLost(r)
    PROVE  SubjectsInv'
<1>1. request[r].pc = "broadcast" /\ request[r] \in RequestType /\ Subject(request[r])
      /\ Surroundings
    BY TypedFacts DEF AnswerLost, At
<1>2. request[r].what.coins \subseteq Coins
    BY <1>1 DEF Subject, Psbts
<1>3. reply' \in ReplyType
    BY <1>1, AnswersAreTyped DEF AnswerLost, ReplyType, RequestType
<1>4. faults' \in 0..MaxFaults
    BY <1>1, AccountsAssumption DEF AnswerLost, Fault, Surroundings
<1>5. Surroundings'
    BY <1>1, <1>2, <1>3, <1>4 DEF AnswerLost, Surroundings, CoinsTyped
<1> QED BY <1>5, AnswersAreTyped, OneTyped DEF AnswerLost

LEMMA RecordTyped ==
    ASSUME RequestsInv, RequestsInv', SubjectsInv, NEW r \in Requests, Record(r) \/ Write(r)
    PROVE  SubjectsInv'
<1>1. request[r].pc \in Sent /\ request[r] \in RequestType /\ Subject(request[r]) /\ Surroundings
    BY TypedFacts DEF Record, Write, At, Sent
<1>2. UNCHANGED <<accounts, presses, faults>> /\ CoinsTyped'
  <2>1. request[r].copy \subseteq Coins /\ request[r].what.coins \subseteq Coins
      BY <1>1 DEF Subject, RequestType, Psbts, Sent
  <2> QED BY <1>1, <2>1 DEF Record, Write, Rewrite, Surroundings, CoinsTyped
<1>3. ASSUME NEW q \in RequestType, q.pc \in Sent, q.what = request[r].what,
             q.call = request[r].call, q.signature = request[r].signature,
             request' = [request EXCEPT ![r] = q], UNCHANGED iface, Quiet
      PROVE  SubjectsInv'
  <2>1. Subject(q)
      BY <1>1, <1>3 DEF Subject, Sent
  <2> QED BY <1>2, <1>3, <2>1, MovesTyped
<1>4. CASE Write(r)
  <2> DEFINE q == [request[r] EXCEPT !.pc = "tell", !.copy = {}]
  <2>1. /\ q \in RequestType /\ q.pc = "tell" /\ q.what = request[r].what
        /\ q.call = request[r].call /\ q.signature = request[r].signature
      BY <1>1 DEF RequestType, Steps
  <2>2. request' = [request EXCEPT ![r] = q] /\ UNCHANGED iface /\ Quiet
      BY <1>4 DEF Write
  <2> HIDE DEF q
  <2> QED BY <1>3, <2>1, <2>2 DEF Sent
<1>5. CASE Record(r)
  <2> DEFINE copy == known \cap CoinsOf(request[r].call.account)
             reads == [request[r] EXCEPT !.pc = "write", !.copy = copy]
             skips == [request[r] EXCEPT !.pc = "tell"]
  <2>1. copy \in SUBSET Coins
      BY <1>1 DEF Surroundings, CoinsTyped
  <2>2. \/ Throw(r, "StorageError") /\ UNCHANGED <<spent, known, overwritten, syncing>>
        \/ request' = [request EXCEPT ![r] = reads] /\ UNCHANGED iface /\ Quiet
        \/ request' = [request EXCEPT ![r] = skips] /\ UNCHANGED iface /\ Quiet
      BY <1>5 DEF Record
  <2> HIDE DEF copy
  <2>3. /\ reads \in RequestType /\ reads.pc = "write" /\ reads.what = request[r].what
        /\ reads.call = request[r].call /\ reads.signature = request[r].signature
      BY <1>1, <2>1 DEF RequestType, Steps
  <2>4. /\ skips \in RequestType /\ skips.pc = "tell" /\ skips.what = request[r].what
        /\ skips.call = request[r].call /\ skips.signature = request[r].signature
      BY <1>1 DEF RequestType, Steps
  <2> HIDE DEF reads, skips
  <2> QED BY <1>2, <1>3, <2>2, <2>3, <2>4, ThrowTyped DEF Sent
<1> QED BY <1>4, <1>5

LEMMA FinishTyped ==
    ASSUME RequestsInv, RequestsInv', SubjectsInv, NEW r \in Requests, Finish(r)
    PROVE  SubjectsInv'
<1>1. "ok" \in Answers
    BY DEF Answers
<1> QED BY <1>1, AnswerTyped, ThrowTyped DEF Finish

LEMMA FailTyped ==
    ASSUME RequestsInv, RequestsInv', SubjectsInv, NEW r \in Requests, Fail(r)
    PROVE  SubjectsInv'
<1>1. UNCHANGED <<accounts, spent, known, overwritten, syncing, presses>> /\ Fault
    BY DEF Fail
<1>2. Throw(r, "ExternalServiceError") \/ Throw(r, "Error")
    BY DEF Fail
<1> QED BY <1>1, <1>2, ThrowTyped

\* Every step keeps the types, and what a request works on as it should be.
LEMMA SubjectsStep == RequestsInv /\ SubjectsInv /\ [Next]_vars => SubjectsInv'
<1> SUFFICES ASSUME RequestsInv, SubjectsInv, [Next]_vars PROVE SubjectsInv'
    OBVIOUS
<1>0. RequestsInv'
    BY RequestsStep
<1>1. ASSUME NEW a \in Accounts, Delete(a) PROVE SubjectsInv'
    BY <1>1, DeleteTyped
<1>2. ASSUME NEW a \in Accounts, SyncRead(a) \/ SyncWrite(a) PROVE SubjectsInv'
    BY <1>0, <1>2, SyncTyped
<1>3. CASE Restart
    BY <1>3, RestartTyped
<1>4. ASSUME NEW r \in Requests, CloseDialog(r) PROVE SubjectsInv'
    BY <1>0, <1>4, CloseDialogTyped
<1>5. ASSUME NEW r \in Requests, NEW b \in Buttons, Press(r, b) \/ OnChange(r, b)
      PROVE  SubjectsInv'
    BY <1>0, <1>5, PressTyped, OnChangeTyped
<1>6. ASSUME NEW r \in Requests, Advance(r) PROVE SubjectsInv'
    BY <1>0, <1>6, GetTyped, NoUtxoTyped, BuildTyped, ShowTyped, ResumeTyped, SignTyped,
       BroadcastTyped, RecordTyped, FinishTyped DEF Advance
<1>7. ASSUME NEW r \in Requests, AnswerLost(r) \/ Fail(r) PROVE SubjectsInv'
    BY <1>0, <1>7, AnswerLostTyped, FailTyped
<1>8. ASSUME NEW r \in Requests, NEW c \in Asked[r], Route(r, c) PROVE SubjectsInv'
    BY <1>0, <1>8, RouteTyped
<1>9. CASE UNCHANGED vars
    BY <1>9 DEF vars, SubjectsInv, TypeOK, At
<1> QED BY <1>1, <1>2, <1>3, <1>4, <1>5, <1>6, <1>7, <1>8, <1>9 DEF Next

LEMMA SubjectsAlways == Spec => []SubjectsInv
BY RequestsInit, RequestsStep, SubjectsInit, SubjectsStep, PTL DEF Spec

\* Requests, dialogs and answers keep their types, and a dialog is open only while
\* its request waits: for any coins, scripts, calls and failures.
THEOREM RequestsTyped == Spec => []TypeOK
<1>1. SubjectsInv => TypeOK
    BY DEF SubjectsInv
<1> QED BY <1>1, SubjectsAlways, PTL

\* What is shown, signed and answered pays what was asked for: the recipient of a
\* transfer gets the amount, or of a drained wallet the amount less the fee, and nobody
\* else is paid; of a template, the others are paid as it says, in its order, and none of
\* its outputs is dropped (AccountUseCases.#fillPsbt, sendTransfer,
\* SendFlowUseCases.confirmSendFlow).  Whatever coins the library selects.
THEOREM BuiltRight == Spec => []BuiltAsAsked
<1>1. SubjectsInv => BuiltAsAsked
  <2> SUFFICES ASSUME SubjectsInv, NEW r \in Requests, ~Free(r), ~At(r, "build"),
                      request[r].what \in Psbts, request[r].call.method # "broadcastPsbt",
                      request[r].call.method = "signPsbt" => request[r].call.fill
               PROVE  AsAsked(request[r].call, request[r].what)
      BY DEF BuiltAsAsked
  <2>1. request[r].pc # "get"
      BY TypedFacts, NoneAssumption DEF Subject, Subjects
  <2> QED BY <2>1, TypedFacts DEF Subject, Free, At
<1> QED BY <1>1, SubjectsAlways, PTL

\* Nothing is signed that the user was not shown and did not confirm, except messages
\* that name the account and the client's own transactions; and a transfer that is signed
\* pays the recipient and the amount the user was shown.  Of whatever calls come, and
\* whatever happens while the dialog is open (KeyringRequestHandler, AccountUseCases).
THEOREM SignedWasConfirmed == Spec => []SignedIsConfirmed
<1>1. RequestsInv /\ SubjectsInv => SignedIsConfirmed
  <2> SUFFICES ASSUME RequestsInv, SubjectsInv, NEW r \in Requests,
                      request[r].signature # None
               PROVE  /\ Authorised(request[r].call, request[r].signature, iface[r])
                      /\ request[r].call.method \in Transfers =>
                            AsAsked(request[r].call, request[r].signature)
      BY DEF SignedIsConfirmed, Authorised
  <2> QED BY Taken, TypedFacts DEF Authority, Subject
<1> QED BY <1>1, RequestsAlways, SubjectsAlways, PTL
=============================================================================
