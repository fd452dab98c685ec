------------------------------ MODULE Requests ------------------------------
(***************************************************************************)
(* Requests to use an account: KeyringRequestHandler (dapps), the requests *)
(* of the client itself (RpcHandler), the operations of AccountUseCases    *)
(* they run, the confirmations they ask the user for, and the errors they  *)
(* are answered with (HandlerMiddleware).                                  *)
(*                                                                         *)
(* Requests overlap.  Each works on the account as it was when it was      *)
(* loaded; the user takes time to answer, and meanwhile other requests     *)
(* spend coins, or the account is deleted.                                 *)
(*                                                                         *)
(* Abstractions.  A request is a record of its parameters; whether they    *)
(* match the struct of the method is the field wellFormed.  Transactions   *)
(* and amounts are those of PsbtBuilder.  The coins a transaction creates  *)
(* are not spent again.  Frozen outputs are left out: no                   *)
(* MetaProtocolsClient is configured, so there are none.  Every account    *)
(* has every capability (BdkAccountAdapter).  An update stages nothing     *)
(* where the transaction is not the account's; the writes of a             *)
(* synchronisation and of another request may fall between its read and    *)
(* its write.                                                              *)
(***************************************************************************)
EXTENDS PsbtBuilder

CONSTANTS
    Messages,       \* what may be signed: records of form, address, spelling
    Bech32,         \* accounts whose address may be spelled in capitals
    Requests,       \* slots for requests in progress: a bound on their number
    Asked,          \* the requests that may come in each slot
    MaxFaults,      \* bound on failed calls of the host or the chain, and restarts
    None

KeyringMethods == {"signPsbt", "fillPsbt", "computeFee", "broadcastPsbt", "sendTransfer",
                   "getUtxo", "listUtxos", "publicDescriptor", "signMessage"}
RpcMethods == {"signAndSend", "confirmSend", "signRewards", "signProof",
               "onAddressInput", "onAmountInput"}
Methods == KeyringMethods \cup RpcMethods
\* What the user has to confirm, in a dialog that shows it.
Confirmed == {"signPsbt", "sendTransfer", "signMessage", "confirmSend"}
OwnMessages == {"signRewards", "signProof"}
MessageMethods == {"signMessage"} \cup OwnMessages
\* What is built to pay a recipient.
Transfers == {"sendTransfer", "confirmSend"}
\* What is validated while the user types.
Inputs == {"onAddressInput", "onAmountInput"}
Spendings == {"signAndSend", "confirmSend", "sendTransfer", "broadcastPsbt"}

CallType == [method : Methods \cup {"unknown"}, account : Accounts, wellFormed : BOOLEAN,
             psbt : Psbts \cup {None}, fill : BOOLEAN, broadcast : BOOLEAN,
             recipient : Scripts \cup {None}, amount : Nat, message : Messages \cup {None}]

MessageType == [form : {"plain", "rewards", "proof"}, of : Accounts \cup {Nobody},
                spelling : {"canonical", "other"}]
Subjects == Psbts \cup Messages
Calls == UNION {Asked[r] : r \in Requests}

ASSUME CallAssumption == Asked \in [Requests -> SUBSET CallType] /\ Messages \subseteq MessageType
ASSUME AccountsAssumption == Bech32 \subseteq Accounts /\ MaxFaults \in Nat
ASSUME NoneAssumption == None \notin Subjects \cup Scripts
\* Parameters fit their method (the types of its struct).
ASSUME FitAssumption ==
    \A c \in Calls :
        /\ c.method \in MessageMethods <=> c.message # None
        /\ c.method \in Spendings => c.broadcast
        /\ c.broadcast => c.method \in Spendings \cup {"signPsbt"}

VARIABLES
    accounts,   \* the accounts there are
    spent,      \* coins spent on the chain
    known,      \* coins the persisted wallets know to be spent
    overwritten, \* coins they knew to be spent until a write dropped that, and do not know yet
    syncing,    \* what a synchronisation of each account is about to write, or None
    iface,      \* the dialog of each request: what it shows, and the user's answer
    presses,    \* presses of buttons UserInputHandler has yet to handle
    request,    \* what each slot is doing
    reply,      \* the request the last step answered, if it did
    faults      \* failures so far

vars == <<accounts, spent, known, overwritten, syncing, iface, presses, request, reply, faults>>

-----------------------------------------------------------------------------
Steps == {"idle", "get", "build", "show", "wait", "load", "sign", "broadcast", "record",
          "write", "tell", "done"}
Buttons == {"confirm", "cancel"}
Closed == [state |-> "closed", shows |-> None, pressed |-> {}]
Idle == [pc |-> "idle", call |-> None, what |-> None, signature |-> None, sent |-> FALSE,
         copy |-> {}]
NoReply == [answer |-> "none", call |-> None, what |-> None, sent |-> FALSE]

Free(r) == request[r].pc = "idle"
At(r, s) == request[r].pc = s
Wallet(a) == CoinsOf(a) \ known
Fault == faults < MaxFaults /\ faults' = faults + 1
Quiet == reply' = NoReply

\* The order of the steps of each method.  "get" loads the account for a look,
\* "load" anew to sign with it; a transaction is built on an account loaded for it.
First(c) ==
    IF c.method \in {"fillPsbt", "computeFee", "sendTransfer", "signAndSend", "confirmSend"}
    THEN "build" ELSE "get"

\* Mutant: the PSBT is filled again, after the user has confirmed it.
AfterRefill(c, s) ==
    CASE s = "get" -> CASE c.method = "signPsbt" -> "show"
                        [] c.method = "signMessage" -> "show"
                        [] c.method = "broadcastPsbt" -> "broadcast"
                        [] c.method \in OwnMessages -> "load"
                        [] OTHER -> "done"
      [] s = "build" -> CASE c.method \in {"signAndSend", "signPsbt"} -> "sign"
                          [] c.method \in Confirmed -> "show"
                          [] OTHER -> "done"
      [] s = "wait" -> IF c.method = "signPsbt" /\ c.fill THEN "build"
                       ELSE IF c.method \in {"signPsbt", "confirmSend"} THEN "load" ELSE "sign"
      [] s = "load" -> "sign"
      [] s = "sign" -> IF c.broadcast THEN "broadcast" ELSE "done"
      [] s = "broadcast" -> "record"
      [] s = "write" -> "tell"
      [] OTHER -> "done"

After(c, s) ==
    CASE s = "get" -> CASE c.method = "signPsbt" -> IF c.fill THEN "build" ELSE "show"
                        [] c.method = "signMessage" -> "show"
                        [] c.method = "broadcastPsbt" -> "broadcast"
                        [] c.method \in OwnMessages -> "load"
                        [] OTHER -> "done"
      [] s = "build" -> CASE c.method \in Confirmed -> "show"
                          [] c.method = "signAndSend" -> "sign"
                          [] OTHER -> "done"
      [] s = "wait" -> IF c.method \in {"signPsbt", "confirmSend"} THEN "load" ELSE "sign"
      [] s = "load" -> "sign"
      [] s = "sign" -> IF c.broadcast THEN "broadcast" ELSE "done"
      [] s = "broadcast" -> "record"
      [] s = "write" -> "tell"
      [] OTHER -> "done"

-----------------------------------------------------------------------------
(* Errors and answers.                                                     *)

Errors == {"FormatError", "StructError", "ValidationError", "NotFoundError",
           "InexistentMethodError", "UserActionError", "ExternalServiceError", "WalletError",
           "StorageError", "Error"}

\* Mutant: an inconsistent state is reported as an account that does not exist.
HostErrorMissing(error) ==
    CASE error \in {"FormatError", "StructError"} -> "InvalidInput"
      [] error = "ValidationError" -> "InvalidParams"
      [] error \in {"NotFoundError", "StorageError"} -> "ResourceNotFound"
      [] error = "InexistentMethodError" -> "MethodNotFound"
      [] error = "UserActionError" -> "UserRejectedRequest"
      [] error = "ExternalServiceError" -> "Disconnected"
      [] error = "WalletError" -> "Internal"
      [] OTHER -> "SnapError"

\* HandlerMiddleware: what the client is told for each class of errors.
HostError(error) ==
    CASE error \in {"FormatError", "StructError"} -> "InvalidInput"
      [] error = "ValidationError" -> "InvalidParams"
      [] error = "NotFoundError" -> "ResourceNotFound"
      [] error = "InexistentMethodError" -> "MethodNotFound"
      [] error = "UserActionError" -> "UserRejectedRequest"
      [] error = "ExternalServiceError" -> "Disconnected"
      [] error \in {"WalletError", "StorageError"} -> "Internal"
      [] OTHER -> "SnapError"

\* "User errors that he can rectify: Equivalent to 4xx errors", and the error codes
\* of the send flow.
Rectifiable == {"InvalidInput", "InvalidParams", "ResourceNotFound", "MethodNotFound",
                "UserRejectedRequest", "Invalid", "InsufficientBalance",
                "InsufficientBalanceToCoverFee"}
Answers == Rectifiable \cup {"none", "ok", "Disconnected", "Internal", "SnapError"}

\* The handler is over; its dialog is closed by now, or the host closes it.
Answer(r, answer) ==
    /\ request' = [request EXCEPT ![r] = Idle]
    /\ reply' = [answer |-> answer, call |-> request[r].call, what |-> request[r].what,
                 sent |-> request[r].sent]
    /\ iface' = [iface EXCEPT ![r] = Closed]

Throw(r, error) == Answer(r, HostError(error))

Proceed(r) ==
    /\ request' = [request EXCEPT ![r].pc = After(request[r].call, @)]
    /\ UNCHANGED iface /\ Quiet

\* validateAmount, validateAddress, validateDustLimit, validateAccountBalance
InvalidAmount(c) == c.amount = 0
InvalidAddress(c) == c.recipient = None
BelowDust(c) == c.amount < Dust
ExceedsBalance(c, wallet) == c.amount > Worth(wallet)

\* confirmSend validates both of its fields,
InputError(c, wallet) ==
    IF InvalidAmount(c) \/ InvalidAddress(c) \/ BelowDust(c) THEN "Invalid"
    ELSE IF ExceedsBalance(c, wallet) THEN "InsufficientBalance"
    ELSE "ok"

\* onAddressInput and onAmountInput one each, while the user types.
FieldError(c, wallet) ==
    IF c.method = "onAddressInput" THEN IF InvalidAddress(c) THEN "Invalid" ELSE "ok"
    ELSE IF InvalidAmount(c) \/ BelowDust(c) THEN "Invalid"
    ELSE IF ExceedsBalance(c, wallet) THEN "InsufficientBalance"
    ELSE "ok"

\* canonicalizeBitcoinAddress
Canonical(a, spelling) == IF a \in Bech32 THEN "canonical" ELSE spelling

\* parseRewardsMessage, parseProofOfOwnershipMessage
Parses(c) == c.message.form = IF c.method = "signRewards" THEN "rewards" ELSE "proof"

\* The parsers throw a plain Error; then the address in the message has to be the
\* account's: as it is spelled, for rewards, and in its canonical form for a proof
\* of ownership.
MessageError(c) ==
    LET spelling == IF c.method = "signProof" THEN Canonical(c.account, c.message.spelling)
                    ELSE c.message.spelling
    IN  IF ~Parses(c) THEN "Error"
        ELSE IF c.message.of # c.account \/ spelling # "canonical" THEN "ValidationError"
        ELSE "ok"

-----------------------------------------------------------------------------
Init ==
    /\ accounts = Accounts
    /\ spent = {} /\ known = {} /\ overwritten = {}
    /\ syncing = [a \in Accounts |-> None]
    /\ iface = [r \in Requests |-> Closed]
    /\ presses = {}
    /\ request = [r \in Requests |-> Idle]
    /\ reply = NoReply
    /\ faults = 0

(* The surroundings.                                                       *)

\* AccountUseCases.delete (AccountStore).
Delete(a) ==
    /\ a \in accounts
    /\ accounts' = accounts \ {a}
    /\ UNCHANGED <<spent, known, overwritten, syncing, iface, presses, request, faults>> /\ Quiet

\* update writes the whole wallet of the account: what others have written since it
\* was read is lost.
Rewrite(a, coins) ==
    /\ known' = (known \ CoinsOf(a)) \cup coins
    /\ overwritten' = (overwritten \cup known) \ known'

\* A synchronisation (WalletSync) has learnt some of what is spent, and its update
\* reads the wallet that is persisted; then it writes it.
SyncRead(a) ==
    /\ a \in accounts /\ syncing[a] = None
    /\ \E learnt \in SUBSET (spent \cap CoinsOf(a)) :
          syncing' = [syncing EXCEPT ![a] = (known \cap CoinsOf(a)) \cup learnt]
    /\ UNCHANGED <<accounts, spent, known, overwritten, iface, presses, request, faults>> /\ Quiet

SyncWrite(a) ==
    /\ syncing[a] # None
    /\ Rewrite(a, syncing[a])
    /\ syncing' = [syncing EXCEPT ![a] = None]
    /\ UNCHANGED <<accounts, spent, iface, presses, request, faults>> /\ Quiet

\* The user presses a button of a dialog, more than one if he is quick.
Press(r, button) ==
    /\ iface[r].state = "open" /\ button \notin iface[r].pressed
    /\ iface' = [iface EXCEPT ![r].pressed = @ \cup {button}]
    /\ presses' = presses \cup {<<r, button>>}
    /\ UNCHANGED <<accounts, spent, known, overwritten, syncing, request, faults>> /\ Quiet

\* The user closes the dialog: displayConfirmation resolves with null.
CloseDialog(r) ==
    /\ iface[r].state = "open"
    /\ iface' = [iface EXCEPT ![r].state = "no"]
    /\ UNCHANGED <<accounts, spent, known, overwritten, syncing, presses, request, faults>> /\ Quiet

\* ConfirmationUseCases.onChange; the host refuses to resolve a dialog twice.
OnChange(r, button) ==
    /\ <<r, button>> \in presses
    /\ presses' = presses \ {<<r, button>>}
    /\ iface' = IF iface[r].state = "open"
                THEN [iface EXCEPT ![r].state = IF button = "confirm" THEN "yes" ELSE "no"]
                ELSE iface
    /\ UNCHANGED <<accounts, spent, known, overwritten, syncing, request, faults>> /\ Quiet

-----------------------------------------------------------------------------
(* The steps of a request.                                                 *)

\* The method is routed and its parameters are checked against its struct.
Route(r, c) ==
    /\ Free(r)
    /\ IF c.method \notin Methods \/ ~c.wellFormed
       THEN /\ reply' = [NoReply EXCEPT !.call = c, !.answer =
                  HostError(IF c.method \in Methods THEN "StructError" ELSE "InexistentMethodError")]
            /\ UNCHANGED request
       ELSE request' = [request EXCEPT ![r] = [Idle EXCEPT !.call = c, !.pc = First(c)]] /\ Quiet
    /\ UNCHANGED <<accounts, spent, known, overwritten, syncing, iface, presses, faults>>

\* What is checked around the loading of the account, in this order.
GetError(c) ==
    IF c.method = "broadcastPsbt" /\ c.psbt = None THEN "FormatError"
    ELSE IF c.method \in OwnMessages /\ MessageError(c) = "Error" THEN "Error"
    ELSE IF c.account \notin accounts THEN "NotFoundError"
    ELSE IF c.method \in OwnMessages /\ MessageError(c) # "ok" THEN "ValidationError"
    ELSE IF c.method = "signPsbt" /\ c.psbt = None THEN "FormatError"
    ELSE IF c.method = "broadcastPsbt" /\ ~c.psbt.final THEN "ValidationError"
    ELSE "ok"

\* The account as it is persisted now, and the checks that come with it.  What the
\* client validates while the user types is answered and never thrown.
Get(r) ==
    LET c == request[r].call IN
    /\ At(r, "get")
    /\ IF c.method \in Inputs
       THEN Answer(r, IF c.account \in accounts THEN FieldError(c, Wallet(c.account))
                      ELSE "Invalid")
       ELSE IF GetError(c) # "ok" THEN Throw(r, GetError(c))
       ELSE /\ request' = [request EXCEPT ![r].pc = After(c, "get"),
                              ![r].what = IF c.message # None THEN c.message ELSE c.psbt]
            /\ UNCHANGED iface /\ Quiet
    /\ UNCHANGED <<accounts, spent, known, overwritten, syncing, presses, faults>>

\* getUtxo: the outpoint is malformed, or not one of the account's.
NoUtxo(r) ==
    /\ At(r, "get") /\ request[r].call.method = "getUtxo"
    /\ Throw(r, "ValidationError") \/ Throw(r, "NotFoundError")
    /\ UNCHANGED <<accounts, spent, known, overwritten, syncing, presses, faults>>

\* The transactions a call may come up with on the account as it is now.
Candidates(c) ==
    LET wallet == Wallet(c.account)
    IN  CASE c.method = "sendTransfer" ->
               IF c.recipient = None THEN {}
               ELSE Transfer(c.account, wallet, c.recipient, c.amount)
          [] c.method = "confirmSend" -> SendFlowTransfer(c.account, wallet, c.recipient, c.amount)
          [] OTHER -> Filled(c.account, wallet, c.psbt.outs)

\* What a failing builder throws: confirmSend answers an error whose message says
\* "Insufficient funds" as funds that do not cover the fee, and throws any other
\* (no other error has those words); #fillPsbt wraps the error, sendTransfer does not.
BuildErrors(c) ==
    CASE c.method = "confirmSend" -> {"InsufficientBalanceToCoverFee", HostError("Error")}
      [] c.method = "sendTransfer" -> {HostError(IF c.recipient = None THEN "ValidationError"
                                                 ELSE "Error")}
      [] OTHER -> {HostError("ValidationError")}

BuildFails(c) ==
    IF c.method \in Transfers THEN Candidates(c) = {}
    ELSE FillThrows(c.account, Wallet(c.account), c.psbt.outs)

\* The account is loaded, and a transaction built on it.
Build(r) ==
    LET c == request[r].call IN
    /\ At(r, "build")
    /\ \/ /\ c.method \notin Transfers /\ c.psbt = None
          /\ Throw(r, "FormatError")
       \/ /\ c.method \in Transfers \/ c.psbt # None
          /\ IF c.account \notin accounts THEN Throw(r, "NotFoundError")
             ELSE IF c.method = "confirmSend" /\ InputError(c, Wallet(c.account)) # "ok"
             THEN Answer(r, InputError(c, Wallet(c.account)))
             ELSE \/ BuildFails(c) /\ \E answer \in BuildErrors(c) : Answer(r, answer)
                  \/ \E tx \in Candidates(c) :
                        /\ request' = [request EXCEPT ![r].pc = After(c, "build"), ![r].what = tx]
                        /\ UNCHANGED iface /\ Quiet
    /\ UNCHANGED <<accounts, spent, known, overwritten, syncing, presses, faults>>

\* SignPsbtConfirmationView: the PSBT, whose outputs are labelled, and the options.
PsbtView(c, psbt) ==
    [account |-> c.account, what |-> psbt, fill |-> c.fill, broadcast |-> c.broadcast,
     labels |-> [i \in DOMAIN psbt.outs |-> IF IsMine(c.account, psbt.outs[i])
                                            THEN "change" ELSE "toAddress"]]

\* SignMessageConfirmationView
MessageView(c, message) == [account |-> c.account, what |-> message]

\* UnifiedSendFormView: of the PSBT, the dialog shows the fee.
TransferView(c, psbt) ==
    [account |-> c.account, recipient |-> c.recipient, amount |-> c.amount,
     fee |-> Worth(psbt.coins) - Total(psbt.outs),
     selfSend |-> ScriptOwner[c.recipient] = c.account]

\* insertSignPsbt, insertSignMessage, insertSendTransfer (and insertConfirmSendForm):
\* what the dialog of a request shows.
View(c, what) ==
    CASE c.method = "signPsbt" -> PsbtView(c, what)
      [] c.method = "signMessage" -> MessageView(c, what)
      [] OTHER -> TransferView(c, what)

\* createInterface and displayConfirmation (displayUserPrompt).  Dialogs have ids of
\* their own: presses on the slot's dialog before have been handled by now.
Show(r) ==
    /\ At(r, "show")
    /\ \A b \in Buttons : <<r, b>> \notin presses
    /\ iface' = [iface EXCEPT ![r] = [state |-> "open", pressed |-> {},
                                      shows |-> View(request[r].call, request[r].what)]]
    /\ request' = [request EXCEPT ![r].pc = "wait"]
    /\ UNCHANGED <<accounts, spent, known, overwritten, syncing, presses, faults>> /\ Quiet

\* Mutant: the handler does not wait for its dialog to be resolved.
ResumeOnPress(r) ==
    /\ At(r, "wait") /\ iface[r].pressed # {}
    /\ IF "confirm" \in iface[r].pressed THEN Proceed(r) ELSE Throw(r, "UserActionError")
    /\ UNCHANGED <<accounts, spent, known, overwritten, syncing, presses, faults>>

\* The promise of displayConfirmation settles.
Resume(r) ==
    /\ At(r, "wait") /\ iface[r].state \in {"yes", "no"}
    /\ IF iface[r].state = "yes" THEN Proceed(r) ELSE Throw(r, "UserActionError")
    /\ UNCHANGED <<accounts, spent, known, overwritten, syncing, presses, faults>>

\* getWithSigner, and get of signMessage: the account may be gone by now.
Load(r) ==
    /\ At(r, "load")
    /\ IF request[r].call.account \in accounts THEN Proceed(r) ELSE Throw(r, "NotFoundError")
    /\ UNCHANGED <<accounts, spent, known, overwritten, syncing, presses, faults>>

\* account.sign, or Signer.sign of a message.
Sign(r) ==
    LET c == request[r].call
        what == request[r].what IN
    /\ At(r, "sign")
    /\ IF c.method \in MessageMethods \/ Signable(c.account, what)
       THEN /\ request' = [request EXCEPT ![r].pc = After(c, "sign"), ![r].signature = what,
                              ![r].what = IF c.method \in MessageMethods THEN what ELSE Signed(what)]
            /\ UNCHANGED iface /\ Quiet
       ELSE Throw(r, "WalletError")
    /\ UNCHANGED <<accounts, spent, known, overwritten, syncing, presses, faults>>

\* The chain takes the transaction, or refuses what spends spent coins.
Broadcast(r) ==
    /\ At(r, "broadcast")
    /\ IF request[r].what.coins \cap spent = {}
       THEN /\ spent' = spent \cup request[r].what.coins
            /\ request' = [request EXCEPT ![r].pc = "record", ![r].sent = TRUE]
            /\ UNCHANGED iface /\ Quiet
       ELSE Throw(r, "ExternalServiceError") /\ UNCHANGED spent
    /\ UNCHANGED <<accounts, known, overwritten, syncing, presses, faults>>

\* The chain takes the transaction, and its answer is lost.
AnswerLost(r) ==
    /\ At(r, "broadcast") /\ request[r].what.coins \cap spent = {} /\ Fault
    /\ spent' = spent \cup request[r].what.coins
    /\ request' = [request EXCEPT ![r] = Idle]
    /\ reply' = [answer |-> HostError("ExternalServiceError"), call |-> request[r].call,
                 what |-> request[r].what, sent |-> TRUE]
    /\ iface' = [iface EXCEPT ![r] = Closed]
    /\ UNCHANGED <<accounts, known, overwritten, syncing, presses>>

\* applyUnconfirmedTx and update: nothing is staged where the transaction is not the
\* account's, an account that is gone cannot be updated, and else the wallet that is
\* persisted is read,
Record(r) ==
    LET own == request[r].call.account IN
    /\ At(r, "record")
    /\ IF ~Touches(own, request[r].what)
       THEN request' = [request EXCEPT ![r].pc = "tell"] /\ UNCHANGED iface /\ Quiet
       ELSE IF own \in accounts
       THEN /\ request' = [request EXCEPT ![r].pc = "write", ![r].copy = known \cap CoinsOf(own)]
            /\ UNCHANGED iface /\ Quiet
       ELSE Throw(r, "StorageError")
    /\ UNCHANGED <<accounts, spent, known, overwritten, syncing, presses, faults>>

\* Mutant: what is staged is not merged into what was read.
WriteWhatWasRead(r) ==
    /\ At(r, "write")
    /\ Rewrite(request[r].call.account, request[r].copy)
    /\ request' = [request EXCEPT ![r].pc = "tell", ![r].copy = {}]
    /\ UNCHANGED <<accounts, spent, syncing, iface, presses, faults>> /\ Quiet

\* and written, with the transaction.
Write(r) ==
    LET own == request[r].call.account IN
    /\ At(r, "write")
    /\ Rewrite(own, request[r].copy \cup (request[r].what.coins \cap CoinsOf(own)))
    /\ request' = [request EXCEPT ![r].pc = "tell", ![r].copy = {}]
    /\ UNCHANGED <<accounts, spent, syncing, iface, presses, faults>> /\ Quiet

\* The client has been told of the balance and the transaction, or there was nothing
\* to tell, and the request is answered.  confirmSendFlow extracts the transaction
\* once more.
Finish(r) ==
    /\ request[r].pc \in {"tell", "done"}
    /\ IF request[r].call.method = "confirmSend" /\ ~request[r].what.final
       THEN Throw(r, "ValidationError")
       ELSE Answer(r, "ok")
    /\ UNCHANGED <<accounts, spent, known, overwritten, syncing, presses, faults>>

\* A call of the host fails, or one of the chain.
Fail(r) ==
    /\ ~Free(r) /\ ~At(r, "wait") /\ ~At(r, "done") /\ Fault
    /\ At(r, "sign") => request[r].call.method \in MessageMethods
    /\ IF At(r, "broadcast") THEN Throw(r, "ExternalServiceError")
       ELSE \/ At(r, "build") /\ Throw(r, "ExternalServiceError")
            \/ Throw(r, "Error")
    /\ UNCHANGED <<accounts, spent, known, overwritten, syncing, presses>>

\* The snap is terminated: the requests fail, and the host closes the dialogs.
Restart ==
    /\ Fault
    /\ request' = [r \in Requests |-> Idle]
    /\ iface' = [r \in Requests |-> Closed]
    /\ presses' = {}
    /\ syncing' = [a \in Accounts |-> None]
    /\ UNCHANGED <<accounts, spent, known, overwritten>> /\ Quiet

Advance(r) ==
    \/ Get(r) \/ NoUtxo(r) \/ Build(r) \/ Show(r) \/ Resume(r) \/ Load(r) \/ Sign(r) \/ Broadcast(r)
    \/ Record(r) \/ Write(r) \/ Finish(r)

Next ==
    \/ \E a \in Accounts : Delete(a) \/ SyncRead(a) \/ SyncWrite(a)
    \/ Restart
    \/ \E r \in Requests : CloseDialog(r) \/ \E b \in Buttons : Press(r, b) \/ OnChange(r, b)
    \/ \E r \in Requests : Advance(r) \/ AnswerLost(r) \/ Fail(r) \/ \E c \in Asked[r] : Route(r, c)

Spec == Init /\ [][Next]_vars

-----------------------------------------------------------------------------
(* Properties.                                                             *)

RequestType == [pc : Steps, call : Calls \cup {None}, what : Subjects \cup {None},
                signature : Subjects \cup {None}, sent : BOOLEAN,
                copy : SUBSET Coins]
ReplyType == [answer : Answers, call : Calls \cup {None}, what : Subjects \cup {None},
              sent : BOOLEAN]

\* The variables keep their types, and a dialog is open only while its request
\* waits for it.
TypeOK ==
    /\ accounts \subseteq Accounts
    /\ spent \subseteq Coins /\ known \subseteq Coins /\ overwritten \subseteq Coins
    /\ syncing \in [Accounts -> (SUBSET Coins) \cup {None}]
    /\ \A r \in Requests :
          /\ iface[r].state \in {"closed", "open", "yes", "no"} /\ iface[r].pressed \subseteq Buttons
          /\ iface[r].shows # None => iface[r].shows.account \in Accounts
          /\ iface[r].state = "open" => At(r, "wait")
    /\ presses \subseteq Requests \X Buttons
    /\ request \in [Requests -> RequestType]
    /\ reply \in ReplyType
    /\ faults \in 0..MaxFaults

\* What a transaction that was built for a call pays.  For a transfer: the amount to
\* the recipient (of a whole wallet sent with confirmSend, the amount less the fee)
\* and nothing to anybody else, the rest going to the account's change.  For a
\* template: its outputs to others in its order, and none of its outputs dropped.
Due(c, tx) ==
    IF c.method = "confirmSend" /\ Worth(tx.coins) = c.amount THEN c.amount - Fee ELSE c.amount

AsAsked(c, tx) ==
    IF c.method \in Transfers
    THEN \E i \in DOMAIN tx.outs :
            /\ tx.outs[i] = [to |-> c.recipient, value |-> Due(c, tx)]
            /\ \A j \in DOMAIN tx.outs \ {i} : tx.outs[j].to = ChangeScript[c.account]
    ELSE /\ Others(c.account, tx.outs) = Others(c.account, c.psbt.outs)
         /\ Len(tx.outs) >= Len(c.psbt.outs)

\* A signature was confirmed by the user on the request's own dialog.  That showed the
\* account and the very thing that was signed; for a transfer, which is not shown
\* itself, its fee, and the recipient and amount that it pays.  What is signed without
\* a dialog is a message that names the account, or the client's own transaction
\* (signAndSendTransaction).
SignedIsConfirmed ==
    \A r \in Requests :
        LET c == request[r].call
            signed == request[r].signature
        IN  ~Free(r) /\ signed # None =>
              CASE c.method \in Confirmed ->
                     /\ iface[r].shows = View(c, signed)
                     /\ "confirm" \in iface[r].pressed
                     /\ c.method \in Transfers => AsAsked(c, signed)
                [] c.method \in OwnMessages ->
                     /\ signed.of = c.account
                     /\ Canonical(c.account, signed.spelling) = "canonical"
                [] OTHER -> c.method = "signAndSend"

\* The error classes a client can rectify leave nothing behind: after such an answer
\* the request may be repeated, and nothing is sent twice.
RectifiableIsHarmless == reply.answer \in Rectifiable => ~reply.sent

\* A transaction id is answered for a transaction that is on the chain, and whose coins
\* the persisted wallet of the account knows to be spent, so that the next request does
\* not choose them again; unless that was written, and an update of the same account
\* that had read the wallet before (of a synchronisation, or of another request) has
\* written over it since.
SentIsRecorded ==
    reply.answer = "ok" /\ reply.call.broadcast =>
        reply.sent /\ reply.what.coins \cap CoinsOf(reply.call.account) \subseteq known \cup overwritten

\* A transaction that was built pays what was asked for, from then on until it is
\* answered: the recipient of a transfer gets all of the amount, and the outputs of a
\* template are paid in its order.
BuiltAsAsked ==
    \A r \in Requests :
        LET c == request[r].call
            tx == request[r].what
        IN  ~Free(r) /\ tx \in Psbts /\ c.method # "broadcastPsbt"
              /\ (c.method = "signPsbt" => c.fill) /\ ~At(r, "build") => AsAsked(c, tx)
=============================================================================
