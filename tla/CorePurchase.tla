---------------------------- MODULE CorePurchase ----------------------------
(***************************************************************************)
(* A purchase when the gateway delegates payments to the Spring Core: the  *)
(* claims and SMS the gateway forwards (CorePaymentClient), the Core's     *)
(* transactions on PostgreSQL (PaymentService, UssdService and their JDBC  *)
(* repositories), and what the gateway does with the answers.              *)
(*                                                                         *)
(* Transactions run at READ COMMITTED, one SQL statement that matters at a *)
(* time: a read sees what is committed; a write waits for the transaction  *)
(* that wrote the row before; an insert that breaks a unique constraint    *)
(* rolls its transaction back.  The rows a transaction wrote appear when   *)
(* it commits.                                                             *)
(*                                                                         *)
(* A message m claims PaymentOf[m]; the order its claim creates is called  *)
(* m too.  Every registration that commits inserts a row of its own, so a  *)
(* command is named by its order and its place among the order's rows.     *)
(* The instance, the device and the messages are valid: what               *)
(* validateParsedPayment refuses changes no payment.  A message is sent    *)
(* once, so the rows of payment_claims never collide and are left out.     *)
(*                                                                         *)
(* A definition named X_Y is X with a fault, for the runs that show that a *)
(* property notices it; no specification uses it.                          *)
(***************************************************************************)
EXTENDS Naturals, Sequences, SessionStates

CONSTANTS
  Id,          \* external transaction ids of payments that were made
  Msg,         \* WhatsApp messages that claim a payment
  Ctx,         \* WhatsApp contexts
  PaymentOf,   \* PaymentOf[m]: the id the message claims
  From,        \* From[m]: the context it comes from
  RightAmount, \* the messages that give the amount that was paid
  Slot,        \* bound on the calls to the Core under way
  MaxReports,  \* bound on the reports of one SMS by the phone
  None

ASSUME CoreAssumption ==
  /\ PaymentOf \in [Msg -> Id]
  /\ From \in [Msg -> Ctx]
  /\ RightAmount \subseteq Msg
  /\ MaxReports \in Nat

VARIABLES
  payment,   \* payments: [order, status] of an id, or None
  orders,    \* orders: the status of the order of a message, or None
  confirmed, \* payment_confirmations: the ids with a row of the phone's
  command,   \* ussd_commands: the statuses of the commands of an order
  reply,     \* idempotency_keys: the saved response of a request, or None
  call,      \* call[s]: a call of the gateway and its transaction, or None
  session,   \* the gateway's session of a context
  sent,      \* the messages that were sent
  reports,   \* how often the SMS of an id was reported
  enqueued,  \* the rows of an order that were put into the gateway's queue
  told,      \* <<k, ok>>: the outcome ok of the k-th of them was announced
  unacked    \* the orders an acknowledgement of which broke down on its way

core == <<payment, orders, confirmed, command, reply>>
gateway == <<session, sent, reports, enqueued, told, unacked>>
vars == <<core, call, gateway>>

\* The requests, by their idempotency keys.
Request == ({"claim", "register"} \X Msg) \cup ({"sms"} \X Id)

Decision == {"pending", "verified", "orphan", "mismatch", "used", "registered"}

\* A call.  order: the order it is about; row: the command of that order that
\* was registered or is acknowledged; heard: the gateway still waits for the
\* answer; ok: the outcome an ack carries.
Call ==
  [op: {"claim", "sms", "register", "ack"},
   at: {"replay", "find", "write", "row", "commit", "answer", "advance"},
   id: Id, order: Msg \cup {None}, row: Nat, decision: Decision \cup {None},
   heard: BOOLEAN, ok: BOOLEAN]

Payment ==
  [order: Msg \cup {None}, status: {"CLAIMED", "ORPHAN", "CONFIRMED", "USED"}]
OrderStatus == {"PENDING_PAYMENT", "PAYMENT_VERIFIED", "COMPLETED", "FAILED"}
CommandStatus == {"PENDING", "COMPLETED", "FAILED"}
Reply == [decision: Decision, order: Msg \cup {None}, row: Nat]

ASSUME NoneAssumption ==
  None \notin Msg \cup Call \cup Payment \cup Decision \cup OrderStatus

TypeOK ==
  /\ payment \in [Id -> Payment \cup {None}]
  /\ orders \in [Msg -> OrderStatus \cup {None}]
  /\ confirmed \subseteq Id
  /\ command \in [Msg -> Seq(CommandStatus)]
  /\ reply \in [Request -> Reply \cup {None}]
  /\ call \in [Slot -> Call \cup {None}]
  /\ session \in [Ctx -> SessionState]
  /\ sent \subseteq Msg
  /\ reports \in [Id -> 0..MaxReports]
  /\ enqueued \in [Msg -> Seq(Nat)]
  /\ told \in [Msg -> SUBSET (Nat \X BOOLEAN)]
  /\ unacked \subseteq Msg

Init ==
  /\ payment = [i \in Id |-> None]
  /\ orders = [m \in Msg |-> None]
  /\ confirmed = {}
  /\ command = [m \in Msg |-> <<>>]
  /\ reply = [r \in Request |-> None]
  /\ call = [s \in Slot |-> None]
  /\ session = [c \in Ctx |-> "IDLE"]
  /\ sent = {}
  /\ reports = [i \in Id |-> 0]
  /\ enqueued = [m \in Msg |-> <<>>]
  /\ told = [m \in Msg |-> {}]
  /\ unacked = {}

-----------------------------------------------------------------------------
(* The gateway calls the Core.                                             *)

Start(op, at, id, order, row, ok) ==
  \E s \in Slot :
    /\ call[s] = None
    /\ call' = [call EXCEPT ![s] =
         [op |-> op, at |-> at, id |-> id, order |-> order, row |-> row,
          decision |-> None, heard |-> TRUE, ok |-> ok]]

\* A customer's message, with the number to deliver to, unless PROCESSING.
SendClaim(m) ==
  /\ m \notin sent
  /\ session[From[m]] # "PROCESSING"
  /\ sent' = sent \cup {m}
  /\ Start("claim", "replay", PaymentOf[m], m, 0, TRUE)
  /\ UNCHANGED <<core, session, reports, enqueued, told, unacked>>

\* The phone reports the SMS of a payment, for the first time or again.
ReportSms(i) ==
  /\ reports[i] < MaxReports
  /\ reports' = [reports EXCEPT ![i] = @ + 1]
  /\ Start("sms", "replay", i, None, 0, TRUE)
  /\ UNCHANGED <<core, session, sent, enqueued, told, unacked>>

\* The queue announces an outcome of a command (UssdQueue: it may announce
\* both); the coordinator moves the session and the Core gets the outcome.
Announce(m, k, ok) ==
  /\ <<k, ok>> \notin told[m]
  /\ told' = [told EXCEPT ![m] = @ \cup {<<k, ok>>}]
  /\ session' = [session EXCEPT ![From[m]] =
                   Moved(@, IF ok THEN "COMPLETED" ELSE "NOT_FOUND")]
  /\ Start("ack", "find", PaymentOf[m], m, enqueued[m][k], ok)
  /\ UNCHANGED <<core, sent, reports, enqueued, unacked>>

-----------------------------------------------------------------------------
(* The Core's transactions.                                                *)

At(s, stage) == call[s] # None /\ call[s].at = stage
Go(s, next) == call' = [call EXCEPT ![s] = next]
To(s, stage) == Go(s, [call[s] EXCEPT !.at = stage])
End(s) == Go(s, None)

RequestOf(c) == IF c.op = "sms" THEN <<"sms", c.id>> ELSE <<c.op, c.order>>

\* The gateway gives a call up.  Without its registration no command is
\* enqueued and the session is closed.
GiveUp(c) ==
  session' = IF c.op = "register" /\ c.heard
             THEN [session EXCEPT ![From[c.order]] = Moved(@, "NOT_FOUND")]
             ELSE session

\* An error status: the transaction is rolled back.
Fail(s) ==
  /\ End(s)
  /\ GiveUp(call[s])
  /\ UNCHANGED <<core, sent, reports, enqueued, told, unacked>>

\* The answer of a transaction, if somebody still waits for it.
Answered(s, c) == Go(s, IF c.heard THEN [c EXCEPT !.at = "answer"] ELSE None)

\* A saved response is given again.
Replay(s) ==
  /\ At(s, "replay")
  /\ LET c == call[s]  saved == reply[RequestOf(c)] IN
       IF saved = None THEN To(s, "find")
       ELSE Answered(s, [c EXCEPT !.decision = saved.decision, !.order = saved.order,
                                  !.row = saved.row])
  /\ UNCHANGED <<core, gateway>>

\* Mutant: the response is saved in a transaction of its own.
Decide_SavedEarly(s, decision, order) ==
  /\ Go(s, [call[s] EXCEPT !.decision = decision, !.order = order,
       !.at = IF decision \in {"mismatch", "used"} THEN "row" ELSE "write"])
  /\ reply' = [reply EXCEPT ![RequestOf(call[s])] =
                 [decision |-> decision, order |-> order, row |-> 0]]
  /\ UNCHANGED <<payment, orders, confirmed, command, gateway>>

\* A decision with a write to the payment, or with only the claim's or the
\* SMS's own row.
Decide(s, decision, order) ==
  /\ Go(s, [call[s] EXCEPT !.decision = decision, !.order = order,
       !.at = IF decision \in {"mismatch", "used"} THEN "row" ELSE "write"])
  /\ UNCHANGED <<core, gateway>>

FindForClaim(s) ==
  /\ At(s, "find") /\ call[s].op = "claim"
  /\ LET m == call[s].order  p == payment[call[s].id] IN
       \/ p = None /\ Decide(s, "pending", m)
       \/ /\ p # None /\ p.status = "ORPHAN"
          /\ Decide(s, IF m \in RightAmount THEN "verified" ELSE "mismatch", m)
       \/ p # None /\ p.status # "ORPHAN" /\ Decide(s, "used", m)

\* Mutant: the amounts are not compared.
FindForSms_AnyAmount(s) ==
  /\ At(s, "find") /\ call[s].op = "sms"
  /\ LET p == payment[call[s].id] IN
       \/ p = None /\ Decide(s, "orphan", None)
       \/ p # None /\ p.status = "CLAIMED" /\ Decide(s, "verified", p.order)
       \/ p # None /\ p.status # "CLAIMED" /\ Decide(s, "used", p.order)

FindForSms(s) ==
  /\ At(s, "find") /\ call[s].op = "sms"
  /\ LET p == payment[call[s].id] IN
       \/ p = None /\ Decide(s, "orphan", None)
       \/ /\ p # None /\ p.status = "CLAIMED"
          /\ Decide(s, IF p.order \in RightAmount THEN "verified" ELSE "mismatch", p.order)
       \/ p # None /\ p.status # "CLAIMED" /\ Decide(s, "used", p.order)

\* An order has a command that is not acknowledged.
Active(m) == \E k \in DOMAIN command[m] : command[m][k] = "PENDING"

\* Mutant: any order may have a command for a confirmed payment.
FindForRegister_AnyPair(s) ==
  /\ At(s, "find") /\ call[s].op = "register"
  /\ LET m == call[s].order  p == payment[call[s].id] IN
       IF p # None /\ ~Active(m) THEN Decide(s, "registered", m) ELSE Fail(s)

\* orderPaymentPairExists, and no active command yet.
FindForRegister(s) ==
  /\ At(s, "find") /\ call[s].op = "register"
  /\ LET m == call[s].order  p == payment[call[s].id] IN
       IF p # None /\ p.order = m /\ ~Active(m)
       THEN Decide(s, "registered", m)
       ELSE Fail(s)

FindForAck(s) ==
  /\ At(s, "find") /\ call[s].op = "ack"
  /\ IF command[call[s].order][call[s].row] = "PENDING"
     THEN To(s, "write") /\ UNCHANGED <<core, gateway>>
     ELSE Fail(s)

\* The rows a transaction has written and not committed.
HoldsPayment(c) ==
  \/ c.op \in {"claim", "sms"} /\ c.at \in {"row", "commit"}
     /\ c.decision \in {"pending", "orphan", "verified"}
  \/ c.op = "ack" /\ c.at = "commit" /\ c.ok
HoldsCommand(c, op) ==
  /\ c.at = "commit"
  /\ \/ c.op = op
     \/ c.op = "ack" /\ command[c.order][c.row] = "PENDING"
HoldsConfirmation(c) == c.op = "sms" /\ c.at = "commit"

Others(s) == {call[t] : t \in {u \in Slot \ {s} : call[u] # None}}

\* The write to payments and orders: a second row of one id breaks the unique
\* constraint; an update does not look at the status again.
WritePayment(s) ==
  /\ At(s, "write") /\ call[s].op \in {"claim", "sms"}
  /\ \A c \in Others(s) : ~(HoldsPayment(c) /\ c.id = call[s].id)
  /\ IF call[s].decision \in {"pending", "orphan"} /\ payment[call[s].id] # None
     THEN Fail(s)
     ELSE To(s, "row") /\ UNCHANGED <<core, gateway>>

\* The write to ussd_commands: one active command of an order and payment, so
\* that an insert waits for an active row's update too.
WriteCommand(s) ==
  /\ At(s, "write") /\ call[s].op \in {"register", "ack"}
  /\ \A c \in Others(s) : /\ ~(HoldsCommand(c, call[s].op) /\ c.order = call[s].order)
                          /\ call[s].op = "ack" => ~(HoldsPayment(c) /\ c.id = call[s].id)
  /\ IF call[s].op = "register" /\ Active(call[s].order)
     THEN Fail(s)
     ELSE To(s, "commit") /\ UNCHANGED <<core, gateway>>

\* Mutant: no unique constraint on payment_confirmations.
WriteRow_Again(s) ==
  /\ At(s, "row")
  /\ To(s, "commit")
  /\ UNCHANGED <<core, gateway>>

\* insertPaymentClaim and insertPaymentConfirmation: the phone may confirm an
\* id once.
WriteRow(s) ==
  /\ At(s, "row")
  /\ \A c \in Others(s) :
       call[s].op = "sms" => ~(HoldsConfirmation(c) /\ c.id = call[s].id)
  /\ IF call[s].op = "sms" /\ call[s].id \in confirmed
     THEN Fail(s)
     ELSE To(s, "commit") /\ UNCHANGED <<core, gateway>>

-----------------------------------------------------------------------------
(* Commits.                                                                *)

SaveReply(c) ==
  reply' = IF reply[RequestOf(c)] # None THEN reply
           ELSE [reply EXCEPT ![RequestOf(c)] =
                   [decision |-> c.decision, order |-> c.order, row |-> c.row]]

\* markPaymentAndOrderVerified does not set order_id.
CommitPayment(s) ==
  /\ At(s, "commit") /\ call[s].op \in {"claim", "sms"}
  /\ LET c == call[s] IN
       /\ payment' = [payment EXCEPT ![c.id] =
            CASE c.decision = "pending" -> [order |-> c.order, status |-> "CLAIMED"]
              [] c.decision = "orphan" -> [order |-> None, status |-> "ORPHAN"]
              [] c.decision = "verified" -> [@ EXCEPT !.status = "CONFIRMED"]
              [] OTHER -> @]
       /\ orders' = [m \in Msg |->
            CASE m = c.order /\ c.decision = "pending" -> "PENDING_PAYMENT"
              [] m = c.order /\ c.decision = "verified" -> "PAYMENT_VERIFIED"
              [] OTHER -> orders[m]]
       /\ confirmed' = IF c.op = "sms" THEN confirmed \cup {c.id} ELSE confirmed
       /\ SaveReply(c)
  /\ Answered(s, call[s])
  /\ UNCHANGED <<command, gateway>>

\* Mutant: a registration takes the order's row again instead of adding one.
CommitRegister_SameRow(s) ==
  /\ At(s, "commit") /\ call[s].op = "register"
  /\ LET c == [call[s] EXCEPT !.row = 1] IN
       /\ command' = [command EXCEPT ![c.order] = <<"PENDING">>]
       /\ SaveReply(c)
       /\ Answered(s, c)
  /\ UNCHANGED <<payment, orders, confirmed, gateway>>

\* Every registration inserts a row of its own.
CommitRegister(s) ==
  /\ At(s, "commit") /\ call[s].op = "register"
  /\ LET m == call[s].order
         c == [call[s] EXCEPT !.row = Len(command[m]) + 1] IN
       /\ command' = [command EXCEPT ![m] = Append(@, "PENDING")]
       /\ SaveReply(c)
       /\ Answered(s, c)
  /\ UNCHANGED <<payment, orders, confirmed, gateway>>

Outcome(ok) == IF ok THEN "COMPLETED" ELSE "FAILED"

\* Mutant: the payment of a failed delivery is used up too.
CommitAck_AlwaysUsed(s) ==
  /\ At(s, "commit") /\ call[s].op = "ack"
  /\ LET c == call[s] IN
       /\ command' = [command EXCEPT ![c.order][c.row] = Outcome(c.ok)]
       /\ orders' = [orders EXCEPT ![c.order] = Outcome(c.ok)]
       /\ payment' = [payment EXCEPT ![c.id].status = "USED"]
  /\ End(s)
  /\ UNCHANGED <<confirmed, reply, gateway>>

\* Mutant: the answer itself is stored as the status.
CommitAck_Acked(s) ==
  /\ At(s, "commit") /\ call[s].op = "ack"
  /\ LET c == call[s] IN
       /\ command' = [command EXCEPT ![c.order][c.row] = IF c.ok THEN "ACKED" ELSE "FAILED"]
       /\ orders' = [orders EXCEPT ![c.order] = Outcome(c.ok)]
       /\ payment' = IF c.ok THEN [payment EXCEPT ![c.id].status = "USED"] ELSE payment
  /\ End(s)
  /\ UNCHANGED <<confirmed, reply, gateway>>

CommitAck(s) ==
  /\ At(s, "commit") /\ call[s].op = "ack"
  /\ LET c == call[s] IN
       /\ command' = [command EXCEPT ![c.order][c.row] = Outcome(c.ok)]
       /\ orders' = [orders EXCEPT ![c.order] = Outcome(c.ok)]
       /\ payment' = IF c.ok THEN [payment EXCEPT ![c.id].status = "USED"] ELSE payment
  /\ End(s)
  /\ UNCHANGED <<confirmed, reply, gateway>>

\* The Core or the network breaks down before the commit.  The gateway only
\* logs that an acknowledgement was lost.
Break(s) ==
  /\ call[s] # None /\ call[s].at \notin {"answer", "advance"}
  /\ End(s)
  /\ GiveUp(call[s])
  /\ unacked' = IF call[s].op = "ack" THEN unacked \cup {call[s].order} ELSE unacked
  /\ UNCHANGED <<core, sent, reports, enqueued, told>>

\* Five seconds without an answer: the gateway gives up, the transaction goes on.
TimeOut(s) ==
  /\ call[s] # None /\ call[s].heard /\ call[s].at # "advance"
  /\ IF call[s].at = "answer" THEN End(s)
     ELSE Go(s, [call[s] EXCEPT !.heard = FALSE])
  /\ GiveUp(call[s])
  /\ UNCHANGED <<core, sent, reports, enqueued, told, unacked>>

-----------------------------------------------------------------------------
(* The gateway gets the answers.                                           *)

\* registerAndAdvance with the decision of a claim.
AnswerClaim(s) ==
  /\ At(s, "answer") /\ call[s].op = "claim"
  /\ LET c == call[s]
         next == IF c.decision \in {"pending", "verified"}
                 THEN "AWAITING_VERIFICATION" ELSE "NOT_FOUND" IN
       /\ session' = [session EXCEPT ![From[c.order]] = Moved(@, next)]
       /\ IF c.decision = "verified" /\ CanMove(session[From[c.order]], next)
          THEN To(s, "advance") ELSE End(s)
  /\ UNCHANGED <<core, sent, reports, enqueued, told, unacked>>

\* A verified SMS is announced to the context of its order.
AnswerSms(s) ==
  /\ At(s, "answer") /\ call[s].op = "sms"
  /\ IF call[s].decision = "verified" THEN To(s, "advance") ELSE End(s)
  /\ UNCHANGED <<core, gateway>>

\* advanceToProcessing: the session moves and the command is registered.
Advance(s) ==
  /\ At(s, "advance")
  /\ LET c == call[s]  ctx == From[c.order] IN
       IF CanMove(session[ctx], "PROCESSING")
       THEN /\ session' = [session EXCEPT ![ctx] = "PROCESSING"]
            /\ Go(s, [c EXCEPT !.op = "register", !.at = "replay", !.decision = None])
       ELSE End(s) /\ UNCHANGED session
  /\ UNCHANGED <<core, sent, reports, enqueued, told, unacked>>

\* A registered command is enqueued for the phone.
AnswerRegister(s) ==
  /\ At(s, "answer") /\ call[s].op = "register"
  /\ enqueued' = [enqueued EXCEPT ![call[s].order] = Append(@, call[s].row)]
  /\ End(s)
  /\ UNCHANGED <<core, session, sent, reports, told, unacked>>

-----------------------------------------------------------------------------
Step(s) ==
  \/ Replay(s)
  \/ FindForClaim(s) \/ FindForSms(s) \/ FindForRegister(s) \/ FindForAck(s)
  \/ WritePayment(s) \/ WriteCommand(s) \/ WriteRow(s)
  \/ CommitPayment(s) \/ CommitRegister(s) \/ CommitAck(s)
  \/ AnswerClaim(s) \/ AnswerSms(s) \/ Advance(s) \/ AnswerRegister(s)

Next ==
  \/ \E m \in Msg : SendClaim(m) \/ \E k \in DOMAIN enqueued[m], ok \in BOOLEAN : Announce(m, k, ok)
  \/ \E i \in Id : ReportSms(i)
  \/ \E s \in Slot : Step(s) \/ Break(s) \/ TimeOut(s)

Spec == Init /\ [][Next]_vars

-----------------------------------------------------------------------------
\* However claims and reports of a payment cross, one customer at most gets a
\* command for it (registerCommand).
OneCustomerServed ==
  \A m, n \in Msg :
    /\ command[m] # <<>> /\ command[n] # <<>>
    /\ PaymentOf[m] = PaymentOf[n]
    => m = n

\* A command exists only for a payment the phone reported, claimed with the
\* amount that was paid.
PaidBeforeCommand ==
  \A m \in Msg : command[m] # <<>> =>
    /\ PaymentOf[m] \in confirmed
    /\ m \in RightAmount

\* The outcomes that were announced of the commands of an order.
Announced(m) == {t[2] : t \in told[m]}

\* A payment is used only with a delivery announced for its own order, and that
\* order is then COMPLETED, unless a failure was announced of it too: no claim,
\* SMS or registration that still runs takes the order back (acknowledgeCommand).
UsedIsDelivered ==
  \A i \in Id : payment[i] # None /\ payment[i].status = "USED" =>
    LET m == payment[i].order IN
      /\ m # None /\ TRUE \in Announced(m)
      /\ orders[m] = "COMPLETED" \/ FALSE \in Announced(m)

\* Whatever was rolled back or timed out, a saved response is true: a claim or
\* an SMS answered "verified" left its payment and its order verified.
SavedReplyIsTrue ==
  \A r \in Request : reply[r] # None /\ reply[r].decision = "verified" =>
    /\ orders[reply[r].order] \notin {None, "PENDING_PAYMENT"}
    /\ payment[PaymentOf[reply[r].order]].status \in {"CONFIRMED", "USED"}

\* Unless an acknowledgement broke down on its way, the Core ends up with what
\* was announced of an order, timeouts and slow transactions (which look at no
\* status when they write) notwithstanding: every announced command and the
\* order have the one outcome, and the payment is used exactly by a delivery.
\* (A registration that timed out may still leave a PENDING row that nobody
\* executes beside them.)
AnnouncedIsRecorded ==
  \A m \in Msg, ok \in BOOLEAN :
    /\ Announced(m) = {ok} /\ m \notin unacked
    /\ \A s \in Slot : call[s] # None => ~(call[s].op = "ack" /\ call[s].order = m)
    => /\ \A t \in told[m] : command[m][enqueued[m][t[1]]] = Outcome(ok)
       /\ orders[m] = Outcome(ok)
       /\ payment[PaymentOf[m]].status = "USED" <=> ok

-----------------------------------------------------------------------------
(* What the repository says and the code does not keep.                    *)

\* "ORPHAN -> CONFIRMED -> USED": a confirmed payment has the order its command
\* is registered for.
ConfirmedHasOrder ==
  \A i \in Id : payment[i] # None /\ payment[i].status = "CONFIRMED" =>
    payment[i].order # None

\* "external_transaction_id usado com sucesso nao pode ser reutilizado": the
\* command of a payment is handed to the queue once.
EnqueuedOnce == \A m \in Msg : Len(enqueued[m]) <= 1
=============================================================================
