------------------------- MODULE PurchaseFlow_proofs -------------------------
(***************************************************************************)
(* Proofs about PurchaseFlow, for every set of chats, payments, amounts    *)
(* and claims.  TypeOK and StoresExclusive are inductive together; that a  *)
(* payment is ordered once needs Evidence: which payments the claims that  *)
(* wait between the two halves of registerAndAdvance are for.              *)
(*                                                                         *)
(* What the queue does to commands and sessions is QueueStep, whichever    *)
(* handler does it; order, finality and ProcessingHasCommand follow from   *)
(* it.  Of customers who make one purchase at a time OneThing says that    *)
(* each has one thing under way.  RequestedIsAsked is about single steps   *)
(* and needs no such assumption.                                           *)
(***************************************************************************)
EXTENDS PurchaseFlow, TLAPS

-----------------------------------------------------------------------------
(* The operators of the module.                                            *)

\* A transition, refused or not, leaves every session in a session state.
LEMMA TransitionType ==
  ASSUME session \in [Ctx -> SessionState], NEW c \in Ctx,
         NEW to \in SessionState, Transition(c, to)
  PROVE  session' \in [Ctx -> SessionState]
BY DEF Transition, Moved

\* Writing the progress of one command keeps the queue well-typed.
LEMMA SetCommandType ==
  ASSUME commands \in Seq(Command), NEW n \in DOMAIN commands,
         NEW status \in CommandStatus, NEW attempts \in Nat,
         SetCommand(n, status, attempts)
  PROVE  /\ commands' \in Seq(Command)
         /\ DOMAIN commands' = DOMAIN commands
         /\ \A m \in DOMAIN commands : commands'[m].order = commands[m].order
         /\ \A m \in DOMAIN commands : m # n => commands'[m] = commands[m]
<1>1. commands[n] \in Command
  OBVIOUS
<1>2. [commands[n] EXCEPT !.status = status, !.attempts = attempts] \in Command
  BY <1>1 DEF Command
<1>3. /\ commands' \in Seq(Command)
      /\ DOMAIN commands' = DOMAIN commands
  BY <1>2 DEF SetCommand
<1>4. \A m \in DOMAIN commands : m # n => commands'[m] = commands[m]
  BY DEF SetCommand
<1>5. commands'[n].order = commands[n].order
  BY <1>1 DEF SetCommand, Command
<1>6. QED
  BY <1>3, <1>4, <1>5

\* A command of the queue is a command, of a claim.
LEMMA CommandType ==
  ASSUME TypeOK, NEW n \in DOMAIN commands
  PROVE  /\ commands[n] \in Command
         /\ commands[n].order \in Claim
         /\ commands[n].order.ctx \in Ctx
         /\ commands[n].attempts \in Nat
<1>1. commands[n] \in Command
  BY DEF TypeOK
<1>2. commands[n].order \in Claim /\ commands[n].attempts \in Nat
  BY <1>1 DEF Command
<1>3. QED
  BY <1>1, <1>2 DEF Claim

\* Advancing a claim leaves the queue as it was or appends one command for it.
LEMMA AdvanceType ==
  ASSUME TypeOK, NEW k \in Claim, AdvanceToProcessing(k)
  PROVE  /\ session' \in [Ctx -> SessionState]
         /\ commands' \in Seq(Command)
         /\ \/ commands' = commands
            \/ commands' = Append(commands,
                             [order |-> k, status |-> "PENDING", attempts |-> 0])
<1>1. k.ctx \in Ctx
  BY DEF Claim
<1>2. session' \in [Ctx -> SessionState]
  BY <1>1, TransitionType DEF AdvanceToProcessing, TypeOK, SessionState
<1>3. [order |-> k, status |-> "PENDING", attempts |-> 0] \in Command
  BY ConstantsAssumption DEF Command, CommandStatus, Live
<1>4. QED
  BY <1>2, <1>3 DEF AdvanceToProcessing, TypeOK

\* Advancing a claim touches no other command.
LEMMA AdvanceCommands ==
  ASSUME TypeOK, NEW k \in Claim, AdvanceToProcessing(k)
  PROVE  \A n \in DOMAIN commands' :
           \/ n \in DOMAIN commands /\ commands'[n] = commands[n]
           \/ /\ n = Len(commands) + 1
              /\ commands'[n] = [order |-> k, status |-> "PENDING", attempts |-> 0]
<1> DEFINE new == [order |-> k, status |-> "PENDING", attempts |-> 0]
<1>1. CASE commands' = commands
  BY <1>1
<1>2. CASE commands' = Append(commands, new)
  <2>1. commands \in Seq(Command) /\ new \in Command
    BY DEF TypeOK, Command, CommandStatus, Live
  <2> HIDE DEF new
  <2>2. /\ DOMAIN commands' = 1..(Len(commands) + 1)
        /\ DOMAIN commands = 1..Len(commands)
        /\ Len(commands) \in Nat
        /\ \A n \in DOMAIN commands : commands'[n] = commands[n]
        /\ commands'[Len(commands) + 1] = new
    BY <1>2, <2>1
  <2>3. \A n \in DOMAIN commands' : n \in DOMAIN commands \/ n = Len(commands) + 1
    BY <2>2
  <2>4. QED
    BY <2>2, <2>3 DEF new
<1>3. QED
  BY <1>1, <1>2, AdvanceType

\* Advancing a claim keeps the commands there are; the claim gets one if its
\* session may move.
LEMMA AdvanceKeeps ==
  ASSUME TypeOK, NEW k \in Claim, AdvanceToProcessing(k)
  PROVE  /\ \A n \in DOMAIN commands :
              n \in DOMAIN commands' /\ commands'[n] = commands[n]
         /\ CanMove(session[k.ctx], "PROCESSING") =>
              \E n \in DOMAIN commands' :
                commands'[n] = [order |-> k, status |-> "PENDING", attempts |-> 0]
<1> DEFINE new == [order |-> k, status |-> "PENDING", attempts |-> 0]
<1>1. CASE commands' = Append(commands, new)
  <2>1. commands \in Seq(Command) /\ new \in Command
    BY DEF TypeOK, Command, CommandStatus, Live
  <2> HIDE DEF new
  <2>2. /\ DOMAIN commands' = 1..(Len(commands) + 1)
        /\ DOMAIN commands = 1..Len(commands)
        /\ Len(commands) \in Nat
        /\ \A n \in DOMAIN commands : commands'[n] = commands[n]
        /\ commands'[Len(commands) + 1] = new
    BY <1>1, <2>1
  <2>3. QED
    BY <2>2 DEF new
<1>2. CASE commands' # Append(commands, new)
  BY <1>2 DEF AdvanceToProcessing
<1>3. QED
  BY <1>1, <1>2

-----------------------------------------------------------------------------
(* Type correctness.                                                       *)

\* registerClaim's three outcomes keep the types.
LEMMA RegisterType ==
  ASSUME TypeOK, NEW k \in Claim, RegisterAndAdvance(k)
  PROVE  /\ session' \in [Ctx -> SessionState]
         /\ pending' \in [Id -> Claim \cup {None}]
         /\ orphan' \subseteq Id /\ used' \subseteq Id
         /\ replying' \subseteq Claim
         /\ claimed' \subseteq Claim
<1>0. k.ctx \in Ctx
  BY DEF Claim
<1>1. CASE RejectClaim(k)
  <2>1. session' \in [Ctx -> SessionState]
    BY <1>0, <1>1, TransitionType DEF RejectClaim, TypeOK, SessionState
  <2>2. QED
    BY <1>1, <2>1 DEF RejectClaim, RegisterAndAdvance, TypeOK
<1>2. CASE MatchOrphan(k)
  <2>1. session' \in [Ctx -> SessionState]
    BY <1>0, <1>2, TransitionType DEF MatchOrphan, TypeOK, SessionState
  <2>2. QED
    BY <1>2, <2>1 DEF MatchOrphan, RegisterAndAdvance, TypeOK
<1>3. CASE KeepClaim(k)
  <2>1. session' \in [Ctx -> SessionState]
    BY <1>0, <1>3, TransitionType DEF KeepClaim, TypeOK, SessionState
  <2>2. QED
    BY <1>3, <2>1 DEF KeepClaim, RegisterAndAdvance, TypeOK
<1>4. QED
  BY <1>1, <1>2, <1>3 DEF RegisterAndAdvance

\* Every action of PurchaseFlow keeps the types.
LEMMA TypeStep == TypeOK /\ [Next]_vars => TypeOK'
<1> SUFFICES ASSUME TypeOK, [Next]_vars PROVE TypeOK'
  OBVIOUS
<1>1. ASSUME NEW k \in Claims, OnMessageReceived(k) PROVE TypeOK'
  <2>1. k \in Claim /\ k.ctx \in Ctx
    BY ConstantsAssumption DEF Claim
  <2>2. CASE k.dest = NoPhone
    <3>1. session' \in [Ctx -> SessionState]
      BY <1>1, <2>1, <2>2, TransitionType DEF OnMessageReceived, TypeOK, SessionState
    <3>2. QED
      BY <1>1, <2>1, <2>2, <3>1 DEF OnMessageReceived, TypeOK, stores
  <2>3. CASE k.dest # NoPhone
    BY <1>1, <2>1, <2>3, RegisterType
       DEF OnMessageReceived, RegisterAndAdvance, TypeOK
  <2>4. QED
    BY <2>2, <2>3
<1>2. ASSUME NEW c \in Ctx, NEW p \in Phone, OnDestinationNumberReply(c, p)
      PROVE  TypeOK'
  <2> DEFINE k == [destReq[c] EXCEPT !.dest = p]
  <2>1. k \in Claim
    BY <1>2 DEF OnDestinationNumberReply, TypeOK, Claim
  <2>2. RegisterAndAdvance(k)
    BY <1>2 DEF OnDestinationNumberReply
  <2> HIDE DEF k
  <2>3. QED
    BY <1>2, <2>1, <2>2, RegisterType
       DEF OnDestinationNumberReply, RegisterAndAdvance, TypeOK
<1>3. ASSUME NEW c \in Ctx, OnInvalidDestinationReply(c) PROVE TypeOK'
  <2>1. session' \in [Ctx -> SessionState]
    BY <1>3, TransitionType DEF OnInvalidDestinationReply, TypeOK, SessionState
  <2>2. QED
    BY <1>3, <2>1 DEF OnInvalidDestinationReply, TypeOK, stores
<1>4. ASSUME NEW k \in replying, OnReplySent(k) PROVE TypeOK'
  <2>1. k \in Claim
    BY DEF TypeOK
  <2>2. QED
    BY <1>4, <2>1, AdvanceType DEF OnReplySent, TypeOK, stores
<1>5. ASSUME NEW i \in Id, SmsReport(i) PROVE TypeOK'
  <2>1. CASE pending[i] = None
    BY <1>5, <2>1 DEF SmsReport, TypeOK
  <2>2. ASSUME pending[i] # None PROVE TypeOK'
    <3>1. pending[i] \in Claim /\ pending[i].ctx \in Ctx
      BY <2>2 DEF TypeOK, Claim
    <3>2. CASE pending[i].amount = Paid[i]
      BY <1>5, <2>2, <3>1, <3>2, AdvanceType DEF SmsReport, TypeOK
    <3>3. CASE pending[i].amount # Paid[i]
      <4>1. session' \in [Ctx -> SessionState]
        BY <1>5, <2>2, <3>1, <3>3, TransitionType DEF SmsReport, TypeOK, SessionState
      <4>2. QED
        BY <1>5, <2>2, <3>3, <4>1 DEF SmsReport, TypeOK
    <3>4. QED
      BY <3>2, <3>3
  <2>3. QED
    BY <2>1, <2>2
<1>6. ASSUME NEW i \in Id, ExpireClaim(i) PROVE TypeOK'
  <2>1. pending[i].ctx \in Ctx
    BY <1>6 DEF ExpireClaim, TypeOK, Claim
  <2>2. session' \in [Ctx -> SessionState]
    BY <1>6, <2>1, TransitionType DEF ExpireClaim, TypeOK, SessionState
  <2>3. QED
    BY <1>6, <2>2 DEF ExpireClaim, TypeOK
<1>7. ASSUME NEW i \in Id, ExpireOrphan(i) PROVE TypeOK'
  BY <1>7 DEF ExpireOrphan, TypeOK
<1>8. ASSUME NEW n \in DOMAIN commands, CheckTimedOut(n) PROVE TypeOK'
  <2>1. commands[n] \in Command /\ commands[n].order.ctx \in Ctx
    BY CommandType
  <2>2. commands' \in Seq(Command)
    BY <1>8, <2>1, SetCommandType
       DEF CheckTimedOut, TypeOK, Command, CommandStatus, Live
  <2>3. session' \in [Ctx -> SessionState]
    BY <1>8, <2>1, TransitionType DEF CheckTimedOut, TypeOK, SessionState
  <2>4. QED
    BY <1>8, <2>2, <2>3 DEF CheckTimedOut, TypeOK, stores
<1>9. ASSUME NEW n \in DOMAIN commands, NEW success \in BOOLEAN, Ack(n, success)
      PROVE  TypeOK'
  <2>1. commands[n] \in Command /\ commands[n].order.ctx \in Ctx
    BY CommandType
  <2>2. commands' \in Seq(Command)
    BY <1>9, <2>1, SetCommandType DEF Ack, TypeOK, Command, CommandStatus, Live
  <2>3. session' \in [Ctx -> SessionState]
    BY <1>9, <2>1, TransitionType DEF Ack, TypeOK, SessionState
  <2>4. QED
    BY <1>9, <2>2, <2>3 DEF Ack, TypeOK, stores
<1>10. ASSUME DequeueNext PROVE TypeOK'
  <2>1. PICK n \in DOMAIN commands :
          /\ commands[n].status = "PENDING"
          /\ SetCommand(n, "DISPATCHED", commands[n].attempts + 1)
    BY <1>10 DEF DequeueNext
  <2>2. commands[n].attempts + 1 \in Nat
    BY CommandType
  <2>3. commands' \in Seq(Command)
    BY <2>1, <2>2, SetCommandType DEF TypeOK, CommandStatus, Live
  <2>4. QED
    BY <1>10, <2>3 DEF DequeueNext, TypeOK, stores
<1>11. ASSUME Restart PROVE TypeOK'
  <2>1. session' \in [Ctx -> SessionState]
    BY <1>11 DEF Restart, SessionState
  <2>2. pending' \in [Id -> Claim \cup {None}] /\ orphan' \subseteq Id /\ used' \subseteq Id
    BY <1>11 DEF Restart, TypeOK, stores
  <2>3. commands' \in Seq(Command)
    <3>1. CASE "queue" \in Durable
      BY <1>11, <3>1 DEF Restart, TypeOK
    <3>2. CASE "queue" \notin Durable
      <4>1. \A n \in DOMAIN commands :
              [commands[n] EXCEPT !.status = "LOST"] \in Command
        <5>1. TAKE n \in DOMAIN commands
        <5>2. commands[n] \in Command
          BY CommandType
        <5>3. QED
          BY <5>2 DEF Command, CommandStatus
      <4>2. \A n \in DOMAIN commands : commands[n] \in Command
        BY CommandType
      <4>3. \A n \in DOMAIN commands :
              (IF commands[n].status \in Live
               THEN [commands[n] EXCEPT !.status = "LOST"]
               ELSE commands[n]) \in Command
        BY <4>1, <4>2
      <4>4. DOMAIN commands = 1..Len(commands) /\ Len(commands) \in Nat
        BY DEF TypeOK
      <4>5. commands' \in [1..Len(commands) -> Command]
        BY <1>11, <3>2, <4>3, <4>4 DEF Restart
      <4>6. QED
        BY <4>4, <4>5
    <3>3. QED
      BY <3>1, <3>2
  <2>4. QED
    BY <1>11, <2>1, <2>2, <2>3, ConstantsAssumption DEF Restart, TypeOK
<1>12. CASE UNCHANGED vars
  BY <1>12 DEF vars, TypeOK
<1>13. QED
  BY <1>1, <1>2, <1>3, <1>4, <1>5, <1>6, <1>7, <1>8, <1>9, <1>10, <1>11, <1>12
     DEF Next, Customer, Gateway, ResellerPhone

\* Type correctness of the flow.
THEOREM TypeCorrect == Spec => []TypeOK
<1>1. Init => TypeOK
  BY ConstantsAssumption DEF Init, TypeOK, SessionState
<1>2. QED
  BY <1>1, TypeStep, PTL DEF Spec

-----------------------------------------------------------------------------
(* A payment is ordered once.                                              *)

\* The inductive invariant.  Without Evidence, OneCommandPerPayment is lost
\* when a claim verified in registerClaim is advanced: nothing would say that
\* no command exists for it yet.
Settlement == StoresExclusive /\ Evidence /\ OneCommandPerPayment

\* A step of the queue or a restart changes no order: the purchases stay.
SameOrders ==
  /\ DOMAIN commands' = DOMAIN commands
  /\ \A n \in DOMAIN commands : commands'[n].order = commands[n].order

\* Appending a command for a payment without one keeps orders unique.
LEMMA AdvanceOnce ==
  ASSUME TypeOK, OneCommandPerPayment, NEW k \in Claim, AdvanceToProcessing(k),
         \A n \in DOMAIN commands : commands[n].order.id # k.id
  PROVE  /\ OneCommandPerPayment'
         /\ \A n \in DOMAIN commands' :
              \/ n \in DOMAIN commands /\ commands'[n] = commands[n]
              \/ commands'[n].order = k
<1>1. \A n \in DOMAIN commands' :
        \/ n \in DOMAIN commands /\ commands'[n] = commands[n]
        \/ n = Len(commands) + 1 /\ commands'[n].order = k
  BY AdvanceCommands
<1>2. QED
  BY <1>1 DEF OneCommandPerPayment

\* Steps that only move commands on keep the invariant.
LEMMA QueueSettlement ==
  ASSUME Settlement, SameOrders,
         UNCHANGED <<pending, orphan, used, claimed, reported>>,
         replying' \subseteq replying
  PROVE  Settlement'
<1>1. OneCommandPerPayment'
  BY DEF Settlement, OneCommandPerPayment, SameOrders
<1>2. StoresExclusive'
  BY DEF Settlement, StoresExclusive
<1>3. Evidence'
  BY DEF Settlement, Evidence, SameOrders
<1>4. QED
  BY <1>1, <1>2, <1>3 DEF Settlement

\* registerClaim keeps the invariant, whatever it answers.
LEMMA RegisterSettlement ==
  ASSUME TypeOK, Settlement, NEW k \in Claim, RegisterAndAdvance(k)
  PROVE  Settlement'
<1>0. UNCHANGED <<commands, reported>> /\ claimed' = claimed \cup {k}
  BY DEF RegisterAndAdvance
<1>1. CASE RejectClaim(k)
  <2>1. UNCHANGED <<pending, used, replying>> /\ orphan' \subseteq orphan
    BY <1>1 DEF RejectClaim
  <2>2. QED
    BY <1>0, <2>1 DEF Settlement, StoresExclusive, Evidence, OneCommandPerPayment
<1>2. CASE MatchOrphan(k)
  <2>1. /\ k.id \in orphan /\ k.id \notin used /\ k.amount = Paid[k.id]
        /\ orphan' = orphan \ {k.id} /\ used' = used \cup {k.id}
        /\ replying' \subseteq replying \cup {k} /\ pending' = pending
    BY <1>2 DEF MatchOrphan
  <2>2. StoresExclusive'
    BY <2>1 DEF Settlement, StoresExclusive, TypeOK
  <2>3. OneCommandPerPayment'
    BY <1>0 DEF Settlement, OneCommandPerPayment
  <2>4. Evidence'
    BY <1>0, <2>1 DEF Settlement, Evidence
  <2>5. QED
    BY <2>2, <2>3, <2>4 DEF Settlement
<1>3. CASE KeepClaim(k)
  <2>1. /\ k.id \in Id /\ k.id \notin used /\ k.id \notin orphan
        /\ pending' = [pending EXCEPT ![k.id] = k]
        /\ UNCHANGED <<orphan, used, replying>>
    BY <1>3 DEF KeepClaim
  <2>2. StoresExclusive'
    BY <2>1 DEF Settlement, StoresExclusive, TypeOK
  <2>3. OneCommandPerPayment'
    BY <1>0 DEF Settlement, OneCommandPerPayment
  <2>4. Evidence'
    BY <1>0, <2>1 DEF Settlement, Evidence, TypeOK
  <2>5. QED
    BY <2>2, <2>3, <2>4 DEF Settlement
<1>4. QED
  BY <1>1, <1>2, <1>3 DEF RegisterAndAdvance

\* The used ids survive every restart there may be.
UsedSurvives == "pending" \in Durable \/ MaxRestarts = 0

LEMMA SettlementStep ==
  ASSUME UsedSurvives, TypeOK, Settlement, [Next]_vars PROVE Settlement'
<1>1. ASSUME NEW k \in Claims, OnMessageReceived(k) PROVE Settlement'
  <2>1. k \in Claim
    BY ConstantsAssumption
  <2>2. CASE k.dest = NoPhone
    BY <1>1, <2>2, QueueSettlement DEF OnMessageReceived, SameOrders, stores
  <2>3. CASE k.dest # NoPhone
    BY <1>1, <2>1, <2>3, RegisterSettlement DEF OnMessageReceived
  <2>4. QED
    BY <2>2, <2>3
<1>2. ASSUME NEW c \in Ctx, NEW p \in Phone, OnDestinationNumberReply(c, p)
      PROVE  Settlement'
  <2>1. [destReq[c] EXCEPT !.dest = p] \in Claim
    BY <1>2 DEF OnDestinationNumberReply, TypeOK, Claim
  <2>2. QED
    BY <1>2, <2>1, RegisterSettlement DEF OnDestinationNumberReply
<1>3. ASSUME NEW c \in Ctx, OnInvalidDestinationReply(c) PROVE Settlement'
  BY <1>3, QueueSettlement DEF OnInvalidDestinationReply, SameOrders, stores
<1>4. ASSUME NEW k \in replying, OnReplySent(k) PROVE Settlement'
  <2>1. k \in Claim /\ UNCHANGED <<pending, orphan, used, claimed, reported>>
    BY <1>4 DEF TypeOK, OnReplySent, stores
  <2>2. /\ replying' = replying \ {k} /\ AdvanceToProcessing(k)
        /\ \A n \in DOMAIN commands : commands[n].order.id # k.id
    BY <1>4 DEF OnReplySent, Settlement, Evidence
  <2>3. /\ OneCommandPerPayment'
        /\ \A n \in DOMAIN commands' :
             \/ n \in DOMAIN commands /\ commands'[n] = commands[n]
             \/ commands'[n].order = k
    BY <2>1, <2>2, AdvanceOnce DEF Settlement
  <2>4. Evidence'
    BY <2>1, <2>2, <2>3 DEF Settlement, Evidence
  <2>5. QED
    BY <2>1, <2>3, <2>4 DEF Settlement, StoresExclusive
<1>5. ASSUME NEW i \in Id, SmsReport(i) PROVE Settlement'
  <2>0. UNCHANGED <<replying, claimed>> /\ reported' = reported \cup {i}
    BY <1>5 DEF SmsReport
  <2>1. CASE pending[i] = None
    <3>1. orphan' = orphan \cup {i} /\ UNCHANGED <<pending, used, commands>>
      BY <1>5, <2>1 DEF SmsReport
    <3>2. QED
      BY <2>0, <2>1, <3>1
         DEF Settlement, StoresExclusive, Evidence, OneCommandPerPayment
  <2>2. CASE pending[i] # None /\ pending[i].amount # Paid[i]
    <3>1. /\ pending' = [pending EXCEPT ![i] = None]
          /\ UNCHANGED <<orphan, used, commands>>
      BY <1>5, <2>2 DEF SmsReport
    <3>2. QED
      BY <2>0, <3>1
         DEF Settlement, StoresExclusive, Evidence, OneCommandPerPayment, TypeOK
  <2>3. CASE pending[i] # None /\ pending[i].amount = Paid[i]
    <3> DEFINE k == pending[i]
    <3>1. /\ pending' = [pending EXCEPT ![i] = None] /\ UNCHANGED orphan
          /\ used' = used \cup {i} /\ AdvanceToProcessing(k)
      BY <1>5, <2>3 DEF SmsReport
    <3>2. k \in Claim /\ k.id = i /\ i \notin used
      BY <2>3 DEF TypeOK, Settlement, Evidence, StoresExclusive
    <3> HIDE DEF k
    <3>3. \A n \in DOMAIN commands : commands[n].order.id # k.id
      BY <3>2 DEF Settlement, Evidence
    <3>4. /\ OneCommandPerPayment'
          /\ \A n \in DOMAIN commands' :
               \/ n \in DOMAIN commands /\ commands'[n] = commands[n]
               \/ commands'[n].order = k
      BY <3>1, <3>2, <3>3, AdvanceOnce DEF Settlement
    <3>5. Evidence'
      <4>1. \A j \in replying : j.id # i
        BY <3>2 DEF Settlement, Evidence
      <4>2. \A n \in DOMAIN commands' : commands'[n].order.id \in used'
        BY <3>1, <3>2, <3>4 DEF Settlement, Evidence
      <4>3. \A j \in replying : \A n \in DOMAIN commands' :
              commands'[n].order.id # j.id
        BY <3>2, <3>4, <4>1 DEF Settlement, Evidence
      <4>4. \A j \in Id : pending'[j] # None =>
              pending'[j].id = j /\ pending'[j] \in claimed
        BY <3>1 DEF Settlement, Evidence, TypeOK
      <4>5. QED
        BY <2>0, <3>1, <4>2, <4>3, <4>4 DEF Settlement, Evidence
    <3>6. StoresExclusive'
      BY <3>1 DEF Settlement, StoresExclusive, TypeOK
    <3>7. QED
      BY <3>4, <3>5, <3>6 DEF Settlement
  <2>4. QED
    BY <2>1, <2>2, <2>3
<1>6. ASSUME NEW i \in Id, ExpireClaim(i) PROVE Settlement'
  BY <1>6 DEF ExpireClaim, Settlement, StoresExclusive, Evidence,
              OneCommandPerPayment, TypeOK
<1>7. ASSUME NEW i \in Id, ExpireOrphan(i) PROVE Settlement'
  BY <1>7 DEF ExpireOrphan, Settlement, StoresExclusive, Evidence,
              OneCommandPerPayment
<1>8. ASSUME NEW n \in DOMAIN commands, CheckTimedOut(n) PROVE Settlement'
  <2>1. PICK s \in CommandStatus : SetCommand(n, s, commands[n].attempts)
    BY <1>8 DEF CheckTimedOut, CommandStatus, Live
  <2>2. SameOrders
    BY <2>1, SetCommandType, CommandType DEF SameOrders, TypeOK
  <2>3. QED
    BY <1>8, <2>2, QueueSettlement DEF CheckTimedOut, stores
<1>9. ASSUME NEW n \in DOMAIN commands, NEW success \in BOOLEAN, Ack(n, success)
      PROVE  Settlement'
  <2>1. PICK s \in CommandStatus : SetCommand(n, s, commands[n].attempts)
    BY <1>9 DEF Ack, CommandStatus
  <2>2. SameOrders
    BY <2>1, SetCommandType, CommandType DEF SameOrders, TypeOK
  <2>3. QED
    BY <1>9, <2>2, QueueSettlement DEF Ack, stores
<1>10. ASSUME DequeueNext PROVE Settlement'
  <2>1. PICK n \in DOMAIN commands :
          SetCommand(n, "DISPATCHED", commands[n].attempts + 1)
    BY <1>10 DEF DequeueNext
  <2>2. SameOrders
    BY <2>1, SetCommandType, CommandType DEF SameOrders, TypeOK, CommandStatus, Live
  <2>3. QED
    BY <1>10, <2>2, QueueSettlement DEF DequeueNext, stores
<1>11. ASSUME Restart PROVE Settlement'
  <2>1. "pending" \in Durable
    BY <1>11 DEF UsedSurvives, Restart, TypeOK
  <2>2. SameOrders
    <3>1. \A n \in DOMAIN commands : commands[n] \in Command
      BY CommandType
    <3>2. QED
      BY <1>11, <3>1 DEF Restart, SameOrders, Command
  <2>3. QED
    BY <1>11, <2>1, <2>2, QueueSettlement DEF Restart, stores
<1>12. CASE UNCHANGED vars
  BY <1>12, QueueSettlement DEF vars, SameOrders
<1>13. QED
  BY <1>1, <1>2, <1>3, <1>4, <1>5, <1>6, <1>7, <1>8, <1>9, <1>10, <1>11, <1>12
     DEF Next, Customer, Gateway, ResellerPhone

\* The three stores agree and every payment is ordered once at most, as long
\* as the used ids survive the restarts there are.
THEOREM OrderedOnce ==
  ASSUME UsedSurvives
  PROVE  Spec => [](StoresExclusive /\ Evidence /\ OneCommandPerPayment)
<1>1. Init => Settlement
  BY DEF Init, Settlement, StoresExclusive, Evidence, OneCommandPerPayment
<1>2. TypeOK /\ Settlement /\ [Next]_vars => Settlement'
  BY SettlementStep
<1>3. Spec => []Settlement
  BY <1>1, <1>2, TypeCorrect, PTL DEF Spec
<1>4. QED
  BY <1>3, PTL DEF Settlement

\* A used id has no claim and no SMS waiting, so that a repeated SMS or claim
\* never meets what is left of a match (finalizeMatch).
THEOREM StoresStayExclusive ==
  ASSUME UsedSurvives PROVE Spec => []StoresExclusive
<1>1. QED
  BY OrderedOnce, PTL

\* Whatever was ordered, or is about to be after the reply to WhatsApp, has a
\* used payment and no rival (registerAndAdvance, markUsed).
THEOREM EvidenceIsKept ==
  ASSUME UsedSurvives PROVE Spec => []Evidence
<1>1. QED
  BY OrderedOnce, PTL

-----------------------------------------------------------------------------
(* Retries are bounded and outcomes final.                                 *)

\* No command is given to the phone more than MaxAttempts times.
THEOREM RetriesBounded == Spec => []AttemptsBounded
<1>1. Init => AttemptsBounded
  BY DEF Init, AttemptsBounded
<1>2. ASSUME TypeOK, AttemptsBounded, [Next]_vars PROVE AttemptsBounded'
  <2>0. MaxAttempts \in Nat \ {0}
    BY ConstantsAssumption
  <2>1. ASSUME NEW k \in Claim, AdvanceToProcessing(k) PROVE AttemptsBounded'
    BY <1>2, <2>0, <2>1, AdvanceCommands DEF AttemptsBounded
  <2>2. ASSUME NEW n \in DOMAIN commands, NEW s \in CommandStatus,
               NEW a \in Nat, SetCommand(n, s, a), a <= MaxAttempts,
               s = "PENDING" => a < MaxAttempts
        PROVE  AttemptsBounded'
    <3>1. /\ DOMAIN commands' = DOMAIN commands
          /\ \A m \in DOMAIN commands : m # n => commands'[m] = commands[m]
      BY <1>2, <2>2, SetCommandType DEF TypeOK
    <3>2. commands'[n].status = s /\ commands'[n].attempts = a
      BY <1>2, <2>2, CommandType DEF SetCommand, Command, TypeOK
    <3>3. QED
      BY <1>2, <2>2, <3>1, <3>2 DEF AttemptsBounded
  <2>3. ASSUME NEW k \in Claims, OnMessageReceived(k) PROVE AttemptsBounded'
    BY <1>2, <2>3 DEF OnMessageReceived, RegisterAndAdvance, AttemptsBounded
  <2>4. ASSUME NEW c \in Ctx, NEW p \in Phone, OnDestinationNumberReply(c, p)
        PROVE  AttemptsBounded'
    BY <1>2, <2>4 DEF OnDestinationNumberReply, RegisterAndAdvance, AttemptsBounded
  <2>5. ASSUME NEW c \in Ctx, OnInvalidDestinationReply(c) PROVE AttemptsBounded'
    BY <1>2, <2>5 DEF OnInvalidDestinationReply, AttemptsBounded
  <2>6. ASSUME NEW k \in replying, OnReplySent(k) PROVE AttemptsBounded'
    BY <1>2, <2>1, <2>6 DEF OnReplySent, TypeOK
  <2>7. ASSUME NEW i \in Id, SmsReport(i) PROVE AttemptsBounded'
    <3>1. CASE UNCHANGED commands
      BY <1>2, <3>1 DEF AttemptsBounded
    <3>2. CASE pending[i] # None /\ AdvanceToProcessing(pending[i])
      BY <1>2, <2>1, <3>2 DEF TypeOK
    <3>3. QED
      BY <2>7, <3>1, <3>2 DEF SmsReport
  <2>8. ASSUME NEW i \in Id, ExpireClaim(i) \/ ExpireOrphan(i)
        PROVE  AttemptsBounded'
    BY <1>2, <2>8 DEF ExpireClaim, ExpireOrphan, AttemptsBounded
  <2>9. ASSUME NEW n \in DOMAIN commands, CheckTimedOut(n) PROVE AttemptsBounded'
    <3>1. commands[n].attempts \in Nat /\ commands[n].attempts <= MaxAttempts
      BY <1>2, CommandType DEF AttemptsBounded
    <3>2. CASE commands[n].attempts < MaxAttempts
      BY <2>0, <2>2, <2>9, <3>1, <3>2 DEF CheckTimedOut, CommandStatus, Live
    <3>3. CASE commands[n].attempts >= MaxAttempts
      BY <2>0, <2>2, <2>9, <3>1, <3>3 DEF CheckTimedOut, CommandStatus, Live
    <3>4. QED
      BY <2>0, <3>1, <3>2, <3>3
  <2>10. ASSUME DequeueNext PROVE AttemptsBounded'
    <3>1. PICK n \in DOMAIN commands :
            /\ commands[n].status = "PENDING"
            /\ SetCommand(n, "DISPATCHED", commands[n].attempts + 1)
      BY <2>10 DEF DequeueNext
    <3>2. commands[n].attempts \in Nat /\ commands[n].attempts < MaxAttempts
      BY <1>2, <3>1, CommandType DEF AttemptsBounded
    <3>3. QED
      BY <2>0, <2>2, <3>1, <3>2 DEF CommandStatus, Live
  <2>11. ASSUME NEW n \in DOMAIN commands, NEW success \in BOOLEAN, Ack(n, success)
         PROVE  AttemptsBounded'
    <3>1. commands[n].attempts \in Nat /\ commands[n].attempts <= MaxAttempts
      BY <1>2, CommandType DEF AttemptsBounded
    <3>2. QED
      BY <2>2, <2>11, <3>1 DEF Ack, CommandStatus
  <2>12. ASSUME Restart PROVE AttemptsBounded'
    <3>1. \A n \in DOMAIN commands : commands[n] \in Command
      BY <1>2, CommandType
    <3>2. QED
      BY <1>2, <2>12, <3>1 DEF Restart, AttemptsBounded, Command
  <2>13. CASE UNCHANGED vars
    BY <1>2, <2>13 DEF vars, AttemptsBounded
  <2>14. QED
    BY <1>2, <2>3, <2>4, <2>5, <2>6, <2>7, <2>8, <2>9, <2>10, <2>11, <2>12, <2>13
       DEF Next, Customer, Gateway, ResellerPhone
<1>3. QED
  BY <1>1, <1>2, TypeCorrect, PTL DEF Spec

-----------------------------------------------------------------------------
(* The queue and the sessions.                                             *)

\* Nothing is ordered, and nobody becomes PROCESSING.
QueueKept ==
  /\ commands' = commands
  /\ session' \in [Ctx -> SessionState]
  /\ \A c \in Ctx : session'[c] = "PROCESSING" => session[c] = "PROCESSING"

Dispatched(n) ==
  /\ commands[n].status = "PENDING"
  /\ \A m \in 1..(n - 1) : commands[m].status # "PENDING"
  /\ SetCommand(n, "DISPATCHED", commands[n].attempts + 1)
  /\ UNCHANGED session

Retried(n) ==
  /\ commands[n].status = "DISPATCHED"
  /\ SetCommand(n, "PENDING", commands[n].attempts)
  /\ UNCHANGED session

Ended(n, status, to) ==
  /\ commands[n].status \in Live
  /\ commands[n].attempts > 0
  /\ SetCommand(n, status, commands[n].attempts)
  /\ Transition(commands[n].order.ctx, to)

QueueStep ==
  \/ QueueKept
  \/ \E k \in Claim : AdvanceToProcessing(k)
  \/ \E n \in DOMAIN commands : Dispatched(n) \/ Retried(n)
  \/ \E n \in DOMAIN commands, status \in {"COMPLETED", "FAILED", "TIMED_OUT"},
       to \in {"COMPLETED", "NOT_FOUND"} : Ended(n, status, to)
  \/ Restart

\* A transition elsewhere leaves nobody PROCESSING who was not.
LEMMA TalkKeepsQueue ==
  ASSUME TypeOK, UNCHANGED commands, NEW c \in Ctx,
         NEW to \in SessionState \ {"PROCESSING"}, Transition(c, to)
  PROVE  QueueKept
<1>1. session' \in [Ctx -> SessionState]
  BY TransitionType DEF TypeOK
<1>2. \A d \in Ctx : session'[d] \in {session[d], to}
  BY DEF Transition, Moved, TypeOK
<1>3. QED
  BY <1>1, <1>2 DEF QueueKept

LEMMA SessionsKeptKeepsQueue ==
  ASSUME TypeOK, UNCHANGED <<commands, session>>
  PROVE  QueueKept
BY DEF QueueKept, TypeOK

LEMMA RegisterKeepsQueue ==
  ASSUME TypeOK, NEW k \in Claim, RegisterAndAdvance(k)
  PROVE  QueueKept
<1>1. k.ctx \in Ctx /\ UNCHANGED commands
  BY DEF Claim, RegisterAndAdvance
<1>2. PICK to \in {"NOT_FOUND", "AWAITING_VERIFICATION"} : Transition(k.ctx, to)
  BY DEF RegisterAndAdvance, RejectClaim, MatchOrphan, KeepClaim
<1>3. QED
  BY <1>1, <1>2, TalkKeepsQueue DEF SessionState

\* Every step does one of these to the queue.
LEMMA QueueSteps ==
  ASSUME TypeOK, [Next]_vars
  PROVE  QueueStep
<1>1. ASSUME NEW k \in Claims, OnMessageReceived(k) PROVE QueueStep
  <2>1. k \in Claim /\ k.ctx \in Ctx
    BY ConstantsAssumption DEF Claim
  <2>2. CASE k.dest = NoPhone
    BY <1>1, <2>1, <2>2, TalkKeepsQueue DEF OnMessageReceived, QueueStep, SessionState
  <2>3. CASE k.dest # NoPhone
    BY <1>1, <2>1, <2>3, RegisterKeepsQueue DEF OnMessageReceived, QueueStep
  <2>4. QED
    BY <2>2, <2>3
<1>2. ASSUME NEW c \in Ctx, NEW p \in Phone, OnDestinationNumberReply(c, p)
      PROVE  QueueStep
  <2>1. [destReq[c] EXCEPT !.dest = p] \in Claim
    BY <1>2 DEF OnDestinationNumberReply, TypeOK, Claim
  <2>2. QED
    BY <1>2, <2>1, RegisterKeepsQueue DEF OnDestinationNumberReply, QueueStep
<1>3. ASSUME NEW c \in Ctx, OnInvalidDestinationReply(c) PROVE QueueStep
  BY <1>3, TalkKeepsQueue DEF OnInvalidDestinationReply, QueueStep, SessionState
<1>4. ASSUME NEW k \in replying, OnReplySent(k) PROVE QueueStep
  BY <1>4 DEF OnReplySent, QueueStep, TypeOK
<1>5. ASSUME NEW i \in Id, SmsReport(i) PROVE QueueStep
  <2>1. CASE pending[i] = None
    BY <1>5, <2>1, SessionsKeptKeepsQueue DEF SmsReport, QueueStep
  <2>2. CASE pending[i] # None
    <3>1. pending[i] \in Claim /\ pending[i].ctx \in Ctx
      BY <2>2 DEF TypeOK, Claim
    <3>2. CASE pending[i].amount = Paid[i]
      BY <1>5, <2>2, <3>1, <3>2 DEF SmsReport, QueueStep
    <3>3. CASE pending[i].amount # Paid[i]
      BY <1>5, <2>2, <3>1, <3>3, TalkKeepsQueue DEF SmsReport, QueueStep, SessionState
    <3>4. QED
      BY <3>2, <3>3
  <2>3. QED
    BY <2>1, <2>2
<1>6. ASSUME NEW i \in Id, ExpireClaim(i) PROVE QueueStep
  <2>1. pending[i].ctx \in Ctx
    BY <1>6 DEF ExpireClaim, TypeOK, Claim
  <2>2. QED
    BY <1>6, <2>1, TalkKeepsQueue DEF ExpireClaim, QueueStep, SessionState
<1>7. ASSUME NEW i \in Id, ExpireOrphan(i) PROVE QueueStep
  BY <1>7, SessionsKeptKeepsQueue DEF ExpireOrphan, QueueStep
<1>8. ASSUME NEW n \in DOMAIN commands, CheckTimedOut(n) PROVE QueueStep
  <2>1. commands[n].attempts \in Nat /\ MaxAttempts \in Nat \ {0}
    BY CommandType, ConstantsAssumption
  <2>2. CASE commands[n].attempts < MaxAttempts
    BY <1>8, <2>1, <2>2 DEF CheckTimedOut, QueueStep, Retried
  <2>3. CASE commands[n].attempts >= MaxAttempts
    <3>1. Ended(n, "TIMED_OUT", "NOT_FOUND")
      BY <1>8, <2>1, <2>3 DEF CheckTimedOut, Ended, Live
    <3>2. QED
      BY <3>1 DEF QueueStep
  <2>4. QED
    BY <2>1, <2>2, <2>3
<1>9. ASSUME NEW n \in DOMAIN commands, NEW success \in BOOLEAN, Ack(n, success)
      PROVE  QueueStep
  BY <1>9 DEF Ack, QueueStep, Ended
<1>10. ASSUME DequeueNext PROVE QueueStep
  BY <1>10 DEF DequeueNext, QueueStep, Dispatched
<1>11. ASSUME Restart PROVE QueueStep
  BY <1>11 DEF QueueStep
<1>12. CASE UNCHANGED vars
  BY <1>12, SessionsKeptKeepsQueue DEF vars, QueueStep
<1>13. QED
  BY <1>1, <1>2, <1>3, <1>4, <1>5, <1>6, <1>7, <1>8, <1>9, <1>10, <1>11, <1>12
     DEF Next, Customer, Gateway, ResellerPhone

\* What a write of progress leaves: one command changed, in its progress only.
LEMMA SetCommandIs ==
  ASSUME TypeOK, NEW n \in DOMAIN commands, NEW status \in CommandStatus,
         NEW attempts \in Nat, SetCommand(n, status, attempts)
  PROVE  /\ DOMAIN commands' = DOMAIN commands
         /\ \A m \in DOMAIN commands : m # n => commands'[m] = commands[m]
         /\ commands'[n].order = commands[n].order
         /\ commands'[n].status = status
         /\ commands'[n].attempts = attempts
<1>1. commands[n] \in Command
  BY CommandType
<1>2. commands'[n] = [commands[n] EXCEPT !.status = status, !.attempts = attempts]
  BY DEF SetCommand, TypeOK
<1>3. QED
  BY <1>1, <1>2, SetCommandType DEF TypeOK, Command

\* What a restart does to a command: nothing, or it is lost if it was live.
LEMMA RestartCommands ==
  ASSUME TypeOK, Restart
  PROVE  /\ DOMAIN commands' = DOMAIN commands
         /\ \A n \in DOMAIN commands :
              \/ commands'[n] = commands[n]
              \/ /\ commands[n].status \in Live /\ commands'[n].status = "LOST"
                 /\ commands'[n].order = commands[n].order
                 /\ commands'[n].attempts = commands[n].attempts
         /\ \A c \in Ctx : session'[c] = "IDLE"
<1>1. \A n \in DOMAIN commands : commands[n] \in Command
  BY CommandType
<1>2. QED
  BY <1>1 DEF Restart, Command

\* The order of the queue: FirstPaidFirstDispatched is kept by a dispatch
\* because a command that is no longer PENDING was dispatched or lost.
QueueOrder ==
  /\ FirstPaidFirstDispatched
  /\ \A n \in DOMAIN commands :
       commands[n].status \notin {"PENDING", "LOST"} => commands[n].attempts > 0

\* A write of progress that keeps the attempts, or dispatches the first.
LEMMA ProgressKeepsOrder ==
  ASSUME TypeOK, QueueOrder, NEW n \in DOMAIN commands,
         NEW status \in CommandStatus \ {"LOST"}, NEW attempts \in Nat,
         SetCommand(n, status, attempts),
         status # "PENDING" => attempts > 0,
         commands[n].status # "LOST", attempts >= commands[n].attempts,
         \/ attempts = commands[n].attempts
         \/ \A m \in 1..(n - 1) : commands[m].status # "PENDING"
  PROVE  QueueOrder'
<1>0. /\ n \in Nat /\ DOMAIN commands = 1..Len(commands) /\ Len(commands) \in Nat
      /\ \A m \in DOMAIN commands : commands[m].attempts \in Nat
  BY CommandType DEF TypeOK
<1>1. /\ DOMAIN commands' = DOMAIN commands
      /\ \A m \in DOMAIN commands : m # n => commands'[m] = commands[m]
      /\ commands'[n].status = status /\ commands'[n].attempts = attempts
  BY SetCommandIs
<1>2. ASSUME NEW a \in DOMAIN commands, NEW b \in DOMAIN commands,
             a < b, commands'[b].attempts > 0
      PROVE  commands'[a].attempts > 0 \/ commands'[a].status = "LOST"
  <2>1. CASE commands[b].attempts > 0
    BY <1>0, <1>1, <1>2, <2>1 DEF QueueOrder, FirstPaidFirstDispatched
  <2>2. CASE b = n /\ attempts # commands[n].attempts
    <3>1. commands[a].status # "PENDING"
      BY <1>0, <1>2, <2>2
    <3>2. QED
      BY <1>1, <1>2, <2>2, <3>1 DEF QueueOrder
  <2>3. QED
    BY <1>0, <1>1, <1>2, <2>1, <2>2
<1>3. ASSUME NEW a \in DOMAIN commands,
             commands'[a].status \notin {"PENDING", "LOST"}
      PROVE  commands'[a].attempts > 0
  BY <1>1, <1>3 DEF QueueOrder
<1>4. QED
  BY <1>1, <1>2, <1>3 DEF QueueOrder, FirstPaidFirstDispatched

LEMMA OrderStep ==
  ASSUME TypeOK, QueueOrder, [Next]_vars PROVE QueueOrder'
<1>1. CASE QueueKept
  BY <1>1 DEF QueueKept, QueueOrder, FirstPaidFirstDispatched
<1>2. ASSUME NEW k \in Claim, AdvanceToProcessing(k) PROVE QueueOrder'
  <2>1. DOMAIN commands = 1..Len(commands) /\ Len(commands) \in Nat
    BY DEF TypeOK
  <2>2. \A n \in DOMAIN commands' :
          \/ n \in DOMAIN commands /\ commands'[n] = commands[n]
          \/ /\ n = Len(commands) + 1
             /\ commands'[n].status = "PENDING" /\ commands'[n].attempts = 0
    BY <1>2, AdvanceCommands
  <2>3. QED
    BY <2>1, <2>2 DEF QueueOrder, FirstPaidFirstDispatched
<1>3. ASSUME NEW n \in DOMAIN commands, Dispatched(n) PROVE QueueOrder'
  <2>1. commands[n].attempts \in Nat
    BY CommandType
  <2>2. "DISPATCHED" \in CommandStatus \ {"LOST"}
    BY DEF CommandStatus, Live
  <2>3. QED
    BY <1>3, <2>1, <2>2, ProgressKeepsOrder DEF Dispatched
<1>4. ASSUME NEW n \in DOMAIN commands, Retried(n) PROVE QueueOrder'
  <2>1. commands[n].attempts \in Nat
    BY CommandType
  <2>2. "PENDING" \in CommandStatus \ {"LOST"}
    BY DEF CommandStatus, Live
  <2>3. QED
    BY <1>4, <2>1, <2>2, ProgressKeepsOrder DEF Retried
<1>5. ASSUME NEW n \in DOMAIN commands,
             NEW status \in {"COMPLETED", "FAILED", "TIMED_OUT"},
             NEW to \in {"COMPLETED", "NOT_FOUND"}, Ended(n, status, to)
      PROVE  QueueOrder'
  <2>1. commands[n].attempts \in Nat
    BY CommandType
  <2>2. status \in CommandStatus \ {"LOST"}
    BY DEF CommandStatus, Live
  <2>3. QED
    BY <1>5, <2>1, <2>2, ProgressKeepsOrder DEF Ended, Live
<1>6. CASE Restart
  BY <1>6, RestartCommands DEF QueueOrder, FirstPaidFirstDispatched
<1>7. QED
  BY <1>1, <1>2, <1>3, <1>4, <1>5, <1>6, QueueSteps DEF QueueStep

\* The phone gets the commands in the order they were paid for, for any number
\* of commands, attempts and restarts (dequeueNext takes the first PENDING).
THEOREM FirstPaidFirst == Spec => []FirstPaidFirstDispatched
<1>1. Init => QueueOrder
  BY DEF Init, QueueOrder, FirstPaidFirstDispatched
<1>2. TypeOK /\ QueueOrder /\ [Next]_vars => QueueOrder'
  BY OrderStep
<1>3. QueueOrder => FirstPaidFirstDispatched
  BY DEF QueueOrder
<1>4. QED
  BY <1>1, <1>2, <1>3, TypeCorrect, PTL DEF Spec

\* A command that ended stays as it ended: what the customer was told is never
\* overturned (ack and checkTimedOut find live commands only).
THEOREM OutcomesAreFinal == Spec => EndsOnce
<1>1. ASSUME TypeOK, [Next]_vars, NEW n \in DOMAIN commands,
             commands[n].status \notin Live
      PROVE  commands'[n] = commands[n]
  <2>1. CASE QueueKept
    BY <2>1 DEF QueueKept
  <2>2. ASSUME NEW k \in Claim, AdvanceToProcessing(k)
        PROVE  commands'[n] = commands[n]
    BY <1>1, <2>2, AdvanceKeeps
  <2>3. ASSUME NEW m \in DOMAIN commands, Dispatched(m) \/ Retried(m)
        PROVE  commands'[n] = commands[n]
    BY <1>1, <2>3 DEF Dispatched, Retried, SetCommand, Live
  <2>4. ASSUME NEW m \in DOMAIN commands,
               NEW status \in {"COMPLETED", "FAILED", "TIMED_OUT"},
               NEW to \in {"COMPLETED", "NOT_FOUND"}, Ended(m, status, to)
        PROVE  commands'[n] = commands[n]
    BY <1>1, <2>4 DEF Ended, SetCommand
  <2>5. CASE Restart
    BY <1>1, <2>5, RestartCommands
  <2>6. QED
    BY <1>1, <2>1, <2>2, <2>3, <2>4, <2>5, QueueSteps DEF QueueStep
<1>2. TypeOK /\ [Next]_vars =>
        [\A n \in DOMAIN commands :
           commands[n].status \notin Live => commands'[n] = commands[n]]_vars
  BY <1>1
<1>3. QED
  BY <1>2, TypeCorrect, PTL DEF Spec, EndsOnce

\* A command that ends releases its customer; any other step that touches the
\* queue leaves it live, or leaves nobody PROCESSING.
LEMMA ProcessingStep ==
  ASSUME TypeOK, ProcessingHasCommand, [Next]_vars
  PROVE  ProcessingHasCommand'
<1>0. \A n \in DOMAIN commands : commands[n].order.ctx \in Ctx
  BY CommandType
<1>1. CASE QueueKept
  BY <1>1 DEF QueueKept, ProcessingHasCommand
<1>2. ASSUME NEW k \in Claim, AdvanceToProcessing(k) PROVE ProcessingHasCommand'
  <2>1. k.ctx \in Ctx
    BY DEF Claim
  <2>2. \A n \in DOMAIN commands :
          n \in DOMAIN commands' /\ commands'[n] = commands[n]
    BY <1>2, AdvanceKeeps
  <2>3. ASSUME NEW c \in Ctx, session'[c] = "PROCESSING", session[c] # "PROCESSING"
        PROVE  \E n \in DOMAIN commands' :
                 commands'[n].order.ctx = c /\ commands'[n].status \in Live
    <3>1. c = k.ctx /\ CanMove(session[c], "PROCESSING")
      BY <1>2, <2>1, <2>3 DEF AdvanceToProcessing, Transition, Moved, TypeOK
    <3>2. PICK n \in DOMAIN commands' :
            commands'[n] = [order |-> k, status |-> "PENDING", attempts |-> 0]
      BY <1>2, <3>1, AdvanceKeeps
    <3>3. QED
      BY <3>1, <3>2 DEF Live
  <2>4. QED
    BY <2>2, <2>3 DEF ProcessingHasCommand
<1>3. ASSUME NEW n \in DOMAIN commands, NEW status \in Live, NEW attempts \in Nat,
             SetCommand(n, status, attempts), UNCHANGED session
      PROVE  ProcessingHasCommand'
  <2>1. status \in CommandStatus
    BY DEF CommandStatus
  <2>2. /\ DOMAIN commands' = DOMAIN commands
        /\ \A m \in DOMAIN commands : m # n => commands'[m] = commands[m]
        /\ commands'[n].order = commands[n].order
        /\ commands'[n].status \in Live
    BY <1>3, <2>1, SetCommandIs
  <2>3. QED
    BY <1>3, <2>2 DEF ProcessingHasCommand
<1>4. ASSUME NEW n \in DOMAIN commands, Dispatched(n) \/ Retried(n)
      PROVE  ProcessingHasCommand'
  BY <1>3, <1>4, CommandType DEF Dispatched, Retried, Live
<1>5. ASSUME NEW n \in DOMAIN commands,
             NEW status \in {"COMPLETED", "FAILED", "TIMED_OUT"},
             NEW to \in {"COMPLETED", "NOT_FOUND"}, Ended(n, status, to)
      PROVE  ProcessingHasCommand'
  <2>1. status \in CommandStatus /\ commands[n].attempts \in Nat
    BY CommandType DEF CommandStatus, Live
  <2>2. /\ DOMAIN commands' = DOMAIN commands
        /\ \A m \in DOMAIN commands : m # n => commands'[m] = commands[m]
    BY <1>5, <2>1, SetCommandIs DEF Ended
  <2>3. to \in Allowed["PROCESSING"] /\ to # "PROCESSING"
    BY DEF Allowed
  <2>4. \A c \in Ctx : session'[c] = "PROCESSING" =>
          session[c] = "PROCESSING" /\ c # commands[n].order.ctx
    BY <1>0, <1>5, <2>3 DEF Ended, Transition, Moved, CanMove, TypeOK
  <2>5. QED
    BY <2>2, <2>4 DEF ProcessingHasCommand
<1>6. CASE Restart
  BY <1>6, RestartCommands DEF ProcessingHasCommand
<1>7. QED
  BY <1>1, <1>2, <1>4, <1>5, <1>6, QueueSteps DEF QueueStep

\* A customer shown as being served is being served, whatever her transitions
\* threw and however often the gateway restarted.
THEOREM ProcessingIsServed == Spec => []ProcessingHasCommand
<1>1. Init => ProcessingHasCommand
  BY DEF Init, ProcessingHasCommand
<1>2. TypeOK /\ ProcessingHasCommand /\ [Next]_vars => ProcessingHasCommand'
  BY ProcessingStep
<1>3. QED
  BY <1>1, <1>2, TypeCorrect, PTL DEF Spec

-----------------------------------------------------------------------------
(* Customers who make one purchase at a time.                              *)

\* A restart, if there is any, forgets the stores with the sessions.
Fresh == Durable = {} \/ MaxRestarts = 0

\* No claim of the customer waits, and none is about to be ordered.
NoClaimOf(c) ==
  /\ \A i \in Id : pending[i] # None => pending[i].ctx # c
  /\ \A k \in replying : k.ctx # c

\* A customer has one thing under way: a question asked, a claim that waits, a
\* claim about to be ordered or a live command, and her session shows which.
AskedOnly ==
  \A c \in Ctx : destReq[c] # None =>
    /\ destReq[c].ctx = c
    /\ session[c] \in {"AWAITING_DESTINATION_NUMBER", "AWAITING_VERIFICATION"}
    /\ NoClaimOf(c)
WaitingOnly ==
  /\ \A i \in Id : pending[i] # None =>
       /\ pending[i].id = i
       /\ session[pending[i].ctx] = "AWAITING_VERIFICATION"
       /\ \A k \in replying : k.ctx # pending[i].ctx
       /\ \A j \in Id : pending[j] # None /\ pending[j].ctx = pending[i].ctx => j = i
  /\ \A k \in replying :
       /\ session[k.ctx] = "AWAITING_VERIFICATION"
       /\ \A l \in replying : l.ctx = k.ctx => l = k
ServedOnly ==
  \A n \in DOMAIN commands : commands[n].status \in Live =>
    /\ session[commands[n].order.ctx] = "PROCESSING"
    /\ \A m \in DOMAIN commands :
         commands[m].status \in Live /\ commands[m].order.ctx = commands[n].order.ctx
           => m = n
OneThing == AskedOnly /\ WaitingOnly /\ ServedOnly

\* A customer without a claim under way may register one: her session can move
\* to AWAITING_VERIFICATION from wherever it is.
LEMMA RegisterOneThing ==
  ASSUME TypeOK, OneThing, NEW k \in Claim, RegisterAndAdvance(k),
         NoClaimOf(k.ctx), session[k.ctx] # "PROCESSING",
         destReq' = [destReq EXCEPT ![k.ctx] = None]
  PROVE  OneThing'
<1> DEFINE c == k.ctx
<1>1. c \in Ctx /\ UNCHANGED commands
  BY DEF Claim, RegisterAndAdvance
<1>2. /\ session' \in [Ctx -> SessionState]
      /\ session'[c] # "PROCESSING"
      /\ \A d \in Ctx \ {c} : session'[d] = session[d]
  <2>1. PICK to \in {"NOT_FOUND", "AWAITING_VERIFICATION"} : Transition(c, to)
    BY DEF RegisterAndAdvance, RejectClaim, MatchOrphan, KeepClaim
  <2>2. session' \in [Ctx -> SessionState]
    BY <1>1, <2>1, TransitionType DEF TypeOK, SessionState
  <2>3. QED
    BY <1>1, <2>1, <2>2 DEF Transition, Moved, TypeOK
<1>3. /\ \A d \in Ctx \ {c} : destReq'[d] = destReq[d]
      /\ destReq'[c] = None
  BY <1>1 DEF TypeOK
<1>4. ServedOnly'
  BY <1>1, <1>2, CommandType DEF OneThing, ServedOnly
<1>5. CASE /\ UNCHANGED <<pending, replying>>
  <2>1. \A i \in Id : pending[i] # None => pending[i].ctx \in Ctx \ {c}
    BY <1>5 DEF NoClaimOf, TypeOK, Claim
  <2>2. \A l \in replying : l.ctx \in Ctx \ {c}
    BY <1>5 DEF NoClaimOf, TypeOK, Claim
  <2>3. AskedOnly'
    BY <1>2, <1>3, <1>5 DEF OneThing, AskedOnly, NoClaimOf
  <2>4. WaitingOnly'
    BY <1>2, <1>5, <2>1, <2>2 DEF OneThing, WaitingOnly
  <2>5. QED
    BY <1>4, <2>3, <2>4 DEF OneThing
<1>6. ASSUME session'[c] = "AWAITING_VERIFICATION",
             \/ replying' = replying \cup {k} /\ pending' = pending
             \/ k.id \in Id /\ pending' = [pending EXCEPT ![k.id] = k] /\ replying' = replying
      PROVE  OneThing'
  <2>1. \A i \in Id : pending[i] # None => pending[i].ctx \in Ctx \ {c}
    BY DEF NoClaimOf, TypeOK, Claim
  <2>2. \A l \in replying : l.ctx \in Ctx \ {c}
    BY DEF NoClaimOf, TypeOK, Claim
  <2>3. /\ \A i \in Id : \/ pending'[i] = pending[i]
                         \/ i = k.id /\ pending'[i] = k /\ replying' = replying
        /\ \A l \in replying' : \/ l \in replying
                                \/ l = k /\ pending' = pending
    BY <1>6 DEF TypeOK
  <2>4. AskedOnly'
    BY <1>2, <1>3, <2>3 DEF OneThing, AskedOnly, NoClaimOf
  <2>5. WaitingOnly'
    BY <1>1, <1>2, <1>6, <2>1, <2>2, <2>3 DEF OneThing, WaitingOnly
  <2>6. QED
    BY <1>4, <2>4, <2>5 DEF OneThing
<1>7. CanMove(session[c], "AWAITING_VERIFICATION")
  BY <1>1 DEF CanMove, Allowed, TypeOK, SessionState
<1>8. CASE RejectClaim(k)
  BY <1>5, <1>8 DEF RejectClaim
<1>9. CASE MatchOrphan(k)
  BY <1>1, <1>6, <1>7, <1>9 DEF MatchOrphan, Transition, Moved, TypeOK
<1>10. CASE KeepClaim(k)
  BY <1>1, <1>6, <1>7, <1>10 DEF KeepClaim, Transition, Moved, TypeOK
<1>11. QED
  BY <1>8, <1>9, <1>10 DEF RegisterAndAdvance

\* The one claim of a customer goes: expired, refused or ordered.
LEMMA ClaimGoes ==
  ASSUME TypeOK, OneThing, NEW c \in Ctx, destReq[c] = None, UNCHANGED destReq,
         session' \in [Ctx -> SessionState],
         \A d \in Ctx \ {c} : session'[d] = session[d],
         \A i \in Id : \/ pending'[i] = None
                       \/ pending'[i] = pending[i] /\ pending[i].ctx # c,
         replying' \subseteq replying, \A k \in replying' : k.ctx # c
  PROVE  AskedOnly' /\ WaitingOnly'
<1>1. \A i \in Id : pending'[i] # None =>
        pending'[i] = pending[i] /\ pending[i].ctx \in Ctx \ {c}
  BY DEF TypeOK, Claim
<1>2. \A k \in replying' : k \in replying /\ k.ctx \in Ctx \ {c}
  BY DEF TypeOK, Claim
<1>3. AskedOnly'
  BY <1>1, <1>2 DEF OneThing, AskedOnly, NoClaimOf
<1>4. WaitingOnly'
  BY <1>1, <1>2 DEF OneThing, WaitingOnly
<1>5. QED
  BY <1>3, <1>4

\* Whoever has a claim under way was asked nothing and awaits verification.
LEMMA ClaimantWaits ==
  ASSUME TypeOK, OneThing, NEW k \in Claim,
         k \in replying \/ \E i \in Id : pending[i] # None /\ pending[i] = k
  PROVE  /\ k.ctx \in Ctx /\ destReq[k.ctx] = None
         /\ session[k.ctx] = "AWAITING_VERIFICATION"
BY DEF OneThing, AskedOnly, WaitingOnly, NoClaimOf, Claim

\* Ordering the one claim of a customer: it gets its command, the only live one.
LEMMA AdvanceOneThing ==
  ASSUME TypeOK, OneThing, NEW k \in Claim, AdvanceToProcessing(k),
         k.ctx \in Ctx, destReq[k.ctx] = None,
         session[k.ctx] = "AWAITING_VERIFICATION", UNCHANGED destReq,
         \A i \in Id : \/ pending'[i] = None
                       \/ pending'[i] = pending[i] /\ pending[i].ctx # k.ctx,
         replying' \subseteq replying, \A l \in replying' : l.ctx # k.ctx
  PROVE  /\ OneThing'
         /\ \E n \in DOMAIN commands' : commands'[n].order = k
<1>1. CanMove(session[k.ctx], "PROCESSING")
  BY DEF CanMove, Allowed
<1>2. /\ session' \in [Ctx -> SessionState] /\ session'[k.ctx] = "PROCESSING"
      /\ \A d \in Ctx \ {k.ctx} : session'[d] = session[d]
  BY <1>1, AdvanceType DEF AdvanceToProcessing, Transition, Moved, TypeOK
<1>3. AskedOnly' /\ WaitingOnly'
  BY <1>2, ClaimGoes
<1>4. \E n \in DOMAIN commands' : commands'[n].order = k
  BY <1>1, AdvanceKeeps
<1>5. \A n \in DOMAIN commands : commands[n].status \in Live =>
        commands[n].order.ctx \in Ctx \ {k.ctx}
  BY CommandType DEF OneThing, ServedOnly
<1>6. \A n \in DOMAIN commands' :
        \/ n \in DOMAIN commands /\ commands'[n] = commands[n]
        \/ n = Len(commands) + 1 /\ commands'[n].order = k
  BY AdvanceCommands
<1>7. ServedOnly'
  <2>1. ASSUME NEW n \in DOMAIN commands', commands'[n].status \in Live
        PROVE  session'[commands'[n].order.ctx] = "PROCESSING"
    BY <1>2, <1>5, <1>6, <2>1 DEF OneThing, ServedOnly
  <2>2. ASSUME NEW n \in DOMAIN commands', NEW m \in DOMAIN commands',
               commands'[n].status \in Live, commands'[m].status \in Live,
               commands'[m].order.ctx = commands'[n].order.ctx
        PROVE  m = n
    BY <1>5, <1>6, <2>2 DEF OneThing, ServedOnly
  <2>3. QED
    BY <2>1, <2>2 DEF ServedOnly
<1>8. QED
  BY <1>3, <1>4, <1>7 DEF OneThing

\* A command that goes on, or ends with its customer told.
LEMMA ProgressOneThing ==
  ASSUME TypeOK, OneThing, UNCHANGED <<destReq, pending, replying>>,
         NEW n \in DOMAIN commands, commands[n].status \in Live,
         NEW status \in CommandStatus,
         NEW attempts \in Nat, SetCommand(n, status, attempts),
         \/ status \in Live /\ UNCHANGED session
         \/ /\ status \notin Live
            /\ \E to \in {"COMPLETED", "NOT_FOUND"} : Transition(commands[n].order.ctx, to)
  PROVE  OneThing'
<1> DEFINE c == commands[n].order.ctx
<1>1. /\ DOMAIN commands' = DOMAIN commands
      /\ \A m \in DOMAIN commands : m # n => commands'[m] = commands[m]
      /\ commands'[n].order = commands[n].order
      /\ commands'[n].status = status
  BY SetCommandIs
<1>2. c \in Ctx /\ session[c] = "PROCESSING"
  BY CommandType DEF OneThing, ServedOnly
<1>3. /\ \A i \in Id : pending[i] # None => pending[i].ctx # c
      /\ \A k \in replying : k.ctx # c
      /\ destReq[c] = None
  BY <1>2 DEF OneThing, AskedOnly, WaitingOnly
<1>4. \A m \in DOMAIN commands : m # n /\ commands[m].status \in Live =>
        commands[m].order.ctx \in Ctx \ {c}
  BY CommandType DEF OneThing, ServedOnly
<1>5. CASE status \in Live /\ UNCHANGED session
  BY <1>1, <1>5 DEF OneThing, AskedOnly, WaitingOnly, ServedOnly, NoClaimOf
<1>6. CASE /\ status \notin Live
           /\ \E to \in {"COMPLETED", "NOT_FOUND"} : Transition(c, to)
  <2>1. /\ session' \in [Ctx -> SessionState]
        /\ \A d \in Ctx \ {c} : session'[d] = session[d]
    <3>1. PICK to \in {"COMPLETED", "NOT_FOUND"} : Transition(c, to)
      BY <1>6
    <3>2. session' \in [Ctx -> SessionState]
      BY <1>2, <3>1, TransitionType DEF TypeOK, SessionState
    <3>3. QED
      BY <1>2, <3>1, <3>2 DEF Transition, TypeOK
  <2>2. AskedOnly' /\ WaitingOnly'
    BY <1>2, <1>3, <2>1, ClaimGoes
  <2>3. ServedOnly'
    BY <1>1, <1>4, <1>6, <2>1 DEF OneThing, ServedOnly
  <2>4. QED
    BY <2>2, <2>3 DEF OneThing
<1>7. QED
  BY <1>5, <1>6

\* A restart of a gateway that keeps its stores does not happen, or everything
\* under way is forgotten together.
LEMMA FreshRestart ==
  ASSUME TypeOK, Fresh, Restart
  PROVE  /\ \A c \in Ctx : destReq'[c] = None
         /\ \A i \in Id : pending'[i] = None
         /\ replying' = {} /\ used' = {}
         /\ \A n \in DOMAIN commands' : commands'[n].status \notin Live
<1>1. Durable = {}
  BY DEF Fresh, Restart, TypeOK
<1>2. \A n \in DOMAIN commands : commands[n] \in Command
  BY CommandType
<1>3. \A n \in DOMAIN commands' : commands'[n].status \notin Live
  BY <1>1, <1>2 DEF Restart, Live, Command
<1>4. QED
  BY <1>1, <1>3 DEF Restart

LEMMA OneThingStep ==
  ASSUME Patient, Fresh, TypeOK, OneThing, [Next]_vars PROVE OneThing'
<1>0. ASSUME UNCHANGED <<session, destReq, pending, replying, commands>>
      PROVE  OneThing'
  BY <1>0 DEF OneThing, AskedOnly, WaitingOnly, ServedOnly, NoClaimOf
<1>1. ASSUME NEW k \in Claims, OnMessageReceived(k) PROVE OneThing'
  <2>1. k \in Claim /\ k.ctx \in Ctx /\ destReq[k.ctx] = None
    BY <1>1, ConstantsAssumption DEF Claim, OnMessageReceived
  <2>2. NoClaimOf(k.ctx) /\ session[k.ctx] # "PROCESSING"
    BY <1>1 DEF OnMessageReceived, AtRest, NoClaimOf
  <2>3. CASE k.dest = NoPhone
    <3>1. /\ destReq' = [destReq EXCEPT ![k.ctx] = k]
          /\ Transition(k.ctx, "AWAITING_DESTINATION_NUMBER")
          /\ UNCHANGED <<pending, replying, commands>>
      BY <1>1, <2>3 DEF OnMessageReceived, stores
    <3>2. session[k.ctx] = "AWAITING_VERIFICATION"
            \/ CanMove(session[k.ctx], "AWAITING_DESTINATION_NUMBER")
      BY <2>1, <2>2 DEF CanMove, Allowed, TypeOK, SessionState
    <3>3. /\ session'[k.ctx] \in {"AWAITING_DESTINATION_NUMBER", "AWAITING_VERIFICATION"}
          /\ \A d \in Ctx \ {k.ctx} : session'[d] = session[d]
      BY <2>1, <3>1, <3>2 DEF Transition, Moved, TypeOK
    <3>4. ServedOnly'
      BY <2>1, <2>2, <3>1, <3>3, CommandType DEF OneThing, ServedOnly
    <3>5. WaitingOnly'
      <4>1. \A i \in Id : pending[i] # None => pending[i].ctx \in Ctx \ {k.ctx}
        BY <2>2 DEF NoClaimOf, TypeOK, Claim
      <4>2. \A l \in replying : l.ctx \in Ctx \ {k.ctx}
        BY <2>2 DEF NoClaimOf, TypeOK, Claim
      <4>3. QED
        BY <3>1, <3>3, <4>1, <4>2 DEF OneThing, WaitingOnly
    <3>6. AskedOnly'
      BY <2>1, <2>2, <3>1, <3>3 DEF OneThing, AskedOnly, NoClaimOf, TypeOK
    <3>7. QED
      BY <3>4, <3>5, <3>6 DEF OneThing
  <2>4. CASE k.dest # NoPhone
    <3>1. RegisterAndAdvance(k) /\ destReq' = destReq
      BY <1>1, <2>4 DEF OnMessageReceived
    <3>2. destReq' = [destReq EXCEPT ![k.ctx] = None]
      BY <2>1, <3>1 DEF TypeOK
    <3>3. QED
      BY <2>1, <2>2, <3>1, <3>2, RegisterOneThing
  <2>5. QED
    BY <2>3, <2>4
<1>2. ASSUME NEW c \in Ctx, NEW p \in Phone, OnDestinationNumberReply(c, p)
      PROVE  OneThing'
  <2> DEFINE k == [destReq[c] EXCEPT !.dest = p]
  <2>1. k \in Claim /\ k.ctx = c
    BY <1>2 DEF OnDestinationNumberReply, TypeOK, Claim, OneThing, AskedOnly
  <2>2. RegisterAndAdvance(k) /\ destReq' = [destReq EXCEPT ![c] = None]
    BY <1>2 DEF OnDestinationNumberReply
  <2>3. NoClaimOf(c) /\ session[c] # "PROCESSING"
    BY <1>2 DEF OnDestinationNumberReply, OneThing, AskedOnly
  <2> HIDE DEF k
  <2>4. QED
    BY <2>1, <2>2, <2>3, RegisterOneThing
<1>3. ASSUME NEW c \in Ctx, OnInvalidDestinationReply(c) PROVE OneThing'
  <2>1. session[c] \in {"AWAITING_DESTINATION_NUMBER", "AWAITING_VERIFICATION"}
    BY <1>3 DEF OnInvalidDestinationReply, OneThing, AskedOnly
  <2>2. session' = session
    BY <1>3, <2>1 DEF OnInvalidDestinationReply, Transition, Moved, CanMove, Allowed, TypeOK
  <2>3. QED
    BY <1>0, <1>3, <2>2 DEF OnInvalidDestinationReply, stores
<1>4. ASSUME NEW k \in replying, OnReplySent(k) PROVE OneThing'
  <2>1. k \in Claim
    BY DEF TypeOK
  <2>2. k.ctx \in Ctx /\ destReq[k.ctx] = None /\ session[k.ctx] = "AWAITING_VERIFICATION"
    BY <2>1, ClaimantWaits
  <2>3. /\ AdvanceToProcessing(k) /\ replying' = replying \ {k}
        /\ UNCHANGED <<destReq, pending>>
    BY <1>4 DEF OnReplySent, stores
  <2>4. /\ \A i \in Id : \/ pending'[i] = None
                         \/ pending'[i] = pending[i] /\ pending[i].ctx # k.ctx
        /\ \A l \in replying' : l.ctx # k.ctx
    BY <2>3 DEF OneThing, WaitingOnly
  <2>5. QED
    BY <2>1, <2>2, <2>3, <2>4, AdvanceOneThing
<1>5. ASSUME NEW i \in Id, pending[i] # None, UNCHANGED <<destReq, replying>>,
             pending' = [pending EXCEPT ![i] = None],
             \/ AdvanceToProcessing(pending[i])
             \/ Transition(pending[i].ctx, "NOT_FOUND") /\ UNCHANGED commands
      PROVE  OneThing'
  <2> DEFINE k == pending[i]
  <2>1. k \in Claim
    BY <1>5 DEF TypeOK
  <2>2. k.ctx \in Ctx /\ destReq[k.ctx] = None /\ session[k.ctx] = "AWAITING_VERIFICATION"
    BY <1>5, <2>1, ClaimantWaits
  <2>3. /\ \A j \in Id : \/ pending'[j] = None
                         \/ pending'[j] = pending[j] /\ pending[j].ctx # k.ctx
        /\ \A l \in replying' : l.ctx # k.ctx
    BY <1>5 DEF OneThing, WaitingOnly, TypeOK
  <2> HIDE DEF k
  <2>4. CASE AdvanceToProcessing(k)
    BY <1>5, <2>1, <2>2, <2>3, <2>4, AdvanceOneThing
  <2>5. CASE Transition(k.ctx, "NOT_FOUND") /\ UNCHANGED commands
    <3>1. /\ session' \in [Ctx -> SessionState]
          /\ \A d \in Ctx \ {k.ctx} : session'[d] = session[d]
      <4>1. session' \in [Ctx -> SessionState]
        BY <2>2, <2>5, TransitionType DEF TypeOK, SessionState
      <4>2. QED
        BY <2>2, <2>5, <4>1 DEF Transition, TypeOK
    <3>2. AskedOnly' /\ WaitingOnly'
      BY <1>5, <2>2, <2>3, <3>1, ClaimGoes
    <3>3. \A n \in DOMAIN commands : commands[n].status \in Live =>
            commands[n].order.ctx \in Ctx \ {k.ctx}
      BY <2>2, CommandType DEF OneThing, ServedOnly
    <3>4. ServedOnly'
      BY <2>5, <3>1, <3>3 DEF OneThing, ServedOnly
    <3>5. QED
      BY <3>2, <3>4 DEF OneThing
  <2>6. QED
    BY <1>5, <2>4, <2>5 DEF k
<1>6. ASSUME NEW i \in Id, SmsReport(i) PROVE OneThing'
  <2>1. CASE pending[i] = None
    BY <1>0, <1>6, <2>1 DEF SmsReport
  <2>2. CASE pending[i] # None
    BY <1>5, <1>6, <2>2 DEF SmsReport
  <2>3. QED
    BY <2>1, <2>2
<1>7. ASSUME NEW i \in Id, ExpireClaim(i) PROVE OneThing'
  BY <1>5, <1>7 DEF ExpireClaim
<1>8. ASSUME NEW i \in Id, ExpireOrphan(i) PROVE OneThing'
  BY <1>0, <1>8 DEF ExpireOrphan
<1>9. ASSUME NEW n \in DOMAIN commands, CheckTimedOut(n) PROVE OneThing'
  <2>1. commands[n].status \in Live /\ commands[n].attempts \in Nat
        /\ UNCHANGED <<destReq, pending, replying>>
    BY <1>9, CommandType DEF CheckTimedOut, Live, stores
  <2>2. CASE SetCommand(n, "PENDING", commands[n].attempts) /\ UNCHANGED session
    BY <2>1, <2>2, ProgressOneThing DEF CommandStatus, Live
  <2>3. CASE /\ SetCommand(n, "TIMED_OUT", commands[n].attempts)
             /\ Transition(commands[n].order.ctx, "NOT_FOUND")
    BY <2>1, <2>3, ProgressOneThing DEF CommandStatus, Live
  <2>4. QED
    BY <1>9, <2>2, <2>3 DEF CheckTimedOut
<1>10. ASSUME NEW n \in DOMAIN commands, NEW success \in BOOLEAN, Ack(n, success)
       PROVE  OneThing'
  <2>1. commands[n].attempts \in Nat
    BY CommandType
  <2>2. PICK status \in {"COMPLETED", "FAILED"}, to \in {"COMPLETED", "NOT_FOUND"} :
          /\ SetCommand(n, status, commands[n].attempts)
          /\ Transition(commands[n].order.ctx, to)
    BY <1>10 DEF Ack
  <2>3. status \in CommandStatus /\ status \notin Live
    BY DEF CommandStatus, Live
  <2>4. QED
    BY <1>10, <2>1, <2>2, <2>3, ProgressOneThing DEF Ack, stores
<1>11. ASSUME DequeueNext PROVE OneThing'
  <2>1. PICK n \in DOMAIN commands :
          /\ commands[n].status = "PENDING"
          /\ SetCommand(n, "DISPATCHED", commands[n].attempts + 1)
    BY <1>11 DEF DequeueNext
  <2>2. commands[n].attempts + 1 \in Nat
    BY CommandType
  <2>3. QED
    BY <1>11, <2>1, <2>2, ProgressOneThing DEF DequeueNext, CommandStatus, Live, stores
<1>12. ASSUME Restart PROVE OneThing'
  BY <1>12, FreshRestart DEF OneThing, AskedOnly, WaitingOnly, ServedOnly
<1>13. CASE UNCHANGED vars
  BY <1>0, <1>13 DEF vars
<1>14. QED
  BY <1>1, <1>2, <1>3, <1>4, <1>6, <1>7, <1>8, <1>9, <1>10, <1>11, <1>12, <1>13
     DEF Next, Customer, Gateway, ResellerPhone

\* A matched payment is ordered at once or after its reply, since the session
\* of its customer can move to PROCESSING.
LEMMA UsedStep ==
  ASSUME Fresh, TypeOK, OneThing, UsedIsOrdered, [Next]_vars
  PROVE  UsedIsOrdered'
<1>1. ASSUME used' = used, SameOrders, replying \subseteq replying'
      PROVE  UsedIsOrdered'
  BY <1>1 DEF UsedIsOrdered, Ordered, SameOrders
<1>2. ASSUME UNCHANGED commands PROVE SameOrders
  BY <1>2 DEF SameOrders
<1>3. ASSUME NEW k \in Claim, RegisterAndAdvance(k), session[k.ctx] # "PROCESSING"
      PROVE  UsedIsOrdered'
  <2>1. UNCHANGED commands /\ k.ctx \in Ctx
    BY <1>3 DEF RegisterAndAdvance, Claim
  <2>2. CASE MatchOrphan(k)
    <3>1. CanMove(session[k.ctx], "AWAITING_VERIFICATION")
      BY <1>3, <2>1 DEF CanMove, Allowed, TypeOK, SessionState
    <3>2. used' = used \cup {k.id} /\ replying' = replying \cup {k}
      BY <2>2, <3>1 DEF MatchOrphan
    <3>3. QED
      BY <2>1, <3>2 DEF UsedIsOrdered, Ordered
  <2>3. CASE RejectClaim(k) \/ KeepClaim(k)
    BY <1>1, <1>2, <2>1, <2>3 DEF RejectClaim, KeepClaim
  <2>4. QED
    BY <1>3, <2>2, <2>3 DEF RegisterAndAdvance
<1>4. ASSUME NEW k \in Claim, AdvanceToProcessing(k),
             session[k.ctx] = "AWAITING_VERIFICATION",
             used' \subseteq used \cup {k.id}, replying \ {k} \subseteq replying'
      PROVE  UsedIsOrdered'
  <2>1. CanMove(session[k.ctx], "PROCESSING")
    BY <1>4 DEF CanMove, Allowed
  <2>2. \A n \in DOMAIN commands :
          n \in DOMAIN commands' /\ commands'[n] = commands[n]
    BY <1>4, AdvanceKeeps
  <2>3. \E n \in DOMAIN commands' : commands'[n].order = k
    BY <1>4, <2>1, AdvanceKeeps
  <2>4. Ordered \cup {k.id} \subseteq Ordered'
    BY <2>2, <2>3 DEF Ordered
  <2>5. QED
    BY <1>4, <2>4 DEF UsedIsOrdered
<1>5. ASSUME NEW k \in Claims, OnMessageReceived(k) PROVE UsedIsOrdered'
  <2>1. k \in Claim /\ session[k.ctx] # "PROCESSING"
    BY <1>5, ConstantsAssumption DEF OnMessageReceived
  <2>2. QED
    BY <1>1, <1>2, <1>3, <1>5, <2>1 DEF OnMessageReceived, stores
<1>6. ASSUME NEW c \in Ctx, NEW p \in Phone, OnDestinationNumberReply(c, p)
      PROVE  UsedIsOrdered'
  <2> DEFINE k == [destReq[c] EXCEPT !.dest = p]
  <2>1. k \in Claim /\ session[k.ctx] # "PROCESSING"
    BY <1>6 DEF OnDestinationNumberReply, TypeOK, Claim, OneThing, AskedOnly
  <2>2. RegisterAndAdvance(k)
    BY <1>6 DEF OnDestinationNumberReply
  <2> HIDE DEF k
  <2>3. QED
    BY <1>3, <2>1, <2>2
<1>7. ASSUME NEW c \in Ctx, OnInvalidDestinationReply(c) PROVE UsedIsOrdered'
  BY <1>1, <1>2, <1>7 DEF OnInvalidDestinationReply, stores
<1>8. ASSUME NEW k \in replying, OnReplySent(k) PROVE UsedIsOrdered'
  <2>1. k \in Claim /\ session[k.ctx] = "AWAITING_VERIFICATION"
    BY DEF OneThing, WaitingOnly, TypeOK
  <2>2. QED
    BY <1>4, <1>8, <2>1 DEF OnReplySent, stores
<1>9. ASSUME NEW i \in Id, SmsReport(i) PROVE UsedIsOrdered'
  <2>1. CASE pending[i] = None \/ pending[i].amount # Paid[i]
    BY <1>1, <1>2, <1>9, <2>1 DEF SmsReport
  <2>2. CASE pending[i] # None /\ pending[i].amount = Paid[i]
    <3>1. /\ pending[i] \in Claim /\ pending[i].id = i
          /\ session[pending[i].ctx] = "AWAITING_VERIFICATION"
          /\ AdvanceToProcessing(pending[i])
          /\ used' = used \cup {i} /\ replying' = replying
      BY <1>9, <2>2 DEF SmsReport, OneThing, WaitingOnly, TypeOK
    <3>2. QED
      BY <1>4, <3>1
  <2>3. QED
    BY <2>1, <2>2
<1>10. ASSUME NEW i \in Id, ExpireClaim(i) \/ ExpireOrphan(i) PROVE UsedIsOrdered'
  BY <1>1, <1>2, <1>10 DEF ExpireClaim, ExpireOrphan
<1>11. ASSUME NEW n \in DOMAIN commands, NEW status \in CommandStatus,
              NEW attempts \in Nat, SetCommand(n, status, attempts),
              UNCHANGED <<used, replying>>
       PROVE  UsedIsOrdered'
  <2>1. SameOrders
    BY <1>11, SetCommandType DEF SameOrders, TypeOK
  <2>2. QED
    BY <1>1, <1>11, <2>1
<1>12. ASSUME NEW n \in DOMAIN commands, CheckTimedOut(n) PROVE UsedIsOrdered'
  BY <1>11, <1>12, CommandType DEF CheckTimedOut, CommandStatus, Live, stores
<1>13. ASSUME NEW n \in DOMAIN commands, NEW success \in BOOLEAN, Ack(n, success)
       PROVE  UsedIsOrdered'
  BY <1>11, <1>13, CommandType DEF Ack, CommandStatus, stores
<1>14. ASSUME DequeueNext PROVE UsedIsOrdered'
  <2>1. PICK n \in DOMAIN commands :
          SetCommand(n, "DISPATCHED", commands[n].attempts + 1)
    BY <1>14 DEF DequeueNext
  <2>2. commands[n].attempts + 1 \in Nat /\ "DISPATCHED" \in CommandStatus
    BY CommandType DEF CommandStatus, Live
  <2>3. QED
    BY <1>11, <1>14, <2>1, <2>2 DEF DequeueNext, stores
<1>15. ASSUME Restart PROVE UsedIsOrdered'
  BY <1>15, FreshRestart DEF UsedIsOrdered
<1>16. CASE UNCHANGED vars
  BY <1>1, <1>2, <1>16 DEF vars
<1>17. QED
  BY <1>5, <1>6, <1>7, <1>8, <1>9, <1>10, <1>12, <1>13, <1>14, <1>15, <1>16
     DEF Next, Customer, Gateway, ResellerPhone

\* What these customers have under way, for any claims, payments and chats.
LEMMA OneThingAlways ==
  ASSUME Patient, Fresh
  PROVE  Spec => [](OneThing /\ UsedIsOrdered)
<1>1. Init => OneThing /\ UsedIsOrdered
  BY DEF Init, OneThing, AskedOnly, WaitingOnly, ServedOnly, UsedIsOrdered
<1>2. TypeOK /\ (OneThing /\ UsedIsOrdered) /\ [Next]_vars => (OneThing /\ UsedIsOrdered)'
  BY OneThingStep, UsedStep
<1>3. QED
  BY <1>1, <1>2, TypeCorrect, PTL DEF Spec

\* No payment that was matched is dropped: it has its command or is about to,
\* even if its claim was somebody else's too (advanceToProcessing never throws).
THEOREM UsedAreOrdered ==
  ASSUME Patient, Fresh PROVE Spec => []UsedIsOrdered
<1>1. QED
  BY OneThingAlways, PTL

\* The session and the queue agree on who is being served, both ways.
THEOREM SessionsTrackQueue ==
  ASSUME Patient, Fresh PROVE Spec => []SessionTracksQueue
<1>1. TypeOK /\ OneThing /\ ProcessingHasCommand => SessionTracksQueue
  BY CommandType DEF OneThing, ServedOnly, ProcessingHasCommand, SessionTracksQueue
<1>2. QED
  BY <1>1, OneThingAlways, ProcessingIsServed, TypeCorrect, PTL

-----------------------------------------------------------------------------
(* The request for a destination number.                                   *)

\* A request is noted under the chat of its claim.
OwnRequest == \A c \in Ctx : destReq[c] # None => destReq[c].ctx = c

LEMMA OwnRequestStep ==
  ASSUME TypeOK, OwnRequest, [Next]_vars PROVE OwnRequest'
<1>1. CASE UNCHANGED destReq
  BY <1>1 DEF OwnRequest
<1>2. ASSUME NEW k \in Claims, OnMessageReceived(k) PROVE OwnRequest'
  BY <1>2 DEF OnMessageReceived, OwnRequest, TypeOK
<1>3. ASSUME NEW c \in Ctx, NEW p \in Phone, OnDestinationNumberReply(c, p)
      PROVE  OwnRequest'
  BY <1>3 DEF OnDestinationNumberReply, OwnRequest, TypeOK
<1>4. CASE Restart
  BY <1>4 DEF Restart, OwnRequest
<1>5. CASE \/ \E c \in Ctx : OnInvalidDestinationReply(c)
           \/ Gateway \/ ResellerPhone
  BY <1>1, <1>5 DEF OnInvalidDestinationReply, Gateway, ResellerPhone, OnReplySent,
     ExpireClaim, ExpireOrphan, CheckTimedOut, SmsReport, DequeueNext, Ack
<1>6. CASE UNCHANGED vars
  BY <1>1, <1>6 DEF vars
<1>7. QED
  BY <1>2, <1>3, <1>4, <1>5, <1>6 DEF Next, Customer

Asks(c) ==
  destReq'[c] # None =>
    \/ session'[c] = "AWAITING_DESTINATION_NUMBER"
    \/ destReq'[c] = destReq[c] /\ session[c] # "AWAITING_DESTINATION_NUMBER"
    \/ destReq[c] = None /\ session[c] = "AWAITING_VERIFICATION"

\* From AWAITING_DESTINATION_NUMBER a session moves only to
\* AWAITING_VERIFICATION: whatever else is tried throws.
LEMMA OthersLeaveAsked ==
  ASSUME TypeOK, UNCHANGED destReq, NEW d \in Ctx, NEW c \in Ctx,
         NEW to \in SessionState \ {"AWAITING_VERIFICATION"}, Transition(d, to)
  PROVE  Asks(c)
<1>1. session'[c] = session[c] \/ (c = d /\ session'[c] = to /\ CanMove(session[c], to))
  BY DEF Transition, Moved, TypeOK
<1>2. CanMove("AWAITING_DESTINATION_NUMBER", to) => to = "AWAITING_DESTINATION_NUMBER"
  BY DEF CanMove, Allowed
<1>3. QED
  BY <1>1, <1>2 DEF Asks

\* Registering a claim answers its customer's request, if there was one, and
\* touches nobody else's.
LEMMA RegisterLeavesAsked ==
  ASSUME TypeOK, NEW k \in Claim, RegisterAndAdvance(k), NEW c \in Ctx,
         destReq'[k.ctx] = None, \A d \in Ctx \ {k.ctx} : destReq'[d] = destReq[d]
  PROVE  Asks(c)
<1>1. k.ctx \in Ctx
  BY DEF Claim
<1>2. PICK to \in {"NOT_FOUND", "AWAITING_VERIFICATION"} : Transition(k.ctx, to)
  BY DEF RegisterAndAdvance, RejectClaim, MatchOrphan, KeepClaim
<1>3. c # k.ctx => session'[c] = session[c]
  BY <1>1, <1>2 DEF Transition, TypeOK
<1>4. QED
  BY <1>3 DEF Asks

LEMMA AsksStep ==
  ASSUME TypeOK, OwnRequest, [Next]_vars, NEW c \in Ctx
  PROVE  Asks(c)
<1>0. ASSUME UNCHANGED <<session, destReq>> PROVE Asks(c)
  BY <1>0 DEF Asks
<1>1. ASSUME NEW k \in Claims, OnMessageReceived(k) PROVE Asks(c)
  <2>1. k \in Claim /\ k.ctx \in Ctx
    BY ConstantsAssumption DEF Claim
  <2>2. CASE k.dest = NoPhone
    <3>1. /\ destReq[k.ctx] = None /\ session[k.ctx] # "PROCESSING"
          /\ destReq' = [destReq EXCEPT ![k.ctx] = k]
          /\ Transition(k.ctx, "AWAITING_DESTINATION_NUMBER")
      BY <1>1, <2>2 DEF OnMessageReceived
    <3>2. \A s \in SessionState \ {"PROCESSING", "AWAITING_VERIFICATION"} :
            CanMove(s, "AWAITING_DESTINATION_NUMBER")
      BY DEF SessionState, CanMove, Allowed
    <3>3. CASE c = k.ctx
      BY <2>1, <3>1, <3>2, <3>3 DEF Asks, Transition, Moved, TypeOK
    <3>4. CASE c # k.ctx
      BY <2>1, <3>1, <3>4 DEF Asks, Transition, TypeOK
    <3>5. QED
      BY <3>3, <3>4
  <2>3. CASE k.dest # NoPhone
    BY <1>1, <2>1, <2>3, RegisterLeavesAsked DEF OnMessageReceived
  <2>4. QED
    BY <2>2, <2>3
<1>2. ASSUME NEW d \in Ctx, NEW p \in Phone, OnDestinationNumberReply(d, p)
      PROVE  Asks(c)
  <2>1. PICK k : k = [destReq[d] EXCEPT !.dest = p]
    OBVIOUS
  <2>2. /\ destReq[d] \in Claim /\ destReq[d].ctx = d
        /\ destReq' = [destReq EXCEPT ![d] = None]
    BY <1>2 DEF OnDestinationNumberReply, OwnRequest, TypeOK
  <2>3. RegisterAndAdvance(k)
    BY <1>2, <2>1 DEF OnDestinationNumberReply
  <2>4. k \in Claim /\ k.ctx = d
    BY <2>1, <2>2 DEF Claim
  <2>5. destReq'[k.ctx] = None /\ \A e \in Ctx \ {k.ctx} : destReq'[e] = destReq[e]
    BY <2>2, <2>4 DEF TypeOK
  <2>6. QED
    BY <2>3, <2>4, <2>5, RegisterLeavesAsked
<1>3. ASSUME NEW d \in Ctx, OnInvalidDestinationReply(d) PROVE Asks(c)
  BY <1>3, OthersLeaveAsked DEF OnInvalidDestinationReply, SessionState
<1>4. ASSUME NEW k \in Claim, AdvanceToProcessing(k), UNCHANGED destReq PROVE Asks(c)
  BY <1>4, OthersLeaveAsked DEF AdvanceToProcessing, Claim, SessionState
<1>5. ASSUME NEW k \in replying, OnReplySent(k) PROVE Asks(c)
  BY <1>4, <1>5 DEF OnReplySent, TypeOK
<1>6. ASSUME NEW i \in Id, SmsReport(i) PROVE Asks(c)
  <2>1. CASE pending[i] = None
    BY <1>0, <1>6, <2>1 DEF SmsReport
  <2>2. CASE pending[i] # None
    <3>1. pending[i] \in Claim /\ pending[i].ctx \in Ctx
      BY <2>2 DEF TypeOK, Claim
    <3>2. \/ AdvanceToProcessing(pending[i])
          \/ Transition(pending[i].ctx, "NOT_FOUND")
      BY <1>6, <2>2 DEF SmsReport
    <3>3. UNCHANGED destReq
      BY <1>6 DEF SmsReport
    <3>4. QED
      BY <1>4, <3>1, <3>2, <3>3, OthersLeaveAsked DEF SessionState
  <2>3. QED
    BY <2>1, <2>2
<1>7. ASSUME NEW i \in Id, ExpireClaim(i) PROVE Asks(c)
  <2>1. pending[i].ctx \in Ctx
    BY <1>7 DEF ExpireClaim, TypeOK, Claim
  <2>2. QED
    BY <1>7, <2>1, OthersLeaveAsked DEF ExpireClaim, SessionState
<1>8. ASSUME NEW i \in Id, ExpireOrphan(i) PROVE Asks(c)
  BY <1>0, <1>8 DEF ExpireOrphan
<1>9. ASSUME NEW n \in DOMAIN commands, CheckTimedOut(n) PROVE Asks(c)
  <2>1. commands[n].order.ctx \in Ctx
    BY CommandType
  <2>2. QED
    BY <1>0, <1>9, <2>1, OthersLeaveAsked DEF CheckTimedOut, SessionState
<1>10. ASSUME NEW n \in DOMAIN commands, NEW success \in BOOLEAN, Ack(n, success)
       PROVE  Asks(c)
  <2>1. commands[n].order.ctx \in Ctx
    BY CommandType
  <2>2. PICK to \in {"COMPLETED", "NOT_FOUND"} : Transition(commands[n].order.ctx, to)
    BY <1>10 DEF Ack
  <2>3. QED
    BY <1>10, <2>1, <2>2, OthersLeaveAsked DEF Ack, SessionState
<1>11. CASE DequeueNext
  BY <1>0, <1>11 DEF DequeueNext
<1>12. CASE Restart
  BY <1>12 DEF Restart, Asks
<1>13. CASE UNCHANGED vars
  BY <1>0, <1>13 DEF vars
<1>14. QED
  BY <1>1, <1>2, <1>3, <1>5, <1>6, <1>7, <1>8, <1>9, <1>10, <1>11, <1>12, <1>13
     DEF Next, Customer, Gateway, ResellerPhone

\* An open request for a number was asked for and stays so, or was noted while
\* an earlier claim awaited its verification: for any customers, rivals, repeats,
\* and restarts (#onMessageReceived, Session.transitionTo).
THEOREM RequestsAreAsked == Spec => RequestedIsAsked
<1>1. Init => OwnRequest
  BY DEF Init, OwnRequest
<1>2. TypeOK /\ OwnRequest /\ [Next]_vars => OwnRequest'
  BY OwnRequestStep
<1>3. TypeOK /\ OwnRequest /\ [Next]_vars => [\A c \in Ctx : Asks(c)]_vars
  BY AsksStep
<1>4. QED
  BY <1>1, <1>2, <1>3, TypeCorrect, PTL DEF Spec, RequestedIsAsked, Asks

-----------------------------------------------------------------------------
(* The flow implements PaymentPromise.                                     *)

\* A step that orders claim k, with its evidence, buys k in PaymentPromise;
\* a step that orders nothing buys nothing.
LEMMA AdvanceBuys ==
  ASSUME TypeOK, NEW k \in Claim, AdvanceToProcessing(k),
         k \in claimed', k.id \in reported', k.amount = Paid[k.id],
         \A n \in DOMAIN commands : commands[n].order.id # k.id
  PROVE  \/ Promise!Buy(k)
         \/ commands' = commands
<1> DEFINE new == [order |-> k, status |-> "PENDING", attempts |-> 0]
<1>1. CASE commands' = Append(commands, new)
  <2>1. commands \in Seq(Command) /\ new \in Command /\ new.order = k
    BY DEF TypeOK, Command, CommandStatus, Live
  <2> HIDE DEF new
  <2>2. /\ DOMAIN commands' = 1..(Len(commands) + 1)
        /\ DOMAIN commands = 1..Len(commands)
        /\ Len(commands) \in Nat
        /\ \A n \in DOMAIN commands : commands'[n] = commands[n]
        /\ commands'[Len(commands) + 1] = new
    BY <1>1, <2>1
  <2> DEFINE b == [n \in DOMAIN commands |-> commands[n].order]
  <2>3. \A n \in DOMAIN commands : commands[n].order \in Claim
    BY CommandType
  <2>4. b \in Seq(Claim) /\ Len(b) = Len(commands)
    BY <2>2, <2>3
  <2>5. Append(b, k) = [n \in DOMAIN commands' |-> commands'[n].order]
    <3>1. Append(b, k) = [n \in 1..(Len(b) + 1) |->
                            IF n = Len(b) + 1 THEN k ELSE b[n]]
      BY <2>4
    <3>2. QED
      BY <2>1, <2>2, <2>4, <3>1
  <2>6. \A n \in DOMAIN b : b[n].id # k.id
    OBVIOUS
  <2>7. QED
    BY <2>5, <2>6 DEF Promise!Buy
<1>2. QED
  BY <1>1, AdvanceType

\* Every step of the flow is a step or a stutter of PaymentPromise.
LEMMA PromiseStep ==
  ASSUME TypeOK, Settlement, [Next]_vars
  PROVE  [Promise!PromiseNext]_(Promise!promiseVars)
<1>1. claimed \subseteq claimed' /\ reported \subseteq reported'
  BY DEF Next, Customer, Gateway, ResellerPhone, OnMessageReceived,
         OnDestinationNumberReply, OnInvalidDestinationReply, OnReplySent,
         SmsReport, ExpireClaim, ExpireOrphan, CheckTimedOut, DequeueNext, Ack,
         Restart, RegisterAndAdvance, vars
<1>2. ASSUME SameOrders PROVE Promise!PromiseNext
  BY <1>1, <1>2 DEF SameOrders, Promise!PromiseNext
<1>3. ASSUME UNCHANGED commands PROVE Promise!PromiseNext
  BY <1>2, <1>3 DEF SameOrders
<1>4. ASSUME NEW k \in Claim, AdvanceToProcessing(k),
             k \in claimed', k.id \in reported', k.amount = Paid[k.id],
             \A n \in DOMAIN commands : commands[n].order.id # k.id
      PROVE  Promise!PromiseNext
  BY <1>1, <1>3, <1>4, AdvanceBuys DEF Promise!PromiseNext
<1>5. ASSUME NEW k \in Claims, OnMessageReceived(k) PROVE Promise!PromiseNext
  BY <1>3, <1>5 DEF OnMessageReceived, RegisterAndAdvance
<1>6. ASSUME NEW c \in Ctx, NEW p \in Phone, OnDestinationNumberReply(c, p)
      PROVE  Promise!PromiseNext
  BY <1>3, <1>6 DEF OnDestinationNumberReply, RegisterAndAdvance
<1>7. ASSUME NEW c \in Ctx, OnInvalidDestinationReply(c)
      PROVE  Promise!PromiseNext
  BY <1>3, <1>7 DEF OnInvalidDestinationReply
<1>8. ASSUME NEW k \in replying, OnReplySent(k) PROVE Promise!PromiseNext
  BY <1>1, <1>4, <1>8 DEF OnReplySent, TypeOK, Settlement, Evidence
<1>9. ASSUME NEW i \in Id, SmsReport(i) PROVE Promise!PromiseNext
  <2>1. CASE UNCHANGED commands
    BY <1>3, <2>1
  <2>2. CASE /\ pending[i] # None /\ pending[i].amount = Paid[i]
             /\ AdvanceToProcessing(pending[i])
    <3>1. pending[i] \in Claim /\ pending[i].id = i /\ pending[i] \in claimed
      BY <2>2 DEF TypeOK, Settlement, Evidence
    <3>2. i \in reported' /\ i \notin used
      BY <1>9, <2>2 DEF SmsReport, Settlement, StoresExclusive
    <3>3. \A n \in DOMAIN commands : commands[n].order.id # i
      BY <3>2 DEF Settlement, Evidence
    <3>4. QED
      BY <1>1, <1>4, <2>2, <3>1, <3>2, <3>3
  <2>3. QED
    BY <1>9, <2>1, <2>2 DEF SmsReport
<1>10. ASSUME NEW i \in Id, ExpireClaim(i) \/ ExpireOrphan(i)
       PROVE  Promise!PromiseNext
  BY <1>3, <1>10 DEF ExpireClaim, ExpireOrphan
<1>11. ASSUME NEW n \in DOMAIN commands, NEW s \in CommandStatus, NEW a \in Nat,
              SetCommand(n, s, a)
       PROVE  Promise!PromiseNext
  <2>1. SameOrders
    BY <1>11, SetCommandType DEF SameOrders, TypeOK
  <2>2. QED
    BY <1>2, <2>1
<1>12. ASSUME NEW n \in DOMAIN commands, CheckTimedOut(n)
       PROVE  Promise!PromiseNext
  BY <1>11, <1>12, CommandType DEF CheckTimedOut, CommandStatus, Live
<1>13. ASSUME DequeueNext PROVE Promise!PromiseNext
  <2>1. PICK n \in DOMAIN commands :
          SetCommand(n, "DISPATCHED", commands[n].attempts + 1)
    BY <1>13 DEF DequeueNext
  <2>2. commands[n].attempts + 1 \in Nat /\ "DISPATCHED" \in CommandStatus
    BY CommandType DEF CommandStatus, Live
  <2>3. QED
    BY <1>11, <2>1, <2>2
<1>14. ASSUME NEW n \in DOMAIN commands, NEW success \in BOOLEAN, Ack(n, success)
       PROVE  Promise!PromiseNext
  BY <1>11, <1>14, CommandType DEF Ack, CommandStatus
<1>15. ASSUME Restart PROVE Promise!PromiseNext
  <2>1. \A n \in DOMAIN commands : commands[n] \in Command
    BY CommandType
  <2>2. SameOrders
    BY <1>15, <2>1 DEF Restart, SameOrders, Command
  <2>3. QED
    BY <1>2, <2>2
<1>16. CASE UNCHANGED vars
  BY <1>3, <1>16 DEF vars
<1>17. QED
  BY <1>5, <1>6, <1>7, <1>8, <1>9, <1>10, <1>12, <1>13, <1>14, <1>15, <1>16
     DEF Next, Customer, Gateway, ResellerPhone

\* The flow implements PaymentPromise: claims, timers, repeated reports and
\* restarts never buy without evidence, nor twice.
THEOREM ImplementsPromise ==
  ASSUME UsedSurvives PROVE Spec => KeepsPromise
<1>1. Init => Promise!PromiseInit
  BY DEF Init, Promise!PromiseInit
<1>2. Spec => []Settlement
  BY OrderedOnce, PTL DEF Settlement
<1>3. TypeOK /\ Settlement /\ [Next]_vars
        => [Promise!PromiseNext]_(Promise!promiseVars)
  BY PromiseStep
<1>4. QED
  BY <1>1, <1>2, <1>3, TypeCorrect, PTL DEF Spec, KeepsPromise, Promise!PromiseSpec
=============================================================================
