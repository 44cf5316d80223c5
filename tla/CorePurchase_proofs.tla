------------------------ MODULE CorePurchase_proofs -------------------------
(***************************************************************************)
(* Proofs about CorePurchase, for every set of messages, payments and      *)
(* calls under way.  CoreInv says of each call what its transaction knows  *)
(* at the stage it has reached, and that of two inserts of one payment     *)
(* only one gets past the unique constraint.  RecordInv says where an      *)
(* announced outcome is: in an acknowledgement under way, lost with one,   *)
(* or recorded; and that no confirmation or claim turns a used payment     *)
(* back.                                                                   *)
(***************************************************************************)
EXTENDS CorePurchase, TLAPS

\* A payment was reported by the phone unless it only was claimed, belongs to
\* an order of its own id, and is used by a delivery.
PaymentOK ==
  \A i \in Id : payment[i] # None =>
    /\ payment[i].order # None => PaymentOf[payment[i].order] = i
    /\ payment[i].status = "CLAIMED" => payment[i].order # None
    /\ payment[i].status # "CLAIMED" => i \in confirmed
    /\ payment[i].status = "USED" =>
         payment[i].order # None /\ TRUE \in Announced(payment[i].order)

\* The order of m may have its megas: it names a payment that was reported,
\* with the right amount.
Verified(m) ==
  /\ payment[PaymentOf[m]] # None /\ PaymentOf[m] \in confirmed
  /\ m \in RightAmount

CommandOK ==
  \A m \in Msg : command[m] # <<>> =>
    Verified(m) /\ payment[PaymentOf[m]].order = m

\* What was enqueued is a row of the order, and what was announced was enqueued.
EnqueuedOK ==
  \A m \in Msg :
    /\ \A k \in DOMAIN enqueued[m] : enqueued[m][k] \in DOMAIN command[m]
    /\ \A t \in told[m] : t[1] \in DOMAIN enqueued[m]

\* What a saved response says is still so.
ReplyOK ==
  /\ \A m \in Msg :
       /\ reply[<<"claim", m>>] # None =>
            /\ reply[<<"claim", m>>].order = m
            /\ reply[<<"claim", m>>].decision \in {"pending", "verified", "mismatch", "used"}
       /\ reply[<<"register", m>>] # None =>
            /\ reply[<<"register", m>>].order = m
            /\ reply[<<"register", m>>].decision = "registered"
            /\ reply[<<"register", m>>].row \in DOMAIN command[m]
  /\ \A i \in Id : reply[<<"sms", i>>] # None =>
       /\ reply[<<"sms", i>>].decision \in {"orphan", "verified", "mismatch", "used"}
       /\ reply[<<"sms", i>>].order # None => PaymentOf[reply[<<"sms", i>>].order] = i
  /\ \A r \in Request : reply[r] # None /\ reply[r].decision = "verified" =>
       /\ reply[r].order # None /\ Verified(reply[r].order)
       /\ orders[reply[r].order] \notin {None, "PENDING_PAYMENT"}
       /\ payment[PaymentOf[reply[r].order]].status \in {"CONFIRMED", "USED"}

\* A transaction that has inserted its payment and not committed.
Inserts(c) ==
  /\ c.op \in {"claim", "sms"} /\ c.at \in {"row", "commit"}
  /\ c.decision \in {"pending", "orphan"}

\* What a call knows at the stage it has reached.
CallOK(c) ==
  /\ c.order # None => PaymentOf[c.order] = c.id
  /\ c.op # "sms" => c.order # None
  /\ c.decision = "pending" => c.op = "claim"
  /\ c.decision = "orphan" => c.op = "sms"
  /\ c.decision = "registered" => c.op = "register"
  /\ c.at = "row" => c.op \in {"claim", "sms"}
  /\ c.at = "replay" => c.op # "ack"
  /\ c.at \in {"write", "row", "commit"} /\ c.op # "ack" => c.decision # None
  /\ c.at = "advance" => c.decision = "verified" /\ c.op \in {"claim", "sms"}
  /\ c.op \in {"claim", "sms"} /\ c.decision = "verified" =>
       /\ c.order # None /\ c.order \in RightAmount /\ payment[c.id] # None
       /\ c.op = "claim" \/ c.at \in {"answer", "advance"} => c.id \in confirmed
  /\ Inserts(c) => payment[c.id] = None
  /\ c.op = "register" =>
       /\ Verified(c.order)
       /\ c.decision \in {None, "registered"}
       /\ c.at \in {"write", "commit"} => payment[c.id].order = c.order
       /\ c.at = "answer" => c.row \in DOMAIN command[c.order]
  /\ c.op = "ack" => c.row \in DOMAIN command[c.order] /\ c.ok \in Announced(c.order)

SlotOK(s) == call[s] # None => CallOK(call[s])

Exclusive ==
  \A s, t \in Slot :
    /\ s # t /\ call[s] # None /\ call[t] # None
    /\ Inserts(call[s]) /\ Inserts(call[t])
    => call[s].id # call[t].id

CoreInv ==
  /\ TypeOK /\ PaymentOK /\ CommandOK /\ EnqueuedOK /\ ReplyOK
  /\ \A s \in Slot : SlotOK(s)
  /\ Exclusive

-----------------------------------------------------------------------------
(* The rows of an order.                                                   *)

\* Where there is a row, there are rows.
LEMMA RowThere ==
  ASSUME NEW q, NEW k \in DOMAIN q
  PROVE  q # <<>>
OBVIOUS

\* A row is added behind the others.
LEMMA RowAppended ==
  ASSUME NEW S, NEW q \in Seq(S), NEW x \in S
  PROVE  /\ Append(q, x) \in Seq(S) /\ Len(q) + 1 \in Nat
         /\ DOMAIN Append(q, x) = DOMAIN q \cup {Len(q) + 1}
         /\ \A k \in DOMAIN q : Append(q, x)[k] = q[k]
         /\ Append(q, x)[Len(q) + 1] = x
OBVIOUS

\* A row that changes its status leaves the others theirs.
LEMMA RowChanged ==
  ASSUME NEW S, NEW q \in Seq(S), NEW k \in DOMAIN q, NEW x \in S
  PROVE  /\ [q EXCEPT ![k] = x] \in Seq(S)
         /\ DOMAIN [q EXCEPT ![k] = x] = DOMAIN q
         /\ \A j \in DOMAIN q : [q EXCEPT ![k] = x][j] = IF j = k THEN x ELSE q[j]
OBVIOUS

-----------------------------------------------------------------------------
(* Steps that write nothing into the Core.                                 *)

GatewayTypeOK ==
  /\ session \in [Ctx -> SessionState]
  /\ sent \subseteq Msg
  /\ reports \in [Id -> 0..MaxReports]
  /\ enqueued \in [Msg -> Seq(Nat)]
  /\ told \in [Msg -> SUBSET (Nat \X BOOLEAN)]
  /\ unacked \subseteq Msg

\* One call changes and what was announced stays announced.
LEMMA CallStep ==
  ASSUME CoreInv, NEW s \in Slot, UNCHANGED core, GatewayTypeOK', EnqueuedOK',
         \A m \in Msg : Announced(m) \subseteq Announced(m)',
         call' = [call EXCEPT ![s] = call'[s]], call'[s] \in Call \cup {None},
         SlotOK(s)',
         call'[s] # None /\ Inserts(call'[s]) =>
           \A t \in Slot \ {s} :
             call[t] # None /\ Inserts(call[t]) => call[t].id # call'[s].id
  PROVE  CoreInv'
<1> USE DEF core
<1>1. TypeOK'
  BY DEF CoreInv, TypeOK, GatewayTypeOK
<1>2. CommandOK' /\ ReplyOK'
  BY DEF CoreInv, CommandOK, ReplyOK, Verified
<1>3. PaymentOK'
  <2>1. \A i \in Id : payment[i] # None => payment[i].order \in Msg \cup {None}
    BY DEF CoreInv, TypeOK, Payment
  <2> QED
    BY <2>1 DEF CoreInv, PaymentOK
<1>4. ASSUME NEW t \in Slot PROVE SlotOK(t)'
  <2>1. CASE t = s
    BY <2>1
  <2>2. CASE t # s
    <3>1. call'[t] = call[t]
      BY <2>2 DEF CoreInv, TypeOK
    <3>2. call[t] # None => call[t].order \in Msg \cup {None}
      BY DEF CoreInv, TypeOK, Call
    <3> QED
      BY <3>1, <3>2 DEF CoreInv, SlotOK, CallOK, Inserts, Verified
  <2> QED
    BY <2>1, <2>2
<1>5. Exclusive'
  <2> SUFFICES ASSUME NEW t \in Slot, NEW u \in Slot, t # u,
                      call'[t] # None, call'[u] # None,
                      Inserts(call'[t]), Inserts(call'[u])
               PROVE  call'[t].id # call'[u].id
    BY DEF Exclusive, Inserts
  <2>1. \A v \in Slot \ {s} : call'[v] = call[v]
    BY DEF CoreInv, TypeOK
  <2> QED
    BY <2>1 DEF CoreInv, Exclusive
<1> QED
  BY <1>1, <1>2, <1>3, <1>4, <1>5 DEF CoreInv

\* The steps below leave the gateway's other counters alone.
LEMMA QuietStep ==
  ASSUME CoreInv, NEW s \in Slot, UNCHANGED core,
         UNCHANGED <<sent, reports, enqueued, told>>,
         session' \in [Ctx -> SessionState], unacked' \subseteq Msg,
         call' = [call EXCEPT ![s] = call'[s]], call'[s] \in Call \cup {None},
         SlotOK(s)',
         call'[s] # None => ~Inserts(call'[s])
  PROVE  CoreInv'
<1>1. GatewayTypeOK'
  BY DEF CoreInv, TypeOK, GatewayTypeOK
<1>2. EnqueuedOK' /\ \A m \in Msg : Announced(m)' = Announced(m)
  BY DEF CoreInv, EnqueuedOK, core, Announced
<1> QED
  BY <1>1, <1>2, CallStep

\* Giving up a call leaves a session in a session state.
LEMMA GiveUpType ==
  ASSUME CoreInv, NEW c, GiveUp(c)
  PROVE  session' \in [Ctx -> SessionState]
BY DEF CoreInv, TypeOK, GiveUp, Moved, SessionState

\* A call that ends keeps the invariant.
LEMMA EndKeeps ==
  ASSUME CoreInv, NEW s \in Slot, End(s), UNCHANGED core,
         UNCHANGED <<sent, reports, enqueued, told>>,
         session' \in [Ctx -> SessionState], unacked' \subseteq Msg
  PROVE  CoreInv'
<1>1. call' = [call EXCEPT ![s] = None] /\ call'[s] = None
  BY DEF End, Go, CoreInv, TypeOK
<1> QED
  BY <1>1, QuietStep DEF SlotOK

\* An error rolls the transaction back.
LEMMA FailKeeps ==
  ASSUME CoreInv, NEW s \in Slot, Fail(s)
  PROVE  CoreInv'
<1>1. session' \in [Ctx -> SessionState]
  BY GiveUpType DEF Fail
<1>2. unacked' \subseteq Msg
  BY DEF Fail, CoreInv, TypeOK
<1> QED
  BY <1>1, <1>2, EndKeeps DEF Fail

\* A call that is under way has the type of one and knows what it should.
LEMMA CallFacts ==
  ASSUME CoreInv, NEW s \in Slot, call[s] # None
  PROVE  /\ call[s] \in Call /\ CallOK(call[s])
         /\ call[s].id \in Id /\ call[s].order \in Msg \cup {None}
         /\ call[s].op \in {"claim", "sms", "register", "ack"}
         /\ call[s].decision \in Decision \cup {None}
<1>1. call[s] \in Call /\ CallOK(call[s])
  BY DEF CoreInv, TypeOK, SlotOK
<1> QED
  BY <1>1 DEF Call

\* A call starts with the order it is about, and with no decision.
LEMMA StartKeeps ==
  ASSUME CoreInv, NEW op \in {"claim", "sms", "ack"}, NEW at \in {"replay", "find"},
         NEW id \in Id, NEW m \in Msg \cup {None}, NEW row \in Nat, NEW ok \in BOOLEAN,
         m # None => PaymentOf[m] = id,
         op # "sms" => m # None, at = "replay" => op # "ack",
         op = "ack" => row \in DOMAIN command[m] /\ ok \in Announced(m)',
         Start(op, at, id, m, row, ok), UNCHANGED core, GatewayTypeOK', EnqueuedOK',
         \A n \in Msg : Announced(n) \subseteq Announced(n)'
  PROVE  CoreInv'
<1> DEFINE new == [op |-> op, at |-> at, id |-> id, order |-> m, row |-> row,
                   decision |-> None, heard |-> TRUE, ok |-> ok]
<1>1. PICK s \in Slot : call' = [call EXCEPT ![s] = new]
  BY DEF Start
<1>2. call'[s] = new /\ new \in Call
  BY <1>1 DEF CoreInv, TypeOK, Call
<1>3. None \notin {"pending", "orphan", "registered", "verified"}
  BY NoneAssumption DEF Decision
<1>4. SlotOK(s)'
  BY <1>2, <1>3 DEF SlotOK, CallOK, Inserts, core
<1>5. ~Inserts(call'[s])
  BY <1>2 DEF Inserts
<1>6. call' = [call EXCEPT ![s] = call'[s]]
  BY <1>1, <1>2
<1> QED
  BY <1>2, <1>4, <1>5, <1>6, CallStep

\* SendClaim, ReportSms and Announce keep the invariant.
LEMMA GatewayKeeps ==
  /\ \A m \in Msg : CoreInv /\ SendClaim(m) => CoreInv'
  /\ \A i \in Id : CoreInv /\ ReportSms(i) => CoreInv'
  /\ \A m \in Msg, ok \in BOOLEAN : \A k \in DOMAIN enqueued[m] :
       CoreInv /\ Announce(m, k, ok) => CoreInv'
<1>1. ASSUME NEW m \in Msg, CoreInv, SendClaim(m) PROVE CoreInv'
  <2>1. PaymentOf[m] \in Id /\ m # None
    BY CoreAssumption, NoneAssumption
  <2>2. GatewayTypeOK' /\ EnqueuedOK'
    BY <1>1 DEF SendClaim, CoreInv, TypeOK, GatewayTypeOK, EnqueuedOK, core
  <2>3. /\ Start("claim", "replay", PaymentOf[m], m, 0, TRUE)
        /\ UNCHANGED core /\ \A n \in Msg : Announced(n)' = Announced(n)
    BY <1>1 DEF SendClaim, Announced
  <2> QED
    BY <1>1, <2>1, <2>2, <2>3, StartKeeps
<1>2. ASSUME NEW i \in Id, CoreInv, ReportSms(i) PROVE CoreInv'
  <2>1. GatewayTypeOK' /\ EnqueuedOK'
    BY <1>2, CoreAssumption
       DEF ReportSms, CoreInv, TypeOK, GatewayTypeOK, EnqueuedOK, core
  <2>2. /\ Start("sms", "replay", i, None, 0, TRUE)
        /\ UNCHANGED core /\ \A n \in Msg : Announced(n)' = Announced(n)
    BY <1>2 DEF ReportSms, Announced
  <2> QED
    BY <1>2, <2>1, <2>2, StartKeeps
<1>3. ASSUME NEW m \in Msg, NEW ok \in BOOLEAN, NEW k \in DOMAIN enqueued[m],
             CoreInv, Announce(m, k, ok)
      PROVE  CoreInv'
  <2>1. PaymentOf[m] \in Id /\ m # None
    BY CoreAssumption, NoneAssumption
  <2>2. /\ told' = [told EXCEPT ![m] = @ \cup {<<k, ok>>}]
        /\ told \in [Msg -> SUBSET (Nat \X BOOLEAN)] /\ enqueued \in [Msg -> Seq(Nat)]
        /\ enqueued[m][k] \in DOMAIN command[m]
    BY <1>3 DEF Announce, CoreInv, TypeOK, EnqueuedOK
  <2>3. /\ told'[m] = told[m] \cup {<<k, ok>>}
        /\ \A n \in Msg : n # m => told'[n] = told[n]
        /\ k \in Nat /\ enqueued[m][k] \in Nat
    BY <2>2
  <2>4. ok \in Announced(m)' /\ \A n \in Msg : Announced(n) \subseteq Announced(n)'
    <3>1. <<k, ok>>[2] = ok /\ <<k, ok>> \in told'[m]
      BY <2>3
    <3>2. \A n \in Msg : told[n] \subseteq told'[n]
      BY <2>3
    <3> QED
      BY <3>1, <3>2 DEF Announced
  <2>5. session' \in [Ctx -> SessionState]
    BY <1>3 DEF Announce, CoreInv, TypeOK, Moved, SessionState
  <2>6. GatewayTypeOK'
    BY <1>3, <2>2, <2>3, <2>5 DEF Announce, CoreInv, TypeOK, GatewayTypeOK
  <2>7. EnqueuedOK'
    <3>1. UNCHANGED <<command, enqueued>>
      BY <1>3 DEF Announce, core
    <3>2. ASSUME NEW n \in Msg, NEW t \in told'[n] PROVE t[1] \in DOMAIN enqueued[n]
      BY <1>3, <2>3 DEF CoreInv, EnqueuedOK
    <3> QED
      BY <1>3, <3>1, <3>2 DEF CoreInv, EnqueuedOK
  <2>8. Start("ack", "find", PaymentOf[m], m, enqueued[m][k], ok) /\ UNCHANGED core
    BY <1>3 DEF Announce
  <2> QED
    BY <1>3, <2>1, <2>2, <2>3, <2>4, <2>6, <2>7, <2>8, StartKeeps
<1> QED
  BY <1>1, <1>2, <1>3

\* A saved response is given again as it was saved.
LEMMA ReplayKeeps ==
  ASSUME CoreInv, NEW s \in Slot, Replay(s)
  PROVE  CoreInv'
<1> DEFINE c == call[s]
           saved == reply[RequestOf(c)]
           again == [c EXCEPT !.at = "answer", !.decision = saved.decision,
                              !.order = saved.order, !.row = saved.row]
<1>1. /\ c # None /\ c.at = "replay"
      /\ UNCHANGED <<core, gateway>>
      /\ \/ saved = None /\ To(s, "find")
         \/ saved # None /\ Go(s, again)
         \/ End(s)
  BY DEF Replay, Answered, At, End
<1>2. /\ c \in Call /\ CallOK(c)
      /\ c.id \in Id /\ c.order \in Msg \cup {None}
      /\ c.op \in {"claim", "sms", "register", "ack"}
      /\ c.decision \in Decision \cup {None}
  BY <1>1, CallFacts
<1>3. /\ UNCHANGED core /\ UNCHANGED <<sent, reports, enqueued, told>>
      /\ session' \in [Ctx -> SessionState] /\ unacked' \subseteq Msg
  BY <1>1 DEF gateway, CoreInv, TypeOK
<1>4. CASE To(s, "find")
  <2>1. /\ call' = [call EXCEPT ![s] = call'[s]]
        /\ call'[s] = [c EXCEPT !.at = "find"]
    BY <1>4 DEF To, Go, CoreInv, TypeOK
  <2>2. call'[s] \in Call
    BY <1>2, <2>1 DEF Call
  <2>3. SlotOK(s)' /\ ~Inserts(call'[s])
    BY <1>1, <1>2, <1>3, <2>1 DEF SlotOK, CallOK, Inserts, Verified, core, Call, Announced
  <2> QED
    BY <1>3, <2>1, <2>2, <2>3, QuietStep
<1>5. CASE End(s)
  BY <1>3, <1>5, EndKeeps
<1>6. CASE saved # None /\ Go(s, again)
  <2>1. /\ call' = [call EXCEPT ![s] = call'[s]]
        /\ call'[s] = again
    BY <1>6 DEF Go, CoreInv, TypeOK
  <2>2. /\ saved # None /\ RequestOf(c) \in Request
        /\ c.op # "ack" /\ (c.op # "sms" => c.order \in Msg)
    BY <1>1, <1>2, <1>6 DEF CallOK, RequestOf, Request
  <2>3. /\ saved.decision \in Decision /\ saved.order \in Msg \cup {None}
        /\ saved.row \in Nat
    BY <2>2 DEF CoreInv, TypeOK, Reply
  <2>4. call'[s] \in Call
    BY <1>2, <2>1, <2>3 DEF Call
  <2>5. /\ again.op = c.op /\ again.at = "answer" /\ again.id = c.id /\ again.ok = c.ok
        /\ again.decision = saved.decision /\ again.order = saved.order
        /\ again.row = saved.row
    BY <1>2 DEF Call
  <2>6. saved.decision = "verified" =>
          /\ saved.order # None /\ saved.order \in RightAmount
          /\ payment[PaymentOf[saved.order]] # None
          /\ PaymentOf[saved.order] \in confirmed
    BY <2>2 DEF CoreInv, ReplyOK, Verified
  <2>7. CallOK(again)
    <3>1. CASE c.op = "sms"
      <4>1. /\ saved.decision \in {"orphan", "verified", "mismatch", "used"}
            /\ saved.order # None => PaymentOf[saved.order] = c.id
        BY <1>2, <2>2, <3>1 DEF CoreInv, ReplyOK, RequestOf
      <4> QED
        BY <1>2, <2>5, <2>6, <3>1, <4>1 DEF CallOK, Inserts
    <3>2. CASE c.op = "claim"
      <4>1. /\ saved.decision \in {"pending", "verified", "mismatch", "used"}
            /\ saved.order = c.order
        <5>1. c.order \in Msg /\ RequestOf(c) = <<"claim", c.order>>
          BY <2>2, <3>2 DEF RequestOf
        <5>2. saved = reply[<<"claim", c.order>>] /\ saved # None
          BY <2>2, <5>1
        <5> HIDE DEF c, saved, again
        <5> QED
          BY <5>1, <5>2 DEF CoreInv, ReplyOK
      <4> QED
        BY <1>2, <2>2, <2>5, <2>6, <3>2, <4>1 DEF CallOK, Inserts
    <3>3. CASE c.op = "register"
      <4>1. /\ saved.decision = "registered" /\ saved.order = c.order
            /\ saved.row \in DOMAIN command[c.order]
        <5>1. c.order \in Msg /\ RequestOf(c) = <<"register", c.order>>
          BY <2>2, <3>3 DEF RequestOf
        <5>2. saved = reply[<<"register", c.order>>] /\ saved # None
          BY <2>2, <5>1
        <5> HIDE DEF c, saved, again
        <5> QED
          BY <5>1, <5>2 DEF CoreInv, ReplyOK
      <4> QED
        BY <1>2, <2>2, <2>5, <3>3, <4>1 DEF CallOK, Inserts, Verified
    <3> QED
      BY <1>2, <2>2, <3>1, <3>2, <3>3
  <2> HIDE DEF c, again
  <2>8. SlotOK(s)' /\ ~Inserts(call'[s])
    BY <1>3, <2>1, <2>5, <2>7 DEF SlotOK, CallOK, Inserts, Verified, core, Announced
  <2> QED
    BY <1>3, <2>1, <2>4, <2>8, QuietStep
<1> QED
  BY <1>1, <1>4, <1>5, <1>6

\* A call that moves on without inserting keeps the invariant.
LEMMA MoveKeeps ==
  ASSUME CoreInv, NEW s \in Slot, UNCHANGED <<core, gateway>>,
         call' = [call EXCEPT ![s] = call'[s]], call'[s] \in Call,
         CallOK(call'[s]), ~Inserts(call'[s])
  PROVE  CoreInv'
<1>1. /\ UNCHANGED <<sent, reports, enqueued, told>>
      /\ session' \in [Ctx -> SessionState] /\ unacked' \subseteq Msg
  BY DEF gateway, CoreInv, TypeOK
<1>2. SlotOK(s)'
  BY DEF SlotOK, CallOK, Inserts, Verified, core, gateway, Announced
<1> QED
  BY <1>1, <1>2, QuietStep DEF gateway

\* A call that only goes on to the next stage.
LEMMA ToFields ==
  ASSUME CoreInv, NEW s \in Slot, call[s] # None,
         NEW at \in {"find", "write", "row", "commit", "answer", "advance"}, To(s, at)
  PROVE  /\ call' = [call EXCEPT ![s] = call'[s]] /\ call'[s] \in Call
         /\ call'[s].op = call[s].op /\ call'[s].at = at /\ call'[s].id = call[s].id
         /\ call'[s].order = call[s].order /\ call'[s].decision = call[s].decision
         /\ call'[s].ok = call[s].ok /\ call'[s].row = call[s].row
<1>1. call[s] \in Call
  BY CallFacts
<1>2. /\ call' = [call EXCEPT ![s] = call'[s]]
      /\ call'[s] = [call[s] EXCEPT !.at = at]
  BY DEF To, Go, CoreInv, TypeOK
<1> QED
  BY <1>1, <1>2 DEF Call

\* A decision keeps the invariant if what it says is so.
LEMMA DecideKeeps ==
  ASSUME CoreInv, NEW s \in Slot, call[s] # None,
         NEW d \in Decision, NEW o \in Msg \cup {None}, Decide(s, d, o),
         o # None => PaymentOf[o] = call[s].id,
         call[s].op # "sms" => o = call[s].order,
         d = "pending" => call[s].op = "claim",
         d = "orphan" => call[s].op = "sms",
         d = "registered" <=> call[s].op = "register",
         call[s].op # "ack",
         d = "verified" => /\ o # None /\ o \in RightAmount
                           /\ payment[call[s].id] # None
                           /\ call[s].op = "claim" => call[s].id \in confirmed,
         d = "registered" => payment[call[s].id].order = o
  PROVE  CoreInv'
<1> DEFINE c == call[s]
           stage == IF d \in {"mismatch", "used"} THEN "row" ELSE "write"
           new == [c EXCEPT !.decision = d, !.order = o, !.at = stage]
<1>1. c \in Call /\ CallOK(c) /\ c.op \in {"claim", "sms", "register", "ack"}
  BY CallFacts
<1>2. /\ call' = [call EXCEPT ![s] = call'[s]] /\ call'[s] = new
      /\ UNCHANGED <<core, gateway>>
  BY DEF Decide, Go, CoreInv, TypeOK
<1>3. /\ new.op = c.op /\ new.at = stage /\ new.id = c.id /\ new.ok = c.ok
      /\ new.decision = d /\ new.order = o /\ new \in Call
  BY <1>1 DEF Call
<1>4. d # None
  BY NoneAssumption
<1> HIDE DEF new
<1>5. CallOK(new)
  BY <1>1, <1>3, <1>4 DEF CallOK, Inserts, Verified
<1>6. ~Inserts(new)
  BY <1>3 DEF Inserts
<1> QED
  BY <1>2, <1>3, <1>5, <1>6, MoveKeeps

\* resolveExistingPaymentForClaim
LEMMA FindForClaimKeeps ==
  ASSUME CoreInv, NEW s \in Slot, FindForClaim(s)
  PROVE  CoreInv'
<1> DEFINE m == call[s].order
           p == payment[call[s].id]
<1>1. call[s] # None /\ call[s].op = "claim"
  BY DEF FindForClaim, At
<1>2. /\ m \in Msg /\ PaymentOf[m] = call[s].id /\ call[s].id \in Id
  BY <1>1, CallFacts DEF CallOK
<1>3. \/ Decide(s, "pending", m)
      \/ p # None /\ p.status = "ORPHAN" /\ m \in RightAmount /\ Decide(s, "verified", m)
      \/ Decide(s, "mismatch", m)
      \/ Decide(s, "used", m)
  BY DEF FindForClaim
<1>4. p # None /\ p.status = "ORPHAN" => call[s].id \in confirmed
  BY <1>2 DEF CoreInv, PaymentOK
<1>5. /\ {"pending", "verified", "mismatch", "used"} \subseteq Decision
      /\ m # None
  BY <1>2, NoneAssumption DEF Decision
<1>6. CASE Decide(s, "pending", m)
  BY <1>1, <1>2, <1>5, <1>6, DecideKeeps
<1>7. CASE p # None /\ p.status = "ORPHAN" /\ m \in RightAmount /\ Decide(s, "verified", m)
  BY <1>1, <1>2, <1>4, <1>5, <1>7, DecideKeeps
<1>8. CASE Decide(s, "mismatch", m)
  BY <1>1, <1>2, <1>5, <1>8, DecideKeeps
<1>9. CASE Decide(s, "used", m)
  BY <1>1, <1>2, <1>5, <1>9, DecideKeeps
<1> QED
  BY <1>3, <1>6, <1>7, <1>8, <1>9

\* resolveExistingPaymentForConfirmation
LEMMA FindForSmsKeeps ==
  ASSUME CoreInv, NEW s \in Slot, FindForSms(s)
  PROVE  CoreInv'
<1> DEFINE p == payment[call[s].id]
<1>1. call[s] # None /\ call[s].op = "sms"
  BY DEF FindForSms, At
<1>2. call[s].id \in Id
  BY <1>1, CallFacts
<1>3. p # None => /\ p.order \in Msg \cup {None}
                  /\ p.order # None => PaymentOf[p.order] = call[s].id
                  /\ p.status = "CLAIMED" => p.order # None
  <2>1. p \in Payment \cup {None}
    BY <1>2 DEF CoreInv, TypeOK
  <2>2. p # None => p.order \in Msg \cup {None}
    <3> HIDE DEF p
    <3> QED
      BY <2>1 DEF Payment
  <2>3. p # None => /\ p.order # None => PaymentOf[p.order] = call[s].id
                    /\ p.status = "CLAIMED" => p.order # None
    BY <1>2 DEF CoreInv, PaymentOK
  <2> QED
    BY <2>2, <2>3
<1>4. \/ Decide(s, "orphan", None)
      \/ /\ p # None /\ p.status = "CLAIMED" /\ p.order \in RightAmount
         /\ Decide(s, "verified", p.order)
      \/ p # None /\ Decide(s, "mismatch", p.order)
      \/ p # None /\ Decide(s, "used", p.order)
  BY DEF FindForSms
<1>5. {"orphan", "verified", "mismatch", "used"} \subseteq Decision
  BY DEF Decision
<1>6. CASE Decide(s, "orphan", None)
  BY <1>1, <1>5, <1>6, DecideKeeps
<1>7. CASE p # None /\ p.status = "CLAIMED" /\ p.order \in RightAmount
           /\ Decide(s, "verified", p.order)
  BY <1>1, <1>3, <1>5, <1>7, DecideKeeps
<1>8. CASE p # None /\ Decide(s, "mismatch", p.order)
  BY <1>1, <1>3, <1>5, <1>8, DecideKeeps
<1>9. CASE p # None /\ Decide(s, "used", p.order)
  BY <1>1, <1>3, <1>5, <1>9, DecideKeeps
<1> QED
  BY <1>4, <1>6, <1>7, <1>8, <1>9

\* registerCommand and acknowledgeCommand look for what they need.
LEMMA FindForCommandKeeps ==
  ASSUME CoreInv, NEW s \in Slot, FindForRegister(s) \/ FindForAck(s)
  PROVE  CoreInv'
<1>1. CASE FindForRegister(s)
  <2> DEFINE m == call[s].order
             p == payment[call[s].id]
  <2>1. call[s] # None /\ call[s].op = "register"
    BY <1>1 DEF FindForRegister, At
  <2>2. /\ m \in Msg /\ m # None /\ PaymentOf[m] = call[s].id /\ "registered" \in Decision
    BY <2>1, CallFacts, NoneAssumption DEF CallOK, Decision
  <2>3. CASE Fail(s)
    BY <2>3, FailKeeps
  <2>4. CASE p.order = m /\ Decide(s, "registered", m)
    BY <2>1, <2>2, <2>4, DecideKeeps
  <2> QED
    BY <1>1, <2>3, <2>4 DEF FindForRegister
<1>2. CASE FindForAck(s)
  <2>1. call[s] # None /\ call[s].op = "ack"
    BY <1>2 DEF FindForAck, At
  <2>2. CASE Fail(s)
    BY <2>2, FailKeeps
  <2>3. CASE To(s, "write") /\ UNCHANGED <<core, gateway>>
    <3>1. CallOK(call[s])
      BY <2>1, CallFacts
    <3>2. /\ call' = [call EXCEPT ![s] = call'[s]] /\ call'[s] \in Call
          /\ call'[s].op = "ack" /\ call'[s].at = "write" /\ call'[s].id = call[s].id
          /\ call'[s].order = call[s].order /\ call'[s].decision = call[s].decision
          /\ call'[s].ok = call[s].ok /\ call'[s].row = call[s].row
      BY <2>1, <2>3, ToFields
    <3>3. CallOK(call'[s]) /\ ~Inserts(call'[s])
      BY <2>1, <3>1, <3>2 DEF CallOK, Inserts, Verified
    <3> QED
      BY <2>3, <3>2, <3>3, MoveKeeps
  <2> QED
    BY <1>2, <2>2, <2>3 DEF FindForAck
<1> QED
  BY <1>1, <1>2

\* The write to payments: of two inserts of an id only one gets past the
\* unique constraint.
LEMMA WritePaymentKeeps ==
  ASSUME CoreInv, NEW s \in Slot, WritePayment(s)
  PROVE  CoreInv'
<1> DEFINE c == call[s]
<1>1. c # None /\ c.at = "write" /\ c.op \in {"claim", "sms"}
  BY DEF WritePayment, At
<1>2. c \in Call /\ CallOK(c) /\ c.id \in Id
  BY <1>1, CallFacts
<1>3. CASE Fail(s)
  BY <1>3, FailKeeps
<1>4. CASE /\ To(s, "row") /\ UNCHANGED <<core, gateway>>
           /\ c.decision \in {"pending", "orphan"} => payment[c.id] = None
  <2>1. /\ call' = [call EXCEPT ![s] = call'[s]] /\ call'[s] \in Call
        /\ call'[s].op = c.op /\ call'[s].at = "row" /\ call'[s].id = c.id
        /\ call'[s].order = c.order /\ call'[s].decision = c.decision
        /\ call'[s].ok = c.ok /\ call'[s].row = c.row
    BY <1>1, <1>4, ToFields
  <2> DEFINE new == call'[s]
  <2>2. UNCHANGED core
    BY <1>4
  <2>3. /\ GatewayTypeOK' /\ EnqueuedOK'
        /\ \A m \in Msg : Announced(m)' = Announced(m)
    BY <1>4, <2>2 DEF gateway, CoreInv, TypeOK, GatewayTypeOK, EnqueuedOK, core, Announced
  <2>4. CallOK(new)
    BY <1>1, <1>2, <1>4, <2>1 DEF CallOK, Inserts, Verified
  <2>5. SlotOK(s)'
    BY <1>4, <2>4 DEF SlotOK, CallOK, Inserts, Verified, core, gateway, Announced
  <2>6. Inserts(new) => \A t \in Slot \ {s} :
          call[t] # None /\ Inserts(call[t]) => call[t].id # new.id
    <3> SUFFICES ASSUME NEW t \in Slot \ {s}, call[t] # None, Inserts(call[t])
                 PROVE  call[t].id # new.id
      OBVIOUS
    <3>1. call[t] \in Others(s)
      BY DEF Others
    <3>2. HoldsPayment(call[t])
      BY DEF HoldsPayment, Inserts
    <3>3. call[t].id # c.id
      BY <3>1, <3>2 DEF WritePayment
    <3> QED
      BY <2>1, <3>3
  <2> HIDE DEF c
  <2>7. \A t \in Slot \ {s} : call'[s] # None /\ Inserts(call'[s]) =>
          (call[t] # None /\ Inserts(call[t]) => call[t].id # call'[s].id)
    BY <2>6
  <2> QED
    BY <2>1, <2>2, <2>3, <2>5, <2>7, CallStep
<1> QED
  BY <1>3, <1>4 DEF WritePayment

\* The write to ussd_commands.
LEMMA WriteCommandKeeps ==
  ASSUME CoreInv, NEW s \in Slot, WriteCommand(s)
  PROVE  CoreInv'
<1>1. call[s] # None /\ call[s].at = "write" /\ call[s].op \in {"register", "ack"}
  BY DEF WriteCommand, At
<1>2. CASE Fail(s)
  BY <1>2, FailKeeps
<1>3. CASE To(s, "commit") /\ UNCHANGED <<core, gateway>>
  <2>1. CallOK(call[s])
    BY <1>1, CallFacts
  <2>2. /\ call' = [call EXCEPT ![s] = call'[s]] /\ call'[s] \in Call
        /\ call'[s].op = call[s].op /\ call'[s].at = "commit" /\ call'[s].id = call[s].id
        /\ call'[s].order = call[s].order /\ call'[s].decision = call[s].decision
        /\ call'[s].ok = call[s].ok /\ call'[s].row = call[s].row
    BY <1>1, <1>3, ToFields
  <2>3. CallOK(call'[s]) /\ ~Inserts(call'[s])
    BY <1>1, <2>1, <2>2 DEF CallOK, Inserts, Verified
  <2> QED
    BY <1>3, <2>2, <2>3, MoveKeeps
<1> QED
  BY <1>2, <1>3 DEF WriteCommand

\* The row of the claim or of the confirmation.
LEMMA WriteRowKeeps ==
  ASSUME CoreInv, NEW s \in Slot, WriteRow(s)
  PROVE  CoreInv'
<1> DEFINE c == call[s]
<1>1. c # None /\ c.at = "row"
  BY DEF WriteRow, At
<1>2. c \in Call /\ CallOK(c) /\ c.op \in {"claim", "sms"}
  BY <1>1, CallFacts DEF CallOK
<1>3. CASE Fail(s)
  BY <1>3, FailKeeps
<1>4. CASE To(s, "commit") /\ UNCHANGED <<core, gateway>>
  <2>1. /\ call' = [call EXCEPT ![s] = call'[s]] /\ call'[s] \in Call
        /\ call'[s].op = c.op /\ call'[s].at = "commit" /\ call'[s].id = c.id
        /\ call'[s].order = c.order /\ call'[s].decision = c.decision
        /\ call'[s].ok = c.ok /\ call'[s].row = c.row
    BY <1>1, <1>4, ToFields
  <2> DEFINE new == call'[s]
  <2>2. UNCHANGED core
    BY <1>4
  <2>3. /\ GatewayTypeOK' /\ EnqueuedOK'
        /\ \A m \in Msg : Announced(m)' = Announced(m)
    BY <1>4, <2>2 DEF gateway, CoreInv, TypeOK, GatewayTypeOK, EnqueuedOK, core, Announced
  <2>4. CallOK(new)
    BY <1>1, <1>2, <2>1 DEF CallOK, Inserts, Verified
  <2>5. SlotOK(s)'
    BY <1>4, <2>4 DEF SlotOK, CallOK, Inserts, Verified, core, gateway, Announced
  <2>6. Inserts(new) => Inserts(c)
    BY <1>1, <1>2, <2>1 DEF Inserts
  <2>7. \A t \in Slot \ {s} : call'[s] # None /\ Inserts(call'[s]) =>
          (call[t] # None /\ Inserts(call[t]) => call[t].id # call'[s].id)
    BY <1>1, <2>1, <2>6 DEF CoreInv, Exclusive
  <2> QED
    BY <2>1, <2>2, <2>3, <2>5, <2>7, CallStep
<1> QED
  BY <1>3, <1>4 DEF WriteRow

-----------------------------------------------------------------------------
(* Steps of the gateway with an answer, and calls that break down.         *)

\* A call that breaks down.
LEMMA BreakKeeps ==
  ASSUME CoreInv, NEW s \in Slot, Break(s)
  PROVE  CoreInv'
<1>1. session' \in [Ctx -> SessionState]
  BY GiveUpType DEF Break
<1>2. unacked' \subseteq Msg
  <2>1. call[s] # None /\ UNCHANGED core
    BY DEF Break
  <2>2. call[s].op = "ack" => call[s].order \in Msg
    BY <2>1, CallFacts DEF CallOK
  <2>3. unacked \subseteq Msg
    BY DEF CoreInv, TypeOK
  <2> QED
    BY <2>2, <2>3 DEF Break
<1> QED
  BY <1>1, <1>2, EndKeeps DEF Break

\* A call the gateway waits for no longer.
LEMMA TimeOutKeeps ==
  ASSUME CoreInv, NEW s \in Slot, TimeOut(s)
  PROVE  CoreInv'
<1> DEFINE c == call[s]
           new == [c EXCEPT !.heard = FALSE]
<1>1. /\ c # None /\ UNCHANGED core /\ UNCHANGED <<sent, reports, enqueued, told, unacked>>
  BY DEF TimeOut
<1>2. session' \in [Ctx -> SessionState]
  BY GiveUpType DEF TimeOut
<1>3. unacked' \subseteq Msg
  BY <1>1 DEF CoreInv, TypeOK
<1>4. CASE End(s)
  BY <1>1, <1>2, <1>3, <1>4, EndKeeps
<1>5. CASE Go(s, new)
  <2>1. c \in Call /\ CallOK(c)
    BY <1>1, CallFacts
  <2>2. /\ call' = [call EXCEPT ![s] = call'[s]] /\ call'[s] = new
    BY <1>5 DEF Go, CoreInv, TypeOK
  <2>3. /\ new \in Call /\ new.op = c.op /\ new.at = c.at /\ new.id = c.id
        /\ new.order = c.order /\ new.decision = c.decision /\ new.ok = c.ok
        /\ new.row = c.row
    BY <2>1 DEF Call
  <2> HIDE DEF new
  <2>4. Inserts(new) => Inserts(c)
    BY <2>3 DEF Inserts
  <2>5. CallOK(new)
    BY <2>1, <2>3 DEF CallOK, Inserts, Verified
  <2>6. SlotOK(s)'
    BY <1>1, <2>2, <2>5 DEF SlotOK, CallOK, Inserts, Verified, core, Announced
  <2>7. /\ GatewayTypeOK' /\ EnqueuedOK'
        /\ \A m \in Msg : Announced(m)' = Announced(m)
    BY <1>1, <1>2, <1>3 DEF CoreInv, TypeOK, GatewayTypeOK, EnqueuedOK, core, Announced
  <2>8. \A t \in Slot \ {s} : call'[s] # None /\ Inserts(call'[s]) =>
          (call[t] # None /\ Inserts(call[t]) => call[t].id # call'[s].id)
    BY <1>1, <2>2, <2>3, <2>4 DEF CoreInv, Exclusive
  <2> QED
    BY <1>1, <2>2, <2>3, <2>6, <2>7, <2>8, CallStep
<1> QED
  BY <1>4, <1>5 DEF TimeOut

\* registerAndAdvance and the announcement of a verified SMS.
LEMMA AnswerKeeps ==
  ASSUME CoreInv, NEW s \in Slot, AnswerClaim(s) \/ AnswerSms(s)
  PROVE  CoreInv'
<1> DEFINE c == call[s]
<1>1. /\ c # None /\ c.at = "answer" /\ c.op \in {"claim", "sms"}
      /\ UNCHANGED core /\ UNCHANGED <<sent, reports, enqueued, told, unacked>>
      /\ (c.decision = "verified" /\ To(s, "advance")) \/ End(s)
  BY DEF AnswerClaim, AnswerSms, At, gateway
<1>2. c \in Call /\ CallOK(c)
  BY <1>1, CallFacts
<1>3. session' \in [Ctx -> SessionState]
  BY DEF AnswerClaim, AnswerSms, gateway, CoreInv, TypeOK, Moved, SessionState
<1>4. unacked' \subseteq Msg
  BY <1>1 DEF CoreInv, TypeOK
<1>5. CASE End(s)
  BY <1>1, <1>3, <1>4, <1>5, EndKeeps
<1>6. CASE c.decision = "verified" /\ To(s, "advance")
  <2>1. /\ call' = [call EXCEPT ![s] = call'[s]] /\ call'[s] \in Call
        /\ call'[s].op = c.op /\ call'[s].at = "advance" /\ call'[s].id = c.id
        /\ call'[s].order = c.order /\ call'[s].decision = c.decision
        /\ call'[s].ok = c.ok /\ call'[s].row = c.row
    BY <1>1, <1>6, ToFields
  <2>2. CallOK(call'[s]) /\ ~Inserts(call'[s])
    BY <1>1, <1>2, <1>6, <2>1 DEF CallOK, Inserts, Verified
  <2>3. SlotOK(s)'
    BY <1>1, <2>2 DEF SlotOK, CallOK, Inserts, Verified, core, Announced
  <2> QED
    BY <1>1, <1>3, <1>4, <2>1, <2>2, <2>3, QuietStep
<1> QED
  BY <1>1, <1>5, <1>6

\* advanceToProcessing registers a command only for a verified payment.
LEMMA AdvanceKeeps ==
  ASSUME CoreInv, NEW s \in Slot, Advance(s)
  PROVE  CoreInv'
<1> DEFINE c == call[s]
           new == [c EXCEPT !.op = "register", !.at = "replay", !.decision = None]
<1>1. /\ c # None /\ c.at = "advance"
      /\ UNCHANGED core /\ UNCHANGED <<sent, reports, enqueued, told, unacked>>
      /\ Go(s, new) \/ End(s)
  BY DEF Advance, At
<1>2. c \in Call /\ CallOK(c)
  BY <1>1, CallFacts
<1>3. session' \in [Ctx -> SessionState]
  BY DEF Advance, CoreInv, TypeOK, SessionState
<1>4. unacked' \subseteq Msg
  BY <1>1 DEF CoreInv, TypeOK
<1>5. CASE End(s)
  BY <1>1, <1>3, <1>4, <1>5, EndKeeps
<1>6. CASE Go(s, new)
  <2>1. /\ call' = [call EXCEPT ![s] = call'[s]] /\ call'[s] = new
    BY <1>6 DEF Go, CoreInv, TypeOK
  <2>2. /\ new \in Call /\ new.op = "register" /\ new.at = "replay" /\ new.id = c.id
        /\ new.order = c.order /\ new.decision = None /\ new.ok = c.ok
    BY <1>2 DEF Call
  <2>3. None \notin {"pending", "orphan", "registered", "verified"}
    BY NoneAssumption DEF Decision
  <2> HIDE DEF new
  <2>4. c.order # None /\ Verified(c.order)
    BY <1>1, <1>2 DEF CallOK, Verified
  <2>5. CallOK(new) /\ ~Inserts(new)
    BY <1>2, <2>2, <2>3, <2>4 DEF CallOK, Inserts, Verified
  <2>6. SlotOK(s)'
    BY <1>1, <2>1, <2>5 DEF SlotOK, CallOK, Inserts, Verified, core, Announced
  <2> QED
    BY <1>1, <1>3, <1>4, <2>1, <2>2, <2>5, <2>6, QuietStep
<1> QED
  BY <1>1, <1>5, <1>6

\* A command the gateway enqueues is one the Core registered.
LEMMA AnswerRegisterKeeps ==
  ASSUME CoreInv, NEW s \in Slot, AnswerRegister(s)
  PROVE  CoreInv'
<1> DEFINE m == call[s].order
           q == enqueued[m]
<1>1. /\ call[s] # None /\ call[s].at = "answer" /\ call[s].op = "register"
      /\ UNCHANGED core /\ UNCHANGED <<session, sent, reports, told, unacked>>
      /\ enqueued' = [enqueued EXCEPT ![m] = Append(q, call[s].row)]
      /\ call' = [call EXCEPT ![s] = None] /\ call'[s] = None
  BY DEF AnswerRegister, At, End, Go, CoreInv, TypeOK
<1>2. m \in Msg /\ call[s].row \in Nat /\ call[s].row \in DOMAIN command[m]
  BY <1>1, CallFacts DEF CallOK, Call
<1>3. /\ q \in Seq(Nat) /\ enqueued \in [Msg -> Seq(Nat)]
      /\ \A k \in DOMAIN q : q[k] \in DOMAIN command[m]
  BY <1>2 DEF CoreInv, TypeOK, EnqueuedOK
<1>4. /\ Append(q, call[s].row) \in Seq(Nat)
      /\ DOMAIN Append(q, call[s].row) = DOMAIN q \cup {Len(q) + 1}
      /\ \A k \in DOMAIN q : Append(q, call[s].row)[k] = q[k]
      /\ Append(q, call[s].row)[Len(q) + 1] = call[s].row
  BY <1>2, <1>3, RowAppended
<1>5. /\ enqueued' \in [Msg -> Seq(Nat)] /\ enqueued'[m] = Append(q, call[s].row)
      /\ \A n \in Msg : n # m => enqueued'[n] = enqueued[n]
  <2> HIDE DEF q, m
  <2> QED
    BY <1>1, <1>2, <1>3, <1>4
<1>6. GatewayTypeOK' /\ \A n \in Msg : Announced(n)' = Announced(n)
  BY <1>1, <1>5 DEF CoreInv, TypeOK, GatewayTypeOK, Announced
<1>7. EnqueuedOK'
  <2>1. command' = command /\ told' = told
    BY <1>1 DEF core
  <2>2. ASSUME NEW n \in Msg
        PROVE  /\ \A k \in DOMAIN enqueued'[n] : enqueued'[n][k] \in DOMAIN command[n]
               /\ \A t \in told[n] : t[1] \in DOMAIN enqueued'[n]
    <3>1. /\ \A k \in DOMAIN enqueued[n] : enqueued[n][k] \in DOMAIN command[n]
          /\ \A t \in told[n] : t[1] \in DOMAIN enqueued[n]
      BY DEF CoreInv, EnqueuedOK
    <3>2. CASE n = m
      BY <1>2, <1>4, <1>5, <3>1, <3>2
    <3>3. CASE n # m
      BY <1>5, <3>1, <3>3
    <3> QED
      BY <3>2, <3>3
  <2> QED
    BY <2>1, <2>2 DEF EnqueuedOK
<1> QED
  BY <1>1, <1>6, <1>7, CallStep DEF SlotOK

-----------------------------------------------------------------------------
(* Commits.                                                                *)

\* Rows are added and no payment loses its order.
Grows ==
  /\ \A i \in Id : payment[i] # None =>
       payment'[i] # None /\ payment'[i].order = payment[i].order
  /\ confirmed \subseteq confirmed'
  /\ \A m \in Msg : DOMAIN command[m] \subseteq DOMAIN command'[m]

\* A commit that only adds to the Core's rows and leaves the payments others
\* are inserting alone keeps what the other calls know.
LEMMA CommitStep ==
  ASSUME CoreInv, NEW s \in Slot, UNCHANGED gateway, Grows,
         TypeOK', PaymentOK', CommandOK', ReplyOK',
         call' = [call EXCEPT ![s] = call'[s]], SlotOK(s)',
         call'[s] # None => ~Inserts(call'[s]),
         \A t \in Slot \ {s} : call[t] # None /\ Inserts(call[t]) =>
           payment'[call[t].id] = payment[call[t].id]
  PROVE  CoreInv'
<1>1. \A t \in Slot \ {s} : call'[t] = call[t]
  BY DEF CoreInv, TypeOK
<1>2. EnqueuedOK'
  BY DEF CoreInv, EnqueuedOK, Grows, gateway
<1>3. ASSUME NEW t \in Slot PROVE SlotOK(t)'
  <2>1. CASE t = s
    BY <2>1
  <2>2. CASE t # s
    <3> SUFFICES ASSUME call[t] # None PROVE CallOK(call[t])'
      BY <1>1, <2>2 DEF SlotOK
    <3>1. CallOK(call[t]) /\ call[t].id \in Id /\ call[t].order \in Msg \cup {None}
      BY CallFacts
    <3>2. Inserts(call[t]) => payment'[call[t].id] = None
      BY <2>2, <3>1 DEF CallOK
    <3>3. call'[t] = call[t] /\ \A m \in Msg : Announced(m)' = Announced(m)
      BY <1>1, <2>2 DEF gateway, Announced
    <3>4. call[t].op \in {"register", "ack"} => call[t].order \in Msg
      BY <3>1 DEF CallOK
    <3>5. call[t].op = "register" => Verified(call[t].order)'
      <4> DEFINE m == call[t].order
      <4>1. call[t].op = "register" => m \in Msg /\ PaymentOf[m] \in Id /\ Verified(m)
        BY <3>1, <3>4, CoreAssumption DEF CallOK
      <4> QED
        BY <3>3, <4>1 DEF Verified, Grows
    <3>6. payment[call[t].id] # None =>
            payment'[call[t].id] # None /\ payment'[call[t].id].order = payment[call[t].id].order
      BY <3>1 DEF Grows
    <3>7. call[t].op = "register" => payment[call[t].id] # None
      BY <3>1 DEF CallOK, Verified
    <3>8. /\ call[t].id \in confirmed => call[t].id \in confirmed'
          /\ call[t].order \in Msg =>
               DOMAIN command[call[t].order] \subseteq DOMAIN command'[call[t].order]
      BY DEF Grows
    <3> QED
      BY <3>1, <3>2, <3>3, <3>4, <3>5, <3>6, <3>7, <3>8 DEF CallOK, Inserts
  <2> QED
    BY <2>1, <2>2
<1>4. Exclusive'
  <2> SUFFICES ASSUME NEW t \in Slot, NEW u \in Slot, t # u,
                      call'[t] # None, call'[u] # None,
                      Inserts(call'[t]), Inserts(call'[u])
               PROVE  call'[t].id # call'[u].id
    BY DEF Exclusive, Inserts
  <2>1. t # s /\ u # s
    OBVIOUS
  <2> QED
    BY <1>1, <2>1 DEF CoreInv, Exclusive
<1> QED
  BY <1>2, <1>3, <1>4 DEF CoreInv

\* A call that ends or has its answer.
LEMMA AnsweredFields ==
  ASSUME CoreInv, NEW s \in Slot, NEW c \in Call, Answered(s, c)
  PROVE  /\ call' = [call EXCEPT ![s] = call'[s]] /\ call'[s] \in Call \cup {None}
         /\ call'[s] # None =>
              /\ call'[s].op = c.op /\ call'[s].at = "answer"
              /\ call'[s].id = c.id /\ call'[s].order = c.order
              /\ call'[s].decision = c.decision /\ call'[s].ok = c.ok
              /\ call'[s].row = c.row
<1>1. CASE Go(s, [c EXCEPT !.at = "answer"])
  <2>1. /\ call' = [call EXCEPT ![s] = call'[s]]
        /\ call'[s] = [c EXCEPT !.at = "answer"]
    BY <1>1 DEF Go, CoreInv, TypeOK
  <2> QED
    BY <2>1 DEF Call
<1>2. CASE Go(s, None)
  BY <1>2 DEF Go, CoreInv, TypeOK
<1> QED
  BY <1>1, <1>2 DEF Answered

\* The command of an order, once registered, keeps what it was registered for.
LEMMA CommandGrows ==
  ASSUME CoreInv, Grows, \A m \in Msg : command'[m] # <<>> => command[m] # <<>>
  PROVE  CommandOK'
<1> SUFFICES ASSUME NEW m \in Msg, command[m] # <<>>
             PROVE  Verified(m)' /\ payment'[PaymentOf[m]].order = m
  BY DEF CommandOK
<1>1. /\ PaymentOf[m] \in Id /\ Verified(m) /\ payment[PaymentOf[m]].order = m
  BY CoreAssumption DEF CoreInv, CommandOK
<1> QED
  BY <1>1 DEF Verified, Grows

\* A response is saved once, under the key of its request.
LEMMA SavedFields ==
  ASSUME CoreInv, NEW c, RequestOf(c) \in Request,
         c.decision \in Decision, c.order \in Msg \cup {None}, c.row \in Nat,
         SaveReply(c)
  PROVE  /\ reply' \in [Request -> Reply \cup {None}]
         /\ \A r \in Request : \/ reply'[r] = reply[r]
                               \/ /\ r = RequestOf(c) /\ reply'[r] # None
                                  /\ reply'[r].decision = c.decision
                                  /\ reply'[r].order = c.order
                                  /\ reply'[r].row = c.row
<1> DEFINE new == [decision |-> c.decision, order |-> c.order, row |-> c.row]
           key == RequestOf(c)
<1>1. reply \in [Request -> Reply \cup {None}]
  BY DEF CoreInv, TypeOK
<1>2. CASE reply' = reply
  BY <1>1, <1>2
<1>3. CASE reply[key] = None /\ reply' = [reply EXCEPT ![key] = new]
  <2>1. /\ new \in Reply /\ new.decision = c.decision /\ new.order = c.order
        /\ new.row = c.row
    BY DEF Reply
  <2> HIDE DEF new, key, Request
  <2>2. CASE new # None
    BY <1>1, <1>3, <2>1, <2>2 DEF key
  <2>3. CASE new = None
    BY <1>1, <1>3, <2>3
  <2> QED
    BY <2>2, <2>3
<1> QED
  BY <1>2, <1>3 DEF SaveReply

\* registerCommand commits a command for the order its payment has.
LEMMA CommitRegisterKeeps ==
  ASSUME CoreInv, NEW s \in Slot, CommitRegister(s)
  PROVE  CoreInv'
<1> DEFINE c == call[s]
           m == c.order
           row == Len(command[m]) + 1
           d == [c EXCEPT !.row = row]
<1>1. /\ c # None /\ c.at = "commit" /\ c.op = "register"
      /\ command' = [command EXCEPT ![m] = Append(@, "PENDING")]
      /\ SaveReply(d) /\ Answered(s, d)
      /\ UNCHANGED <<payment, orders, confirmed>> /\ UNCHANGED gateway
  BY DEF CommitRegister, At
<1>2. /\ c \in Call /\ CallOK(c) /\ m \in Msg /\ c.id \in Id
      /\ c.decision = "registered" /\ PaymentOf[m] = c.id
      /\ Verified(m) /\ payment[c.id].order = m
  BY <1>1, CallFacts DEF CallOK
<1>3. /\ "registered" # None /\ "PENDING" \in CommandStatus /\ "registered" \in Decision
  BY NoneAssumption DEF CommandStatus, Decision
<1>4. /\ command' \in [Msg -> Seq(CommandStatus)] /\ row \in Nat
      /\ \A n \in Msg \ {m} : command'[n] = command[n]
      /\ DOMAIN command'[m] = DOMAIN command[m] \cup {row}
  <2> DEFINE q == command[m]
  <2>1. q \in Seq(CommandStatus) /\ command \in [Msg -> Seq(CommandStatus)]
    BY <1>2 DEF CoreInv, TypeOK
  <2>2. /\ Append(q, "PENDING") \in Seq(CommandStatus) /\ Len(q) + 1 \in Nat
        /\ DOMAIN Append(q, "PENDING") = DOMAIN q \cup {Len(q) + 1}
    BY <1>3, <2>1, RowAppended
  <2>3. command' = [command EXCEPT ![m] = Append(q, "PENDING")]
    BY <1>1
  <2> HIDE DEF q, m
  <2> QED
    BY <1>2, <2>1, <2>2, <2>3 DEF q
<1>5. /\ d \in Call /\ d.op = "register" /\ d.id = c.id /\ d.order = m /\ d.row = row
      /\ d.decision = "registered" /\ d.ok = c.ok
  BY <1>1, <1>2, <1>4 DEF Call
<1> HIDE DEF row, d
<1>6. /\ call' = [call EXCEPT ![s] = call'[s]] /\ call'[s] \in Call \cup {None}
      /\ call'[s] # None =>
           /\ call'[s].op = "register" /\ call'[s].at = "answer"
           /\ call'[s].id = c.id /\ call'[s].order = m
           /\ call'[s].decision = "registered" /\ call'[s].ok = c.ok
           /\ call'[s].row = row
  BY <1>1, <1>5, AnsweredFields
<1>7. /\ Grows
      /\ row \in DOMAIN command'[m]
      /\ \A n \in Msg : DOMAIN command[n] \subseteq DOMAIN command'[n]
  <2> HIDE DEF m
  <2>1. \A n \in Msg : DOMAIN command[n] \subseteq DOMAIN command'[n]
    BY <1>4
  <2> QED
    BY <1>1, <1>4, <2>1 DEF Grows
<1>8. /\ reply' \in [Request -> Reply \cup {None}]
      /\ \A r \in Request : \/ reply'[r] = reply[r]
                            \/ /\ r = <<"register", m>> /\ reply'[r] # None
                               /\ reply'[r].decision = "registered"
                               /\ reply'[r].order = m /\ reply'[r].row = row
      /\ <<"register", m>> \in Request
  <2>1. RequestOf(d) = <<"register", m>> /\ <<"register", m>> \in Request
    BY <1>2, <1>5 DEF RequestOf, Request
  <2> HIDE DEF m, Request
  <2>2. /\ d.decision \in Decision /\ d.order \in Msg \cup {None} /\ d.row \in Nat
        /\ SaveReply(d) /\ RequestOf(d) \in Request
    BY <1>1, <1>2, <1>3, <1>4, <1>5, <2>1
  <2>3. /\ reply' \in [Request -> Reply \cup {None}]
        /\ \A r \in Request : \/ reply'[r] = reply[r]
                              \/ /\ r = RequestOf(d) /\ reply'[r] # None
                                 /\ reply'[r].decision = d.decision
                                 /\ reply'[r].order = d.order /\ reply'[r].row = d.row
    BY <2>2, SavedFields
  <2> QED
    BY <1>5, <2>1, <2>3
<1>9. TypeOK'
  BY <1>1, <1>4, <1>6, <1>8 DEF CoreInv, TypeOK, gateway
<1>10. PaymentOK'
  BY <1>1 DEF CoreInv, PaymentOK, gateway, Announced
<1>11. CommandOK'
  BY <1>1, <1>2, <1>4 DEF CoreInv, CommandOK, Verified
<1>12. ReplyOK'
  <2> HIDE DEF c, m
  <2>1. \A n \in Msg : /\ <<"claim", n>> \in Request \ {<<"register", m>>}
                       /\ <<"register", n>> \in Request
                       /\ n # m => <<"register", n>> \in Request \ {<<"register", m>>}
    BY DEF Request
  <2>2. \A i \in Id : <<"sms", i>> \in Request \ {<<"register", m>>}
    BY DEF Request
  <2>3. ASSUME NEW n \in Msg, reply'[<<"register", n>>] # None
        PROVE  /\ reply'[<<"register", n>>].order = n
               /\ reply'[<<"register", n>>].decision = "registered"
               /\ reply'[<<"register", n>>].row \in DOMAIN command'[n]
    <3> DEFINE r == <<"register", n>>
    <3>1. r \in Request /\ (r = <<"register", m>> => n = m)
      BY <2>1
    <3>2. reply[r] # None =>
            /\ reply[r].order = n /\ reply[r].decision = "registered"
            /\ reply[r].row \in DOMAIN command[n]
      BY DEF CoreInv, ReplyOK
    <3>3. \/ reply'[r] = reply[r]
          \/ /\ r = <<"register", m>> /\ reply'[r].decision = "registered"
             /\ reply'[r].order = m /\ reply'[r].row = row
      BY <1>8, <3>1
    <3>4. reply'[r] # None
      BY <2>3
    <3> HIDE DEF r
    <3>5. /\ reply'[r].order = n /\ reply'[r].decision = "registered"
          /\ reply'[r].row \in DOMAIN command'[n]
      BY <1>7, <3>1, <3>2, <3>3, <3>4
    <3> QED
      BY <3>5 DEF r
  <2>4. ASSUME NEW r \in Request, reply'[r] # None, reply'[r].decision = "verified"
        PROVE  reply'[r] = reply[r]
    BY <1>8, <2>4
  <2>5. ASSUME NEW n \in Msg PROVE reply'[<<"claim", n>>] = reply[<<"claim", n>>]
    BY <1>8, <2>1
  <2>6. ASSUME NEW i \in Id PROVE reply'[<<"sms", i>>] = reply[<<"sms", i>>]
    BY <1>8, <2>2
  <2>7. ASSUME NEW r \in Request, reply'[r] # None, reply'[r].decision = "verified"
        PROVE  /\ reply'[r].order # None /\ Verified(reply[r].order)'
               /\ orders'[reply'[r].order] \notin {None, "PENDING_PAYMENT"}
               /\ payment'[PaymentOf[reply'[r].order]].status \in {"CONFIRMED", "USED"}
    BY <1>1, <2>4, <2>7 DEF CoreInv, ReplyOK, Verified
  <2> QED
    BY <2>3, <2>5, <2>6, <2>7 DEF CoreInv, ReplyOK
<1>13. SlotOK(s)' /\ (call'[s] # None => ~Inserts(call'[s]))
  <2> HIDE DEF c
  <2> QED
    BY <1>1, <1>2, <1>3, <1>6, <1>7 DEF SlotOK, CallOK, Inserts, Verified
<1> QED
  BY <1>1, <1>6, <1>7, <1>9, <1>10, <1>11, <1>12, <1>13, CommitStep

\* acknowledgeCommand: a payment is used for the order it has, with an outcome
\* that was announced.
LEMMA CommitAckKeeps ==
  ASSUME CoreInv, NEW s \in Slot, CommitAck(s)
  PROVE  CoreInv'
<1> DEFINE c == call[s]
           m == c.order
           i == c.id
<1>1. /\ c # None /\ c.at = "commit" /\ c.op = "ack"
      /\ command' = [command EXCEPT ![m][c.row] = Outcome(c.ok)]
      /\ orders' = [orders EXCEPT ![m] = Outcome(c.ok)]
      /\ payment' = IF c.ok THEN [payment EXCEPT ![i].status = "USED"] ELSE payment
      /\ UNCHANGED <<confirmed, reply>> /\ UNCHANGED gateway
      /\ call' = [call EXCEPT ![s] = None] /\ call'[s] = None
  BY DEF CommitAck, At, End, Go, CoreInv, TypeOK
<1>2. /\ m \in Msg /\ i \in Id /\ PaymentOf[m] = i
      /\ c.row \in DOMAIN command[m] /\ c.ok \in Announced(m)
  BY <1>1, CallFacts DEF CallOK
<1>3. Verified(m) /\ payment[i].order = m
  <2>1. command[m] # <<>>
    BY <1>2, RowThere
  <2> QED
    BY <1>2, <2>1 DEF CoreInv, CommandOK
<1>4. /\ Outcome(c.ok) \in CommandStatus \cap OrderStatus
      /\ Outcome(c.ok) \notin {None, "PENDING_PAYMENT"}
  BY NoneAssumption DEF Outcome, CommandStatus, OrderStatus
<1>5. /\ command' \in [Msg -> Seq(CommandStatus)]
      /\ orders' \in [Msg -> OrderStatus \cup {None}]
      /\ \A n \in Msg : /\ DOMAIN command'[n] = DOMAIN command[n]
                        /\ command'[n] # <<>> => command[n] # <<>>
                        /\ orders'[n] = orders[n] \/ orders'[n] = Outcome(c.ok)
  <2> DEFINE q == command[m]
             x == Outcome(c.ok)
             new == [q EXCEPT ![c.row] = x]
  <2>1. q \in Seq(CommandStatus) /\ command \in [Msg -> Seq(CommandStatus)]
    BY <1>2 DEF CoreInv, TypeOK
  <2>2. new \in Seq(CommandStatus) /\ DOMAIN new = DOMAIN q
    <3> HIDE DEF q, x
    <3> QED
      BY <1>2, <1>4, <2>1, RowChanged DEF q, x
  <2>3. command' = [command EXCEPT ![m] = new]
    BY <1>1
  <2>4. q # <<>>
    BY <1>2, RowThere
  <2>5. orders' \in [Msg -> OrderStatus \cup {None}]
        /\ \A n \in Msg : orders'[n] = orders[n] \/ orders'[n] = Outcome(c.ok)
    BY <1>1, <1>2, <1>4 DEF CoreInv, TypeOK
  <2> HIDE DEF new, q, m
  <2>6. \A n \in Msg : command'[n] = IF n = m THEN new ELSE command[n]
    BY <1>2, <2>1, <2>3
  <2>7. command' \in [Msg -> Seq(CommandStatus)]
    BY <1>2, <2>1, <2>2, <2>3
  <2> QED
    BY <2>2, <2>4, <2>5, <2>6, <2>7 DEF q
<1>6. /\ payment' \in [Id -> Payment \cup {None}]
      /\ \A j \in Id \ {i} : payment'[j] = payment[j]
      /\ payment'[i] # None /\ payment'[i].order = m
      /\ payment'[i].status \in {payment[i].status, "USED"}
      /\ payment'[i].status = "USED" => payment[i].status = "USED" \/ c.ok
  <2> HIDE DEF c
  <2> DEFINE p == payment[i]
             q == [p EXCEPT !.status = "USED"]
  <2>1. p \in Payment
    BY <1>2, <1>3 DEF CoreInv, TypeOK, Verified
  <2>2. q \in Payment /\ q.order = p.order /\ q.status = "USED"
    BY <2>1 DEF Payment
  <2>3. None \notin Payment
    BY NoneAssumption
  <2>4. payment' = IF c.ok THEN [payment EXCEPT ![i] = q] ELSE payment
    BY <1>1
  <2>5. payment \in [Id -> Payment \cup {None}]
    BY DEF CoreInv, TypeOK
  <2>6. p.order = m
    BY <1>3
  <2> HIDE DEF q, i, m
  <2> QED
    BY <1>2, <2>1, <2>2, <2>3, <2>4, <2>5, <2>6
<1>7. Grows
  BY <1>1, <1>3, <1>5, <1>6 DEF Grows, Verified
<1>8. TypeOK'
  BY <1>1, <1>5, <1>6 DEF CoreInv, TypeOK, gateway
<1>9. PaymentOK'
  <2> SUFFICES ASSUME NEW j \in Id, payment'[j] # None
               PROVE  /\ payment'[j].order # None => PaymentOf[payment'[j].order] = j
                      /\ payment'[j].status = "CLAIMED" => payment'[j].order # None
                      /\ payment'[j].status # "CLAIMED" => j \in confirmed'
                      /\ payment'[j].status = "USED" =>
                           payment'[j].order # None /\ TRUE \in Announced(payment[j].order)'
    BY DEF PaymentOK
  <2>1. confirmed' = confirmed /\ \A n \in Msg : Announced(n)' = Announced(n)
    BY <1>1 DEF gateway, Announced
  <2> \A k \in Id : payment'[k] # None => payment'[k].order \in Msg \cup {None}
    BY <1>8 DEF TypeOK, Payment
  <2>2. CASE j = i
    <3>1. m # None /\ i \in confirmed
      BY <1>2, <1>3, NoneAssumption DEF Verified
    <3>2. payment[i].status = "USED" => TRUE \in Announced(m)
      BY <1>2, <1>3 DEF CoreInv, PaymentOK, Verified
    <3>3. c.ok => TRUE \in Announced(m)
      <4>1. c.ok \in BOOLEAN
        BY <1>1, CallFacts DEF Call
      <4> QED
        BY <1>2, <4>1
    <3> HIDE DEF c, i, m
    <3> QED
      BY <1>2, <1>6, <2>1, <2>2, <3>1, <3>2, <3>3
  <2>3. CASE j # i
    BY <1>6, <2>1, <2>3 DEF CoreInv, PaymentOK
  <2> QED
    BY <2>2, <2>3
<1>10. CommandOK'
  BY <1>5, <1>7, CommandGrows
<1>11. ReplyOK'
  <2>1. ASSUME NEW r \in Request, reply[r] # None, reply[r].decision = "verified"
        PROVE  /\ reply[r].order # None /\ Verified(reply[r].order)'
               /\ orders'[reply[r].order] \notin {None, "PENDING_PAYMENT"}
               /\ payment'[PaymentOf[reply[r].order]].status \in {"CONFIRMED", "USED"}
    <3> DEFINE n == reply[r].order
    <3>1. /\ n # None /\ Verified(n) /\ orders[n] \notin {None, "PENDING_PAYMENT"}
          /\ payment[PaymentOf[n]].status \in {"CONFIRMED", "USED"}
      BY <2>1 DEF CoreInv, ReplyOK
    <3>2. n \in Msg /\ PaymentOf[n] \in Id /\ reply' = reply
      <4>1. reply[r].order \in Msg \cup {None}
        BY <2>1 DEF CoreInv, TypeOK, Reply
      <4> QED
        BY <1>1, <3>1, <4>1, CoreAssumption
    <3>3. Verified(n)'
      BY <1>7, <3>1, <3>2 DEF Verified, Grows
    <3>4. orders'[n] \notin {None, "PENDING_PAYMENT"}
      BY <1>4, <1>5, <3>1, <3>2
    <3>5. payment'[PaymentOf[n]].status \in {"CONFIRMED", "USED"}
      <4> HIDE DEF c, m, i, n
      <4> QED
        BY <1>6, <3>1, <3>2
    <3> QED
      BY <3>1, <3>3, <3>4, <3>5
  <2>2. \A n \in Msg : reply[<<"register", n>>] # None =>
          reply[<<"register", n>>].row \in DOMAIN command'[n]
    BY <1>5 DEF CoreInv, ReplyOK
  <2> QED
    BY <1>1, <2>1, <2>2 DEF CoreInv, ReplyOK
<1>12. ASSUME NEW t \in Slot \ {s}, call[t] # None, Inserts(call[t])
       PROVE  payment'[call[t].id] = payment[call[t].id]
  <2>1. call[t].id \in Id /\ payment[call[t].id] = None
    BY <1>12, CallFacts DEF CallOK
  <2>2. payment[i] # None
    BY <1>2, <1>3 DEF Verified
  <2> HIDE DEF i
  <2> QED
    BY <1>6, <2>1, <2>2
<1> QED
  BY <1>1, <1>7, <1>8, <1>9, <1>10, <1>11, <1>12, CommitStep DEF SlotOK

\* What a claim or an SMS does to its payment when it commits.
CommittedAs(c, old, new) ==
  \/ /\ c.decision = "pending" /\ c.op = "claim" /\ old = None /\ new # None
     /\ new.order = c.order /\ new.status = "CLAIMED"
  \/ /\ c.decision = "orphan" /\ c.op = "sms" /\ old = None /\ new # None
     /\ new.order = None /\ new.status = "ORPHAN"
  \/ /\ c.decision = "verified" /\ old # None /\ new # None
     /\ new.order = old.order /\ new.status = "CONFIRMED"
  \/ c.decision \in {"mismatch", "used"} /\ new = old

\* A claim or an SMS commits one of the four changes to its own payment.
LEMMA PaymentCommitted ==
  ASSUME CoreInv, NEW s \in Slot, CommitPayment(s)
  PROVE  /\ payment' \in [Id -> Payment \cup {None}]
         /\ \A j \in Id \ {call[s].id} : payment'[j] = payment[j]
         /\ CommittedAs(call[s], payment[call[s].id], payment'[call[s].id])
<1> DEFINE c == call[s]
           i == c.id
           old == payment[i]
           claimed == [order |-> c.order, status |-> "CLAIMED"]
           orphan == [order |-> None, status |-> "ORPHAN"]
           verified == [old EXCEPT !.status = "CONFIRMED"]
           Goal == /\ payment' \in [Id -> Payment \cup {None}]
                   /\ \A j \in Id \ {i} : payment'[j] = payment[j]
                   /\ CommittedAs(c, old, payment'[i])
<1>1. /\ c # None /\ c.at = "commit" /\ c.op \in {"claim", "sms"}
      /\ payment' = [payment EXCEPT ![i] =
           CASE c.decision = "pending" -> claimed
             [] c.decision = "orphan" -> orphan
             [] c.decision = "verified" -> verified
             [] OTHER -> old]
  BY DEF CommitPayment, At
<1>2. /\ CallOK(c) /\ i \in Id /\ c.order \in Msg \cup {None}
      /\ c.decision \in Decision
  BY <1>1, CallFacts DEF CallOK
<1>3. /\ payment \in [Id -> Payment \cup {None}] /\ old \in Payment \cup {None}
      /\ None \notin Payment
  BY <1>2, NoneAssumption DEF CoreInv, TypeOK
<1>4. ASSUME c.decision = "pending" PROVE Goal
  <2>1. c.op = "claim" /\ old = None
    BY <1>1, <1>2, <1>4 DEF CallOK, Inserts
  <2>2. claimed \in Payment /\ claimed.order = c.order /\ claimed.status = "CLAIMED"
    BY <1>2 DEF Payment
  <2>3. payment' = [payment EXCEPT ![i] = claimed]
    BY <1>1, <1>4
  <2> HIDE DEF claimed, c, Payment
  <2> QED
    BY <1>2, <1>3, <1>4, <2>1, <2>2, <2>3 DEF CommittedAs
<1>5. ASSUME c.decision = "orphan" PROVE Goal
  <2>1. c.op = "sms" /\ old = None
    BY <1>1, <1>2, <1>5 DEF CallOK, Inserts
  <2>2. orphan \in Payment /\ orphan.order = None /\ orphan.status = "ORPHAN"
    BY DEF Payment
  <2>3. payment' = [payment EXCEPT ![i] = orphan]
    BY <1>1, <1>5
  <2> HIDE DEF orphan, c, Payment
  <2> QED
    BY <1>2, <1>3, <1>5, <2>1, <2>2, <2>3 DEF CommittedAs
<1>6. ASSUME c.decision = "verified" PROVE Goal
  <2>1. old # None
    BY <1>1, <1>2, <1>6 DEF CallOK
  <2>2. /\ verified \in Payment /\ verified.order = old.order
        /\ verified.status = "CONFIRMED"
    <3> HIDE DEF old
    <3> QED
      BY <1>3, <2>1 DEF Payment
  <2>3. payment' = [payment EXCEPT ![i] = verified]
    BY <1>1, <1>6
  <2> HIDE DEF verified, c, Payment
  <2> QED
    BY <1>2, <1>3, <1>6, <2>1, <2>2, <2>3 DEF CommittedAs
<1>7. ASSUME c.decision \in {"mismatch", "used"} PROVE Goal
  <2>1. payment' = [payment EXCEPT ![i] = old]
    BY <1>1, <1>7
  <2> HIDE DEF c, Payment
  <2> QED
    BY <1>2, <1>3, <1>7, <2>1 DEF CommittedAs
<1>8. c.decision \in {"pending", "orphan", "verified", "mismatch", "used"}
  BY <1>1, <1>2 DEF CallOK, Decision
<1> QED
  BY <1>4, <1>5, <1>6, <1>7, <1>8

\* A commit of a claim or of an SMS keeps the invariant: a payment is inserted
\* once, and an update leaves it its order.
LEMMA CommitPaymentKeeps ==
  ASSUME CoreInv, NEW s \in Slot, CommitPayment(s)
  PROVE  CoreInv'
<1> DEFINE c == call[s]
           m == c.order
           i == c.id
<1>1. /\ c # None /\ c.at = "commit" /\ c.op \in {"claim", "sms"}
      /\ confirmed' = IF c.op = "sms" THEN confirmed \cup {i} ELSE confirmed
      /\ SaveReply(c) /\ Answered(s, c)
      /\ UNCHANGED command /\ UNCHANGED gateway
  BY DEF CommitPayment, At
<1>2. /\ c \in Call /\ CallOK(c) /\ m \in Msg \cup {None} /\ i \in Id
      /\ c.decision \in Decision /\ c.decision # None
      /\ m # None => PaymentOf[m] = i
      /\ c.op = "claim" => m # None
      /\ c.row \in Nat
  BY <1>1, CallFacts DEF CallOK, Call
<1>3. /\ call' = [call EXCEPT ![s] = call'[s]] /\ call'[s] \in Call \cup {None}
      /\ call'[s] # None =>
           /\ call'[s].op = c.op /\ call'[s].at = "answer"
           /\ call'[s].id = i /\ call'[s].order = m
           /\ call'[s].decision = c.decision /\ call'[s].ok = c.ok
  BY <1>1, <1>2, AnsweredFields
<1>4. /\ payment' \in [Id -> Payment \cup {None}]
      /\ \A j \in Id \ {i} : payment'[j] = payment[j]
      /\ CommittedAs(c, payment[i], payment'[i])
  BY PaymentCommitted
<1>5. /\ c.op = "sms" => i \in confirmed'
      /\ confirmed \subseteq confirmed' /\ confirmed' \subseteq Id
      /\ confirmed' \subseteq confirmed \cup {i}
  BY <1>1, <1>2 DEF CoreInv, TypeOK
<1>6. /\ orders' \in [Msg -> OrderStatus \cup {None}]
      /\ \A n \in Msg :
           \/ orders'[n] = orders[n]
           \/ n = m /\ c.decision = "pending"
           \/ orders'[n] = "PAYMENT_VERIFIED"
      /\ c.decision = "verified" /\ m \in Msg => orders'[m] = "PAYMENT_VERIFIED"
  BY DEF CommitPayment, CoreInv, TypeOK, OrderStatus
<1>7. Grows
  BY <1>1, <1>2, <1>4, <1>5 DEF Grows, CommittedAs
<1>8. /\ RequestOf(c) \in Request
      /\ RequestOf(c) = IF c.op = "sms" THEN <<"sms", i>> ELSE <<"claim", m>>
  BY <1>1, <1>2 DEF RequestOf, Request
<1>9. /\ reply' \in [Request -> Reply \cup {None}]
      /\ \A r \in Request : \/ reply'[r] = reply[r]
                            \/ /\ r = RequestOf(c) /\ reply'[r] # None
                               /\ reply'[r].decision = c.decision /\ reply'[r].order = m
  BY <1>1, <1>2, <1>8, SavedFields
<1>10. TypeOK'
  BY <1>1, <1>3, <1>4, <1>5, <1>6, <1>9 DEF CoreInv, TypeOK, gateway
<1>11. PaymentOK'
  <2> SUFFICES ASSUME NEW j \in Id, payment'[j] # None
               PROVE  /\ payment'[j].order # None => PaymentOf[payment'[j].order] = j
                      /\ payment'[j].status = "CLAIMED" => payment'[j].order # None
                      /\ payment'[j].status # "CLAIMED" => j \in confirmed'
                      /\ payment'[j].status = "USED" =>
                           payment'[j].order # None /\ TRUE \in Announced(payment[j].order)'
    BY DEF PaymentOK
  <2>1. \A n \in Msg : Announced(n)' = Announced(n)
    BY <1>1 DEF gateway, Announced
  <2> \A k \in Id : payment'[k] # None => payment'[k].order \in Msg \cup {None}
    BY <1>10 DEF TypeOK, Payment
  <2>2. CASE j # i
    <3>1. payment'[j] = payment[j] /\ (j \in confirmed => j \in confirmed')
      BY <1>4, <1>5, <2>2
    <3>2. payment[j] # None =>
            /\ payment[j].order # None => PaymentOf[payment[j].order] = j
            /\ payment[j].status = "CLAIMED" => payment[j].order # None
            /\ payment[j].status # "CLAIMED" => j \in confirmed
            /\ payment[j].status = "USED" =>
                 payment[j].order # None /\ TRUE \in Announced(payment[j].order)
      BY DEF CoreInv, PaymentOK
    <3> QED
      BY <2>1, <3>1, <3>2
  <2>3. CASE j = i
    <3>1. payment[i] # None =>
            /\ payment[i].order # None => PaymentOf[payment[i].order] = i
            /\ payment[i].status = "CLAIMED" => payment[i].order # None
            /\ payment[i].status # "CLAIMED" => i \in confirmed
            /\ payment[i].status = "USED" =>
                 payment[i].order # None /\ TRUE \in Announced(payment[i].order)
      BY <1>2 DEF CoreInv, PaymentOK
    <3>2. c.decision = "verified" => i \in confirmed'
      BY <1>1, <1>2, <1>5 DEF CallOK
    <3>3. c.decision = "orphan" => i \in confirmed'
      BY <1>4, <1>5 DEF CommittedAs
    <3> DEFINE new == payment'[i]
    <3> HIDE DEF c, m, i
    <3>4. /\ new.order # None => PaymentOf[new.order] = i
          /\ new.status = "CLAIMED" => new.order # None
          /\ new.status # "CLAIMED" => i \in confirmed'
          /\ new.status = "USED" => new.order # None /\ TRUE \in Announced(new.order)
      <4>1. new # None
        BY <2>3
      <4> DEFINE old == payment[i]
      <4>2. CommittedAs(c, old, new)
        BY <1>4
      <4>3. old # None =>
              /\ old.order # None => PaymentOf[old.order] = i
              /\ old.status = "CLAIMED" => old.order # None
              /\ old.status # "CLAIMED" => i \in confirmed
              /\ old.status = "USED" => old.order # None /\ TRUE \in Announced(old.order)
        BY <3>1
      <4> HIDE DEF old, new
      <4>4. CASE c.decision = "pending"
        BY <1>2, <4>2, <4>4 DEF CommittedAs, m
      <4>5. CASE c.decision = "orphan"
        BY <3>3, <4>2, <4>5 DEF CommittedAs
      <4>6. CASE c.decision = "verified"
        BY <3>2, <4>2, <4>3, <4>6 DEF CommittedAs
      <4>7. CASE c.decision \in {"mismatch", "used"}
        <5>1. new = old
          BY <4>2, <4>7 DEF CommittedAs
        <5> QED
          BY <1>5, <4>1, <4>3, <5>1
      <4> QED
        BY <4>2, <4>4, <4>5, <4>6, <4>7 DEF CommittedAs
    <3> QED
      BY <2>1, <2>3, <3>4
  <2> QED
    BY <2>2, <2>3
<1>12. CommandOK'
  BY <1>1, <1>7, CommandGrows
<1>13. ReplyOK'
  <2>1. ASSUME NEW n \in Msg, reply'[<<"claim", n>>] # None
        PROVE  /\ reply'[<<"claim", n>>].order = n
               /\ reply'[<<"claim", n>>].decision \in {"pending", "verified", "mismatch", "used"}
    <3> DEFINE r == <<"claim", n>>
    <3>1. r \in Request /\ (r = RequestOf(c) => c.op = "claim" /\ n = m)
      BY <1>1, <1>8 DEF Request
    <3>2. reply[r] # None =>
            /\ reply[r].order = n
            /\ reply[r].decision \in {"pending", "verified", "mismatch", "used"}
      BY DEF CoreInv, ReplyOK
    <3>3. c.op = "claim" => c.decision \in {"pending", "verified", "mismatch", "used"}
      BY <1>4 DEF CommittedAs
    <3> HIDE DEF r, c, m, Request
    <3>4. /\ reply'[r].order = n
          /\ reply'[r].decision \in {"pending", "verified", "mismatch", "used"}
      <4>1. reply'[r] # None
        BY <2>1 DEF r
      <4> QED
        BY <1>9, <3>1, <3>2, <3>3, <4>1
    <3> QED
      BY <3>4 DEF r
  <2>2. ASSUME NEW n \in Msg, reply'[<<"register", n>>] # None
        PROVE  /\ reply'[<<"register", n>>].order = n
               /\ reply'[<<"register", n>>].decision = "registered"
               /\ reply'[<<"register", n>>].row \in DOMAIN command'[n]
    <3> DEFINE r == <<"register", n>>
    <3>1. r \in Request /\ r # RequestOf(c)
      BY <1>1, <1>8 DEF Request
    <3>2. reply[r] # None =>
            /\ reply[r].order = n /\ reply[r].decision = "registered"
            /\ reply[r].row \in DOMAIN command[n]
      BY DEF CoreInv, ReplyOK
    <3>3. reply'[r] = reply[r]
      BY <1>9, <3>1
    <3> QED
      BY <1>1, <2>2, <3>2, <3>3
  <2>3. ASSUME NEW j \in Id, reply'[<<"sms", j>>] # None
        PROVE  /\ reply'[<<"sms", j>>].decision \in {"orphan", "verified", "mismatch", "used"}
               /\ reply'[<<"sms", j>>].order # None =>
                    PaymentOf[reply'[<<"sms", j>>].order] = j
    <3> DEFINE r == <<"sms", j>>
    <3>1. r \in Request /\ (r = RequestOf(c) => c.op = "sms" /\ j = i)
      BY <1>1, <1>8 DEF Request
    <3>2. reply[r] # None =>
            /\ reply[r].decision \in {"orphan", "verified", "mismatch", "used"}
            /\ reply[r].order # None => PaymentOf[reply[r].order] = j
      BY DEF CoreInv, ReplyOK
    <3>3. c.op = "sms" => c.decision \in {"orphan", "verified", "mismatch", "used"}
      BY <1>4 DEF CommittedAs
    <3> HIDE DEF r, c, m, i, Request
    <3>4. /\ reply'[r].decision \in {"orphan", "verified", "mismatch", "used"}
          /\ reply'[r].order # None => PaymentOf[reply'[r].order] = j
      <4>1. reply'[r] # None
        BY <2>3 DEF r
      <4> QED
        BY <1>2, <1>9, <3>1, <3>2, <3>3, <4>1
    <3> QED
      BY <3>4 DEF r
  <2>4. ASSUME NEW r \in Request, reply'[r] # None, reply'[r].decision = "verified"
        PROVE  LET n == reply'[r].order IN
               /\ n # None /\ payment'[PaymentOf[n]] # None /\ PaymentOf[n] \in confirmed'
               /\ n \in RightAmount
               /\ orders'[n] \notin {None, "PENDING_PAYMENT"}
               /\ payment'[PaymentOf[n]].status \in {"CONFIRMED", "USED"}
    <3>1. "PAYMENT_VERIFIED" # None
      BY NoneAssumption DEF OrderStatus
    <3>2. CASE reply'[r] = reply[r]
      <4> DEFINE n == reply[r].order
      <4>1. /\ n # None /\ Verified(n) /\ orders[n] \notin {None, "PENDING_PAYMENT"}
            /\ payment[PaymentOf[n]].status \in {"CONFIRMED", "USED"}
        BY <2>4, <3>2 DEF CoreInv, ReplyOK
      <4>2. n \in Msg /\ PaymentOf[n] \in Id
        <5>1. reply[r].order \in Msg \cup {None}
          BY <2>4, <3>2 DEF CoreInv, TypeOK, Reply
        <5> QED
          BY <4>1, <5>1, CoreAssumption
      <4>3. /\ payment'[PaymentOf[n]] # None /\ PaymentOf[n] \in confirmed'
            /\ n \in RightAmount
        BY <1>7, <4>1, <4>2 DEF Verified, Grows
      <4>4. payment[PaymentOf[n]] # None
        BY <4>1 DEF Verified
      <4> HIDE DEF c, m, i, n
      <4>5. payment'[PaymentOf[n]].status \in {"CONFIRMED", "USED"}
        <5>1. CASE PaymentOf[n] = i
          BY <1>4, <4>1, <4>4, <5>1 DEF CommittedAs
        <5>2. CASE PaymentOf[n] # i
          BY <1>4, <4>1, <4>2, <5>2
        <5> QED
          BY <5>1, <5>2
      <4>6. ~(n = m /\ c.decision = "pending")
        BY <1>2, <1>4, <4>1, <4>4 DEF CommittedAs
      <4>7. orders'[n] \notin {None, "PENDING_PAYMENT"}
        BY <1>6, <3>1, <4>1, <4>2, <4>6
      <4> QED
        BY <3>2, <4>1, <4>3, <4>5, <4>7 DEF n
    <3>3. CASE reply'[r].decision = c.decision /\ reply'[r].order = m
      <4>1. c.decision = "verified"
        BY <2>4, <3>3
      <4>2. m \in Msg /\ m # None /\ m \in RightAmount /\ i \in confirmed'
        BY <1>1, <1>2, <1>5, <4>1 DEF CallOK
      <4>3. payment'[i] # None /\ payment'[i].status = "CONFIRMED"
        BY <1>4, <4>1 DEF CommittedAs
      <4> HIDE DEF c, m, i
      <4> QED
        BY <1>2, <1>6, <3>1, <3>3, <4>1, <4>2, <4>3
    <3> QED
      BY <1>9, <3>2, <3>3
  <2> QED
    BY <2>1, <2>2, <2>3, <2>4 DEF ReplyOK, Verified
<1>14. SlotOK(s)' /\ (call'[s] # None => ~Inserts(call'[s]))
  <2>1. c.decision = "verified" =>
          m # None /\ m \in RightAmount /\ payment'[i] # None /\ i \in confirmed'
    BY <1>1, <1>2, <1>4, <1>5 DEF CallOK, CommittedAs
  <2> HIDE DEF c
  <2> QED
    BY <1>1, <1>2, <1>3, <2>1 DEF SlotOK, CallOK, Inserts
<1>15. ASSUME NEW t \in Slot \ {s}, call[t] # None, Inserts(call[t])
       PROVE  payment'[call[t].id] = payment[call[t].id]
  <2>1. call[t].id \in Id /\ payment[call[t].id] = None
    BY <1>15, CallFacts DEF CallOK
  <2>2. CASE call[t].id # i
    BY <1>4, <2>1, <2>2
  <2>3. CASE call[t].id = i
    <3>1. ~Inserts(c)
      BY <1>1, <1>15, <2>3 DEF CoreInv, Exclusive
    <3>2. c.decision \notin {"pending", "orphan"}
      BY <1>1, <3>1 DEF Inserts
    <3> HIDE DEF c, i
    <3> QED
      BY <1>4, <2>1, <2>3, <3>2 DEF CommittedAs
  <2> QED
    BY <2>2, <2>3
<1> QED
  BY <1>1, <1>3, <1>7, <1>10, <1>11, <1>12, <1>13, <1>14, <1>15, CommitStep

-----------------------------------------------------------------------------
(* The invariant and what follows from it.                                 *)

\* At the start there are no rows and no calls.
LEMMA InitInv == Init => CoreInv
<1> SUFFICES ASSUME Init PROVE CoreInv
  OBVIOUS
<1>1. TypeOK
  BY CoreAssumption DEF Init, TypeOK, SessionState
<1>2. PaymentOK /\ CommandOK /\ EnqueuedOK
  BY DEF Init, PaymentOK, CommandOK, EnqueuedOK
<1>3. ReplyOK
  <2>1. \A r \in Request : reply[r] = None
    BY DEF Init
  <2>2. /\ \A m \in Msg : <<"claim", m>> \in Request /\ <<"register", m>> \in Request
        /\ \A i \in Id : <<"sms", i>> \in Request
    BY DEF Request
  <2> QED
    BY <2>1, <2>2 DEF ReplyOK
<1>4. Exclusive /\ \A s \in Slot : SlotOK(s)
  BY DEF Init, Exclusive, SlotOK
<1> QED
  BY <1>1, <1>2, <1>3, <1>4 DEF CoreInv

\* Every step keeps the invariant.
LEMMA NextInv == CoreInv /\ [Next]_vars => CoreInv'
<1> SUFFICES ASSUME CoreInv, [Next]_vars PROVE CoreInv'
  OBVIOUS
<1>1. ASSUME NEW m \in Msg,
             SendClaim(m) \/ \E k \in DOMAIN enqueued[m], ok \in BOOLEAN : Announce(m, k, ok)
      PROVE  CoreInv'
  BY <1>1, GatewayKeeps
<1>2. ASSUME NEW i \in Id, ReportSms(i) PROVE CoreInv'
  BY <1>2, GatewayKeeps
<1>3. ASSUME NEW s \in Slot, Step(s) PROVE CoreInv'
  <2>1. CASE Replay(s)
    BY <2>1, ReplayKeeps
  <2>2. CASE FindForClaim(s)
    BY <2>2, FindForClaimKeeps
  <2>3. CASE FindForSms(s)
    BY <2>3, FindForSmsKeeps
  <2>4. CASE FindForRegister(s) \/ FindForAck(s)
    BY <2>4, FindForCommandKeeps
  <2>5. CASE WritePayment(s)
    BY <2>5, WritePaymentKeeps
  <2>6. CASE WriteCommand(s)
    BY <2>6, WriteCommandKeeps
  <2>7. CASE WriteRow(s)
    BY <2>7, WriteRowKeeps
  <2>8. CASE CommitPayment(s)
    BY <2>8, CommitPaymentKeeps
  <2>9. CASE CommitRegister(s)
    BY <2>9, CommitRegisterKeeps
  <2>10. CASE CommitAck(s)
    BY <2>10, CommitAckKeeps
  <2>11. CASE AnswerClaim(s) \/ AnswerSms(s)
    BY <2>11, AnswerKeeps
  <2>12. CASE Advance(s)
    BY <2>12, AdvanceKeeps
  <2>13. CASE AnswerRegister(s)
    BY <2>13, AnswerRegisterKeeps
  <2> QED
    BY <1>3, <2>1, <2>2, <2>3, <2>4, <2>5, <2>6, <2>7, <2>8, <2>9, <2>10,
       <2>11, <2>12, <2>13 DEF Step
<1>4. ASSUME NEW s \in Slot, Break(s) \/ TimeOut(s) PROVE CoreInv'
  BY <1>4, BreakKeeps, TimeOutKeeps
<1>5. CASE UNCHANGED vars
  <2> USE <1>5 DEF vars, core, gateway
  <2>1. TypeOK' /\ PaymentOK'
    BY DEF CoreInv, TypeOK, PaymentOK, Announced
  <2>2. CommandOK' /\ EnqueuedOK'
    BY DEF CoreInv, CommandOK, EnqueuedOK, Verified
  <2>3. ReplyOK'
    BY DEF CoreInv, ReplyOK, Verified
  <2>4. \A s \in Slot : SlotOK(s)'
    BY DEF CoreInv, SlotOK, CallOK, Inserts, Verified, Announced
  <2>5. Exclusive'
    BY DEF CoreInv, Exclusive, Inserts
  <2> QED
    BY <2>1, <2>2, <2>3, <2>4, <2>5 DEF CoreInv
<1> QED
  BY <1>1, <1>2, <1>3, <1>4, <1>5 DEF Next

\* The invariant is one of the whole specification.
THEOREM CoreInvariant == Spec => []CoreInv
BY InitInv, NextInv, PTL DEF Spec

\* Every variable of CorePurchase keeps its type.
THEOREM CoreTypeCorrect == Spec => []TypeOK
<1>1. CoreInv => TypeOK
  BY DEF CoreInv
<1> QED
  BY <1>1, CoreInvariant, PTL

\* However many claims and reports of a payment cross, at most one customer
\* gets a command for it: each command belongs to the order of its payment.
THEOREM OnlyOneServed == Spec => []OneCustomerServed
<1>1. CoreInv => OneCustomerServed
  BY DEF CoreInv, CommandOK, OneCustomerServed
<1> QED
  BY <1>1, CoreInvariant, PTL

\* A command exists only for a payment the phone reported, claimed with the
\* amount that was paid.
THEOREM CommandsArePaid == Spec => []PaidBeforeCommand
<1>1. CoreInv => PaidBeforeCommand
  BY DEF CoreInv, CommandOK, Verified, PaidBeforeCommand
<1> QED
  BY <1>1, CoreInvariant, PTL

\* A saved response is true, whatever was rolled back or timed out.
THEOREM RepliesAreTrue == Spec => []SavedReplyIsTrue
<1>1. CoreInv => SavedReplyIsTrue
  BY DEF CoreInv, ReplyOK, SavedReplyIsTrue
<1> QED
  BY <1>1, CoreInvariant, PTL
-----------------------------------------------------------------------------
(* What was announced is recorded.                                         *)

\* An acknowledgement of a command is under way.
OnItsWay(m, row) ==
  \E s \in Slot : /\ call[s] # None /\ call[s].op = "ack"
                  /\ call[s].order = m /\ call[s].row = row

\* An outcome that was announced is on its way, was lost, or has reached its row.
Heard ==
  \A m \in Msg : \A t \in told[m] :
    \/ OnItsWay(m, enqueued[m][t[1]])
    \/ m \in unacked
    \/ command[m][enqueued[m][t[1]]] # "PENDING"

\* A row that has an outcome, and then the order, has one that was announced; a
\* delivery has used the payment.
Recorded ==
  \A m \in Msg : \A k \in DOMAIN command[m] : command[m][k] # "PENDING" =>
    /\ \E ok \in Announced(m) : command[m][k] = Outcome(ok)
    /\ \E ok \in Announced(m) : orders[m] = Outcome(ok)
    /\ command[m][k] = "COMPLETED" => payment[PaymentOf[m]].status = "USED"

\* A claim verifies a payment only if no order has it, the SMS only if it
\* confirms the payment for the first time.
VerifiesFirst(c) ==
  /\ c.op = "ack" => c.at \in {"find", "write", "commit"}
  /\ c.op = "sms" /\ c.at = "commit" => c.id \notin confirmed
  /\ c.op = "claim" /\ c.at \in {"write", "row", "commit"} /\ c.decision = "verified" =>
       payment[c.id].order = None

OneConfirms ==
  \A s, t \in Slot :
    /\ s # t /\ call[s] # None /\ call[t] # None
    /\ HoldsConfirmation(call[s]) /\ HoldsConfirmation(call[t])
    => call[s].id # call[t].id

OrphansAreFree ==
  \A i \in Id : payment[i] # None /\ payment[i].status = "ORPHAN" =>
    payment[i].order = None

RecordInv ==
  /\ Heard /\ Recorded /\ OrphansAreFree /\ OneConfirms
  /\ \A s \in Slot : call[s] # None => VerifiesFirst(call[s])

\* A step of one call that writes nothing into the Core and announces nothing.
LEMMA RecordStep ==
  ASSUME CoreInv, RecordInv, NEW s \in Slot,
         UNCHANGED core, UNCHANGED <<enqueued, told>>, unacked \subseteq unacked',
         call' = [call EXCEPT ![s] = call'[s]],
         call[s] # None /\ call[s].op = "ack" =>
           \/ /\ call'[s] # None /\ call'[s].op = "ack"
              /\ call'[s].order = call[s].order /\ call'[s].row = call[s].row
           \/ call[s].order \in unacked'
           \/ command[call[s].order][call[s].row] # "PENDING",
         call'[s] # None => VerifiesFirst(call'[s]),
         call'[s] # None /\ HoldsConfirmation(call'[s]) =>
           \A t \in Slot \ {s} :
             call[t] # None /\ HoldsConfirmation(call[t]) => call[t].id # call'[s].id
  PROVE  RecordInv'
<1>1. \A t \in Slot \ {s} : call'[t] = call[t]
  BY DEF CoreInv, TypeOK
<1>2. Heard'
  <2> SUFFICES ASSUME NEW m \in Msg, NEW t \in told[m]
               PROVE  \/ OnItsWay(m, enqueued[m][t[1]])'
                      \/ m \in unacked'
                      \/ command[m][enqueued[m][t[1]]] # "PENDING"
    BY DEF Heard, core
  <2> DEFINE row == enqueued[m][t[1]]
  <2>1. OnItsWay(m, row) \/ m \in unacked \/ command[m][row] # "PENDING"
    BY DEF RecordInv, Heard
  <2> HIDE DEF row
  <2>2. CASE OnItsWay(m, row)
    <3>1. PICK u \in Slot : /\ call[u] # None /\ call[u].op = "ack"
                            /\ call[u].order = m /\ call[u].row = row
      BY <2>2 DEF OnItsWay
    <3>2. CASE u = s
      <4>1. \/ /\ call'[s] # None /\ call'[s].op = "ack"
               /\ call'[s].order = m /\ call'[s].row = row
            \/ m \in unacked'
            \/ command[m][row] # "PENDING"
        BY <3>1, <3>2
      <4>2. UNCHANGED row
        BY DEF row, core
      <4> QED
        BY <4>1, <4>2 DEF OnItsWay, row
    <3>3. CASE u # s
      <4>1. call'[u] = call[u]
        BY <1>1, <3>3
      <4> QED
        BY <3>1, <4>1 DEF OnItsWay, row
    <3> QED
      BY <3>2, <3>3
  <2> QED
    BY <2>1, <2>2 DEF row
<1>3. Recorded' /\ OrphansAreFree'
  BY DEF RecordInv, Recorded, OrphansAreFree, Announced, core
<1>4. OneConfirms'
  <2> SUFFICES ASSUME NEW t \in Slot, NEW u \in Slot, t # u,
                      call'[t] # None, call'[u] # None,
                      HoldsConfirmation(call'[t]), HoldsConfirmation(call'[u])
               PROVE  call'[t].id # call'[u].id
    BY DEF OneConfirms, HoldsConfirmation
  <2> QED
    BY <1>1 DEF RecordInv, OneConfirms
<1>5. ASSUME NEW t \in Slot, call'[t] # None PROVE VerifiesFirst(call[t])'
  <2>1. VerifiesFirst(call'[t])
    BY <1>1, <1>5 DEF RecordInv
  <2> QED
    BY <2>1 DEF VerifiesFirst, core
<1> QED
  BY <1>2, <1>3, <1>4, <1>5 DEF RecordInv

\* A call that ends, if it carries no outcome that its row still waits for.
LEMMA RecordEnd ==
  ASSUME CoreInv, RecordInv, NEW s \in Slot, End(s),
         UNCHANGED core, UNCHANGED <<enqueued, told>>, unacked \subseteq unacked',
         call[s].op = "ack" => \/ call[s].order \in unacked'
                               \/ command[call[s].order][call[s].row] # "PENDING"
  PROVE  RecordInv'
<1>1. call' = [call EXCEPT ![s] = call'[s]] /\ call'[s] = None
  BY DEF End, Go, CoreInv, TypeOK
<1> QED
  BY <1>1, RecordStep

\* A call that goes on to a stage it may reach.
LEMMA RecordTo ==
  ASSUME CoreInv, RecordInv, NEW s \in Slot, call[s] # None,
         NEW at \in {"find", "write", "row", "commit", "answer", "advance"}, To(s, at),
         UNCHANGED core, UNCHANGED <<enqueued, told, unacked>>,
         call[s].op = "ack" => at \in {"write", "commit"},
         call[s].op = "claim" /\ at \in {"write", "row", "commit"} =>
           call[s].at \in {"write", "row", "commit"},
         call[s].op = "sms" /\ at = "commit" =>
           /\ call[s].id \notin confirmed
           /\ \A t \in Slot \ {s} :
                call[t] # None /\ HoldsConfirmation(call[t]) => call[t].id # call[s].id
  PROVE  RecordInv'
<1>1. /\ call' = [call EXCEPT ![s] = call'[s]] /\ call'[s] \in Call
      /\ call'[s].op = call[s].op /\ call'[s].at = at /\ call'[s].id = call[s].id
      /\ call'[s].order = call[s].order /\ call'[s].decision = call[s].decision
      /\ call'[s].ok = call[s].ok /\ call'[s].row = call[s].row
  BY ToFields
<1>2. VerifiesFirst(call[s]) /\ call'[s] # None
  BY <1>1, NoneAssumption DEF RecordInv
<1>3. VerifiesFirst(call'[s])
  BY <1>1, <1>2 DEF VerifiesFirst
<1>4. HoldsConfirmation(call'[s]) => call[s].op = "sms" /\ at = "commit"
  BY <1>1 DEF HoldsConfirmation
<1> QED
  BY <1>1, <1>2, <1>3, <1>4, RecordStep

\* A call that is answered, if somebody still waits for it.
LEMMA RecordAnswered ==
  ASSUME CoreInv, RecordInv, NEW s \in Slot, NEW c \in Call, Answered(s, c),
         c.op # "ack", call[s].op # "ack",
         UNCHANGED core, UNCHANGED <<enqueued, told, unacked>>
  PROVE  RecordInv'
<1>1. /\ call' = [call EXCEPT ![s] = call'[s]]
      /\ call'[s] # None => call'[s].op = c.op /\ call'[s].at = "answer"
  BY AnsweredFields
<1>2. call'[s] # None => VerifiesFirst(call'[s]) /\ ~HoldsConfirmation(call'[s])
  BY <1>1 DEF VerifiesFirst, HoldsConfirmation
<1> QED
  BY <1>1, <1>2, RecordStep

\* A decision: a claim is verified only with a payment that no order has.
LEMMA RecordDecide ==
  ASSUME CoreInv, RecordInv, NEW s \in Slot, call[s] # None, call[s].op # "ack",
         NEW d \in Decision, NEW o, Decide(s, d, o),
         d = "verified" /\ call[s].op = "claim" => payment[call[s].id].order = None
  PROVE  RecordInv'
<1> DEFINE c == call[s]
           new == [c EXCEPT !.decision = d, !.order = o,
                            !.at = IF d \in {"mismatch", "used"} THEN "row" ELSE "write"]
<1>1. c \in Call
  BY CallFacts
<1>2. /\ call' = [call EXCEPT ![s] = call'[s]] /\ call'[s] = new
      /\ UNCHANGED core /\ UNCHANGED <<enqueued, told, unacked>>
  BY DEF Decide, Go, CoreInv, TypeOK, gateway
<1>3. /\ new.op = c.op /\ new.id = c.id /\ new.decision = d
      /\ new.at \in {"row", "write"}
  BY <1>1 DEF Call
<1> HIDE DEF new
<1>4. VerifiesFirst(new) /\ ~HoldsConfirmation(new)
  BY <1>3 DEF VerifiesFirst, HoldsConfirmation
<1> QED
  BY <1>2, <1>4, RecordStep

\* Steps that write no row, by action.
LEMMA RecordQuiet ==
  ASSUME CoreInv, RecordInv, NEW s \in Slot,
         \/ Replay(s)
         \/ FindForClaim(s) \/ FindForSms(s) \/ FindForRegister(s) \/ FindForAck(s)
         \/ WritePayment(s) \/ WriteCommand(s) \/ WriteRow(s)
         \/ AnswerClaim(s) \/ AnswerSms(s) \/ Advance(s)
         \/ Break(s) \/ TimeOut(s)
  PROVE  RecordInv'
<1> DEFINE c == call[s]
<1>1. c # None
  BY DEF Replay, FindForClaim, FindForSms, FindForRegister, FindForAck, WritePayment,
         WriteCommand, WriteRow, AnswerClaim, AnswerSms, Advance, Break, TimeOut, At
<1>2. /\ c \in Call /\ CallOK(c) /\ VerifiesFirst(c) /\ c.id \in Id
      /\ c.op \in {"claim", "sms", "register", "ack"}
  BY <1>1, CallFacts DEF RecordInv
<1>3. ASSUME Fail(s), c.op = "ack" => command[c.order][c.row] # "PENDING"
      PROVE  RecordInv'
  BY <1>3, RecordEnd DEF Fail
<1>4. CASE Replay(s)
  <2> DEFINE saved == reply[RequestOf(c)]
             again == [c EXCEPT !.decision = saved.decision, !.order = saved.order,
                                !.row = saved.row]
  <2>1. /\ c.at = "replay" /\ c.op # "ack"
        /\ UNCHANGED core /\ UNCHANGED <<enqueued, told, unacked>>
        /\ \/ To(s, "find")
           \/ saved # None /\ Answered(s, again)
    BY <1>2, <1>4 DEF Replay, At, gateway, CallOK
  <2>2. CASE To(s, "find")
    BY <1>1, <2>1, <2>2, RecordTo
  <2>3. CASE saved # None /\ Answered(s, again)
    <3>1. RequestOf(c) \in Request
      BY <1>2, <1>1, <2>1, CallFacts DEF CallOK, RequestOf, Request
    <3>2. saved \in Reply
      BY <2>3, <3>1 DEF CoreInv, TypeOK
    <3>3. saved.decision \in Decision /\ saved.order \in Msg \cup {None} /\ saved.row \in Nat
      BY <3>2 DEF Reply
    <3> HIDE DEF saved
    <3>4. again \in Call /\ again.op = c.op
      BY <1>2, <3>3 DEF Call
    <3> QED
      BY <2>1, <2>3, <3>4, RecordAnswered DEF saved
  <2> QED
    BY <2>1, <2>2, <2>3
<1>5. CASE FindForClaim(s)
  <2> DEFINE p == payment[c.id]
  <2>1. /\ c.op = "claim"
        /\ \/ Decide(s, "pending", c.order)
           \/ p # None /\ p.status = "ORPHAN" /\ Decide(s, "verified", c.order)
           \/ Decide(s, "mismatch", c.order)
           \/ Decide(s, "used", c.order)
    BY <1>5 DEF FindForClaim, At
  <2>2. p # None /\ p.status = "ORPHAN" => p.order = None
    BY <1>2 DEF RecordInv, OrphansAreFree
  <2>3. {"pending", "verified", "mismatch", "used"} \subseteq Decision
    BY DEF Decision
  <2> QED
    BY <1>1, <2>1, <2>2, <2>3, RecordDecide
<1>6. CASE FindForSms(s)
  <2>1. /\ c.op = "sms"
        /\ \E d \in {"orphan", "verified", "mismatch", "used"}, o \in {None, payment[c.id].order} :
             Decide(s, d, o)
    BY <1>6 DEF FindForSms, At
  <2>2. {"orphan", "verified", "mismatch", "used"} \subseteq Decision
    BY DEF Decision
  <2> QED
    BY <1>1, <2>1, <2>2, RecordDecide
<1>7. CASE FindForRegister(s)
  <2>1. c.op = "register" /\ (Decide(s, "registered", c.order) \/ Fail(s))
    BY <1>7 DEF FindForRegister, At
  <2>2. "registered" \in Decision
    BY DEF Decision
  <2> QED
    BY <1>1, <1>3, <2>1, <2>2, RecordDecide
<1>8. CASE FindForAck(s)
  <2>1. /\ c.op = "ack"
        /\ \/ To(s, "write") /\ UNCHANGED <<core, gateway>>
           \/ Fail(s) /\ command[c.order][c.row] # "PENDING"
    BY <1>8 DEF FindForAck, At
  <2>2. CASE To(s, "write") /\ UNCHANGED <<core, gateway>>
    BY <1>1, <2>1, <2>2, RecordTo DEF gateway
  <2> QED
    BY <1>3, <2>1, <2>2
<1>9. CASE WritePayment(s)
  <2>1. /\ c.op \in {"claim", "sms"} /\ c.at = "write"
        /\ \/ Fail(s)
           \/ To(s, "row") /\ UNCHANGED <<core, gateway>>
    BY <1>9 DEF WritePayment, At
  <2>2. CASE To(s, "row") /\ UNCHANGED <<core, gateway>>
    BY <1>1, <2>1, <2>2, RecordTo DEF gateway
  <2> QED
    BY <1>3, <2>1, <2>2
<1>10. CASE WriteCommand(s)
  <2>1. /\ c.op \in {"register", "ack"}
        /\ \/ Fail(s) /\ c.op = "register"
           \/ To(s, "commit") /\ UNCHANGED <<core, gateway>>
    BY <1>10 DEF WriteCommand, At
  <2>2. CASE To(s, "commit") /\ UNCHANGED <<core, gateway>>
    BY <1>1, <2>1, <2>2, RecordTo DEF gateway
  <2> QED
    BY <1>3, <2>1, <2>2
<1>11. CASE WriteRow(s)
  <2>1. /\ c.at = "row" /\ c.op # "ack"
        /\ \A d \in Others(s) : c.op = "sms" => ~(HoldsConfirmation(d) /\ d.id = c.id)
        /\ \/ Fail(s)
           \/ /\ To(s, "commit") /\ UNCHANGED <<core, gateway>>
              /\ c.op = "sms" => c.id \notin confirmed
    BY <1>2, <1>11 DEF WriteRow, At, CallOK
  <2>2. \A t \in Slot \ {s} : call[t] # None /\ HoldsConfirmation(call[t]) /\ c.op = "sms" =>
          call[t].id # c.id
    BY <2>1 DEF Others
  <2>3. CASE /\ To(s, "commit") /\ UNCHANGED <<core, gateway>>
             /\ c.op = "sms" => c.id \notin confirmed
    BY <1>1, <2>1, <2>2, <2>3, RecordTo DEF gateway
  <2> QED
    BY <1>3, <2>1, <2>3
<1>12. CASE AnswerClaim(s) \/ AnswerSms(s)
  <2>1. /\ c.op \in {"claim", "sms"}
        /\ UNCHANGED core /\ UNCHANGED <<enqueued, told, unacked>>
        /\ To(s, "advance") \/ End(s)
    BY <1>12 DEF AnswerClaim, AnswerSms, At, gateway
  <2> QED
    BY <1>1, <2>1, RecordTo, RecordEnd
<1>13. CASE Advance(s)
  <2> DEFINE new == [c EXCEPT !.op = "register", !.at = "replay", !.decision = None]
  <2>1. /\ c.op # "ack"
        /\ UNCHANGED core /\ UNCHANGED <<enqueued, told, unacked>>
        /\ Go(s, new) \/ End(s)
    BY <1>2, <1>13 DEF Advance, At, CallOK
  <2>2. CASE Go(s, new)
    <3>1. /\ call' = [call EXCEPT ![s] = call'[s]] /\ call'[s] = new
          /\ new.op = "register"
      BY <1>2, <2>2 DEF Go, CoreInv, TypeOK, Call
    <3> HIDE DEF new
    <3>2. VerifiesFirst(new) /\ ~HoldsConfirmation(new)
      BY <3>1 DEF VerifiesFirst, HoldsConfirmation
    <3> QED
      BY <2>1, <3>1, <3>2, RecordStep
  <2> QED
    BY <2>1, <2>2, RecordEnd
<1>14. CASE Break(s)
  <2>1. /\ End(s) /\ UNCHANGED core /\ UNCHANGED <<enqueued, told>>
        /\ unacked' = IF c.op = "ack" THEN unacked \cup {c.order} ELSE unacked
    BY <1>14 DEF Break
  <2> QED
    BY <2>1, RecordEnd
<1>15. CASE TimeOut(s)
  <2> DEFINE new == [c EXCEPT !.heard = FALSE]
  <2>1. /\ UNCHANGED core /\ UNCHANGED <<enqueued, told, unacked>>
        /\ \/ c.at = "answer" /\ End(s)
           \/ Go(s, new)
    BY <1>15 DEF TimeOut
  <2>2. CASE c.at = "answer" /\ End(s)
    BY <1>2, <2>1, <2>2, RecordEnd DEF VerifiesFirst
  <2>3. CASE Go(s, new)
    <3>1. /\ call' = [call EXCEPT ![s] = call'[s]] /\ call'[s] = new
      BY <2>3 DEF Go, CoreInv, TypeOK
    <3>2. /\ new \in Call /\ new.op = c.op /\ new.at = c.at /\ new.id = c.id
          /\ new.order = c.order /\ new.decision = c.decision /\ new.row = c.row
      BY <1>2 DEF Call
    <3> HIDE DEF new
    <3>3. VerifiesFirst(new) /\ new # None
      BY <1>2, <3>2, NoneAssumption DEF VerifiesFirst
    <3>4. HoldsConfirmation(new) => \A t \in Slot \ {s} :
            call[t] # None /\ HoldsConfirmation(call[t]) => call[t].id # new.id
      BY <1>1, <3>2 DEF RecordInv, OneConfirms, HoldsConfirmation
    <3> QED
      BY <2>1, <3>1, <3>2, <3>3, <3>4, RecordStep
  <2> QED
    BY <2>1, <2>2, <2>3
<1> QED
  BY <1>4, <1>5, <1>6, <1>7, <1>8, <1>9, <1>10, <1>11, <1>12, <1>13, <1>14, <1>15

\* A new call carries what was announced, if anything.
LEMMA RecordStart ==
  ASSUME CoreInv, RecordInv,
         NEW op \in {"claim", "sms", "ack"}, NEW at \in {"replay", "find"},
         NEW id \in Id, NEW m \in Msg \cup {None}, NEW row \in Nat, NEW ok \in BOOLEAN,
         op = "ack" => at = "find",
         Start(op, at, id, m, row, ok), UNCHANGED core, UNCHANGED enqueued,
         unacked' = unacked,
         \A n \in Msg : /\ told[n] \subseteq told'[n]
                        /\ \A t \in told'[n] \ told[n] :
                             op = "ack" /\ n = m /\ enqueued[n][t[1]] = row
  PROVE  RecordInv'
<1> DEFINE new == [op |-> op, at |-> at, id |-> id, order |-> m, row |-> row,
                   decision |-> None, heard |-> TRUE, ok |-> ok]
<1>1. PICK s \in Slot : call[s] = None /\ call' = [call EXCEPT ![s] = new]
  BY DEF Start
<1>2. /\ call'[s] = new /\ new.op = op /\ new.at = at /\ new.order = m /\ new.row = row
      /\ new \in Call /\ \A t \in Slot \ {s} : call'[t] = call[t]
  BY <1>1 DEF CoreInv, TypeOK, Call
<1> HIDE DEF new
<1>3. VerifiesFirst(new) /\ ~HoldsConfirmation(new) /\ new # None
  BY <1>2, NoneAssumption DEF VerifiesFirst, HoldsConfirmation
<1>4. Heard'
  <2> SUFFICES ASSUME NEW n \in Msg, NEW t \in told'[n]
               PROVE  \/ OnItsWay(n, enqueued[n][t[1]])'
                      \/ n \in unacked
                      \/ command[n][enqueued[n][t[1]]] # "PENDING"
    BY DEF Heard, core
  <2>1. UNCHANGED enqueued[n][t[1]]
    OBVIOUS
  <2>2. CASE t \in told[n]
    <3>1. CASE OnItsWay(n, enqueued[n][t[1]])
      <4>1. PICK u \in Slot : /\ call[u] # None /\ call[u].op = "ack"
                              /\ call[u].order = n /\ call[u].row = enqueued[n][t[1]]
        BY <3>1 DEF OnItsWay
      <4>2. call'[u] = call[u]
        BY <1>1, <1>2, <4>1
      <4> QED
        BY <2>1, <4>1, <4>2 DEF OnItsWay
    <3> QED
      BY <2>2, <3>1 DEF RecordInv, Heard
  <2>3. CASE t \notin told[n]
    BY <1>2, <1>3, <2>1, <2>3 DEF OnItsWay
  <2> QED
    BY <2>2, <2>3
<1>5. \A n \in Msg : Announced(n) \subseteq Announced(n)'
  BY DEF Announced
<1>6. Recorded' /\ OrphansAreFree'
  BY <1>5 DEF RecordInv, Recorded, OrphansAreFree, core
<1>7. OneConfirms'
  BY <1>2, <1>3 DEF RecordInv, OneConfirms, HoldsConfirmation
<1>8. ASSUME NEW t \in Slot, call'[t] # None PROVE VerifiesFirst(call[t])'
  <2>1. VerifiesFirst(call'[t])
    BY <1>2, <1>3, <1>8 DEF RecordInv
  <2> QED
    BY <2>1 DEF VerifiesFirst, core
<1> QED
  BY <1>4, <1>6, <1>7, <1>8 DEF RecordInv

\* The gateway sends a claim, passes a report on or announces an outcome.
LEMMA RecordGateway ==
  /\ \A m \in Msg : CoreInv /\ RecordInv /\ SendClaim(m) => RecordInv'
  /\ \A i \in Id : CoreInv /\ RecordInv /\ ReportSms(i) => RecordInv'
  /\ \A m \in Msg, ok \in BOOLEAN : \A k \in DOMAIN enqueued[m] :
       CoreInv /\ RecordInv /\ Announce(m, k, ok) => RecordInv'
<1>1. ASSUME NEW m \in Msg, CoreInv, RecordInv, SendClaim(m) PROVE RecordInv'
  <2>1. /\ PaymentOf[m] \in Id /\ Start("claim", "replay", PaymentOf[m], m, 0, TRUE)
        /\ UNCHANGED core /\ UNCHANGED <<enqueued, told, unacked>>
    BY <1>1, CoreAssumption DEF SendClaim
  <2> QED
    BY <1>1, <2>1, RecordStart
<1>2. ASSUME NEW i \in Id, CoreInv, RecordInv, ReportSms(i) PROVE RecordInv'
  <2>1. /\ Start("sms", "replay", i, None, 0, TRUE)
        /\ UNCHANGED core /\ UNCHANGED <<enqueued, told, unacked>>
    BY <1>2 DEF ReportSms
  <2> QED
    BY <1>2, <2>1, RecordStart
<1>3. ASSUME NEW m \in Msg, NEW ok \in BOOLEAN, NEW k \in DOMAIN enqueued[m],
             CoreInv, RecordInv, Announce(m, k, ok)
      PROVE  RecordInv'
  <2>1. /\ told' = [told EXCEPT ![m] = @ \cup {<<k, ok>>}]
        /\ Start("ack", "find", PaymentOf[m], m, enqueued[m][k], ok)
        /\ UNCHANGED core /\ UNCHANGED <<enqueued, unacked>>
    BY <1>3 DEF Announce
  <2>2. PaymentOf[m] \in Id /\ enqueued[m][k] \in Nat
    <3>1. enqueued[m] \in Seq(Nat)
      BY <1>3 DEF CoreInv, TypeOK
    <3> QED
      BY <3>1, CoreAssumption
  <2>3. \A n \in Msg : /\ told[n] \subseteq told'[n]
                       /\ \A t \in told'[n] \ told[n] : n = m /\ t = <<k, ok>>
    BY <1>3, <2>1 DEF CoreInv, TypeOK
  <2>4. <<k, ok>>[1] = k
    OBVIOUS
  <2> QED
    BY <1>3, <2>1, <2>2, <2>3, <2>4, RecordStart
<1> QED
  BY <1>1, <1>2, <1>3

\* A command that is enqueued comes behind those whose outcome was announced.
LEMMA RecordEnqueued ==
  ASSUME CoreInv, RecordInv, NEW s \in Slot, AnswerRegister(s)
  PROVE  RecordInv'
<1> DEFINE m == call[s].order
           q == enqueued[m]
<1>1. /\ call[s] # None /\ call[s].op = "register"
      /\ UNCHANGED core /\ UNCHANGED <<told, unacked>>
      /\ enqueued' = [enqueued EXCEPT ![m] = Append(q, call[s].row)]
      /\ call' = [call EXCEPT ![s] = None] /\ call'[s] = None
  BY DEF AnswerRegister, At, End, Go, CoreInv, TypeOK
<1>2. m \in Msg /\ call[s].row \in Nat
  BY <1>1, CallFacts DEF CallOK, Call
<1>3. \A k \in DOMAIN q : Append(q, call[s].row)[k] = q[k]
  <2>1. q \in Seq(Nat)
    BY <1>2 DEF CoreInv, TypeOK
  <2> QED
    BY <1>2, <2>1, RowAppended
<1>4. \A n \in Msg : \A k \in DOMAIN enqueued[n] : enqueued'[n][k] = enqueued[n][k]
  <2>1. enqueued'[m] = Append(q, call[s].row) /\ \A n \in Msg : n # m => enqueued'[n] = enqueued[n]
    BY <1>1, <1>2 DEF CoreInv, TypeOK
  <2> HIDE DEF m
  <2> QED
    BY <1>2, <1>3, <2>1
<1>5. \A t \in Slot \ {s} : call'[t] = call[t]
  BY <1>1 DEF CoreInv, TypeOK
<1>6. Heard'
  <2> SUFFICES ASSUME NEW n \in Msg, NEW t \in told[n]
               PROVE  \/ OnItsWay(n, enqueued[n][t[1]])'
                      \/ n \in unacked
                      \/ command[n][enqueued'[n][t[1]]] # "PENDING"
    BY <1>1 DEF Heard, core
  <2>1. enqueued'[n][t[1]] = enqueued[n][t[1]]
    BY <1>4 DEF CoreInv, EnqueuedOK
  <2>2. CASE OnItsWay(n, enqueued[n][t[1]])
    <3>1. PICK u \in Slot : /\ call[u] # None /\ call[u].op = "ack"
                            /\ call[u].order = n /\ call[u].row = enqueued[n][t[1]]
      BY <2>2 DEF OnItsWay
    <3>2. call'[u] = call[u]
      BY <1>1, <1>5, <3>1
    <3> QED
      BY <2>1, <3>1, <3>2 DEF OnItsWay
  <2> QED
    BY <2>1, <2>2 DEF RecordInv, Heard
<1>7. Recorded' /\ OrphansAreFree'
  BY <1>1 DEF RecordInv, Recorded, OrphansAreFree, Announced, core
<1>8. OneConfirms'
  BY <1>1, <1>5 DEF RecordInv, OneConfirms, HoldsConfirmation
<1>9. ASSUME NEW t \in Slot, call'[t] # None PROVE VerifiesFirst(call[t])'
  <2>1. VerifiesFirst(call'[t])
    BY <1>1, <1>5, <1>9 DEF RecordInv
  <2> QED
    BY <1>1, <2>1 DEF VerifiesFirst, core
<1> QED
  BY <1>6, <1>7, <1>8, <1>9 DEF RecordInv

\* The call that commits ends or is answered, so that it verifies and confirms
\* nothing any more; the others still verify and confirm first.
LEMMA RecordCommitted ==
  ASSUME CoreInv, RecordInv, NEW s \in Slot, Grows, UNCHANGED gateway,
         call' = [call EXCEPT ![s] = call'[s]],
         call'[s] # None => call'[s].at = "answer" /\ call'[s].op # "ack",
         \A t \in Slot \ {s} : call[t] # None /\ HoldsConfirmation(call[t]) =>
           call[t].id \notin confirmed'
  PROVE  OneConfirms' /\ \A t \in Slot : call'[t] # None => VerifiesFirst(call[t])'
<1>1. \A t \in Slot \ {s} : call'[t] = call[t]
  BY DEF CoreInv, TypeOK
<1>2. OneConfirms'
  BY <1>1 DEF RecordInv, OneConfirms, HoldsConfirmation
<1>3. ASSUME NEW t \in Slot, call'[t] # None PROVE VerifiesFirst(call[t])'
  <2>1. CASE t = s
    BY <1>3, <2>1 DEF VerifiesFirst
  <2>2. CASE t # s
    <3>1. call'[t] = call[t] /\ call[t] # None /\ VerifiesFirst(call[t])
      BY <1>1, <1>3, <2>2 DEF RecordInv
    <3>2. call[t].id \in Id /\ CallOK(call[t])
      BY <3>1, CallFacts
    <3>3. call[t].op = "claim" /\ call[t].decision = "verified" =>
            payment'[call[t].id].order = payment[call[t].id].order
      BY <3>2 DEF CallOK, Grows
    <3>4. call[t].op = "sms" /\ call[t].at = "commit" => call[t].id \notin confirmed'
      BY <2>2, <3>1 DEF HoldsConfirmation
    <3> QED
      BY <3>1, <3>3, <3>4 DEF VerifiesFirst
  <2> QED
    BY <2>1, <2>2
<1> QED
  BY <1>2, <1>3

\* A commit after which every row that had an outcome has one.
LEMMA HeardCommitted ==
  ASSUME CoreInv, RecordInv, NEW s \in Slot, UNCHANGED gateway,
         call' = [call EXCEPT ![s] = call'[s]],
         \A m \in Msg : \A k \in DOMAIN command[m] :
           command[m][k] # "PENDING" => command'[m][k] # "PENDING",
         call[s].op = "ack" => command'[call[s].order][call[s].row] # "PENDING"
  PROVE  Heard'
<1> SUFFICES ASSUME NEW m \in Msg, NEW t \in told[m]
             PROVE  \/ OnItsWay(m, enqueued[m][t[1]])'
                    \/ m \in unacked
                    \/ command'[m][enqueued[m][t[1]]] # "PENDING"
  BY DEF Heard, gateway
<1>1. UNCHANGED enqueued[m][t[1]]
  BY DEF gateway
<1>2. enqueued[m][t[1]] \in DOMAIN command[m]
  BY DEF CoreInv, EnqueuedOK
<1>3. CASE OnItsWay(m, enqueued[m][t[1]])
  <2>1. PICK u \in Slot : /\ call[u] # None /\ call[u].op = "ack"
                          /\ call[u].order = m /\ call[u].row = enqueued[m][t[1]]
    BY <1>3 DEF OnItsWay
  <2>2. CASE u = s
    BY <2>1, <2>2
  <2>3. CASE u # s
    <3>1. call'[u] = call[u]
      BY <2>3 DEF CoreInv, TypeOK
    <3> QED
      BY <1>1, <2>1, <3>1 DEF OnItsWay
  <2> QED
    BY <2>2, <2>3
<1> QED
  BY <1>2, <1>3 DEF RecordInv, Heard

\* A registration adds a row that has no outcome.
LEMMA RecordRegister ==
  ASSUME CoreInv, RecordInv, NEW s \in Slot, CommitRegister(s)
  PROVE  RecordInv'
<1> DEFINE m == call[s].order
           q == command[m]
           row == Len(q) + 1
           d == [call[s] EXCEPT !.row = row]
<1>1. /\ call[s] # None /\ call[s].op = "register"
      /\ command' = [command EXCEPT ![m] = Append(q, "PENDING")]
      /\ Answered(s, d)
      /\ UNCHANGED <<payment, orders, confirmed>> /\ UNCHANGED gateway
  BY DEF CommitRegister, At
<1>2. m \in Msg /\ call[s] \in Call
  BY <1>1, CallFacts DEF CallOK
<1>3. q \in Seq(CommandStatus) /\ "PENDING" \in CommandStatus
  BY <1>2 DEF CoreInv, TypeOK, CommandStatus
<1>4. /\ row \in Nat
      /\ DOMAIN Append(q, "PENDING") = DOMAIN q \cup {row}
      /\ \A k \in DOMAIN q : Append(q, "PENDING")[k] = q[k]
      /\ Append(q, "PENDING")[row] = "PENDING"
  BY <1>3, RowAppended
<1>5. command'[m] = Append(q, "PENDING") /\ \A n \in Msg : n # m => command'[n] = command[n]
  BY <1>1, <1>2 DEF CoreInv, TypeOK
<1>6. d \in Call /\ d.op = "register"
  BY <1>1, <1>2, <1>4 DEF Call
<1> HIDE DEF d, row, q
<1>7. /\ call' = [call EXCEPT ![s] = call'[s]]
      /\ call'[s] # None => call'[s].op = "register" /\ call'[s].at = "answer"
  BY <1>1, <1>6, AnsweredFields
<1> HIDE DEF m
<1>8. /\ \A n \in Msg : DOMAIN command[n] \subseteq DOMAIN command'[n]
      /\ \A n \in Msg : \A k \in DOMAIN command[n] : command'[n][k] = command[n][k]
      /\ \A n \in Msg : \A k \in DOMAIN command'[n] :
           command'[n][k] # "PENDING" => k \in DOMAIN command[n]
  BY <1>4, <1>5 DEF q
<1>9. Grows
  BY <1>1, <1>8 DEF Grows
<1>10. Heard'
  BY <1>1, <1>7, <1>8, HeardCommitted
<1>11. Recorded' /\ OrphansAreFree'
  <2>1. \A n \in Msg : Announced(n)' = Announced(n)
    BY <1>1 DEF Announced, gateway
  <2> QED
    BY <1>1, <1>8, <2>1 DEF RecordInv, Recorded, OrphansAreFree
<1>12. \A t \in Slot \ {s} : call[t] # None /\ HoldsConfirmation(call[t]) =>
         call[t].id \notin confirmed'
  BY <1>1 DEF RecordInv, VerifiesFirst, HoldsConfirmation
<1>13. OneConfirms' /\ \A t \in Slot : call'[t] # None => VerifiesFirst(call[t])'
  BY <1>1, <1>7, <1>9, <1>12, RecordCommitted
<1> QED
  BY <1>10, <1>11, <1>13 DEF RecordInv

\* An acknowledgement gives its row and the order an outcome that was announced.
LEMMA RecordAck ==
  ASSUME CoreInv, RecordInv, NEW s \in Slot, CommitAck(s)
  PROVE  RecordInv'
<1> DEFINE c == call[s]
           m == c.order
           i == c.id
           q == command[m]
           x == Outcome(c.ok)
<1>1. /\ c # None /\ c.op = "ack"
      /\ command' = [command EXCEPT ![m] = [q EXCEPT ![c.row] = x]]
      /\ orders' = [orders EXCEPT ![m] = x]
      /\ payment' = IF c.ok THEN [payment EXCEPT ![i].status = "USED"] ELSE payment
      /\ UNCHANGED <<confirmed, reply>> /\ UNCHANGED gateway
      /\ call' = [call EXCEPT ![s] = None] /\ call'[s] = None
  BY DEF CommitAck, At, End, Go, CoreInv, TypeOK
<1>2. /\ m \in Msg /\ i \in Id /\ PaymentOf[m] = i
      /\ c.row \in DOMAIN q /\ c.ok \in Announced(m)
  BY <1>1, CallFacts DEF CallOK
<1>3. q \in Seq(CommandStatus) /\ x \in CommandStatus /\ x # "PENDING"
      /\ (x = "COMPLETED" => c.ok)
  BY <1>2 DEF CoreInv, TypeOK, CommandStatus, Outcome
<1>4. payment[i] # None /\ payment[i].order = m
  <2>1. q # <<>>
    BY <1>2, RowThere
  <2> QED
    BY <1>2, <2>1 DEF CoreInv, CommandOK, Verified
<1>5. /\ DOMAIN [q EXCEPT ![c.row] = x] = DOMAIN q
      /\ \A k \in DOMAIN q : [q EXCEPT ![c.row] = x][k] = IF k = c.row THEN x ELSE q[k]
  <2> HIDE DEF q, x
  <2> QED
    BY <1>2, <1>3, RowChanged
<1>6. /\ command'[m] = [q EXCEPT ![c.row] = x]
      /\ orders'[m] = x
      /\ \A n \in Msg : n # m => command'[n] = command[n] /\ orders'[n] = orders[n]
  BY <1>1, <1>2 DEF CoreInv, TypeOK
<1>7. /\ \A j \in Id : j # i => payment'[j] = payment[j]
      /\ \A j \in Id : payment[j] # None =>
           /\ payment'[j] # None /\ payment'[j].order = payment[j].order
           /\ payment'[j].status \in {payment[j].status, "USED"}
      /\ \A j \in Id : payment[j] = None => payment'[j] = None
      /\ c.ok => payment'[i].status = "USED"
  <2> DEFINE p == payment[i]
             u == [p EXCEPT !.status = "USED"]
  <2>1. p \in Payment /\ payment \in [Id -> Payment \cup {None}]
    BY <1>2, <1>4 DEF CoreInv, TypeOK
  <2>2. u \in Payment /\ u.order = p.order /\ u.status = "USED"
    BY <2>1 DEF Payment
  <2>3. payment' = IF c.ok THEN [payment EXCEPT ![i] = u] ELSE payment
    BY <1>1
  <2>4. u # None
    BY <2>2, NoneAssumption
  <2> HIDE DEF u, c, m, i
  <2> QED
    BY <1>2, <1>4, <2>1, <2>2, <2>3, <2>4
<1> HIDE DEF x, q
<1>8. /\ \A n \in Msg : DOMAIN command'[n] = DOMAIN command[n]
      /\ \A n \in Msg : \A k \in DOMAIN command[n] :
           \/ command'[n][k] = command[n][k]
           \/ n = m /\ k = c.row /\ command'[n][k] = x
  BY <1>5, <1>6 DEF q
<1>9. Grows
  BY <1>1, <1>7, <1>8 DEF Grows
<1>10. Heard'
  <2>1. command'[m][c.row] # "PENDING"
    BY <1>2, <1>3, <1>5, <1>6
  <2> QED
    BY <1>1, <1>3, <1>8, <2>1, HeardCommitted
<1>11. Recorded'
  <2>1. \A n \in Msg : Announced(n)' = Announced(n)
    BY <1>1 DEF Announced, gateway
  <2> SUFFICES ASSUME NEW n \in Msg, NEW k \in DOMAIN command[n],
                      command'[n][k] # "PENDING"
               PROVE  /\ \E ok \in Announced(n) : command'[n][k] = Outcome(ok)
                      /\ \E ok \in Announced(n) : orders'[n] = Outcome(ok)
                      /\ command'[n][k] = "COMPLETED" =>
                           payment'[PaymentOf[n]].status = "USED"
    BY <1>8, <2>1 DEF Recorded
  <2>2. command[n][k] # "PENDING" =>
          /\ \E ok \in Announced(n) : command[n][k] = Outcome(ok)
          /\ \E ok \in Announced(n) : orders[n] = Outcome(ok)
          /\ command[n][k] = "COMPLETED" => payment[PaymentOf[n]].status = "USED"
    BY DEF RecordInv, Recorded
  <2>3. /\ PaymentOf[n] \in Id /\ payment[PaymentOf[n]] # None
        /\ payment[PaymentOf[n]].status = "USED" =>
             payment'[PaymentOf[n]].status = "USED"
    <3>1. command[n] # <<>>
      BY RowThere
    <3>2. PaymentOf[n] \in Id /\ payment[PaymentOf[n]] # None
      BY <3>1, CoreAssumption DEF CoreInv, CommandOK, Verified
    <3> HIDE DEF i, m, c
    <3> QED
      BY <1>7, <3>2
  <2>4. CASE n = m
    <3>1. orders'[n] = x /\ \E ok \in Announced(n) : x = Outcome(ok)
      BY <1>2, <1>6, <2>4 DEF x
    <3>2. CASE k = c.row
      <4>1. command'[n][k] = x
        BY <1>2, <1>5, <1>6, <2>4, <3>2
      <4> QED
        BY <1>2, <1>3, <1>7, <2>4, <3>1, <4>1
    <3>3. CASE k # c.row
      <4>1. command'[n][k] = command[n][k]
        BY <1>8, <3>3
      <4> QED
        BY <2>2, <2>3, <3>1, <4>1
    <3> QED
      BY <3>2, <3>3
  <2>5. CASE n # m
    <3>1. command'[n][k] = command[n][k] /\ orders'[n] = orders[n]
      BY <1>6, <2>5
    <3> QED
      BY <2>2, <2>3, <3>1
  <2> QED
    BY <2>4, <2>5
<1>12. OrphansAreFree'
  <2> SUFFICES ASSUME NEW j \in Id, payment'[j] # None, payment'[j].status = "ORPHAN"
               PROVE  payment'[j].order = None
    BY DEF OrphansAreFree
  <2> HIDE DEF i, m, c
  <2>1. /\ payment[j] # None /\ payment'[j].order = payment[j].order
        /\ payment[j].status = "ORPHAN"
    BY <1>7
  <2> QED
    BY <2>1 DEF RecordInv, OrphansAreFree
<1>13. \A t \in Slot \ {s} : call[t] # None /\ HoldsConfirmation(call[t]) =>
         call[t].id \notin confirmed'
  BY <1>1 DEF RecordInv, VerifiesFirst, HoldsConfirmation
<1>14. OneConfirms' /\ \A t \in Slot : call'[t] # None => VerifiesFirst(call[t])'
  BY <1>1, <1>9, <1>13, RecordCommitted
<1> QED
  BY <1>10, <1>11, <1>12, <1>14 DEF RecordInv

\* A claim or an SMS that commits leaves an order that has a command, and its
\* payment, as they were.
LEMMA CommandsUndisturbed ==
  ASSUME CoreInv, RecordInv, NEW s \in Slot, CommitPayment(s),
         NEW m \in Msg, command[m] # <<>>
  PROVE  orders'[m] = orders[m] /\ payment'[PaymentOf[m]] = payment[PaymentOf[m]]
<1> DEFINE c == call[s]
           i == PaymentOf[m]
<1>1. /\ c # None /\ c.at = "commit" /\ c.op \in {"claim", "sms"}
      /\ orders' = [n \in Msg |->
            CASE n = c.order /\ c.decision = "pending" -> "PENDING_PAYMENT"
              [] n = c.order /\ c.decision = "verified" -> "PAYMENT_VERIFIED"
              [] OTHER -> orders[n]]
  BY DEF CommitPayment, At
<1>2. /\ i \in Id /\ payment[i] # None /\ payment[i].order = m /\ i \in confirmed
      /\ m # None
  BY CoreAssumption, NoneAssumption DEF CoreInv, CommandOK, Verified
<1>3. /\ \A j \in Id \ {c.id} : payment'[j] = payment[j]
      /\ CommittedAs(c, payment[c.id], payment'[c.id])
  BY PaymentCommitted
<1>4. CallOK(c) /\ VerifiesFirst(c) /\ c.id \in Id
  BY <1>1, CallFacts DEF RecordInv
<1>5. CASE c.id = i
  <2>1. c.decision \in {"mismatch", "used"} /\ payment'[i] = payment[i]
    BY <1>1, <1>2, <1>3, <1>4, <1>5 DEF CommittedAs, VerifiesFirst
  <2> QED
    BY <1>1, <2>1
<1>6. CASE c.id # i
  <2>1. c.order # m
    BY <1>2, <1>4, <1>6 DEF CallOK
  <2> QED
    BY <1>1, <1>2, <1>3, <1>6, <2>1
<1> QED
  BY <1>5, <1>6

\* A claim or an SMS that commits disturbs nothing that was announced.
LEMMA RecordPayment ==
  ASSUME CoreInv, RecordInv, CoreInv', NEW s \in Slot, CommitPayment(s)
  PROVE  RecordInv'
<1> DEFINE c == call[s]
<1>1. /\ c # None /\ c.at = "commit" /\ c.op \in {"claim", "sms"}
      /\ confirmed' = IF c.op = "sms" THEN confirmed \cup {c.id} ELSE confirmed
      /\ Answered(s, c)
      /\ UNCHANGED command /\ UNCHANGED gateway
  BY DEF CommitPayment, At
<1>2. c \in Call /\ CallOK(c) /\ c.id \in Id
  BY <1>1, CallFacts
<1>3. /\ call' = [call EXCEPT ![s] = call'[s]]
      /\ call'[s] # None => call'[s].op = c.op /\ call'[s].at = "answer"
  BY <1>1, <1>2, AnsweredFields
<1>4. /\ \A j \in Id \ {c.id} : payment'[j] = payment[j]
      /\ CommittedAs(c, payment[c.id], payment'[c.id])
  BY PaymentCommitted
<1>5. Grows
  <2> HIDE DEF c
  <2> QED
    BY <1>1, <1>2, <1>4 DEF Grows, CommittedAs
<1>6. Heard'
  BY <1>1, <1>3, HeardCommitted
<1>7. Recorded'
  <2>1. \A n \in Msg : Announced(n)' = Announced(n)
    BY <1>1 DEF Announced, gateway
  <2> SUFFICES ASSUME NEW n \in Msg, NEW k \in DOMAIN command[n],
                      command[n][k] # "PENDING"
               PROVE  /\ \E ok \in Announced(n) : command[n][k] = Outcome(ok)
                      /\ \E ok \in Announced(n) : orders'[n] = Outcome(ok)
                      /\ command[n][k] = "COMPLETED" =>
                           payment'[PaymentOf[n]].status = "USED"
    BY <1>1, <2>1 DEF Recorded
  <2>2. orders'[n] = orders[n] /\ payment'[PaymentOf[n]] = payment[PaymentOf[n]]
    <3>1. command[n] # <<>>
      BY RowThere
    <3> QED
      BY <3>1, CommandsUndisturbed
  <2> QED
    BY <2>2 DEF RecordInv, Recorded
<1>8. OrphansAreFree'
  <2> SUFFICES ASSUME NEW j \in Id, payment'[j] # None, payment'[j].status = "ORPHAN"
               PROVE  payment'[j].order = None
    BY DEF OrphansAreFree
  <2>1. payment[j] # None /\ payment[j].status = "ORPHAN" => payment[j].order = None
    BY DEF RecordInv, OrphansAreFree
  <2> HIDE DEF c
  <2>2. CASE j = c.id
    BY <1>4, <2>1, <2>2 DEF CommittedAs
  <2>3. CASE j # c.id
    BY <1>4, <2>1, <2>3
  <2> QED
    BY <2>2, <2>3
<1>9. ASSUME NEW t \in Slot \ {s}, call[t] # None, HoldsConfirmation(call[t])
      PROVE  call[t].id \notin confirmed'
  <2>1. call[t].id \notin confirmed
    BY <1>9 DEF RecordInv, VerifiesFirst, HoldsConfirmation
  <2>2. c.op = "sms" => call[t].id # c.id
    BY <1>1, <1>9 DEF RecordInv, OneConfirms, HoldsConfirmation
  <2> QED
    BY <1>1, <2>1, <2>2
<1>10. OneConfirms' /\ \A t \in Slot : call'[t] # None => VerifiesFirst(call[t])'
  BY <1>1, <1>3, <1>5, <1>9, RecordCommitted
<1> QED
  BY <1>6, <1>7, <1>8, <1>10 DEF RecordInv

\* The two invariants together are inductive.
LEMMA InitRecord == Init => RecordInv
BY DEF Init, RecordInv, Heard, Recorded, OrphansAreFree, OneConfirms

LEMMA NextRecord == CoreInv /\ RecordInv /\ [Next]_vars => RecordInv'
<1> SUFFICES ASSUME CoreInv, RecordInv, [Next]_vars PROVE RecordInv'
  OBVIOUS
<1>1. CoreInv'
  BY NextInv
<1>2. ASSUME NEW m \in Msg,
             SendClaim(m) \/ \E k \in DOMAIN enqueued[m], ok \in BOOLEAN : Announce(m, k, ok)
      PROVE  RecordInv'
  BY <1>2, RecordGateway
<1>3. ASSUME NEW i \in Id, ReportSms(i) PROVE RecordInv'
  BY <1>3, RecordGateway
<1>4. ASSUME NEW s \in Slot, Step(s) PROVE RecordInv'
  <2>1. CASE CommitPayment(s)
    BY <1>1, <2>1, RecordPayment
  <2>2. CASE CommitRegister(s)
    BY <2>2, RecordRegister
  <2>3. CASE CommitAck(s)
    BY <2>3, RecordAck
  <2>4. CASE AnswerRegister(s)
    BY <2>4, RecordEnqueued
  <2> QED
    BY <1>4, <2>1, <2>2, <2>3, <2>4, RecordQuiet DEF Step
<1>5. ASSUME NEW s \in Slot, Break(s) \/ TimeOut(s) PROVE RecordInv'
  BY <1>5, RecordQuiet
<1>6. CASE UNCHANGED vars
  <2> USE <1>6 DEF vars, core, gateway
  <2>1. Heard'
    BY DEF RecordInv, Heard, OnItsWay
  <2>2. Recorded' /\ OrphansAreFree'
    BY DEF RecordInv, Recorded, Announced, OrphansAreFree
  <2>3. OneConfirms'
    BY DEF RecordInv, OneConfirms, HoldsConfirmation
  <2>4. \A s \in Slot : call'[s] # None => VerifiesFirst(call[s])'
    BY DEF RecordInv, VerifiesFirst
  <2> QED
    BY <2>1, <2>2, <2>3, <2>4 DEF RecordInv
<1> QED
  BY <1>2, <1>3, <1>4, <1>5, <1>6 DEF Next

\* Unless an acknowledgement broke down on its way, the Core ends up with what
\* was announced: the announced commands and the order have the one outcome,
\* and the payment is used exactly by a delivery.
THEOREM OutcomesAreRecorded == Spec => []AnnouncedIsRecorded
<1>1. CoreInv /\ RecordInv => AnnouncedIsRecorded
  <2> SUFFICES ASSUME CoreInv, RecordInv, NEW m \in Msg, NEW ok \in BOOLEAN,
                      Announced(m) = {ok}, m \notin unacked,
                      \A s \in Slot : call[s] # None =>
                        ~(call[s].op = "ack" /\ call[s].order = m)
               PROVE  /\ \A t \in told[m] : command[m][enqueued[m][t[1]]] = Outcome(ok)
                      /\ orders[m] = Outcome(ok)
                      /\ payment[PaymentOf[m]].status = "USED" <=> ok
    BY DEF AnnouncedIsRecorded
  <2>1. ASSUME NEW t \in told[m]
        PROVE  /\ enqueued[m][t[1]] \in DOMAIN command[m]
               /\ command[m][enqueued[m][t[1]]] = Outcome(ok)
               /\ orders[m] = Outcome(ok)
    <3> DEFINE k == enqueued[m][t[1]]
    <3>1. k \in DOMAIN command[m]
      BY DEF CoreInv, EnqueuedOK
    <3>2. command[m][k] # "PENDING"
      BY DEF RecordInv, Heard, OnItsWay
    <3> HIDE DEF k
    <3>3. command[m][k] = Outcome(ok) /\ orders[m] = Outcome(ok)
      BY <3>1, <3>2 DEF RecordInv, Recorded
    <3> QED
      BY <3>1, <3>3 DEF k
  <2>2. PICK t \in told[m] : t[2] = ok
    BY DEF Announced
  <2> DEFINE k == enqueued[m][t[1]]
  <2>3. /\ k \in DOMAIN command[m] /\ command[m][k] = Outcome(ok)
        /\ orders[m] = Outcome(ok)
    BY <2>1
  <2>4. ok => payment[PaymentOf[m]].status = "USED"
    <3> HIDE DEF k
    <3> QED
      BY <2>3 DEF RecordInv, Recorded, Outcome
  <2>5. payment[PaymentOf[m]].status = "USED" => ok
    <3>1. command[m] # <<>>
      BY <2>3, RowThere
    <3>2. /\ PaymentOf[m] \in Id /\ payment[PaymentOf[m]] # None
          /\ payment[PaymentOf[m]].order = m
      BY <3>1, CoreAssumption DEF CoreInv, CommandOK, Verified
    <3>3. payment[PaymentOf[m]].status = "USED" => TRUE \in {ok}
      BY <3>2 DEF CoreInv, PaymentOK
    <3>4. TRUE \in {ok} => ok
      BY Zenon
    <3> QED
      BY <3>3, <3>4
  <2> QED
    BY <2>1, <2>3, <2>4, <2>5
<1>2. Spec => [](CoreInv /\ RecordInv)
  BY InitInv, NextInv, InitRecord, NextRecord, PTL DEF Spec
<1> QED
  BY <1>1, <1>2, PTL

-----------------------------------------------------------------------------
(* Used payments.                                                          *)

\* A row that has an outcome.
Ended(m) == \E k \in DOMAIN command[m] : command[m][k] # "PENDING"

\* The order of a used payment has a row that has its outcome.
UsedOrderEnded ==
  \A i \in Id : payment[i] # None /\ payment[i].status = "USED" =>
    Ended(payment[i].order)

LEMMA UsedOrderEndedInit == Init => UsedOrderEnded
BY DEF Init, UsedOrderEnded

\* A claim or an SMS that commits never makes a payment used.
LEMMA UsedBeforePayment ==
  ASSUME CoreInv, UsedOrderEnded, NEW s \in Slot, CommitPayment(s)
  PROVE  UsedOrderEnded'
<1> DEFINE c == call[s]
           p == payment[c.id]
           q == CASE c.decision = "pending" -> [order |-> c.order, status |-> "CLAIMED"]
                  [] c.decision = "orphan" -> [order |-> None, status |-> "ORPHAN"]
                  [] c.decision = "verified" -> [p EXCEPT !.status = "CONFIRMED"]
                  [] OTHER -> p
<1>1. c # None /\ c.at = "commit" /\ c.op \in {"claim", "sms"}
  BY DEF CommitPayment, At
<1>2. c.id \in Id /\ CallOK(c) /\ (c.decision = "verified" => p # None)
  BY <1>1, CallFacts DEF CallOK
<1>3. /\ payment' = [payment EXCEPT ![c.id] = q]
      /\ payment \in [Id -> Payment \cup {None}] /\ UNCHANGED command
  BY DEF CommitPayment, CoreInv, TypeOK, gateway
<1>4. q # None /\ q.status = "USED" => q = p
  <2>1. CASE c.decision = "verified"
    <3>1. p \in Payment
      BY <1>2, <1>3, <2>1
    <3>2. q.status = "CONFIRMED"
      BY <2>1, <3>1 DEF Payment
    <3> QED
      BY <3>2
  <2> QED
    BY <2>1
<1> HIDE DEF c, q
<1>5. ASSUME NEW i \in Id, payment'[i] # None, payment'[i].status = "USED"
      PROVE  payment'[i] = payment[i]
  BY <1>2, <1>3, <1>4, <1>5 DEF p
<1> QED
  BY <1>3, <1>5 DEF UsedOrderEnded, Ended

\* A registration adds a row and leaves the others theirs.
LEMMA UsedBeforeRegister ==
  ASSUME CoreInv, UsedOrderEnded, NEW s \in Slot, CommitRegister(s)
  PROVE  UsedOrderEnded'
<1> DEFINE m == call[s].order
           q == command[m]
<1>1. /\ UNCHANGED payment
      /\ command' = [command EXCEPT ![m] = Append(q, "PENDING")]
  BY DEF CommitRegister
<1>2. call[s] # None /\ call[s].op = "register"
  BY DEF CommitRegister, At
<1>3. m \in Msg
  BY <1>2, CallFacts DEF CallOK
<1>4. q \in Seq(CommandStatus) /\ command \in [Msg -> Seq(CommandStatus)]
  BY <1>3 DEF CoreInv, TypeOK
<1>5. /\ DOMAIN q \subseteq DOMAIN Append(q, "PENDING")
      /\ \A k \in DOMAIN q : Append(q, "PENDING")[k] = q[k]
  <2>1. "PENDING" \in CommandStatus
    BY DEF CommandStatus
  <2> HIDE DEF q
  <2> QED
    BY <1>4, <2>1, RowAppended
<1>6. ASSUME NEW n \in Msg, Ended(n) PROVE Ended(n)'
  <2>1. CASE n = m
    BY <1>1, <1>3, <1>4, <1>5, <1>6, <2>1 DEF Ended
  <2>2. CASE n # m
    BY <1>1, <1>4, <1>6, <2>2 DEF Ended
  <2> QED
    BY <2>1, <2>2
<1>7. \A i \in Id : payment[i] # None /\ payment[i].status = "USED" =>
        payment[i].order \in Msg
  BY DEF CoreInv, PaymentOK, TypeOK, Payment
<1> QED
  BY <1>1, <1>6, <1>7 DEF UsedOrderEnded

\* An acknowledgement that uses a payment gives a row of its order the outcome.
LEMMA UsedByAck ==
  ASSUME CoreInv, UsedOrderEnded, NEW s \in Slot, CommitAck(s)
  PROVE  UsedOrderEnded'
<1> DEFINE c == call[s]
           m == c.order
           q == command[m]
           x == Outcome(c.ok)
           EndedThen(n) == \E k \in DOMAIN command'[n] : command'[n][k] # "PENDING"
<1>1. /\ c # None /\ c.op = "ack"
      /\ command' = [command EXCEPT ![m] = [q EXCEPT ![c.row] = x]]
      /\ payment' = IF c.ok THEN [payment EXCEPT ![c.id].status = "USED"] ELSE payment
  BY DEF CommitAck, At
<1>2. /\ m \in Msg /\ c.id \in Id /\ PaymentOf[m] = c.id /\ c.row \in DOMAIN q
      /\ command \in [Msg -> Seq(CommandStatus)]
      /\ payment \in [Id -> Payment \cup {None}]
  BY <1>1, CallFacts DEF CallOK, CoreInv, TypeOK
<1>3. x \in CommandStatus /\ x # "PENDING" /\ q \in Seq(CommandStatus)
  BY <1>2 DEF CommandStatus, Outcome
<1>4. /\ DOMAIN [q EXCEPT ![c.row] = x] = DOMAIN q
      /\ \A k \in DOMAIN q : [q EXCEPT ![c.row] = x][k] = IF k = c.row THEN x ELSE q[k]
  <2> HIDE DEF q, x
  <2> QED
    BY <1>2, <1>3, RowChanged
<1>5. payment[c.id] # None /\ payment[c.id].order = m
  <2>1. q # <<>>
    BY <1>2, RowThere
  <2> QED
    BY <1>2, <2>1 DEF CoreInv, CommandOK, Verified
<1>6. EndedThen(m)
  BY <1>1, <1>2, <1>3, <1>4 DEF Ended
<1>7. \A n \in Msg : n # m /\ Ended(n) => EndedThen(n)
  BY <1>1, <1>2 DEF Ended
<1> HIDE DEF EndedThen
<1>8. ASSUME NEW i \in Id, payment'[i] # None, payment'[i].status = "USED"
      PROVE  payment'[i].order \in Msg /\ EndedThen(payment'[i].order)
  <2>1. CASE i = c.id
    <3>1. payment[i] \in Payment
      BY <1>5, <2>1 DEF CoreInv, TypeOK
    <3>2. payment'[i].order = m
      BY <1>1, <1>2, <1>5, <2>1, <3>1 DEF Payment
    <3> QED
      BY <1>2, <1>6, <3>2
  <2>2. CASE i # c.id
    <3>1. payment'[i] = payment[i]
      BY <1>1, <1>2, <2>2
    <3>2. payment[i].order \in Msg /\ Ended(payment[i].order)
      BY <1>8, <3>1 DEF UsedOrderEnded, CoreInv, PaymentOK, TypeOK, Payment
    <3> QED
      BY <1>6, <1>7, <3>1, <3>2
  <2> QED
    BY <2>1, <2>2
<1> QED
  BY <1>8 DEF UsedOrderEnded, Ended, EndedThen

LEMMA UsedOrderEndedNext ==
  CoreInv /\ UsedOrderEnded /\ [Next]_vars => UsedOrderEnded'
<1> SUFFICES ASSUME CoreInv, UsedOrderEnded, [Next]_vars PROVE UsedOrderEnded'
  OBVIOUS
<1>1. UNCHANGED <<payment, command>> => UsedOrderEnded'
  BY DEF UsedOrderEnded, Ended
<1>2. ASSUME NEW s \in Slot, Step(s) PROVE UsedOrderEnded'
  <2>1. ASSUME ~(CommitPayment(s) \/ CommitRegister(s) \/ CommitAck(s))
        PROVE  UNCHANGED <<payment, command>>
    BY <1>2, <2>1 DEF Step, Replay, FindForClaim, FindForSms, FindForRegister,
       FindForAck, Decide, Fail, WritePayment, WriteCommand, WriteRow, AnswerClaim,
       AnswerSms, Advance, AnswerRegister, core
  <2> QED
    BY <1>1, <2>1, UsedBeforePayment, UsedBeforeRegister, UsedByAck
<1>3. ASSUME NEW s \in Slot, Break(s) \/ TimeOut(s) PROVE UNCHANGED <<payment, command>>
  BY <1>3 DEF Break, TimeOut, core
<1>4. ASSUME NEW m \in Msg, SendClaim(m) \/ \E k \in DOMAIN enqueued[m], ok \in BOOLEAN : Announce(m, k, ok)
      PROVE  UNCHANGED <<payment, command>>
  BY <1>4 DEF SendClaim, Announce, core
<1>5. ASSUME NEW i \in Id, ReportSms(i) PROVE UNCHANGED <<payment, command>>
  BY <1>5 DEF ReportSms, core
<1>6. UNCHANGED vars => UNCHANGED <<payment, command>>
  BY DEF vars, core
<1> QED
  BY <1>1, <1>2, <1>3, <1>4, <1>5, <1>6 DEF Next

\* A payment is used only with a delivery announced for its own order, and that
\* order is then COMPLETED, unless a failure was announced of it too.
THEOREM UsedByDelivery == Spec => []UsedIsDelivered
<1>1. CoreInv /\ RecordInv /\ UsedOrderEnded => UsedIsDelivered
  <2> SUFFICES ASSUME CoreInv, RecordInv, UsedOrderEnded, NEW i \in Id,
                      payment[i] # None, payment[i].status = "USED"
               PROVE  /\ payment[i].order # None /\ TRUE \in Announced(payment[i].order)
                      /\ \/ orders[payment[i].order] = "COMPLETED"
                         \/ FALSE \in Announced(payment[i].order)
    BY DEF UsedIsDelivered
  <2> DEFINE m == payment[i].order
  <2>1. m \in Msg /\ m # None /\ TRUE \in Announced(m)
    BY DEF CoreInv, PaymentOK, TypeOK, Payment
  <2>2. Ended(m)
    BY DEF UsedOrderEnded
  <2> HIDE DEF m
  <2>3. PICK ok \in Announced(m) : orders[m] = Outcome(ok)
    BY <2>1, <2>2 DEF Ended, RecordInv, Recorded
  <2>4. ok \in BOOLEAN
    BY <2>1 DEF CoreInv, TypeOK, Announced
  <2>5. orders[m] = "COMPLETED" \/ FALSE \in Announced(m)
    <3>1. CASE ok = TRUE
      BY <2>3, <3>1 DEF Outcome
    <3>2. CASE ok = FALSE
      BY <3>2
    <3> QED
      BY <2>4, <3>1, <3>2
  <2> QED
    BY <2>1, <2>5 DEF m
<1>2. Spec => [](CoreInv /\ RecordInv /\ UsedOrderEnded)
  BY InitInv, NextInv, InitRecord, NextRecord, UsedOrderEndedInit, UsedOrderEndedNext,
     PTL DEF Spec
<1> QED
  BY <1>1, <1>2, PTL
=============================================================================
