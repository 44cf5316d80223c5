-------------------------- MODULE UssdQueue_proofs --------------------------
(***************************************************************************)
(* Proofs about UssdQueue, for any number of commands, attempts and        *)
(* handlers under way: the types; that the customer is told "delivered"    *)
(* only of megas that were transferred; and, if polls come one at a time,  *)
(* that a command is handed out MaxAttempts times at most and leaves the   *)
(* store only with its outcome announced; and, however many polls there    *)
(* are, that commands are handed out in the order they were enqueued.      *)
(*                                                                         *)
(* Three invariants: Truthful says of each handler under way that a        *)
(* success it is going to announce is one; Books says which commands it    *)
(* holds, and that what it read of them is still so; Ordered says that a   *)
(* command is stored, was handed out or is still being enqueued, and that  *)
(* no handler carries one past an earlier one.                             *)
(***************************************************************************)
EXTENDS UssdQueue, SequenceTheorems, WellFoundedInduction, TLAPS

\* Megas were transferred that are those of command n, or cannot be told from
\* them; those a transfer's SMS is about are command n's own.
Went(n) == \E m \in delivered : Alike(m, n)

LEMMA OwnWent == ASSUME NEW n \in delivered PROVE Went(n)
BY DEF Went, Alike

\* What a handler carries to an announcement is true.
HandlerOK(h) ==
  /\ h.kind = "transfer" /\ h.at \in {"ids", "read"} => h.n \in delivered
  /\ h.kind = "transfer" => Went(h.n)
  /\ h.kind = "ack" /\ h.ok => Went(h.n)
  /\ h.at = "remove" /\ h.ok => Went(h.n)
  /\ h.at = "get" => h.kind \in {"ack", "transfer"}

WireOK == \A k \in DOMAIN wire : HandlerOK(wire[k])

PhoneOK ==
  /\ receipts \subseteq delivered
  /\ \A a \in answers : a.ok => a.n \in delivered

TellsTrue == \A n \in Cmd : "COMPLETED" \in told[n] => Went(n)

Truthful == TypeOK /\ WireOK /\ PhoneOK /\ TellsTrue

-----------------------------------------------------------------------------
(* The least command of a list.                                            *)

Less == {p \in Nat \X Nat : p[1] < p[2]}

LEMMA Least ==
  ASSUME NEW S \in SUBSET Nat, S # {}
  PROVE  \E n \in S : \A m \in S : n <= m
<1>1. IsWellFoundedOn(Less, Nat)
  BY NatLessThanWellFounded DEF OpToRel, Less
<1>2. PICK n \in S : \A m \in S : <<m, n>> \notin Less
  BY <1>1, WFMin
<1>3. \A m, k \in Nat : m < k => <<m, k>> \in Less
  BY DEF Less
<1>4. ASSUME NEW m \in S PROVE n <= m
  <2>1. m \in Nat /\ n \in Nat /\ <<m, n>> \notin Less
    BY <1>2
  <2>2. ~(m < n)
    BY <1>3, <2>1
  <2> QED
    BY <2>1, <2>2
<1> QED
  BY <1>4

\* First takes the first command of the list.
LEMMA FirstLeast ==
  ASSUME NEW ids \in SUBSET Cmd, ids # {}
  PROVE  First(ids) \in ids /\ \A m \in ids : First(ids) <= m
<1>1. ids \in SUBSET Nat
  BY QueueAssumption DEF Cmd
<1>2. \E n \in ids : \A m \in ids : n <= m
  BY <1>1, Least
<1> QED
  BY <1>2 DEF First

LEMMA FirstIn ==
  ASSUME NEW ids \in SUBSET Cmd, ids # {}
  PROVE  First(ids) \in ids
BY FirstLeast

-----------------------------------------------------------------------------
(* The connection.                                                         *)

\* The handler whose turn it is.
LEMMA TurnFacts ==
  ASSUME Truthful, wire # <<>>
  PROVE  /\ turn \in Handler /\ HandlerOK(turn) /\ turn \in UnderWay
         /\ Tail(wire) \in Seq(Handler)
         /\ \A k \in DOMAIN Tail(wire) : Tail(wire)[k] \in UnderWay
<1>1. wire \in Seq(Handler) /\ Len(wire) \in Nat \ {0} /\ DOMAIN wire = 1..Len(wire)
  BY EmptySeq, LenProperties DEF Truthful, TypeOK
<1>2. Head(wire) = wire[1] /\ 1 \in DOMAIN wire
  BY <1>1
<1>3. turn \in Handler /\ HandlerOK(turn) /\ turn \in UnderWay
  BY <1>1, <1>2 DEF turn, UnderWay, Truthful, WireOK
<1>4. /\ Tail(wire) \in Seq(Handler)
      /\ DOMAIN Tail(wire) = 1..(Len(wire) - 1)
      /\ \A k \in 1..(Len(wire) - 1) : Tail(wire)[k] = wire[k + 1]
  BY <1>1
<1>5. \A k \in DOMAIN Tail(wire) : Tail(wire)[k] \in UnderWay
  BY <1>1, <1>4 DEF UnderWay
<1> QED
  BY <1>3, <1>4, <1>5

\* A handler joins, goes on or ends.
Moves(h) == Join(h) \/ (wire # <<>> /\ Continue(h))

LEMMA WireKeeps ==
  ASSUME Truthful, delivered \subseteq delivered',
         \/ UNCHANGED wire
         \/ wire # <<>> /\ Done
         \/ \E h \in Handler : HandlerOK(h) /\ Moves(h)
  PROVE  wire' \in Seq(Handler) /\ WireOK'
<1>1. wire \in Seq(Handler) /\ \A h \in UnderWay : HandlerOK(h)
  BY DEF Truthful, TypeOK, WireOK, UnderWay
<1>2. CASE UNCHANGED wire
  BY <1>1, <1>2 DEF WireOK, UnderWay, HandlerOK, Went
<1>3. CASE wire # <<>> /\ Done
  BY <1>1, <1>3, TurnFacts DEF Done, WireOK, HandlerOK, Went
<1>4. ASSUME NEW h \in Handler, HandlerOK(h), Moves(h)
      PROVE  wire' \in Seq(Handler) /\ WireOK'
  <2>1. PICK rest \in Seq(Handler) :
          /\ wire' = Append(rest, h)
          /\ \A k \in DOMAIN rest : rest[k] \in UnderWay
    <3>1. CASE Join(h)
      <4>1. \A k \in DOMAIN wire : wire[k] \in UnderWay
        BY DEF UnderWay
      <4> QED
        BY <1>1, <3>1, <4>1 DEF Join
    <3>2. CASE wire # <<>> /\ Continue(h)
      BY <3>2, TurnFacts DEF Continue
    <3> QED
      BY <1>4, <3>1, <3>2 DEF Moves
  <2>2. /\ wire' \in Seq(Handler) /\ DOMAIN wire' = 1..(Len(rest) + 1)
        /\ DOMAIN rest = 1..Len(rest) /\ Len(rest) \in Nat
        /\ wire'[Len(rest) + 1] = h
        /\ \A k \in 1..Len(rest) : wire'[k] = rest[k]
    BY <2>1
  <2>3. \A k \in DOMAIN wire' : wire'[k] = h \/ wire'[k] \in UnderWay
    BY <2>1, <2>2
  <2> QED
    BY <1>1, <1>4, <2>2, <2>3 DEF WireOK, HandlerOK, Went
<1> QED
  BY <1>2, <1>3, <1>4

\* What a step has to show besides: the types, and that what was announced and
\* what the phone says is true.
LEMMA StepKeeps ==
  ASSUME Truthful, delivered \subseteq delivered',
         \/ UNCHANGED wire
         \/ wire # <<>> /\ Done
         \/ \E h \in Handler : HandlerOK(h) /\ Moves(h),
         job' \in [Cmd -> Stored \cup {None}], enqueued' \in 0..Commands,
         handed' \in [Cmd -> Nat], toExecute' \in [Cmd -> Nat],
         delivered' \subseteq Cmd, answers' \subseteq [n: Cmd, ok: BOOLEAN],
         told' \in [Cmd -> SUBSET {"COMPLETED", "FAILED"}],
         PhoneOK', TellsTrue'
  PROVE  Truthful'
<1>1. wire' \in Seq(Handler) /\ WireOK'
  BY WireKeeps
<1>2. receipts' \subseteq Cmd
  BY DEF PhoneOK
<1> QED
  BY <1>1, <1>2 DEF Truthful, TypeOK

\* A step of a handler that tells nothing and leaves the phone alone.
LEMMA QuietStep ==
  ASSUME Truthful, UNCHANGED <<phone, told>>,
         \/ UNCHANGED wire
         \/ wire # <<>> /\ Done
         \/ \E h \in Handler : HandlerOK(h) /\ Moves(h),
         job' \in [Cmd -> Stored \cup {None}], enqueued' \in 0..Commands
  PROVE  Truthful'
<1>1. /\ PhoneOK' /\ TellsTrue' /\ delivered \subseteq delivered'
      /\ handed' \in [Cmd -> Nat] /\ toExecute' \in [Cmd -> Nat]
      /\ delivered' \subseteq Cmd /\ answers' \subseteq [n: Cmd, ok: BOOLEAN]
      /\ told' \in [Cmd -> SUBSET {"COMPLETED", "FAILED"}]
  BY DEF Truthful, TypeOK, PhoneOK, TellsTrue, Went, phone
<1> QED
  BY <1>1, StepKeeps

-----------------------------------------------------------------------------
(* Handlers begin.                                                         *)

\* A new handler is one, with the fields it was given.
LEMMA NewFacts ==
  ASSUME NEW kind \in {"enqueue", "next", "ack", "transfer", "sweep"},
         NEW at \in {"ids", "getJob", "get"}, NEW n \in Cmd \cup {None}
  PROVE  /\ New(kind, at, n) \in Handler
         /\ New(kind, at, n).kind = kind /\ New(kind, at, n).at = at
         /\ New(kind, at, n).n = n
BY DEF New, Handler

\* enqueue, GET /commands/next and the timer.
LEMMA BeginKeeps ==
  ASSUME Truthful, Enqueue \/ Poll \/ StartSweep
  PROVE  Truthful'
<1>1. enqueued \in 0..Commands /\ job \in [Cmd -> Stored \cup {None}]
  BY DEF Truthful, TypeOK
<1>2. CASE Enqueue
  <2> DEFINE n == enqueued + 1
             new == New("enqueue", "getJob", n)
             data == [status |-> "PENDING", attempts |-> 0, due |-> FALSE]
             h == [new EXCEPT !.data = data]
  <2>1. n \in Cmd /\ enqueued' \in 0..Commands
    BY <1>1, <1>2, QueueAssumption DEF Enqueue, Cmd
  <2>2. new \in Handler /\ new.kind = "enqueue" /\ new.at = "getJob"
    BY <2>1, NewFacts
  <2>3. data \in Stored
    BY DEF Stored
  <2>4. h \in Handler /\ h.kind = "enqueue" /\ h.at = "getJob"
    <3> HIDE DEF new, data
    <3> QED
      BY <2>2, <2>3 DEF Handler
  <2>5. Join(h) /\ UNCHANGED <<job, phone, told>>
    BY <1>2 DEF Enqueue
  <2> HIDE DEF h
  <2>6. HandlerOK(h) /\ Moves(h)
    BY <2>4, <2>5 DEF HandlerOK, Went, Moves
  <2> QED
    BY <1>1, <2>1, <2>4, <2>5, <2>6, QuietStep
<1>3. CASE Poll \/ StartSweep
  <2>1. PICK kind \in {"next", "sweep"} :
          Join(New(kind, "ids", None)) /\ UNCHANGED <<job, enqueued, phone, told>>
    BY <1>3 DEF Poll, StartSweep
  <2> DEFINE h == New(kind, "ids", None)
  <2>2. h \in Handler /\ h.kind = kind /\ h.at = "ids"
    BY NewFacts
  <2> HIDE DEF h
  <2>3. HandlerOK(h) /\ Moves(h)
    BY <2>1, <2>2 DEF HandlerOK, Went, Moves, h
  <2> QED
    BY <1>1, <2>1, <2>2, <2>3, QuietStep
<1> QED
  BY <1>2, <1>3

\* POST /commands/:id/ack: the answer is one the phone gave.
LEMMA SendAnswerKeeps ==
  ASSUME Truthful, NEW a \in answers, SendAnswer(a)
  PROVE  Truthful'
<1> DEFINE new == New("ack", "get", a.n)
           h == [new EXCEPT !.ok = a.ok]
<1>1. a.n \in Cmd /\ a.ok \in BOOLEAN /\ (a.ok => a.n \in delivered)
  BY DEF Truthful, TypeOK, PhoneOK
<1>2. new \in Handler /\ new.kind = "ack" /\ new.at = "get" /\ new.n = a.n
  BY <1>1, NewFacts
<1>3. /\ h \in Handler /\ h.kind = "ack" /\ h.at = "get"
      /\ h.n = a.n /\ h.ok = a.ok
  <2> HIDE DEF new
  <2> QED
    BY <1>1, <1>2 DEF Handler
<1>4. /\ Join(h) /\ answers' = answers \ {a}
      /\ UNCHANGED <<job, enqueued, handed, toExecute, delivered, receipts, told>>
  BY DEF SendAnswer
<1> HIDE DEF h
<1>5. HandlerOK(h) /\ Moves(h)
  BY <1>1, <1>3, <1>4, OwnWent DEF HandlerOK, Moves
<1>6. /\ PhoneOK' /\ TellsTrue' /\ answers' \subseteq [n: Cmd, ok: BOOLEAN]
      /\ job' \in [Cmd -> Stored \cup {None}] /\ enqueued' \in 0..Commands
      /\ handed' \in [Cmd -> Nat] /\ toExecute' \in [Cmd -> Nat]
      /\ delivered \subseteq delivered' /\ delivered' \subseteq Cmd
      /\ told' \in [Cmd -> SUBSET {"COMPLETED", "FAILED"}]
  BY <1>4 DEF Truthful, TypeOK, PhoneOK, TellsTrue, Went
<1> QED
  BY <1>3, <1>5, <1>6, StepKeeps

\* POST /sms with a receipt: some command of the queue caused it.
LEMMA ReportTransferKeeps ==
  ASSUME Truthful, NEW n \in Cmd, ReportTransfer(n)
  PROVE  Truthful'
<1> DEFINE h == New("transfer", "ids", n)
<1>1. n \in delivered
  BY DEF ReportTransfer, Truthful, PhoneOK
<1>2. h \in Handler /\ h.kind = "transfer" /\ h.at = "ids" /\ h.n = n
  BY NewFacts
<1>3. /\ Join(h) /\ receipts' = receipts \ {n}
      /\ UNCHANGED <<job, enqueued, handed, toExecute, delivered, answers, told>>
  BY DEF ReportTransfer
<1> HIDE DEF h
<1>4. HandlerOK(h) /\ Moves(h)
  BY <1>1, <1>2, <1>3, OwnWent DEF HandlerOK, Moves
<1>5. /\ PhoneOK' /\ TellsTrue' /\ answers' \subseteq [n: Cmd, ok: BOOLEAN]
      /\ job' \in [Cmd -> Stored \cup {None}] /\ enqueued' \in 0..Commands
      /\ handed' \in [Cmd -> Nat] /\ toExecute' \in [Cmd -> Nat]
      /\ delivered \subseteq delivered' /\ delivered' \subseteq Cmd
      /\ told' \in [Cmd -> SUBSET {"COMPLETED", "FAILED"}]
  BY <1>3 DEF Truthful, TypeOK, PhoneOK, TellsTrue, Went
<1> QED
  BY <1>2, <1>4, <1>5, StepKeeps

-----------------------------------------------------------------------------
(* A command is executed and its handler goes on.                          *)

\* How the handler whose turn it is may go on.
GoesOn ==
  \/ wire # <<>> /\ Done
  \/ \E h \in Handler : HandlerOK(h) /\ Moves(h)

\* A sweep goes on to its next overdue command without a success to tell.
LEMMA SweepGoesOn ==
  ASSUME Truthful, wire # <<>>, turn.kind = "sweep",
         NEW overdue \in SUBSET [n: Cmd, attempts: Nat], SweepNext(overdue)
  PROVE  GoesOn
<1>1. turn \in Handler
  BY TurnFacts
<1>2. CASE overdue = {}
  BY <1>2 DEF SweepNext, GoesOn
<1>3. CASE overdue # {}
  <2> DEFINE n == First({e.n : e \in overdue})
             e == CHOOSE x \in overdue : x.n = n
             rest == [turn EXCEPT !.n = n, !.overdue = overdue \ {e}]
             again == [status |-> "PENDING", attempts |-> e.attempts, due |-> FALSE]
             retry == [rest EXCEPT !.at = "getJob", !.data = again]
             last == [rest EXCEPT !.at = "remove", !.ok = FALSE]
  <2>1. n \in {x.n : x \in overdue} /\ n \in Cmd
    <3> DEFINE ids == {x.n : x \in overdue}
    <3>1. ids \in SUBSET Cmd /\ ids # {}
      BY <1>3
    <3> HIDE DEF ids
    <3>2. First(ids) \in ids
      BY <3>1, FirstIn
    <3> QED
      BY <3>1, <3>2 DEF ids
  <2>2. e \in overdue
    <3> HIDE DEF n
    <3> QED
      BY <2>1
  <2>3. again \in Stored
    <3>1. e.attempts \in Nat
      BY <2>2
    <3> HIDE DEF e
    <3> QED
      BY <3>1 DEF Stored
  <2>4. rest \in Handler /\ rest.kind = "sweep"
    <3> HIDE DEF n, e
    <3> QED
      BY <1>1, <2>1 DEF Handler
  <2> HIDE DEF rest, again
  <2>5. retry \in Handler /\ retry.kind = "sweep" /\ retry.at = "getJob"
    BY <2>3, <2>4 DEF Handler
  <2>6. last \in Handler /\ last.kind = "sweep" /\ last.at = "remove" /\ last.ok = FALSE
    BY <2>4 DEF Handler
  <2>7. Continue(retry) \/ Continue(last)
    BY <1>3 DEF SweepNext, rest, again
  <2> HIDE DEF retry, last
  <2>8. HandlerOK(retry) /\ HandlerOK(last)
    BY <2>5, <2>6 DEF HandlerOK, Went
  <2> QED
    BY <2>5, <2>6, <2>7, <2>8 DEF GoesOn, Moves
<1> QED
  BY <1>2, <1>3

\* The range of a list and the reads of its jobs: a receipt is matched to the
\* command that caused it, or to none.
LEMMA ListKeeps ==
  ASSUME Truthful, ListIds \/ ReadList
  PROVE  Truthful'
<1>1. wire # <<>> /\ UNCHANGED <<job, enqueued, phone, told>>
  BY DEF ListIds, ReadList, At
<1>2. turn \in Handler /\ HandlerOK(turn)
  BY <1>1, TurnFacts
<1>3. job \in [Cmd -> Stored \cup {None}] /\ enqueued \in 0..Commands
  BY DEF Truthful, TypeOK
<1>4. CASE ListIds
  <2> DEFINE todo == {n \in Cmd : job[n] # None}
             h == [turn EXCEPT !.at = "read", !.todo = todo]
  <2>1. todo \subseteq Cmd
    OBVIOUS
  <2>2. /\ h \in Handler /\ h.at = "read" /\ h.kind = turn.kind
        /\ h.n = turn.n /\ h.ok = turn.ok
    <3> HIDE DEF todo
    <3> QED
      BY <1>2, <2>1 DEF Handler
  <2>3. Continue(h)
    BY <1>4 DEF ListIds
  <2> HIDE DEF h
  <2>4. turn.at = "ids"
    BY <1>4 DEF ListIds, At
  <2>5. HandlerOK(h) /\ Moves(h)
    BY <1>1, <1>2, <2>2, <2>3, <2>4 DEF HandlerOK, Went, Moves
  <2> QED
    BY <1>1, <1>3, <2>2, <2>5, QuietStep
<1>5. CASE ReadList
  <2>1. turn.todo \in SUBSET Cmd
    BY <1>2 DEF Handler
  <2>2. GoesOn
    <3>1. CASE Done
      BY <1>1, <3>1 DEF GoesOn
    <3>2. ASSUME \A n \in turn.todo : job[n] # None, turn.kind = "next", PickNext
          PROVE  GoesOn
      <4> DEFINE waiting == {n \in turn.todo : job[n].status = "PENDING"}
                 n == First(waiting)
                 data == [status |-> "DISPATCHED", attempts |-> job[n].attempts + 1,
                          due |-> FALSE]
                 h == [turn EXCEPT !.at = "getJob", !.n = n, !.data = data]
      <4>1. waiting = {} => Done
        BY <3>2 DEF PickNext
      <4>2. CASE waiting # {}
        <5>1. n \in turn.todo
          <6>1. waiting \in SUBSET Cmd
            BY <2>1
          <6> HIDE DEF waiting
          <6>2. n \in waiting
            BY <4>2, <6>1, FirstIn
          <6> QED
            BY <6>2 DEF waiting
        <5> HIDE DEF n
        <5>2. n \in Cmd /\ job[n] \in Stored
          BY <1>3, <2>1, <3>2, <5>1
        <5>3. data \in Stored
          BY <5>2 DEF Stored
        <5>4. h \in Handler /\ h.at = "getJob" /\ h.kind = "next"
          <6> HIDE DEF data
          <6> QED
            BY <1>2, <3>2, <5>2, <5>3 DEF Handler
        <5>5. Continue(h)
          BY <3>2, <4>2 DEF PickNext, n
        <5> HIDE DEF h
        <5>6. HandlerOK(h) /\ Moves(h)
          BY <1>1, <5>4, <5>5 DEF HandlerOK, Went, Moves
        <5> QED
          BY <5>4, <5>6 DEF GoesOn
      <4> QED
        BY <3>1, <4>1, <4>2
    <3>3. ASSUME turn.kind = "transfer", PickTransferred PROVE GoesOn
      <4>1. PICK amount \in Amounts[turn.n] :
              LET matching == {n \in turn.todo : /\ job[n].status = "DISPATCHED"
                                                 /\ amount \in Amounts[n]
                                                 /\ Dest[n] = Dest[turn.n]} IN
                IF matching = {} THEN Done
                ELSE Continue([turn EXCEPT !.at = "get", !.n = First(matching)])
        BY <3>3 DEF PickTransferred
      <4> DEFINE matching == {n \in turn.todo : /\ job[n].status = "DISPATCHED"
                                                /\ amount \in Amounts[n]
                                                /\ Dest[n] = Dest[turn.n]}
                 m == First(matching)
                 h == [turn EXCEPT !.at = "get", !.n = m]
      <4>2. matching = {} => Done
        BY <4>1
      <4>3. CASE matching # {}
        <5>1. m \in matching
          <6>1. matching \in SUBSET Cmd
            BY <2>1
          <6> HIDE DEF matching
          <6> QED
            BY <4>3, <6>1, FirstIn
        <5>2. Continue(h)
          BY <4>1, <4>3
        <5> HIDE DEF m
        <5>3. m \in Cmd /\ amount \in Amounts[m] /\ Dest[m] = Dest[turn.n]
          BY <2>1, <5>1
        <5>4. turn.n \in delivered
          <6>1. turn.at = "read"
            BY <1>5 DEF ReadList, At
          <6> QED
            BY <1>1, <1>2, <3>3, <6>1 DEF HandlerOK
        <5>5. Alike(turn.n, m)
          BY <4>1, <5>3 DEF Alike
        <5>6. /\ h \in Handler /\ h.at = "get" /\ h.kind = "transfer" /\ h.n = m
          BY <1>2, <3>3, <5>3 DEF Handler
        <5> HIDE DEF h
        <5>7. HandlerOK(h) /\ Moves(h)
          BY <1>1, <5>2, <5>4, <5>5, <5>6 DEF HandlerOK, Went, Moves
        <5> QED
          BY <5>6, <5>7 DEF GoesOn
      <4> QED
        BY <3>1, <4>2, <4>3
    <3>4. ASSUME \A n \in turn.todo : job[n] # None, turn.kind = "sweep",
                 SweepNext({[n |-> n, attempts |-> job[n].attempts] :
                   n \in {m \in turn.todo : job[m].status = "DISPATCHED" /\ job[m].due}})
          PROVE  GoesOn
      <4> DEFINE late == {m \in turn.todo : job[m].status = "DISPATCHED" /\ job[m].due}
                 overdue == {[n |-> n, attempts |-> job[n].attempts] : n \in late}
      <4>1. \A n \in turn.todo : n \in Cmd /\ job[n].attempts \in Nat
        <5>1. \A n \in turn.todo : n \in Cmd /\ job[n] \in Stored
          BY <1>3, <2>1, <3>4
        <5> QED
          BY <5>1 DEF Stored
      <4>2. overdue \in SUBSET [n: Cmd, attempts: Nat]
        BY <4>1
      <4>3. SweepNext(overdue)
        BY <3>4
      <4> HIDE DEF overdue
      <4> QED
        BY <1>1, <3>4, <4>2, <4>3, SweepGoesOn
    <3> QED
      BY <1>5, <3>1, <3>2, <3>3, <3>4 DEF ReadList
  <2> QED
    BY <1>1, <1>3, <2>2, QuietStep DEF GoesOn
<1> QED
  BY <1>4, <1>5

\* save and ack look for the job.
LEMMA LookKeeps ==
  ASSUME Truthful, LookUp \/ Get
  PROVE  Truthful'
<1>1. wire # <<>> /\ UNCHANGED <<job, enqueued, phone, told>>
  BY DEF LookUp, Get, At
<1>2. turn \in Handler /\ HandlerOK(turn)
  BY <1>1, TurnFacts
<1>3. job \in [Cmd -> Stored \cup {None}] /\ enqueued \in 0..Commands
  BY DEF Truthful, TypeOK
<1>4. \/ Done
      \/ \E at \in {"update", "add"} : Then(at)
      \/ turn.at = "get" /\ Then("remove")
  BY DEF LookUp, Get, At
<1>5. ASSUME NEW at \in {"update", "add", "remove"}, Then(at),
             at = "remove" => turn.at = "get"
      PROVE  GoesOn
  <2> DEFINE h == [turn EXCEPT !.at = at]
  <2>1. /\ h \in Handler /\ h.at = at /\ h.kind = turn.kind
        /\ h.n = turn.n /\ h.ok = turn.ok
    BY <1>2 DEF Handler
  <2>2. Continue(h)
    BY <1>5 DEF Then
  <2> HIDE DEF h
  <2>3. HandlerOK(h) /\ Moves(h)
    BY <1>1, <1>2, <1>5, <2>1, <2>2 DEF HandlerOK, Went, Moves
  <2> QED
    BY <2>1, <2>3 DEF GoesOn
<1>6. GoesOn
  BY <1>1, <1>4, <1>5 DEF GoesOn
<1> QED
  BY <1>1, <1>3, <1>6, QuietStep DEF GoesOn

\* What follows a saved command.
LEMMA SavedFacts ==
  ASSUME Truthful, wire # <<>>, Saved
  PROVE  /\ GoesOn /\ handed' \in [Cmd -> Nat] /\ toExecute' \in [Cmd -> Nat]
         /\ UNCHANGED <<delivered, answers, receipts>>
<1>1. turn \in Handler
  BY TurnFacts
<1>2. turn.overdue \in SUBSET [n: Cmd, attempts: Nat]
  BY <1>1 DEF Handler
<1>3. GoesOn
  BY <1>2, SweepGoesOn DEF Saved, GoesOn
<1>4. handed' \in [Cmd -> Nat] /\ toExecute' \in [Cmd -> Nat]
  <2>1. handed \in [Cmd -> Nat] /\ toExecute \in [Cmd -> Nat]
    BY DEF Truthful, TypeOK
  <2> DEFINE n == turn.n
  <2>2. \/ UNCHANGED <<handed, toExecute>>
        \/ /\ handed' = [handed EXCEPT ![n] = @ + 1]
           /\ toExecute' = [toExecute EXCEPT ![n] = @ + 1]
    BY DEF Saved
  <2> HIDE DEF n
  <2>3. CASE n \in Cmd
    BY <2>1, <2>2, <2>3
  <2>4. CASE n \notin Cmd
    BY <2>1, <2>2, <2>4
  <2> QED
    BY <2>3, <2>4
<1> QED
  BY <1>3, <1>4 DEF Saved

\* updateData and add.
LEMMA WriteKeeps ==
  ASSUME Truthful, Update \/ Add
  PROVE  Truthful'
<1>1. wire # <<>> /\ UNCHANGED <<enqueued, told>>
  BY DEF Update, Add, At
<1>2. turn.data \in Stored \cup {None}
  BY <1>1, TurnFacts DEF Handler
<1>3. job' \in [Cmd -> Stored \cup {None}] /\ enqueued' \in 0..Commands
  BY <1>1, <1>2 DEF Update, Add, Truthful, TypeOK
<1>4. CASE Saved
  <2>1. /\ GoesOn /\ handed' \in [Cmd -> Nat] /\ toExecute' \in [Cmd -> Nat]
        /\ UNCHANGED <<delivered, answers, receipts>>
    BY <1>1, <1>4, SavedFacts
  <2>2. /\ PhoneOK' /\ TellsTrue' /\ answers' \subseteq [n: Cmd, ok: BOOLEAN]
        /\ delivered \subseteq delivered' /\ delivered' \subseteq Cmd
        /\ told' \in [Cmd -> SUBSET {"COMPLETED", "FAILED"}]
    BY <1>1, <2>1 DEF Truthful, TypeOK, PhoneOK, TellsTrue, Went
  <2> QED
    BY <1>3, <2>1, <2>2, StepKeeps DEF GoesOn
<1>5. CASE Done /\ UNCHANGED <<job, phone>>
  BY <1>1, <1>3, <1>5, QuietStep
<1> QED
  BY <1>4, <1>5 DEF Update, Add

\* remove and the announcement of a true outcome.
LEMMA RemoveKeeps ==
  ASSUME Truthful, Remove
  PROVE  Truthful'
<1> DEFINE n == turn.n
           outcome == IF turn.ok THEN "COMPLETED" ELSE "FAILED"
<1>1. /\ wire # <<>> /\ turn.at = "remove" /\ UNCHANGED <<enqueued, phone>>
      /\ job' = [job EXCEPT ![n] = None]
      /\ told' = [told EXCEPT ![n] = @ \cup {outcome}]
  BY DEF Remove, At, Announce
<1>2. turn \in Handler /\ HandlerOK(turn)
  BY <1>1, TurnFacts
<1>3. turn.overdue \in SUBSET [n: Cmd, attempts: Nat]
  BY <1>2 DEF Handler
<1>4. GoesOn
  BY <1>1, <1>3, SweepGoesOn DEF Remove, GoesOn
<1>5. outcome = "COMPLETED" => Went(n)
  BY <1>1, <1>2 DEF HandlerOK
<1>6. outcome \in {"COMPLETED", "FAILED"}
  OBVIOUS
<1> HIDE DEF n, outcome
<1>7. TellsTrue'
  BY <1>1, <1>5, <1>6 DEF Truthful, TypeOK, TellsTrue, Went, phone
<1>8. /\ PhoneOK' /\ answers' \subseteq [n: Cmd, ok: BOOLEAN]
      /\ job' \in [Cmd -> Stored \cup {None}] /\ enqueued' \in 0..Commands
      /\ handed' \in [Cmd -> Nat] /\ toExecute' \in [Cmd -> Nat]
      /\ delivered \subseteq delivered' /\ delivered' \subseteq Cmd
      /\ told' \in [Cmd -> SUBSET {"COMPLETED", "FAILED"}]
  BY <1>1, <1>6 DEF Truthful, TypeOK, PhoneOK, phone
<1> QED
  BY <1>4, <1>7, <1>8, StepKeeps DEF GoesOn

-----------------------------------------------------------------------------
(* The phone and time.                                                     *)

\* An executed command, and one that waits too long.
LEMMA PhoneKeeps ==
  ASSUME Truthful, NEW n \in Cmd, Execute(n) \/ TimePasses(n)
  PROVE  Truthful'
<1>1. CASE Execute(n)
  <2>1. PICK gone \in SUBSET {n}, ok \in BOOLEAN :
          /\ ok => n \in gone
          /\ answers' = answers \cup {[n |-> n, ok |-> ok]}
          /\ delivered' = delivered \cup gone
          /\ receipts' = receipts \cup gone
    BY <1>1 DEF Execute
  <2>2. UNCHANGED <<job, enqueued, wire, handed, told>>
    BY <1>1 DEF Execute
  <2>3. toExecute' \in [Cmd -> Nat]
    BY <1>1 DEF Execute, Truthful, TypeOK
  <2>4. PhoneOK'
    BY <2>1 DEF Truthful, PhoneOK
  <2>5. TellsTrue'
    BY <2>1, <2>2 DEF Truthful, TellsTrue, Went
  <2>6. /\ answers' \subseteq [n: Cmd, ok: BOOLEAN]
        /\ delivered \subseteq delivered' /\ delivered' \subseteq Cmd
    BY <2>1 DEF Truthful, TypeOK
  <2>7. /\ job' \in [Cmd -> Stored \cup {None}] /\ enqueued' \in 0..Commands
        /\ handed' \in [Cmd -> Nat]
        /\ told' \in [Cmd -> SUBSET {"COMPLETED", "FAILED"}]
    BY <2>2 DEF Truthful, TypeOK
  <2> QED
    BY <2>2, <2>3, <2>4, <2>5, <2>6, <2>7, StepKeeps
<1>2. CASE TimePasses(n)
  <2>1. UNCHANGED <<enqueued, wire, phone, told>>
    BY <1>2 DEF TimePasses
  <2>2. job[n] \in Stored /\ job \in [Cmd -> Stored \cup {None}] /\ enqueued \in 0..Commands
    BY <1>2 DEF TimePasses, Truthful, TypeOK
  <2>3. [job[n] EXCEPT !.due = TRUE] \in Stored
    BY <2>2 DEF Stored
  <2>4. job' \in [Cmd -> Stored \cup {None}]
    BY <1>2, <2>2, <2>3 DEF TimePasses
  <2> QED
    BY <2>1, <2>2, <2>4, QuietStep
<1> QED
  BY <1>1, <1>2

-----------------------------------------------------------------------------
(* The invariant and what follows from it.                                 *)

LEMMA QueueInvariant == Spec => []Truthful
<1>1. Init => Truthful
  <2> SUFFICES ASSUME Init PROVE Truthful
    OBVIOUS
  <2>1. wire \in Seq(Handler) /\ WireOK
    BY EmptySeq DEF Init, WireOK
  <2>2. TypeOK
    BY <2>1, QueueAssumption DEF Init, TypeOK
  <2> QED
    BY <2>1, <2>2 DEF Init, Truthful, PhoneOK, TellsTrue
<1>2. Truthful /\ [Next]_vars => Truthful'
  <2> SUFFICES ASSUME Truthful, [Next]_vars PROVE Truthful'
    OBVIOUS
  <2>1. CASE Enqueue \/ Poll \/ StartSweep
    BY <2>1, BeginKeeps
  <2>2. ASSUME NEW a \in answers, SendAnswer(a) PROVE Truthful'
    BY <2>2, SendAnswerKeeps
  <2>3. CASE ListIds \/ ReadList
    BY <2>3, ListKeeps
  <2>4. CASE LookUp \/ Get
    BY <2>4, LookKeeps
  <2>5. CASE Update \/ Add
    BY <2>5, WriteKeeps
  <2>6. CASE Remove
    BY <2>6, RemoveKeeps
  <2>7. ASSUME NEW n \in Cmd, ReportTransfer(n) PROVE Truthful'
    BY <2>7, ReportTransferKeeps
  <2>8. ASSUME NEW n \in Cmd, Execute(n) \/ TimePasses(n) PROVE Truthful'
    BY <2>8, PhoneKeeps
  <2>9. CASE UNCHANGED vars
    <3>1. UNCHANGED <<phone, told>> /\ UNCHANGED wire /\ UNCHANGED <<job, enqueued>>
      BY <2>9 DEF vars
    <3>2. job \in [Cmd -> Stored \cup {None}] /\ enqueued \in 0..Commands
      BY DEF Truthful, TypeOK
    <3> QED
      BY <3>1, <3>2, QuietStep
  <2> QED
    BY <2>1, <2>2, <2>3, <2>4, <2>5, <2>6, <2>7, <2>8, <2>9 DEF Next, Command
<1> QED
  BY <1>1, <1>2, PTL DEF Spec

\* The store, the handlers under way and the phone keep their types.
THEOREM QueueTypeCorrect == Spec => []TypeOK
<1>1. Truthful => TypeOK
  BY DEF Truthful
<1> QED
  BY <1>1, QueueInvariant, PTL

\* However polls, late answers, receipts and sweeps cross, the customer is told
\* "delivered" only of megas that were transferred, the command's own or some to
\* its number with an amount in common (ack, ackMatchingTransfer).
THEOREM ToldIsDelivered == Spec => []CompletedIsDelivered
<1>1. Truthful => CompletedIsDelivered
  BY DEF Truthful, TellsTrue, Went, CompletedIsDelivered
<1> QED
  BY <1>1, QueueInvariant, PTL

-----------------------------------------------------------------------------
(* How often a command is handed out.  A handler that has read a command   *)
(* and not yet saved it holds it: as long as polls come one at a time no   *)
(* other handler holds it too, and the stored command is the one that was  *)
(* read, or gone.                                                          *)

Saves(h) == h.at \in {"getJob", "update", "add"}
Begins(h) == h.at \in {"ids", "read"}

Held(h) ==
  CASE h.kind = "enqueue" -> {h.n}
    [] h.kind = "next" -> IF Saves(h) THEN {h.n} ELSE {}
    [] h.kind = "sweep" ->
         {e.n : e \in h.overdue} \cup (IF Begins(h) THEN {} ELSE {h.n})
    [] OTHER -> {}

\* Command n was dispatched with a attempts and is still so, or gone.
Late(n, a) ==
  /\ handed[n] <= a /\ a <= MaxAttempts
  /\ job[n] # None => job[n].status = "DISPATCHED" /\ job[n].attempts = a

\* What a handler knows of the commands it holds.
HandlerKnows(h) ==
  /\ \A n \in Held(h) : n \in 1..enqueued
  /\ h.at = "add" => job[h.n] = None
  /\ h.kind = "enqueue" =>
       /\ h.at \in {"getJob", "add"}
       /\ job[h.n] = None /\ handed[h.n] = 0
       /\ h.data # None /\ h.data.status = "PENDING" /\ h.data.attempts = 0
  /\ h.kind = "next" =>
       /\ h.at \in {"ids", "read", "getJob", "update", "add"}
       /\ Saves(h) =>
            /\ h.data # None /\ h.data.status = "DISPATCHED"
            /\ handed[h.n] < h.data.attempts /\ h.data.attempts <= MaxAttempts
            /\ job[h.n] # None => job[h.n].status = "PENDING"
  /\ h.kind = "sweep" =>
       /\ h.at \in {"ids", "read", "getJob", "update", "add", "remove"}
       /\ Begins(h) => h.overdue = {}
       /\ \A e \in h.overdue : Late(e.n, e.attempts)
       /\ \A e, f \in h.overdue : e.n = f.n => e = f
       /\ ~Begins(h) => \A e \in h.overdue : e.n # h.n
       /\ h.at = "remove" /\ job[h.n] # None => job[h.n].status = "DISPATCHED"
       /\ Saves(h) => /\ h.data # None /\ h.data.status = "PENDING"
                      /\ h.data.attempts < MaxAttempts
                      /\ Late(h.n, h.data.attempts)
  /\ h.kind \notin {"enqueue", "next", "sweep"} =>
       h.at \in {"ids", "read", "get", "remove"}

Apart(h, g) ==
  /\ h.kind \in {"next", "sweep"} => h.kind # g.kind
  /\ Held(h) \cap Held(g) = {}

JobOK ==
  \A n \in Cmd : /\ job[n] # None =>
                      /\ handed[n] <= job[n].attempts /\ job[n].attempts <= MaxAttempts
                      /\ job[n].status = "PENDING" => job[n].attempts < MaxAttempts
                 /\ n > enqueued => handed[n] = 0 /\ job[n] = None

Members(handlers) == {handlers[k] : k \in DOMAIN handlers}
AllApart(handlers) ==
  \A j, k \in DOMAIN handlers : j # k => Apart(handlers[j], handlers[k])

HeldOK == (\A h \in Members(wire) : HandlerKnows(h)) /\ AllApart(wire)

Books == TypeOK /\ JobOK /\ HandedBounded /\ LeavesAnnounced /\ HeldOK

\* A step leaves what a handler knows of command n true.
Same(n) ==
  /\ handed'[n] = handed[n]
  /\ job[n] = None => job'[n] = None
  /\ job'[n] # None => /\ job'[n].status = job[n].status
                       /\ job'[n].attempts = job[n].attempts

\* The other handlers under way.
Rest == Tail(wire)

LEMMA KnowsStays ==
  ASSUME NEW h, HandlerKnows(h), \A n \in Held(h) : Same(n),
         enqueued \in Nat, enqueued' \in Nat, enqueued <= enqueued'
  PROVE  HandlerKnows(h)'
<1>1. \A n \in Held(h) : n \in 1..enqueued'
  BY DEF HandlerKnows
<1>2. CASE h.kind = "enqueue"
  <2>1. h.n \in Held(h)
    BY <1>2 DEF Held
  <2> QED
    BY <1>1, <1>2, <2>1 DEF HandlerKnows, Same
<1>3. CASE h.kind = "next"
  <2>1. (Saves(h) => h.n \in Held(h)) /\ (h.at = "add" => Saves(h))
    BY <1>3 DEF Held, Saves
  <2> QED
    BY <1>1, <1>3, <2>1 DEF HandlerKnows, Same
<1>4. CASE h.kind = "sweep"
  <2>1. (~Begins(h) => h.n \in Held(h)) /\ \A e \in h.overdue : e.n \in Held(h)
    BY <1>4 DEF Held
  <2>2. (Saves(h) \/ h.at = "remove" => ~Begins(h)) /\ (h.at = "add" => Saves(h))
    BY DEF Saves, Begins
  <2>3. \A n, a : n \in Held(h) /\ Late(n, a) => Late(n, a)'
    BY DEF Late, Same
  <2> QED
    BY <1>1, <1>4, <2>1, <2>2, <2>3 DEF HandlerKnows, Same
<1>5. CASE h.kind \notin {"enqueue", "next", "sweep"}
  BY <1>1, <1>5 DEF HandlerKnows
<1> QED
  BY <1>2, <1>3, <1>4, <1>5

\* The wire is the turn followed by the others.
LEMMA WireParts ==
  ASSUME TypeOK, wire # <<>>
  PROVE  /\ turn \in Handler /\ turn = wire[1] /\ Rest \in Seq(Handler)
         /\ DOMAIN wire = 1..Len(wire) /\ Len(wire) \in Nat \ {0}
         /\ DOMAIN Rest = 1..(Len(wire) - 1)
         /\ \A k \in DOMAIN Rest : Rest[k] = wire[k + 1]
         /\ Members(wire) = Members(Rest) \cup {turn}
<1>1. wire \in Seq(Handler) /\ Len(wire) \in Nat \ {0} /\ DOMAIN wire = 1..Len(wire)
  BY EmptySeq, LenProperties DEF TypeOK
<1>2. turn = wire[1] /\ 1 \in DOMAIN wire /\ turn \in Handler
  BY <1>1 DEF turn
<1>3. /\ Rest \in Seq(Handler) /\ DOMAIN Rest = 1..(Len(wire) - 1)
      /\ \A k \in 1..(Len(wire) - 1) : Rest[k] = wire[k + 1]
  BY <1>1 DEF Rest
<1>4. \A k \in DOMAIN Rest : k + 1 \in DOMAIN wire /\ Rest[k] = wire[k + 1]
  BY <1>1, <1>3
<1>5. turn \in Members(wire) /\ Members(Rest) \subseteq Members(wire)
  BY <1>2, <1>4 DEF Members
<1>6. \A h \in Members(wire) : h = turn \/ h \in Members(Rest)
  <2> SUFFICES ASSUME NEW i \in DOMAIN wire
               PROVE  wire[i] = turn \/ wire[i] \in Members(Rest)
    BY DEF Members
  <2>1. CASE i = 1
    BY <1>2, <2>1
  <2>2. CASE i # 1
    <3>1. i - 1 \in DOMAIN Rest /\ Rest[i - 1] = wire[i]
      BY <1>1, <1>3, <2>2
    <3> QED
      BY <3>1 DEF Members
  <2> QED
    BY <2>1, <2>2
<1>7. Members(wire) = Members(Rest) \cup {turn}
  BY <1>5, <1>6
<1> QED
  BY <1>1, <1>2, <1>3, <1>7

\* The handler whose turn it is, and what the others hold.
LEMMA TurnAndRest ==
  ASSUME Books, wire # <<>>
  PROVE  /\ turn \in Handler /\ HandlerKnows(turn)
         /\ Rest \in Seq(Handler) /\ AllApart(Rest)
         /\ Members(wire) = Members(Rest) \cup {turn}
         /\ \A g \in Members(Rest) : Apart(turn, g) /\ HandlerKnows(g)
<1>1. /\ turn \in Handler /\ turn = wire[1] /\ Rest \in Seq(Handler)
      /\ DOMAIN wire = 1..Len(wire) /\ Len(wire) \in Nat \ {0}
      /\ DOMAIN Rest = 1..(Len(wire) - 1)
      /\ \A k \in DOMAIN Rest : Rest[k] = wire[k + 1]
      /\ Members(wire) = Members(Rest) \cup {turn}
  BY WireParts DEF Books
<1>2. \A k \in DOMAIN Rest : k + 1 \in DOMAIN wire /\ k + 1 # 1 /\ 1 \in DOMAIN wire
  BY <1>1
<1>3. \A g \in Members(Rest) : Apart(turn, g)
  BY <1>1, <1>2 DEF Books, HeldOK, Members, AllApart
<1>4. AllApart(Rest)
  <2> SUFFICES ASSUME NEW j \in DOMAIN Rest, NEW k \in DOMAIN Rest, j # k
               PROVE  Apart(Rest[j], Rest[k])
    BY DEF AllApart
  <2>1. j + 1 # k + 1
    BY <1>1
  <2> QED
    BY <1>1, <1>2, <2>1 DEF Books, HeldOK, AllApart
<1> QED
  BY <1>1, <1>3, <1>4 DEF Books, HeldOK

LEMMA ApartBoth ==
  ASSUME NEW h, NEW g, Apart(h, g)
  PROVE  Apart(g, h)
BY DEF Apart

\* One more handler at the end, apart from the others.
LEMMA OneMore ==
  ASSUME NEW rest \in Seq(Handler), NEW h \in Handler
  PROVE  /\ Members(Append(rest, h)) = Members(rest) \cup {h}
         /\ AllApart(rest) /\ (\A g \in Members(rest) : Apart(h, g))
              => AllApart(Append(rest, h))
<1> DEFINE longer == Append(rest, h)
<1>1. /\ Len(rest) \in Nat /\ DOMAIN rest = 1..Len(rest)
      /\ DOMAIN longer = 1..(Len(rest) + 1) /\ longer[Len(rest) + 1] = h
      /\ \A k \in 1..Len(rest) : longer[k] = rest[k]
  OBVIOUS
<1> HIDE DEF longer
<1>2. \A k \in DOMAIN longer : k = Len(rest) + 1 \/ k \in 1..Len(rest)
  BY <1>1
<1>3. Members(longer) = Members(rest) \cup {h}
  <2>1. h \in Members(longer) /\ \A g \in Members(rest) : g \in Members(longer)
    BY <1>1 DEF Members
  <2>2. \A g \in Members(longer) : g = h \/ g \in Members(rest)
    BY <1>1, <1>2 DEF Members
  <2> QED
    BY <2>1, <2>2
<1>4. ASSUME AllApart(rest), \A g \in Members(rest) : Apart(h, g)
      PROVE  AllApart(longer)
  <2> SUFFICES ASSUME NEW j \in DOMAIN longer, NEW k \in DOMAIN longer, j # k
               PROVE  Apart(longer[j], longer[k])
    BY DEF AllApart
  <2>1. CASE j = Len(rest) + 1
    BY <1>1, <1>2, <1>4, <2>1 DEF Members
  <2>2. CASE k = Len(rest) + 1
    BY <1>1, <1>2, <1>4, <2>2, ApartBoth DEF Members
  <2>3. CASE j \in 1..Len(rest) /\ k \in 1..Len(rest)
    BY <1>1, <1>4, <2>3 DEF AllApart
  <2> QED
    BY <1>2, <2>1, <2>2, <2>3
<1> QED
  BY <1>3, <1>4 DEF longer

\* The handlers of rest, of whose commands the step changes nothing, wait on
\* the wire, alone or with one that went on or joined.
LEMMA WireBooks ==
  ASSUME NEW rest \in Seq(Handler), NEW h \in Handler,
         enqueued \in Nat, enqueued' \in Nat, enqueued <= enqueued',
         \A g \in Members(rest) : /\ HandlerKnows(g)
                                  /\ \A n \in Held(g) : Same(n),
         AllApart(rest),
         \/ wire' = rest
         \/ /\ wire' = Append(rest, h) /\ HandlerKnows(h)'
            /\ \A g \in Members(rest) : Apart(h, g)
  PROVE  /\ HeldOK' /\ Members(rest) \subseteq Members(wire')
         /\ wire' = Append(rest, h) => h \in Members(wire')
<1>1. \A g \in Members(rest) : HandlerKnows(g)'
  BY KnowsStays
<1>2. CASE wire' = rest
  BY <1>1, <1>2, OneMore DEF HeldOK
<1>3. CASE /\ wire' = Append(rest, h) /\ HandlerKnows(h)'
           /\ \A g \in Members(rest) : Apart(h, g)
  <2>1. Members(wire') = Members(rest) \cup {h} /\ AllApart(wire')
    BY <1>3, OneMore
  <2>2. \A g \in Members(wire') : HandlerKnows(g)'
    BY <1>1, <1>3, <2>1
  <2> QED
    BY <2>1, <2>2 DEF HeldOK
<1> QED
  BY <1>2, <1>3

LEMMA UnderWayMembers == UnderWay = Members(wire)
BY DEF UnderWay, Members

\* A step that drops no command silently and no enqueue under way.
LEMMA LeavesKept ==
  ASSUME LeavesAnnounced, enqueued' = enqueued,
         \A n \in 1..enqueued : job[n] # None => job'[n] # None \/ told'[n] # {},
         \A n \in 1..enqueued : told[n] # {} => told'[n] # {},
         \A g \in Members(wire) : g.kind = "enqueue" =>
           \/ job'[g.n] # None
           \/ \E h \in Members(wire') : h.kind = "enqueue" /\ h.n = g.n
  PROVE  LeavesAnnounced'
<1>1. UnderWay = Members(wire) /\ UnderWay' = Members(wire')
  BY DEF UnderWay, Members
<1> SUFFICES ASSUME NEW n \in 1..enqueued
             PROVE  \/ job'[n] # None \/ told'[n] # {}
                    \/ \E h \in UnderWay' : h.kind = "enqueue" /\ h.n = n
  BY DEF LeavesAnnounced
<1>2. CASE job[n] # None \/ told[n] # {}
  BY <1>2
<1>3. CASE \E g \in UnderWay : g.kind = "enqueue" /\ g.n = n
  BY <1>1, <1>3
<1> QED
  BY <1>2, <1>3 DEF LeavesAnnounced

\* The turn goes on with h, which holds nothing the others hold.
GoesOnWith(h) ==
  /\ Continue(h) /\ HandlerKnows(h)'
  /\ \A g \in Members(Rest) : Apart(h, g)
  /\ turn.kind = "enqueue" => h.kind = "enqueue" /\ h.n = turn.n

\* What a command of Redis has to show.
LEMMA TurnBooks ==
  ASSUME Books, TypeOK', wire # <<>>, enqueued' = enqueued, JobOK', HandedBounded',
         \A n \in Cmd : job[n] # None => job'[n] # None \/ told'[n] # {},
         \A n \in Cmd : told[n] # {} => told'[n] # {},
         \A g \in Members(Rest) : \A n \in Held(g) : Same(n),
         \/ \E h \in Handler : GoesOnWith(h)
         \/ Done /\ (turn.kind = "enqueue" => job'[turn.n] # None)
  PROVE  Books'
<1>1. /\ turn \in Handler /\ Rest \in Seq(Handler) /\ AllApart(Rest)
      /\ Members(wire) = Members(Rest) \cup {turn}
      /\ \A g \in Members(Rest) : HandlerKnows(g)
  BY TurnAndRest
<1>2. enqueued \in Nat /\ enqueued' \in Nat /\ enqueued <= enqueued' /\ 1..enqueued \subseteq Cmd
  BY QueueAssumption DEF Books, TypeOK, Cmd
<1>3. PICK rest : rest = Rest
  OBVIOUS
<1>4. /\ HeldOK' /\ Members(rest) \subseteq Members(wire')
      /\ turn.kind = "enqueue" =>
           \/ job'[turn.n] # None
           \/ \E h \in Members(wire') : h.kind = "enqueue" /\ h.n = turn.n
  <2>1. CASE Done /\ (turn.kind = "enqueue" => job'[turn.n] # None)
    <3>1. wire' = rest
      BY <1>3, <2>1 DEF Done, Rest
    <3> QED
      BY <1>1, <1>2, <1>3, <2>1, <3>1, WireBooks
  <2>2. ASSUME NEW h \in Handler, GoesOnWith(h)
        PROVE  /\ HeldOK' /\ Members(rest) \subseteq Members(wire')
               /\ turn.kind = "enqueue" =>
                    \E g \in Members(wire') : g.kind = "enqueue" /\ g.n = turn.n
    <3>1. wire' = Append(rest, h) /\ HandlerKnows(h)' /\ \A g \in Members(rest) : Apart(h, g)
      BY <1>3, <2>2 DEF GoesOnWith, Continue, Rest
    <3>2. HeldOK' /\ Members(rest) \subseteq Members(wire') /\ h \in Members(wire')
      BY <1>1, <1>2, <1>3, <3>1, WireBooks
    <3> QED
      BY <2>2, <3>2 DEF GoesOnWith
  <2> QED
    BY <2>1, <2>2
<1> QED
  BY <1>1, <1>2, <1>3, <1>4, LeavesKept DEF Books

\* A handler that begins leaves the store alone.
LEMMA JoinBooks ==
  ASSUME Books, TypeOK', NEW h \in Handler, Join(h), HandlerKnows(h)',
         \A g \in Members(wire) : Apart(h, g),
         UNCHANGED <<job, handed, told>>, enqueued <= enqueued',
         \A n \in 1..enqueued' : n \in 1..enqueued \/ (h.kind = "enqueue" /\ h.n = n)
  PROVE  Books'
<1>1. /\ wire \in Seq(Handler) /\ AllApart(wire)
      /\ \A g \in Members(wire) : HandlerKnows(g)
  BY DEF Books, TypeOK, HeldOK
<1>2. enqueued \in Nat /\ enqueued' \in Nat
  BY QueueAssumption DEF Books, TypeOK
<1>3. \A n : Same(n)
  BY DEF Same
<1>4. PICK rest : rest = wire
  OBVIOUS
<1>5. wire' = Append(rest, h)
  BY <1>4 DEF Join
<1>6. HeldOK' /\ Members(rest) \subseteq Members(wire') /\ h \in Members(wire')
  BY <1>1, <1>2, <1>3, <1>4, <1>5, WireBooks
<1>7. JobOK' /\ HandedBounded'
  BY <1>2 DEF Books, TypeOK, JobOK, HandedBounded, Cmd
<1>8. LeavesAnnounced'
  <2>1. UnderWay = Members(wire) /\ UnderWay' = Members(wire')
    BY DEF UnderWay, Members
  <2> SUFFICES ASSUME NEW n \in 1..enqueued'
               PROVE  \/ job'[n] # None \/ told'[n] # {}
                      \/ \E g \in UnderWay' : g.kind = "enqueue" /\ g.n = n
    BY DEF LeavesAnnounced
  <2>2. CASE h.kind = "enqueue" /\ h.n = n
    BY <1>6, <2>1, <2>2
  <2>3. CASE n \in 1..enqueued
    BY <1>4, <1>6, <2>1, <2>3 DEF Books, LeavesAnnounced
  <2> QED
    BY <2>2, <2>3
<1> QED
  BY <1>6, <1>7, <1>8 DEF Books

\* enqueue: the new command is nobody else's.
LEMMA EnqueueBooks ==
  ASSUME Books, TypeOK', Enqueue
  PROVE  Books'
<1>1. enqueued \in 0..Commands /\ enqueued < Commands /\ enqueued' = enqueued + 1
  BY DEF Enqueue, Books, TypeOK
<1> DEFINE new == New("enqueue", "getJob", enqueued + 1)
           data == [status |-> "PENDING", attempts |-> 0, due |-> FALSE]
<1>2. PICK n : n = enqueued + 1
  OBVIOUS
<1>3. n \in Cmd /\ n \in 1..enqueued'
  BY <1>1, <1>2, QueueAssumption DEF Cmd
<1>4. new \in Handler /\ new.kind = "enqueue" /\ new.at = "getJob" /\ new.n = n
  BY <1>2, <1>3, NewFacts
<1>5. PICK h : h = [new EXCEPT !.data = data]
  OBVIOUS
<1>6. /\ h \in Handler /\ h.kind = "enqueue" /\ h.at = "getJob" /\ h.n = n
      /\ h.data = data
  <2>1. data \in Stored
    BY DEF Stored
  <2> HIDE DEF new, data
  <2> QED
    BY <1>4, <1>5, <2>1 DEF Handler
<1>7. Join(h) /\ UNCHANGED <<job, handed, told>>
  BY <1>5 DEF Enqueue, phone
<1>8. Held(h) = {n}
  BY <1>6 DEF Held
<1>9. HandlerKnows(h)'
  <2>1. job'[n] = None /\ handed'[n] = 0
    BY <1>1, <1>2, <1>3, <1>7 DEF Books, JobOK
  <2>2. data # None
    <3>1. data \in Stored
      BY DEF Stored
    <3> HIDE DEF data
    <3> QED
      BY <3>1, NoneAssumption
  <2> QED
    BY <1>3, <1>6, <1>8, <2>1, <2>2 DEF HandlerKnows
<1>10. \A g \in Members(wire) : Apart(h, g)
  <2>1. \A g \in Members(wire) : n \notin Held(g)
    BY <1>1, <1>2 DEF Books, HeldOK, HandlerKnows
  <2> QED
    BY <1>6, <1>8, <2>1 DEF Apart
<1>11. \A m \in 1..enqueued' : m \in 1..enqueued \/ (h.kind = "enqueue" /\ h.n = m)
  BY <1>1, <1>2, <1>6
<1> QED
  BY <1>1, <1>6, <1>7, <1>9, <1>10, <1>11, JoinBooks

\* The other handlers begin with empty hands; of polls and sweeps there is one.
LEMMA OtherBeginBooks ==
  ASSUME Books, TypeOK', NEW h \in Handler, Join(h),
         h.kind \in {"next", "ack", "transfer", "sweep"},
         h.at = IF h.kind = "ack" THEN "get" ELSE "ids", h.overdue = {},
         h.kind \in {"next", "sweep"} => \A g \in UnderWay : g.kind # h.kind,
         UNCHANGED <<job, handed, told, enqueued>>
  PROVE  Books'
<1>1. Held(h) = {}
  BY DEF Held, Saves, Begins
<1>2. HandlerKnows(h)'
  BY <1>1 DEF HandlerKnows, Saves, Begins
<1>3. \A g \in Members(wire) : Apart(h, g)
  BY <1>1, UnderWayMembers DEF Apart
<1>4. enqueued \in Nat
  BY DEF Books, TypeOK
<1> QED
  BY <1>2, <1>3, <1>4, JoinBooks

LEMMA BeginBooks ==
  ASSUME OnePoll, Books, TypeOK',
         \/ Poll \/ StartSweep
         \/ \E a \in answers : SendAnswer(a)
         \/ \E n \in Cmd : ReportTransfer(n)
  PROVE  Books'
<1>1. CASE Poll \/ StartSweep
  <2>1. PICK kind \in {"next", "sweep"} :
          /\ Join(New(kind, "ids", None)) /\ UNCHANGED <<job, enqueued, phone, told>>
          /\ \A other \in UnderWay : other.kind # kind
    BY <1>1 DEF Poll, StartSweep
  <2>2. PICK h : h = New(kind, "ids", None)
    OBVIOUS
  <2>3. h \in Handler /\ h.kind = kind /\ h.at = "ids" /\ h.overdue = {}
    BY <2>2, NewFacts DEF New
  <2> QED
    BY <2>1, <2>2, <2>3, OtherBeginBooks DEF phone
<1>2. ASSUME NEW a \in answers, SendAnswer(a) PROVE Books'
  <2> DEFINE new == New("ack", "get", a.n)
  <2>1. a.n \in Cmd /\ a.ok \in BOOLEAN
    BY DEF Books, TypeOK
  <2>2. new \in Handler /\ new.kind = "ack" /\ new.at = "get" /\ new.overdue = {}
    BY <2>1, NewFacts DEF New
  <2>3. PICK h : h = [new EXCEPT !.ok = a.ok]
    OBVIOUS
  <2>4. h \in Handler /\ h.kind = "ack" /\ h.at = "get" /\ h.overdue = {}
    <3> HIDE DEF new
    <3> QED
      BY <2>1, <2>2, <2>3 DEF Handler
  <2>5. Join(h) /\ UNCHANGED <<job, enqueued, handed, told>>
    BY <1>2, <2>3 DEF SendAnswer
  <2> QED
    BY <2>4, <2>5, OtherBeginBooks
<1>3. ASSUME NEW n \in Cmd, ReportTransfer(n) PROVE Books'
  <2>1. PICK h : h = New("transfer", "ids", n)
    OBVIOUS
  <2>2. h \in Handler /\ h.kind = "transfer" /\ h.at = "ids" /\ h.overdue = {}
    BY <2>1, NewFacts DEF New
  <2>3. Join(h) /\ UNCHANGED <<job, enqueued, handed, told>>
    BY <1>3, <2>1 DEF ReportTransfer
  <2> QED
    BY <2>2, <2>3, OtherBeginBooks
<1> QED
  BY <1>1, <1>2, <1>3

\* A sweep goes on to its next overdue command, whose job is as it was listed
\* and held by nobody else.
LEMMA SweepBooks ==
  ASSUME Books, wire # <<>>, turn.kind = "sweep",
         NEW overdue \in SUBSET [n: Cmd, attempts: Nat], SweepNext(overdue),
         \A e \in overdue : /\ Late(e.n, e.attempts)' /\ e.n \in 1..enqueued'
                            /\ \A g \in Members(Rest) : e.n \notin Held(g),
         \A e, f \in overdue : e.n = f.n => e = f
  PROVE  Done \/ \E h \in Handler : GoesOnWith(h)
<1>1. turn \in Handler /\ \A g \in Members(Rest) : Apart(turn, g)
  BY TurnAndRest
<1>2. CASE overdue = {}
  BY <1>2 DEF SweepNext
<1>3. CASE overdue # {}
  <2>1. PICK n : n = First({x.n : x \in overdue})
    OBVIOUS
  <2>2. n \in {x.n : x \in overdue} /\ n \in Cmd
    <3> DEFINE ids == {x.n : x \in overdue}
    <3>1. ids \in SUBSET Cmd /\ ids # {}
      BY <1>3
    <3> HIDE DEF ids
    <3>2. First(ids) \in ids
      BY <3>1, FirstIn
    <3> QED
      BY <2>1, <3>1, <3>2 DEF ids
  <2>3. PICK e : e = CHOOSE x \in overdue : x.n = n
    OBVIOUS
  <2>4. e \in overdue /\ e.n = n /\ e.attempts \in Nat
    BY <2>2, <2>3
  <2> DEFINE again == [status |-> "PENDING", attempts |-> e.attempts, due |-> FALSE]
             rest == [turn EXCEPT !.n = n, !.overdue = overdue \ {e}]
  <2>5. again \in Stored /\ again # None
    <3>1. again \in Stored
      BY <2>4 DEF Stored
    <3> HIDE DEF again
    <3> QED
      BY <3>1, NoneAssumption
  <2>6. again.status = "PENDING" /\ again.attempts = e.attempts
    OBVIOUS
  <2>7. /\ rest \in Handler /\ rest.kind = "sweep" /\ rest.n = n
        /\ rest.overdue = overdue \ {e}
    BY <1>1, <2>2 DEF Handler
  <2>8. PICK retry : retry = [rest EXCEPT !.at = "getJob", !.data = again]
    OBVIOUS
  <2>9. PICK last : last = [rest EXCEPT !.at = "remove", !.ok = FALSE]
    OBVIOUS
  <2>10. \/ e.attempts < MaxAttempts /\ Continue(retry)
         \/ Continue(last)
    BY <1>3, <2>1, <2>3, <2>8, <2>9 DEF SweepNext
  <2> HIDE DEF rest, again
  <2>11. /\ retry \in Handler /\ retry.kind = "sweep" /\ retry.at = "getJob"
         /\ retry.n = n /\ retry.data = again /\ retry.overdue = overdue \ {e}
    BY <2>5, <2>7, <2>8 DEF Handler
  <2>12. /\ last \in Handler /\ last.kind = "sweep" /\ last.at = "remove"
         /\ last.n = n /\ last.overdue = overdue \ {e}
    BY <2>7, <2>9 DEF Handler
  <2>13. \A x \in overdue \ {e} : x.n # n /\ Late(x.n, x.attempts)' /\ x.n \in 1..enqueued'
    BY <2>4
  <2>14. /\ Late(n, e.attempts)' /\ n \in 1..enqueued'
    BY <2>4
  <2>15. \A h \in {retry, last} :
           /\ \A m \in Held(h) : m \in {x.n : x \in overdue} /\ m \in 1..enqueued'
           /\ \A g \in Members(Rest) : Apart(h, g)
    <3> TAKE h \in {retry, last}
    <3>1. Held(h) = {x.n : x \in overdue \ {e}} \cup {n}
      BY <2>11, <2>12 DEF Held, Begins
    <3>2. \A m \in Held(h) : m \in {x.n : x \in overdue} /\ m \in 1..enqueued'
      BY <2>2, <2>13, <2>14, <3>1
    <3> QED
      BY <1>1, <2>11, <2>12, <3>2 DEF Apart
  <2>16. e.attempts < MaxAttempts => HandlerKnows(retry)'
    BY <2>5, <2>6, <2>11, <2>13, <2>14, <2>15 DEF HandlerKnows, Saves, Begins
  <2>17. HandlerKnows(last)'
    BY <2>12, <2>13, <2>14, <2>15 DEF HandlerKnows, Saves, Begins, Late
  <2> QED
    BY <2>10, <2>11, <2>12, <2>15, <2>16, <2>17 DEF GoesOnWith
<1> QED
  BY <1>2, <1>3

\* What is held by a sweep, or by an enqueue, waits for no poll; what is held
\* by a poll is not late.
LEMMA HeldIsLate ==
  ASSUME NEW g, HandlerKnows(g), g.kind # "next", NEW n \in Held(g), job[n] # None
  PROVE  job[n].status = "DISPATCHED"
<1>1. CASE g.kind = "enqueue"
  BY <1>1 DEF Held, HandlerKnows
<1>2. CASE g.kind = "sweep"
  <2>1. CASE \E e \in g.overdue : e.n = n
    BY <1>2, <2>1 DEF HandlerKnows, Late
  <2>2. CASE n = g.n /\ ~Begins(g)
    BY <1>2, <2>2 DEF HandlerKnows, Late, Begins, Saves
  <2> QED
    BY <1>2, <2>1, <2>2 DEF Held
<1> QED
  BY <1>1, <1>2 DEF Held

LEMMA HeldIsWaiting ==
  ASSUME NEW g, HandlerKnows(g), g.kind # "sweep", NEW n \in Held(g), job[n] # None
  PROVE  job[n].status = "PENDING"
BY DEF Held, HandlerKnows

\* A command that only reads.
LEMMA ReadBooks ==
  ASSUME Books, TypeOK', wire # <<>>, UNCHANGED <<job, enqueued, handed, told>>,
         \/ \E h \in Handler : GoesOnWith(h)
         \/ Done /\ turn.kind # "enqueue"
  PROVE  Books'
<1>1. JobOK' /\ HandedBounded'
  BY DEF Books, JobOK, HandedBounded
<1>2. \A n : Same(n)
  BY DEF Same
<1> QED
  BY <1>1, <1>2, TurnBooks

\* The range of ids.
LEMMA ListIdsBooks ==
  ASSUME Books, TypeOK', ListIds
  PROVE  Books'
<1>1. /\ wire # <<>> /\ turn.at = "ids" /\ UNCHANGED <<job, enqueued, handed, told>>
  BY DEF ListIds, At, phone
<1>2. /\ turn \in Handler /\ HandlerKnows(turn)
      /\ \A g \in Members(Rest) : Apart(turn, g)
  BY <1>1, TurnAndRest
<1> DEFINE todo == {n \in Cmd : job[n] # None}
<1>3. PICK h : h = [turn EXCEPT !.at = "read", !.todo = todo]
  OBVIOUS
<1>4. /\ h \in Handler /\ h.at = "read" /\ h.kind = turn.kind /\ h.n = turn.n
      /\ h.overdue = turn.overdue
  <2>1. todo \subseteq Cmd
    OBVIOUS
  <2> HIDE DEF todo
  <2> QED
    BY <1>2, <1>3, <2>1 DEF Handler
<1>5. Continue(h)
  BY <1>3 DEF ListIds
<1>6. turn.kind # "enqueue" /\ (turn.kind = "sweep" => turn.overdue = {})
  BY <1>1, <1>2 DEF HandlerKnows, Begins
<1>7. Held(h) = {}
  BY <1>4, <1>6 DEF Held, Saves, Begins
<1>8. HandlerKnows(h)'
  BY <1>4, <1>6, <1>7 DEF HandlerKnows, Saves, Begins
<1>9. GoesOnWith(h)
  BY <1>2, <1>4, <1>5, <1>6, <1>7, <1>8 DEF GoesOnWith, Apart
<1> QED
  BY <1>1, <1>4, <1>9, ReadBooks

\* save and ack look for the job.
LEMMA LookBooks ==
  ASSUME Books, TypeOK', LookUp \/ Get
  PROVE  Books'
<1>1. wire # <<>> /\ UNCHANGED <<job, enqueued, handed, told>>
  BY DEF LookUp, Get, At, phone
<1>2. /\ turn \in Handler /\ HandlerKnows(turn)
      /\ \A g \in Members(Rest) : Apart(turn, g)
  BY <1>1, TurnAndRest
<1>3. CASE LookUp
  <2>1. PICK at \in {"update", "add"} :
          /\ turn.at = "getJob" /\ Then(at)
          /\ at = "update" => job[turn.n] # None
          /\ at = "add" => job[turn.n] = None
    BY <1>3 DEF LookUp, At
  <2>2. PICK h : h = [turn EXCEPT !.at = at]
    OBVIOUS
  <2>3. /\ h \in Handler /\ h.at = at /\ h.kind = turn.kind /\ h.n = turn.n
        /\ h.data = turn.data /\ h.overdue = turn.overdue
    BY <1>2, <2>2 DEF Handler
  <2>4. Continue(h)
    BY <2>1, <2>2 DEF Then
  <2>5. Held(h) = Held(turn)
    BY <2>1, <2>3 DEF Held, Saves, Begins
  <2>6. HandlerKnows(h)
    <3>1. turn.kind = "enqueue" => at = "add"
      BY <1>2, <2>1 DEF HandlerKnows
    <3> QED
      BY <1>2, <2>1, <2>3, <2>5, <3>1 DEF HandlerKnows, Saves, Begins
  <2>7. HandlerKnows(h)'
    <3>1. \A n : Same(n)
      BY <1>1 DEF Same
    <3>2. enqueued \in Nat
      BY DEF Books, TypeOK
    <3> QED
      BY <1>1, <2>6, <3>1, <3>2, KnowsStays
  <2>8. GoesOnWith(h)
    BY <1>2, <2>3, <2>4, <2>5, <2>7 DEF GoesOnWith, Apart
  <2> QED
    BY <1>1, <2>3, <2>8, ReadBooks
<1>4. CASE Get
  <2>1. turn.kind \in {"ack", "transfer"}
    BY <1>2, <1>4 DEF Get, At, HandlerKnows, Handler
  <2>2. CASE Done
    BY <1>1, <2>1, <2>2, ReadBooks
  <2>3. CASE Then("remove")
    <3>1. PICK h : h = [turn EXCEPT !.at = "remove"]
      OBVIOUS
    <3>2. h \in Handler /\ h.at = "remove" /\ h.kind = turn.kind
      BY <1>2, <3>1 DEF Handler
    <3>3. Held(h) = {}
      BY <2>1, <3>2 DEF Held
    <3>4. HandlerKnows(h)'
      BY <2>1, <3>2, <3>3 DEF HandlerKnows
    <3>5. GoesOnWith(h)
      BY <2>1, <2>3, <3>1, <3>2, <3>3, <3>4 DEF GoesOnWith, Apart, Then
    <3> QED
      BY <1>1, <3>2, <3>5, ReadBooks
  <2> QED
    BY <1>4, <2>2, <2>3 DEF Get
<1> QED
  BY <1>3, <1>4

\* A poll takes a PENDING command, which nobody holds.
LEMMA PickNextBooks ==
  ASSUME Books, TypeOK', wire # <<>>, UNCHANGED <<job, enqueued, handed, told>>,
         turn.kind = "next", \A n \in turn.todo : job[n] # None, PickNext
  PROVE  Books'
<1>1. /\ turn \in Handler /\ HandlerKnows(turn)
      /\ \A g \in Members(Rest) : Apart(turn, g) /\ HandlerKnows(g)
  BY TurnAndRest
<1> DEFINE waiting == {n \in turn.todo : job[n].status = "PENDING"}
<1>2. CASE waiting = {}
  BY <1>2, ReadBooks DEF PickNext
<1>3. CASE waiting # {}
  <2>1. PICK n : n = First(waiting)
    OBVIOUS
  <2>2. n \in waiting /\ n \in Cmd
    <3>1. waiting \in SUBSET Cmd
      BY <1>1 DEF Handler
    <3> HIDE DEF waiting
    <3> QED
      BY <1>3, <2>1, <3>1, FirstIn
  <2>3. job[n] # None /\ job[n].status = "PENDING" /\ job[n] \in Stored
    BY <2>2 DEF Books, TypeOK
  <2>4. job[n].attempts \in Nat /\ handed[n] \in Nat /\ MaxAttempts \in Nat
    BY <2>2, <2>3, QueueAssumption DEF Books, TypeOK, Stored
  <2>5. /\ handed[n] <= job[n].attempts /\ job[n].attempts < MaxAttempts
        /\ n \in 1..enqueued
    <3>1. ~(n > enqueued)
      BY <2>2, <2>3 DEF Books, JobOK
    <3> QED
      BY <2>2, <2>3, <3>1, QueueAssumption DEF Books, TypeOK, JobOK, Cmd
  <2>6. PICK data : data = [status |-> "DISPATCHED", attempts |-> job[n].attempts + 1,
                            due |-> FALSE]
    OBVIOUS
  <2>7. /\ data \in Stored /\ data # None /\ data.status = "DISPATCHED"
        /\ data.attempts = job[n].attempts + 1
    <3>1. /\ data \in Stored /\ data.status = "DISPATCHED"
          /\ data.attempts = job[n].attempts + 1
      BY <2>4, <2>6 DEF Stored
    <3> QED
      BY <3>1, NoneAssumption
  <2>8. PICK h : h = [turn EXCEPT !.at = "getJob", !.n = n, !.data = data]
    OBVIOUS
  <2>9. /\ h \in Handler /\ h.at = "getJob" /\ h.kind = "next" /\ h.n = n
        /\ h.data = data
    BY <1>1, <2>2, <2>7, <2>8 DEF Handler
  <2>10. Continue(h)
    BY <1>3, <2>1, <2>6, <2>8 DEF PickNext
  <2>11. Held(h) = {n}
    BY <2>9 DEF Held, Saves
  <2>12. HandlerKnows(h)'
    BY <2>3, <2>4, <2>5, <2>7, <2>9, <2>11 DEF HandlerKnows, Saves
  <2>13. \A g \in Members(Rest) : Apart(h, g)
    <3>1. \A g \in Members(Rest) : g.kind # "next"
      BY <1>1 DEF Apart
    <3>2. \A g \in Members(Rest) : n \notin Held(g)
      BY <1>1, <2>3, <3>1, HeldIsLate
    <3> QED
      BY <2>9, <2>11, <3>1, <3>2 DEF Apart
  <2>14. GoesOnWith(h)
    BY <2>10, <2>12, <2>13 DEF GoesOnWith
  <2> QED
    BY <2>9, <2>14, ReadBooks
<1> QED
  BY <1>2, <1>3

\* A receipt takes a command without holding it.
LEMMA PickTransferredBooks ==
  ASSUME Books, TypeOK', wire # <<>>, UNCHANGED <<job, enqueued, handed, told>>,
         turn.kind = "transfer", PickTransferred
  PROVE  Books'
<1>1. turn \in Handler /\ turn.todo \in SUBSET Cmd
  BY TurnAndRest DEF Handler
<1>2. PICK amount \in Amounts[turn.n] :
        LET matching == {n \in turn.todo : /\ job[n].status = "DISPATCHED"
                                           /\ amount \in Amounts[n]
                                           /\ Dest[n] = Dest[turn.n]} IN
          IF matching = {} THEN Done
          ELSE Continue([turn EXCEPT !.at = "get", !.n = First(matching)])
  BY DEF PickTransferred
<1> DEFINE matching == {n \in turn.todo : /\ job[n].status = "DISPATCHED"
                                          /\ amount \in Amounts[n]
                                          /\ Dest[n] = Dest[turn.n]}
<1>3. CASE matching = {}
  BY <1>2, <1>3, ReadBooks
<1>4. CASE matching # {}
  <2>1. PICK n : n = First(matching)
    OBVIOUS
  <2>2. n \in Cmd
    <3>1. matching \in SUBSET Cmd
      BY <1>1
    <3> HIDE DEF matching
    <3> QED
      BY <1>4, <2>1, <3>1, FirstIn
  <2>3. PICK h : h = [turn EXCEPT !.at = "get", !.n = n]
    OBVIOUS
  <2>4. h \in Handler /\ h.at = "get" /\ h.kind = "transfer"
    BY <1>1, <2>2, <2>3 DEF Handler
  <2>5. Held(h) = {}
    BY <2>4 DEF Held
  <2>6. HandlerKnows(h)'
    BY <2>4, <2>5 DEF HandlerKnows
  <2>7. Continue(h)
    BY <1>2, <1>4, <2>1, <2>3
  <2>8. GoesOnWith(h)
    BY <2>4, <2>5, <2>6, <2>7 DEF GoesOnWith, Apart
  <2> QED
    BY <2>4, <2>8, ReadBooks
<1> QED
  BY <1>3, <1>4

\* A sweep takes the late commands, which nobody holds.
LEMMA ListLateBooks ==
  ASSUME Books, TypeOK', wire # <<>>, UNCHANGED <<job, enqueued, handed, told>>,
         turn.kind = "sweep", \A n \in turn.todo : job[n] # None,
         SweepNext({[n |-> n, attempts |-> job[n].attempts] :
           n \in {m \in turn.todo : job[m].status = "DISPATCHED" /\ job[m].due}})
  PROVE  Books'
<1>1. /\ turn \in Handler /\ turn.todo \in SUBSET Cmd
      /\ \A g \in Members(Rest) : Apart(turn, g) /\ HandlerKnows(g)
  BY TurnAndRest DEF Handler
<1> DEFINE late == {m \in turn.todo : job[m].status = "DISPATCHED" /\ job[m].due}
<1>2. PICK overdue : overdue = {[n |-> n, attempts |-> job[n].attempts] : n \in late}
  OBVIOUS
<1>3. \A n \in late : /\ n \in Cmd /\ job[n] # None /\ job[n].status = "DISPATCHED"
                      /\ job[n].attempts \in Nat /\ n \in 1..enqueued
                      /\ handed[n] <= job[n].attempts /\ job[n].attempts <= MaxAttempts
  <2> SUFFICES ASSUME NEW n \in late
               PROVE  /\ n \in Cmd /\ job[n] # None /\ job[n].status = "DISPATCHED"
                      /\ job[n].attempts \in Nat /\ n \in 1..enqueued
                      /\ handed[n] <= job[n].attempts /\ job[n].attempts <= MaxAttempts
    OBVIOUS
  <2>1. n \in Cmd /\ job[n] # None /\ job[n].status = "DISPATCHED"
    BY <1>1
  <2>2. job[n].attempts \in Nat
    BY <2>1 DEF Books, TypeOK, Stored
  <2>3. handed[n] <= job[n].attempts /\ job[n].attempts <= MaxAttempts /\ ~(n > enqueued)
    BY <2>1 DEF Books, JobOK
  <2>4. n \in 1..enqueued
    BY <2>1, <2>3, QueueAssumption DEF Books, TypeOK, Cmd
  <2> QED
    BY <2>1, <2>2, <2>3, <2>4
<1>4. overdue \in SUBSET [n: Cmd, attempts: Nat]
  BY <1>2, <1>3
<1>5. \A e \in overdue : e.n \in late /\ e.attempts = job[e.n].attempts
  BY <1>2
<1>6. \A e, f \in overdue : e.n = f.n => e = f
  BY <1>4, <1>5
<1>7. \A e \in overdue : /\ Late(e.n, e.attempts)' /\ e.n \in 1..enqueued'
                         /\ \A g \in Members(Rest) : e.n \notin Held(g)
  <2> TAKE e \in overdue
  <2>1. PICK n, a : n = e.n /\ a = e.attempts
    OBVIOUS
  <2>2. Late(n, a)' /\ n \in 1..enqueued'
    BY <1>3, <1>5, <2>1 DEF Late
  <2>3. \A g \in Members(Rest) : g.kind # "sweep"
    BY <1>1 DEF Apart
  <2>4. \A g \in Members(Rest) : n \notin Held(g)
    BY <1>1, <1>3, <1>5, <2>1, <2>3, HeldIsWaiting
  <2> QED
    BY <2>1, <2>2, <2>4
<1>8. SweepNext(overdue)
  BY <1>2
<1>9. Done \/ \E h \in Handler : GoesOnWith(h)
  BY <1>4, <1>6, <1>7, <1>8, SweepBooks
<1> QED
  BY <1>9, ReadBooks

\* The reads of a list; only handlers that have saved nothing read one.
LEMMA ReadListBooks ==
  ASSUME Books, TypeOK', ReadList
  PROVE  Books'
<1>1. wire # <<>> /\ turn.at = "read" /\ UNCHANGED <<job, enqueued, handed, told>>
  BY DEF ReadList, At, phone
<1>2. turn.kind # "enqueue"
  BY <1>1, TurnAndRest DEF HandlerKnows
<1>3. CASE Done
  BY <1>1, <1>2, <1>3, ReadBooks
<1>4. CASE ~Done
  BY <1>1, <1>4, PickNextBooks, PickTransferredBooks, ListLateBooks DEF ReadList
<1> QED
  BY <1>3, <1>4

\* updateData and add: the command is saved as its handler has it.
LEMMA SavedBooks ==
  ASSUME Books, TypeOK', wire # <<>>, Saved, UNCHANGED <<enqueued, told>>,
         turn.kind \in {"enqueue", "next", "sweep"}, Saves(turn),
         job' = [job EXCEPT ![turn.n] = turn.data]
  PROVE  Books'
<1>1. /\ turn \in Handler /\ HandlerKnows(turn)
      /\ \A g \in Members(Rest) : Apart(turn, g) /\ HandlerKnows(g)
  BY TurnAndRest
<1>2. PICK n, data, kind : n = turn.n /\ data = turn.data /\ kind = turn.kind
  OBVIOUS
<1>3. n \in Held(turn) /\ n \in 1..enqueued /\ 1..enqueued \subseteq Cmd
  <2>1. n \in Held(turn)
    BY <1>2 DEF Held, Saves, Begins
  <2>2. 1..enqueued \subseteq Cmd
    BY QueueAssumption DEF Books, TypeOK, Cmd
  <2> QED
    BY <1>1, <2>1, <2>2 DEF HandlerKnows
<1>4. /\ job \in [Cmd -> Stored \cup {None}] /\ handed \in [Cmd -> Nat]
      /\ enqueued \in Nat /\ MaxAttempts \in Nat \ {0}
  BY QueueAssumption DEF Books, TypeOK
<1>5. data \in Stored /\ data # None /\ data.attempts \in Nat
  <2>1. data \in Stored \cup {None} /\ data # None
    BY <1>1, <1>2 DEF Handler, HandlerKnows
  <2> QED
    BY <2>1 DEF Stored
<1>6. /\ job'[n] = data /\ \A m \in Cmd \ {n} : job'[m] = job[m] /\ handed'[m] = handed[m]
      /\ handed'[n] = IF kind = "next" THEN handed[n] + 1 ELSE handed[n]
  BY <1>2, <1>3, <1>4 DEF Saved
<1>7. /\ handed'[n] <= data.attempts /\ data.attempts <= MaxAttempts
      /\ data.status = "PENDING" => data.attempts < MaxAttempts
  <2>1. handed[n] \in Nat
    BY <1>3, <1>4
  <2>2. CASE kind = "enqueue"
    BY <1>1, <1>2, <1>4, <1>5, <1>6, <2>1, <2>2 DEF HandlerKnows
  <2>3. CASE kind = "next"
    BY <1>1, <1>2, <1>4, <1>5, <1>6, <2>1, <2>3 DEF HandlerKnows
  <2>4. CASE kind = "sweep"
    BY <1>1, <1>2, <1>4, <1>5, <1>6, <2>1, <2>4 DEF HandlerKnows, Late
  <2> QED
    BY <1>2, <2>2, <2>3, <2>4
<1>8. JobOK'
  <2> SUFFICES ASSUME NEW m \in Cmd
               PROVE  /\ job'[m] # None =>
                           /\ handed'[m] <= job'[m].attempts
                           /\ job'[m].attempts <= MaxAttempts
                           /\ job'[m].status = "PENDING" => job'[m].attempts < MaxAttempts
                      /\ m > enqueued' => handed'[m] = 0 /\ job'[m] = None
    BY DEF JobOK
  <2>1. CASE m = n
    BY <1>3, <1>4, <1>6, <1>7, <2>1
  <2>2. CASE m # n
    BY <1>6, <2>2 DEF Books, JobOK
  <2> QED
    BY <2>1, <2>2
<1>9. HandedBounded'
  <2> SUFFICES ASSUME NEW m \in Cmd PROVE handed'[m] <= MaxAttempts
    BY DEF HandedBounded
  <2>1. CASE m = n
    BY <1>4, <1>5, <1>7, <2>1 DEF TypeOK
  <2>2. CASE m # n
    BY <1>6, <2>2 DEF Books, HandedBounded
  <2> QED
    BY <2>1, <2>2
<1>10. \A m \in Cmd \ {n} : Same(m)
  BY <1>6 DEF Same
<1>11. \A g \in Members(Rest) : \A m \in Held(g) : m # n /\ m \in Cmd /\ Same(m)
  BY <1>1, <1>3, <1>10 DEF Apart, HandlerKnows
<1>12. \A m \in Cmd : job[m] # None => job'[m] # None
  BY <1>5, <1>6
<1>13. \/ \E h \in Handler : GoesOnWith(h)
       \/ Done /\ (turn.kind = "enqueue" => job'[turn.n] # None)
  <2>1. CASE turn.kind # "sweep"
    BY <1>2, <1>5, <1>6, <2>1 DEF Saved
  <2>2. CASE turn.kind = "sweep"
    <3>1. PICK overdue : overdue = turn.overdue
      OBVIOUS
    <3>2. /\ overdue \in SUBSET [n: Cmd, attempts: Nat]
          /\ \A e, f \in overdue : e.n = f.n => e = f
          /\ \A e \in overdue : Late(e.n, e.attempts) /\ e.n # n /\ e.n \in Held(turn)
      BY <1>1, <1>2, <2>2, <3>1 DEF Handler, HandlerKnows, Held, Begins, Saves
    <3>3. SweepNext(overdue)
      BY <2>2, <3>1 DEF Saved
    <3>4. \A e \in overdue : /\ Late(e.n, e.attempts)' /\ e.n \in 1..enqueued'
                             /\ \A g \in Members(Rest) : e.n \notin Held(g)
      <4> TAKE e \in overdue
      <4>1. e.n \in 1..enqueued /\ e.n \in Cmd
        BY <1>1, <1>3, <3>2 DEF HandlerKnows
      <4>2. Late(e.n, e.attempts)'
        BY <1>6, <3>2, <4>1 DEF Late
      <4>3. \A g \in Members(Rest) : e.n \notin Held(g)
        BY <1>1, <3>2 DEF Apart
      <4> QED
        BY <4>1, <4>2, <4>3
    <3> QED
      BY <2>2, <3>2, <3>3, <3>4, SweepBooks
  <2> QED
    BY <2>1, <2>2
<1> QED
  BY <1>8, <1>9, <1>11, <1>12, <1>13, TurnBooks

LEMMA WriteBooks ==
  ASSUME Books, TypeOK', Update \/ Add
  PROVE  Books'
<1>1. wire # <<>> /\ UNCHANGED <<enqueued, told>> /\ turn.at \in {"update", "add"}
  BY DEF Update, Add, At
<1>2. turn \in Handler /\ HandlerKnows(turn)
  BY <1>1, TurnAndRest
<1>3. turn.kind \in {"enqueue", "next", "sweep"} /\ Saves(turn)
  BY <1>1, <1>2 DEF HandlerKnows, Saves
<1>4. CASE Add
  <2>1. job[turn.n] = None
    BY <1>2, <1>4 DEF Add, At, HandlerKnows
  <2>2. Saved /\ job' = [job EXCEPT ![turn.n] = turn.data]
    BY <1>4, <2>1 DEF Add
  <2> QED
    BY <1>1, <1>3, <2>2, SavedBooks
<1>5. CASE Update /\ job[turn.n] # None
  <2>1. Saved /\ job' = [job EXCEPT ![turn.n] = turn.data]
    BY <1>5 DEF Update
  <2> QED
    BY <1>1, <1>3, <2>1, SavedBooks
<1>6. CASE Update /\ job[turn.n] = None
  <2>1. Done /\ UNCHANGED <<job, handed>>
    BY <1>6 DEF Update, phone
  <2>2. turn.kind # "enqueue"
    BY <1>2, <1>6 DEF Update, At, HandlerKnows
  <2> QED
    BY <1>1, <2>1, <2>2, ReadBooks
<1> QED
  BY <1>4, <1>5, <1>6

\* remove: the command is gone, and its outcome announced.
LEMMA RemoveBooks ==
  ASSUME Books, TypeOK', Remove
  PROVE  Books'
<1>1. PICK n, outcome :
        /\ n = turn.n /\ turn.at = "remove" /\ wire # <<>>
        /\ job' = [job EXCEPT ![n] = None]
        /\ told' = [told EXCEPT ![n] = @ \cup {outcome}]
        /\ UNCHANGED <<enqueued, handed>>
  BY DEF Remove, At, Announce, phone
<1>2. /\ turn \in Handler /\ HandlerKnows(turn)
      /\ \A g \in Members(Rest) : Apart(turn, g) /\ HandlerKnows(g)
  BY <1>1, TurnAndRest
<1>3. /\ job \in [Cmd -> Stored \cup {None}] /\ enqueued \in Nat
      /\ told \in [Cmd -> SUBSET {"COMPLETED", "FAILED"}] /\ 1..enqueued \subseteq Cmd
  BY QueueAssumption DEF Books, TypeOK, Cmd
<1>4. \A m \in Cmd : job'[m] = IF m = n THEN None ELSE job[m]
  BY <1>1, <1>3
<1>5. \A m \in Cmd : Same(m)
  BY <1>1, <1>4 DEF Same
<1>6. JobOK' /\ HandedBounded'
  BY <1>1, <1>4 DEF Books, JobOK, HandedBounded
<1>7. /\ \A m \in Cmd : job[m] # None => job'[m] # None \/ told'[m] # {}
      /\ \A m \in Cmd : told[m] # {} => told'[m] # {}
  BY <1>1, <1>3, <1>4
<1>8. \A g \in Members(Rest) : \A m \in Held(g) : Same(m)
  BY <1>2, <1>3, <1>5 DEF HandlerKnows
<1>9. turn.kind # "enqueue"
  BY <1>1, <1>2 DEF HandlerKnows
<1>10. Done \/ \E h \in Handler : GoesOnWith(h)
  <2>1. CASE turn.kind # "sweep"
    BY <2>1 DEF Remove
  <2>2. CASE turn.kind = "sweep"
    <3>1. PICK overdue : overdue = turn.overdue
      OBVIOUS
    <3>2. /\ overdue \in SUBSET [n: Cmd, attempts: Nat]
          /\ \A e, f \in overdue : e.n = f.n => e = f
          /\ \A e \in overdue : Late(e.n, e.attempts) /\ e.n \in Held(turn)
      BY <1>2, <2>2, <3>1 DEF Handler, HandlerKnows, Held
    <3>3. SweepNext(overdue)
      BY <2>2, <3>1 DEF Remove
    <3>4. \A e \in overdue : /\ Late(e.n, e.attempts)' /\ e.n \in 1..enqueued'
                             /\ \A g \in Members(Rest) : e.n \notin Held(g)
      <4> TAKE e \in overdue
      <4>1. e.n \in 1..enqueued /\ e.n \in Cmd
        BY <1>2, <1>3, <3>2 DEF HandlerKnows
      <4>2. Late(e.n, e.attempts)'
        BY <1>1, <1>4, <3>2, <4>1 DEF Late
      <4>3. \A g \in Members(Rest) : e.n \notin Held(g)
        BY <1>2, <3>2 DEF Apart
      <4> QED
        BY <1>1, <4>1, <4>2, <4>3
    <3> QED
      BY <1>1, <2>2, <3>2, <3>3, <3>4, SweepBooks
  <2> QED
    BY <2>1, <2>2
<1> QED
  BY <1>1, <1>6, <1>7, <1>8, <1>9, <1>10, TurnBooks

\* The phone and time leave the handlers where they are.
LEMMA StillBooks ==
  ASSUME Books, TypeOK', UNCHANGED <<wire, enqueued, handed, told>>,
         \A n \in Cmd : Same(n) /\ (job[n] # None => job'[n] # None)
  PROVE  Books'
<1>1. /\ wire \in Seq(Handler) /\ AllApart(wire) /\ enqueued \in Nat
      /\ 1..enqueued \subseteq Cmd /\ \A g \in Members(wire) : HandlerKnows(g)
  BY QueueAssumption DEF Books, TypeOK, HeldOK, Cmd
<1>2. \A g \in Members(wire) : HandlerKnows(g)'
  <2>1. \A g \in Members(wire) : \A n \in Held(g) : Same(n)
    BY <1>1 DEF HandlerKnows
  <2> QED
    BY <1>1, <2>1, KnowsStays
<1>3. HeldOK'
  BY <1>1, <1>2 DEF HeldOK
<1>4. JobOK' /\ HandedBounded'
  BY DEF Books, JobOK, HandedBounded, Same
<1>5. LeavesAnnounced'
  <2>1. \A n \in 1..enqueued : job[n] # None => job'[n] # None
    BY <1>1
  <2> QED
    BY <2>1 DEF Books, LeavesAnnounced, UnderWay
<1> QED
  BY <1>3, <1>4, <1>5 DEF Books

LEMMA PhoneBooks ==
  ASSUME Books, TypeOK', \E n \in Cmd : Execute(n) \/ TimePasses(n)
  PROVE  Books'
<1>1. job \in [Cmd -> Stored \cup {None}]
  BY DEF Books, TypeOK
<1>2. ASSUME NEW n \in Cmd, Execute(n) PROVE Books'
  <2>1. UNCHANGED <<job, wire, enqueued, handed, told>>
    BY <1>2 DEF Execute
  <2> QED
    BY <2>1, StillBooks DEF Same
<1>3. ASSUME NEW n \in Cmd, TimePasses(n) PROVE Books'
  <2>1. /\ UNCHANGED <<wire, enqueued, handed, told>> /\ job[n] \in Stored
        /\ job' = [job EXCEPT ![n].due = TRUE]
    BY <1>1, <1>3 DEF TimePasses, phone
  <2>2. PICK late : late = [job[n] EXCEPT !.due = TRUE]
    OBVIOUS
  <2>3. /\ late \in Stored /\ late.status = job[n].status
        /\ late.attempts = job[n].attempts
    BY <2>1, <2>2 DEF Stored
  <2>4. late # None /\ job[n] # None
    BY <2>1, <2>3, NoneAssumption
  <2>5. \A m \in Cmd : job'[m] = IF m = n THEN late ELSE job[m]
    BY <1>1, <2>1, <2>2
  <2> QED
    BY <2>1, <2>3, <2>4, <2>5, StillBooks DEF Same
<1> QED
  BY <1>2, <1>3

-----------------------------------------------------------------------------
LEMMA BooksInvariant == ASSUME OnePoll PROVE Spec => []Books
<1>1. Init => Books
  <2> SUFFICES ASSUME Init PROVE Books
    OBVIOUS
  <2>1. Members(wire) = {} /\ AllApart(wire)
    BY DEF Init, Members, AllApart
  <2>2. TypeOK
    BY EmptySeq, QueueAssumption DEF Init, TypeOK
  <2> QED
    BY <2>1, <2>2, QueueAssumption
       DEF Init, Books, JobOK, HandedBounded, LeavesAnnounced, HeldOK
<1>2. Books /\ TypeOK' /\ [Next]_vars => Books'
  <2> SUFFICES ASSUME Books, TypeOK', [Next]_vars PROVE Books'
    OBVIOUS
  <2>1. CASE UNCHANGED vars
    <3>1. UNCHANGED <<job, wire, enqueued, handed, told>>
      BY <2>1 DEF vars, phone
    <3> QED
      BY <3>1, StillBooks DEF Same
  <2>2. CASE Next
    BY <2>2, EnqueueBooks, BeginBooks, ListIdsBooks, ReadListBooks, LookBooks,
       WriteBooks, RemoveBooks, PhoneBooks DEF Next, Command
  <2> QED
    BY <2>1, <2>2
<1> QED
  BY <1>1, <1>2, QueueTypeCorrect, PTL DEF Spec

\* With one poll at a time a command is handed to the phone MaxAttempts times
\* at most (dequeueNext, checkTimedOut), however answers and sweeps cross.
THEOREM HandedOutBounded == ASSUME OnePoll PROVE Spec => []HandedBounded
<1>1. Books => HandedBounded
  BY DEF Books
<1> QED
  BY <1>1, BooksInvariant, PTL

\* With one poll at a time no command leaves the store before its outcome was
\* announced (ack, checkTimedOut).
THEOREM NoneLeavesUnannounced == ASSUME OnePoll PROVE Spec => []LeavesAnnounced
<1>1. Books => LeavesAnnounced
  BY DEF Books
<1> QED
  BY <1>1, BooksInvariant, PTL
-----------------------------------------------------------------------------
(* In which order commands are handed out, however many polls there are at *)
(* a time.  A command is in the store, or was handed out, or is still      *)
(* being enqueued; and of two that are being enqueued the first is ahead.  *)

Out(n) == n \in Cmd /\ handed[n] > 0
Kept(n) == n \in Cmd /\ (job[n] # None \/ handed[n] > 0)

\* What a handler carries keeps to the order.
HandlerInOrder(h) ==
  /\ h.kind = "enqueue" =>
       /\ Saves(h) /\ h.n \in 1..enqueued
       /\ h.at = "update" => Kept(h.n)
  /\ Saves(h) =>
       /\ h.kind \in {"enqueue", "next", "sweep"} /\ h.n \in Cmd /\ h.data # None
       /\ h.data.status = "DISPATCHED" => h.kind = "next"
       /\ h.kind = "sweep" => Out(h.n)
       /\ h.kind = "next" => \A n \in Cmd : n < h.n => Out(n)
  /\ h.at \in {"get", "remove"} => Out(h.n)
  /\ \A e \in h.overdue : Out(e.n)
  /\ h.kind = "next" /\ h.at = "read" =>
       \A m \in h.todo, n \in Cmd : n < m => n \in h.todo \/ Out(n)

\* Two commands being enqueued, g ahead of h on the wire.
Follows(h, g) ==
  g.kind = "enqueue" /\ h.kind = "enqueue" =>
    /\ g.n < h.n => (h.at # "getJob" => g.at # "getJob")
    /\ h.n < g.n => h.at # "getJob" /\ g.at = "getJob"
InLine(handlers) ==
  \A j, k \in DOMAIN handlers : j < k => Follows(handlers[k], handlers[j])

NoneForgotten ==
  \A n \in 1..enqueued :
    Kept(n) \/ \E g \in Members(wire) : g.kind = "enqueue" /\ g.n = n
StoredInOrder == \A n, m \in Cmd : n < m /\ job[m] # None => Kept(n)
WasOut ==
  /\ \A n \in Cmd : job[n] # None /\ job[n].status = "DISPATCHED" => Out(n)
  /\ \A n \in Cmd : toExecute[n] > 0 => Out(n)
  /\ \A a \in answers : Out(a.n)
CarriedInOrder == (\A g \in Members(wire) : HandlerInOrder(g)) /\ InLine(wire)

Ordered ==
  /\ TypeOK /\ FirstEnqueuedFirstHanded
  /\ NoneForgotten /\ StoredInOrder /\ WasOut /\ CarriedInOrder

\* A step takes no handing out back and drops no command that was not handed out.
Grows ==
  /\ \A n \in Cmd : Out(n) => Out(n)'
  /\ \A n \in Cmd : Kept(n) => Kept(n)'
  /\ enqueued <= enqueued'

LEMMA InOrderStays ==
  ASSUME NEW h, HandlerInOrder(h), Grows, enqueued \in Nat, enqueued' \in Nat
  PROVE  HandlerInOrder(h)'
<1>1. \A n : (Out(n) => Out(n)') /\ (Kept(n) => Kept(n)')
  BY DEF Grows, Out, Kept
<1>2. \A n \in 1..enqueued : n \in 1..enqueued'
  BY DEF Grows
<1> HIDE DEF Out, Kept
<1> QED
  BY <1>1, <1>2 DEF HandlerInOrder

\* A handler at the end of the line.
LEMMA LineOne ==
  ASSUME NEW rest \in Seq(Handler), NEW h \in Handler, InLine(rest),
         \A g \in Members(rest) : Follows(h, g)
  PROVE  InLine(Append(rest, h))
<1> DEFINE longer == Append(rest, h)
<1>1. /\ Len(rest) \in Nat /\ DOMAIN rest = 1..Len(rest)
      /\ DOMAIN longer = 1..(Len(rest) + 1) /\ longer[Len(rest) + 1] = h
      /\ \A k \in 1..Len(rest) : longer[k] = rest[k]
  OBVIOUS
<1> HIDE DEF longer
<1> SUFFICES ASSUME NEW j \in DOMAIN longer, NEW k \in DOMAIN longer, j < k
             PROVE  Follows(longer[k], longer[j])
  BY DEF InLine, longer
<1>2. j \in 1..Len(rest) /\ longer[j] = rest[j]
  BY <1>1
<1>3. CASE k = Len(rest) + 1
  BY <1>1, <1>2, <1>3 DEF Members
<1>4. CASE k \in 1..Len(rest)
  BY <1>1, <1>2, <1>4 DEF InLine
<1> QED
  BY <1>1, <1>3, <1>4

\* The turn is ahead of the others, which are in line.
LEMMA LineRest ==
  ASSUME Ordered, wire # <<>>
  PROVE  /\ InLine(Rest) /\ HandlerInOrder(turn)
         /\ \A g \in Members(Rest) : Follows(g, turn) /\ HandlerInOrder(g)
<1>1. /\ turn \in Handler /\ turn = wire[1] /\ Rest \in Seq(Handler)
      /\ DOMAIN wire = 1..Len(wire) /\ Len(wire) \in Nat \ {0}
      /\ DOMAIN Rest = 1..(Len(wire) - 1)
      /\ \A k \in DOMAIN Rest : Rest[k] = wire[k + 1]
      /\ Members(wire) = Members(Rest) \cup {turn}
  BY WireParts DEF Ordered
<1>2. \A j, k \in DOMAIN wire : j < k => Follows(wire[k], wire[j])
  BY DEF Ordered, CarriedInOrder, InLine
<1>3. InLine(Rest)
  <2> SUFFICES ASSUME NEW j \in DOMAIN Rest, NEW k \in DOMAIN Rest, j < k
               PROVE  Follows(Rest[k], Rest[j])
    BY DEF InLine
  <2>1. j + 1 \in DOMAIN wire /\ k + 1 \in DOMAIN wire /\ j + 1 < k + 1
    BY <1>1
  <2> QED
    BY <1>1, <1>2, <2>1
<1>4. ASSUME NEW k \in DOMAIN Rest PROVE Follows(Rest[k], turn)
  <2>1. 1 \in DOMAIN wire /\ k + 1 \in DOMAIN wire /\ 1 < k + 1
    BY <1>1
  <2> QED
    BY <1>1, <1>2, <2>1
<1> QED
  BY <1>1, <1>3, <1>4 DEF Ordered, CarriedInOrder, Members

\* The turn goes on with h, at its place in the line.
StaysInOrder(h) ==
  /\ Continue(h) /\ HandlerInOrder(h)' /\ h.kind = turn.kind
  /\ turn.kind = "enqueue" => h.n = turn.n /\ turn.at = "getJob" /\ h.at # "getJob"

\* What a command of Redis has to show.
LEMMA TurnInOrder ==
  ASSUME Ordered, TypeOK', wire # <<>>, enqueued' = enqueued, Grows,
         FirstEnqueuedFirstHanded', StoredInOrder', WasOut',
         \/ \E h \in Handler : StaysInOrder(h)
         \/ Done /\ \A n \in Cmd : turn.kind = "enqueue" /\ n = turn.n => Kept(n)'
  PROVE  Ordered'
<1>1. /\ turn \in Handler /\ Rest \in Seq(Handler)
      /\ Members(wire) = Members(Rest) \cup {turn}
  BY WireParts DEF Ordered
<1>2. /\ InLine(Rest) /\ HandlerInOrder(turn)
      /\ \A g \in Members(Rest) : Follows(g, turn) /\ HandlerInOrder(g)
  BY LineRest
<1>3. enqueued \in Nat /\ enqueued' \in Nat /\ 1..enqueued \subseteq Cmd
  BY QueueAssumption DEF Ordered, TypeOK, Cmd
<1>4. PICK rest : rest = Rest
  OBVIOUS
<1>5. \A g \in Members(rest) : HandlerInOrder(g)'
  BY <1>2, <1>3, <1>4, InOrderStays
<1>6. /\ Members(rest) \subseteq Members(wire') /\ CarriedInOrder'
      /\ \A n \in Cmd : turn.kind = "enqueue" /\ n = turn.n =>
           \/ Kept(n)'
           \/ \E h \in Members(wire') : h.kind = "enqueue" /\ h.n = n
  <2>1. CASE Done /\ \A n \in Cmd : turn.kind = "enqueue" /\ n = turn.n => Kept(n)'
    <3>1. wire' = rest
      BY <1>4, <2>1 DEF Done, Rest
    <3>2. InLine(wire')
      BY <1>2, <1>4, <3>1
    <3> QED
      BY <1>5, <2>1, <3>1, <3>2 DEF CarriedInOrder
  <2>2. ASSUME NEW h \in Handler, StaysInOrder(h)
        PROVE  /\ Members(rest) \subseteq Members(wire') /\ CarriedInOrder'
               /\ turn.kind = "enqueue" =>
                    \E g \in Members(wire') : g.kind = "enqueue" /\ g.n = turn.n
    <3>1. wire' = Append(rest, h)
      BY <1>4, <2>2 DEF StaysInOrder, Continue, Rest
    <3>2. Members(wire') = Members(rest) \cup {h}
      BY <1>1, <1>4, <3>1, OneMore
    <3>3. \A g \in Members(rest) : Follows(h, g)
      BY <1>2, <1>4, <2>2 DEF StaysInOrder, Follows
    <3>4. InLine(wire')
      BY <1>1, <1>2, <1>4, <3>1, <3>3, LineOne
    <3>5. HandlerInOrder(h)' /\ h.kind = turn.kind
          /\ (turn.kind = "enqueue" => h.n = turn.n)
      BY <2>2 DEF StaysInOrder
    <3> QED
      BY <1>5, <3>2, <3>4, <3>5 DEF CarriedInOrder
  <2> QED
    BY <2>1, <2>2
<1>7. NoneForgotten'
  <2> SUFFICES ASSUME NEW n \in 1..enqueued
               PROVE  \/ Kept(n)'
                      \/ \E g \in Members(wire') : g.kind = "enqueue" /\ g.n = n
    BY DEF NoneForgotten
  <2>1. CASE Kept(n)
    BY <2>1 DEF Grows, Kept
  <2>2. ASSUME NEW g \in Members(wire), g.kind = "enqueue", g.n = n
        PROVE  \/ Kept(n)'
               \/ \E h \in Members(wire') : h.kind = "enqueue" /\ h.n = n
    <3>1. CASE g = turn
      BY <1>3, <1>6, <2>2, <3>1
    <3>2. CASE g \in Members(rest)
      BY <1>6, <2>2, <3>2
    <3> QED
      BY <1>1, <1>4, <3>1, <3>2
  <2> QED
    BY <2>1, <2>2 DEF Ordered, NoneForgotten
<1> QED
  BY <1>6, <1>7 DEF Ordered

\* A command that only reads.
LEMMA ReadInOrder ==
  ASSUME Ordered, TypeOK', wire # <<>>, UNCHANGED <<job, enqueued, phone, told>>,
         \/ \E h \in Handler : StaysInOrder(h)
         \/ Done /\ (turn.kind = "enqueue" => Kept(turn.n))
  PROVE  Ordered'
<1>1. /\ Grows /\ FirstEnqueuedFirstHanded' /\ StoredInOrder' /\ WasOut'
      /\ enqueued' = enqueued
  <2>1. UNCHANGED <<job, enqueued, handed, toExecute, answers>>
    BY DEF phone
  <2>2. enqueued \in Nat
    BY DEF Ordered, TypeOK
  <2>3. \A n : Out(n)' = Out(n) /\ Kept(n)' = Kept(n)
    BY <2>1 DEF Out, Kept
  <2> QED
    BY <2>1, <2>2, <2>3
       DEF Ordered, Grows, FirstEnqueuedFirstHanded, StoredInOrder, WasOut
<1>2. \A n \in Cmd : Kept(n) => Kept(n)'
  BY <1>1 DEF Grows
<1> QED
  BY <1>1, <1>2, TurnInOrder


\* A handler that begins.
LEMMA JoinInOrder ==
  ASSUME Ordered, TypeOK', NEW h \in Handler, Join(h), HandlerInOrder(h)',
         UNCHANGED <<job, handed, toExecute>>, answers' \subseteq answers,
         \/ h.kind # "enqueue" /\ enqueued' = enqueued
         \/ /\ h.kind = "enqueue" /\ h.at = "getJob"
            /\ h.n = enqueued + 1 /\ enqueued' = enqueued + 1
  PROVE  Ordered'
<1>1. wire \in Seq(Handler) /\ enqueued \in Nat /\ enqueued' \in Nat
  BY DEF Ordered, TypeOK
<1>2. \A n : Out(n)' = Out(n) /\ Kept(n)' = Kept(n)
  BY DEF Out, Kept
<1>3. Grows /\ FirstEnqueuedFirstHanded' /\ StoredInOrder' /\ WasOut'
  BY <1>1, <1>2
     DEF Ordered, Grows, FirstEnqueuedFirstHanded, StoredInOrder, WasOut
<1>4. PICK old : old = wire
  OBVIOUS
<1>5. wire' = Append(old, h)
  BY <1>4 DEF Join
<1>6. Members(wire') = Members(old) \cup {h}
  BY <1>1, <1>4, <1>5, OneMore
<1>7. \A g \in Members(old) : Follows(h, g)
  <2> TAKE g \in Members(old)
  <2>1. g.kind = "enqueue" => g.n \in 1..enqueued
    BY <1>4 DEF Ordered, CarriedInOrder, HandlerInOrder
  <2> QED
    BY <1>1, <2>1 DEF Follows
<1>8. InLine(wire')
  <2>1. InLine(old)
    BY <1>4 DEF Ordered, CarriedInOrder
  <2> QED
    BY <1>1, <1>4, <1>5, <1>7, <2>1, LineOne
<1>9. \A g \in Members(old) : HandlerInOrder(g)'
  BY <1>1, <1>3, <1>4, InOrderStays DEF Ordered, CarriedInOrder
<1>10. CarriedInOrder'
  BY <1>6, <1>8, <1>9 DEF CarriedInOrder
<1>11. NoneForgotten'
  <2> SUFFICES ASSUME NEW n \in 1..enqueued'
               PROVE  \/ Kept(n)'
                      \/ \E g \in Members(wire') : g.kind = "enqueue" /\ g.n = n
    BY DEF NoneForgotten
  <2>1. CASE n \in 1..enqueued
    <3>1. Kept(n) \/ \E g \in Members(old) : g.kind = "enqueue" /\ g.n = n
      BY <1>4, <2>1 DEF Ordered, NoneForgotten
    <3> QED
      BY <1>2, <1>6, <3>1
  <2>2. CASE n \notin 1..enqueued
    <3>1. h.kind = "enqueue" /\ h.n = n
      BY <1>1, <2>2
    <3> QED
      BY <1>6, <3>1
  <2> QED
    BY <2>1, <2>2
<1> QED
  BY <1>3, <1>10, <1>11 DEF Ordered

\* Handlers begin; the phone answers what it was handed.
LEMMA BeginInOrder ==
  ASSUME Ordered, TypeOK',
         \/ Enqueue \/ Poll \/ StartSweep
         \/ \E a \in answers : SendAnswer(a)
         \/ \E n \in Cmd : ReportTransfer(n)
  PROVE  Ordered'
<1>1. CASE Enqueue
  <2>1. /\ enqueued \in 0..Commands /\ enqueued < Commands /\ enqueued' = enqueued + 1
        /\ UNCHANGED <<job, handed, toExecute, answers>>
    BY <1>1 DEF Enqueue, Ordered, TypeOK, phone
  <2> DEFINE new == New("enqueue", "getJob", enqueued + 1)
             data == [status |-> "PENDING", attempts |-> 0, due |-> FALSE]
  <2>2. PICK n : n = enqueued + 1
    OBVIOUS
  <2>3. n \in Cmd /\ n \in 1..enqueued'
    BY <2>1, <2>2, QueueAssumption DEF Cmd
  <2>4. /\ new \in Handler /\ new.kind = "enqueue" /\ new.at = "getJob" /\ new.n = n
        /\ new.overdue = {}
    BY <2>2, <2>3, NewFacts DEF New
  <2>5. data \in Stored /\ data.status = "PENDING"
    BY DEF Stored
  <2>6. PICK h : h = [new EXCEPT !.data = data]
    OBVIOUS
  <2>7. Join(h)
    BY <1>1, <2>6 DEF Enqueue
  <2> HIDE DEF new, data
  <2>8. /\ h \in Handler /\ h.kind = "enqueue" /\ h.at = "getJob" /\ h.n = n
        /\ h.data = data /\ h.overdue = {}
    BY <2>4, <2>5, <2>6 DEF Handler
  <2>9. HandlerInOrder(h)'
    BY <2>3, <2>5, <2>8, NoneAssumption DEF HandlerInOrder, Saves
  <2> QED
    BY <2>1, <2>2, <2>7, <2>8, <2>9, JoinInOrder
<1>2. ASSUME NEW kind \in {"next", "transfer", "sweep"}, NEW n \in Cmd \cup {None},
             Join(New(kind, "ids", n)),
             UNCHANGED <<job, enqueued, handed, toExecute, answers>>
      PROVE  Ordered'
  <2>1. PICK h : h = New(kind, "ids", n)
    OBVIOUS
  <2>2. h \in Handler /\ h.kind = kind /\ h.at = "ids" /\ h.overdue = {}
    BY <2>1, NewFacts DEF New
  <2>3. HandlerInOrder(h)'
    BY <2>2 DEF HandlerInOrder, Saves
  <2> QED
    BY <1>2, <2>1, <2>2, <2>3, JoinInOrder
<1>3. CASE Poll \/ StartSweep
  BY <1>2, <1>3 DEF Poll, StartSweep, phone
<1>4. ASSUME NEW n \in Cmd, ReportTransfer(n) PROVE Ordered'
  BY <1>2, <1>4 DEF ReportTransfer
<1>5. ASSUME NEW a \in answers, SendAnswer(a) PROVE Ordered'
  <2> DEFINE new == New("ack", "get", a.n)
  <2>1. a.n \in Cmd /\ a.ok \in BOOLEAN /\ Out(a.n)
    BY DEF Ordered, TypeOK, WasOut
  <2>2. /\ new \in Handler /\ new.kind = "ack" /\ new.at = "get" /\ new.n = a.n
        /\ new.overdue = {}
    BY <2>1, NewFacts DEF New
  <2>3. PICK h : h = [new EXCEPT !.ok = a.ok]
    OBVIOUS
  <2>4. /\ h \in Handler /\ h.kind = "ack" /\ h.at = "get" /\ h.n = a.n
        /\ h.overdue = {}
    <3> HIDE DEF new
    <3> QED
      BY <2>1, <2>2, <2>3 DEF Handler
  <2>5. /\ Join(h) /\ answers' \subseteq answers
        /\ UNCHANGED <<job, enqueued, handed, toExecute>>
    BY <1>5, <2>3 DEF SendAnswer
  <2>6. HandlerInOrder(h)'
    BY <2>1, <2>4, <2>5 DEF HandlerInOrder, Saves, Out
  <2> QED
    BY <2>4, <2>5, <2>6, JoinInOrder
<1> QED
  BY <1>1, <1>3, <1>4, <1>5


\* A sweep goes on to the next of its commands, which were all handed out.
LEMMA SweepInOrder ==
  ASSUME turn \in Handler, turn.kind = "sweep",
         NEW overdue \in SUBSET [n: Cmd, attempts: Nat], SweepNext(overdue),
         \A e \in overdue : Out(e.n)'
  PROVE  Done \/ \E h \in Handler : StaysInOrder(h)
<1>1. CASE overdue = {}
  BY <1>1 DEF SweepNext
<1>2. CASE overdue # {}
  <2>1. PICK n : n = First({x.n : x \in overdue})
    OBVIOUS
  <2>2. n \in {x.n : x \in overdue} /\ n \in Cmd
    <3> DEFINE ids == {x.n : x \in overdue}
    <3>1. ids \in SUBSET Cmd /\ ids # {}
      BY <1>2
    <3> HIDE DEF ids
    <3>2. First(ids) \in ids
      BY <3>1, FirstIn
    <3> QED
      BY <2>1, <3>1, <3>2 DEF ids
  <2>3. PICK e : e = CHOOSE x \in overdue : x.n = n
    OBVIOUS
  <2>4. e \in overdue /\ e.n = n /\ e.attempts \in Nat
    BY <2>2, <2>3
  <2> DEFINE again == [status |-> "PENDING", attempts |-> e.attempts, due |-> FALSE]
             rest == [turn EXCEPT !.n = n, !.overdue = overdue \ {e}]
  <2>5. again \in Stored /\ again.status = "PENDING"
    BY <2>4 DEF Stored
  <2>6. /\ rest \in Handler /\ rest.kind = "sweep" /\ rest.n = n
        /\ rest.overdue = overdue \ {e}
    BY <2>2 DEF Handler
  <2>7. PICK retry : retry = [rest EXCEPT !.at = "getJob", !.data = again]
    OBVIOUS
  <2>8. PICK last : last = [rest EXCEPT !.at = "remove", !.ok = FALSE]
    OBVIOUS
  <2>9. Continue(retry) \/ Continue(last)
    BY <1>2, <2>1, <2>3, <2>7, <2>8 DEF SweepNext
  <2> HIDE DEF rest, again
  <2>10. /\ retry \in Handler /\ retry.kind = "sweep" /\ retry.at = "getJob"
         /\ retry.n = n /\ retry.data = again /\ retry.overdue = overdue \ {e}
    BY <2>5, <2>6, <2>7 DEF Handler
  <2>11. /\ last \in Handler /\ last.kind = "sweep" /\ last.at = "remove"
         /\ last.n = n /\ last.overdue = overdue \ {e}
    BY <2>6, <2>8 DEF Handler
  <2>12. Out(n)' /\ \A x \in overdue \ {e} : Out(x.n)'
    BY <2>4
  <2>13. HandlerInOrder(retry)' /\ HandlerInOrder(last)'
    BY <2>2, <2>5, <2>10, <2>11, <2>12, NoneAssumption DEF HandlerInOrder, Saves
  <2> QED
    BY <2>9, <2>10, <2>11, <2>13 DEF StaysInOrder
<1> QED
  BY <1>1, <1>2

\* The range of ids: of two commands the first is listed too, or handed out.
LEMMA ListIdsInOrder ==
  ASSUME Ordered, TypeOK', ListIds
  PROVE  Ordered'
<1>1. /\ wire # <<>> /\ turn.at = "ids" /\ UNCHANGED <<job, enqueued, phone, told>>
  BY DEF ListIds, At
<1>2. turn \in Handler /\ HandlerInOrder(turn)
  BY <1>1, WireParts, LineRest DEF Ordered
<1> DEFINE todo == {n \in Cmd : job[n] # None}
<1>3. PICK h : h = [turn EXCEPT !.at = "read", !.todo = todo]
  OBVIOUS
<1>4. /\ h \in Handler /\ h.at = "read" /\ h.kind = turn.kind /\ h.n = turn.n
      /\ h.overdue = turn.overdue /\ h.todo = todo
  <2>1. todo \subseteq Cmd
    OBVIOUS
  <2> HIDE DEF todo
  <2> QED
    BY <1>2, <1>3, <2>1 DEF Handler
<1>5. Continue(h)
  BY <1>3 DEF ListIds
<1>6. turn.kind # "enqueue"
  BY <1>1, <1>2 DEF HandlerInOrder, Saves
<1>7. \A n : Out(n)' = Out(n)
  BY <1>1 DEF Out, phone
<1>8. \A m \in todo, n \in Cmd : n < m => n \in todo \/ Out(n)
  BY DEF Ordered, StoredInOrder, Kept, Out
<1>9. HandlerInOrder(h)'
  BY <1>2, <1>4, <1>6, <1>7, <1>8 DEF HandlerInOrder, Saves
<1> QED
  BY <1>1, <1>4, <1>5, <1>6, <1>9, ReadInOrder DEF StaysInOrder

\* The reads of a list.
LEMMA ReadListInOrder ==
  ASSUME Ordered, TypeOK', ReadList
  PROVE  Ordered'
<1>1. wire # <<>> /\ turn.at = "read" /\ UNCHANGED <<job, enqueued, phone, told>>
  BY DEF ReadList, At
<1>2. /\ turn \in Handler /\ turn.todo \in SUBSET Cmd /\ HandlerInOrder(turn)
      /\ job \in [Cmd -> Stored \cup {None}]
  BY <1>1, WireParts, LineRest DEF Ordered, Handler, TypeOK
<1>3. turn.kind # "enqueue"
  BY <1>1, <1>2 DEF HandlerInOrder, Saves
<1>4. \A n : Out(n)' = Out(n)
  BY <1>1 DEF Out, phone
<1>5. CASE Done
  BY <1>1, <1>3, <1>5, ReadInOrder
<1>6. ASSUME \A n \in turn.todo : job[n] # None, turn.kind = "next", PickNext
      PROVE  Done \/ \E h \in Handler : StaysInOrder(h)
  <2> DEFINE waiting == {n \in turn.todo : job[n].status = "PENDING"}
  <2>1. CASE waiting = {}
    BY <1>6, <2>1 DEF PickNext
  <2>2. CASE waiting # {}
    <3>1. PICK n : n = First(waiting)
      OBVIOUS
    <3>2. n \in waiting /\ \A m \in waiting : n <= m
      <4>1. waiting \in SUBSET Cmd
        BY <1>2
      <4> HIDE DEF waiting
      <4> QED
        BY <2>2, <3>1, <4>1, FirstLeast
    <3>3. n \in turn.todo /\ n \in Cmd /\ job[n] \in Stored
      BY <1>2, <1>6, <3>2
    <3>4. PICK data : data = [status |-> "DISPATCHED", attempts |-> job[n].attempts + 1,
                              due |-> FALSE]
      OBVIOUS
    <3>5. data \in Stored
      BY <3>3, <3>4 DEF Stored
    <3>6. PICK h : h = [turn EXCEPT !.at = "getJob", !.n = n, !.data = data]
      OBVIOUS
    <3>7. /\ h \in Handler /\ h.at = "getJob" /\ h.kind = "next" /\ h.n = n
          /\ h.data = data /\ h.overdue = turn.overdue
      BY <1>2, <1>6, <3>3, <3>5, <3>6 DEF Handler
    <3>8. Continue(h)
      BY <1>6, <2>2, <3>1, <3>4, <3>6 DEF PickNext
    <3>9. \A m \in Cmd : m < n => Out(m)
      <4> SUFFICES ASSUME NEW m \in Cmd, m < n PROVE Out(m)
        OBVIOUS
      <4>1. m \in turn.todo \/ Out(m)
        BY <1>1, <1>2, <1>6, <3>3 DEF HandlerInOrder
      <4>2. m \notin waiting
        BY <3>2, <3>3, QueueAssumption DEF Cmd
      <4>3. m \in turn.todo => job[m] \in Stored /\ job[m].status # "PENDING"
        BY <1>2, <1>6, <4>2
      <4>4. m \in turn.todo => job[m] # None /\ job[m].status = "DISPATCHED"
        BY <1>6, <4>3 DEF Stored
      <4> QED
        BY <4>1, <4>4 DEF Ordered, WasOut
    <3>10. HandlerInOrder(h)'
      BY <1>2, <1>4, <3>3, <3>5, <3>7, <3>9, NoneAssumption DEF HandlerInOrder, Saves
    <3> QED
      BY <1>6, <3>7, <3>8, <3>10 DEF StaysInOrder
  <2> QED
    BY <2>1, <2>2
<1>7. ASSUME \A n \in turn.todo : job[n] # None, turn.kind = "transfer", PickTransferred
      PROVE  Done \/ \E h \in Handler : StaysInOrder(h)
  <2>1. PICK matching \in SUBSET Cmd :
          /\ \A n \in matching : job[n] # None /\ job[n].status = "DISPATCHED"
          /\ IF matching = {} THEN Done
             ELSE Continue([turn EXCEPT !.at = "get", !.n = First(matching)])
    <3>1. PICK amount \in Amounts[turn.n] :
            LET matching == {n \in turn.todo : /\ job[n].status = "DISPATCHED"
                                               /\ amount \in Amounts[n]
                                               /\ Dest[n] = Dest[turn.n]} IN
              IF matching = {} THEN Done
              ELSE Continue([turn EXCEPT !.at = "get", !.n = First(matching)])
      BY <1>7 DEF PickTransferred
    <3> DEFINE found == {n \in turn.todo : /\ job[n].status = "DISPATCHED"
                                           /\ amount \in Amounts[n]
                                           /\ Dest[n] = Dest[turn.n]}
    <3>2. found \in SUBSET Cmd
      BY <1>2
    <3>3. \A n \in found : job[n] # None /\ job[n].status = "DISPATCHED"
      BY <1>7
    <3>4. IF found = {} THEN Done
          ELSE Continue([turn EXCEPT !.at = "get", !.n = First(found)])
      BY <3>1
    <3> HIDE DEF found
    <3> QED
      BY <3>2, <3>3, <3>4
  <2>2. CASE matching # {}
    <3>1. PICK n : n = First(matching)
      OBVIOUS
    <3>2. n \in matching /\ n \in Cmd
      BY <2>2, <3>1, FirstIn
    <3>3. PICK h : h = [turn EXCEPT !.at = "get", !.n = n]
      OBVIOUS
    <3>4. /\ h \in Handler /\ h.at = "get" /\ h.kind = "transfer" /\ h.n = n
          /\ h.overdue = turn.overdue
      BY <1>2, <1>7, <3>2, <3>3 DEF Handler
    <3>5. Out(n)
      BY <2>1, <3>2 DEF Ordered, WasOut
    <3>6. HandlerInOrder(h)'
      BY <1>2, <1>4, <3>4, <3>5 DEF HandlerInOrder, Saves
    <3> QED
      BY <1>7, <2>1, <2>2, <3>1, <3>3, <3>4, <3>6 DEF StaysInOrder
  <2> QED
    BY <2>1, <2>2
<1> DEFINE late == {m \in turn.todo : job[m].status = "DISPATCHED" /\ job[m].due}
<1>8. ASSUME \A n \in turn.todo : job[n] # None, turn.kind = "sweep",
             SweepNext({[n |-> n, attempts |-> job[n].attempts] : n \in late})
      PROVE  Done \/ \E h \in Handler : StaysInOrder(h)
  <2>1. PICK overdue : overdue = {[n |-> n, attempts |-> job[n].attempts] : n \in late}
    OBVIOUS
  <2>2. \A n \in late : n \in Cmd /\ job[n].attempts \in Nat /\ Out(n)
    BY <1>2, <1>8 DEF Ordered, WasOut, Stored
  <2> HIDE DEF late
  <2>3. overdue \in SUBSET [n: Cmd, attempts: Nat] /\ \A e \in overdue : Out(e.n)
    BY <2>1, <2>2
  <2> QED
    BY <1>2, <1>4, <1>8, <2>1, <2>3, SweepInOrder
<1>9. Done \/ \E h \in Handler : StaysInOrder(h)
  BY <1>6, <1>7, <1>8 DEF ReadList
<1> QED
  BY <1>1, <1>5, <1>9, ReadInOrder


\* save and ack look for the job.
LEMMA LookInOrder ==
  ASSUME Ordered, TypeOK', LookUp \/ Get
  PROVE  Ordered'
<1>1. wire # <<>> /\ UNCHANGED <<job, enqueued, phone, told>>
  BY DEF LookUp, Get, At
<1>2. turn \in Handler /\ HandlerInOrder(turn)
  BY <1>1, WireParts, LineRest DEF Ordered
<1>3. \A n : Out(n)' = Out(n) /\ Kept(n)' = Kept(n)
  BY <1>1 DEF Out, Kept, phone
<1>4. enqueued' = enqueued
  BY <1>1
<1>5. ASSUME NEW at \in {"update", "add", "remove"}, Then(at),
             at = "remove" => turn.at = "get",
             at # "remove" => turn.at = "getJob",
             at = "update" => job[turn.n] # None
      PROVE  \E h \in Handler : StaysInOrder(h)
  <2>1. PICK h : h = [turn EXCEPT !.at = at]
    OBVIOUS
  <2>2. /\ h \in Handler /\ h.at = at /\ h.kind = turn.kind /\ h.n = turn.n
        /\ h.data = turn.data /\ h.overdue = turn.overdue
    BY <1>2, <2>1 DEF Handler
  <2>3. Continue(h)
    BY <1>5, <2>1 DEF Then
  <2>4. at = "update" => Kept(h.n)
    BY <1>2, <1>5, <2>2 DEF HandlerInOrder, Saves, Kept
  <2>5. HandlerInOrder(h)'
    BY <1>2, <1>3, <1>4, <1>5, <2>2, <2>4 DEF HandlerInOrder, Saves
  <2>6. turn.kind = "enqueue" => turn.at = "getJob"
    BY <1>2, <1>5 DEF HandlerInOrder, Saves
  <2> QED
    BY <1>5, <2>2, <2>3, <2>5, <2>6 DEF StaysInOrder
<1>6. CASE LookUp
  <2>1. PICK at \in {"update", "add"} :
          turn.at = "getJob" /\ Then(at) /\ (at = "update" => job[turn.n] # None)
    BY <1>6 DEF LookUp, At
  <2> QED
    BY <1>1, <1>5, <2>1, ReadInOrder
<1>7. CASE Get
  <2>1. turn.kind # "enqueue"
    BY <1>2, <1>7 DEF Get, At, HandlerInOrder, Saves
  <2>2. CASE Done
    BY <1>1, <2>1, <2>2, ReadInOrder
  <2>3. CASE Then("remove")
    BY <1>1, <1>5, <1>7, <2>3, ReadInOrder DEF Get, At
  <2> QED
    BY <1>7, <2>2, <2>3 DEF Get
<1> QED
  BY <1>6, <1>7

\* A saved command: one that is added last comes after those enqueued before.
LEMMA SavedInOrder ==
  ASSUME Ordered, TypeOK', wire # <<>>, Saved, UNCHANGED <<enqueued, told>>,
         turn.at \in {"update", "add"},
         \/ job' = [job EXCEPT ![turn.n] = turn.data]
         \/ job[turn.n] # None /\ UNCHANGED job
  PROVE  Ordered'
<1>1. /\ turn \in Handler /\ HandlerInOrder(turn)
      /\ Members(wire) = Members(Rest) \cup {turn}
      /\ \A g \in Members(Rest) : Follows(g, turn)
  BY WireParts, LineRest DEF Ordered
<1>2. PICK n, data, kind : n = turn.n /\ data = turn.data /\ kind = turn.kind
  OBVIOUS
<1>3. /\ n \in Cmd /\ kind \in {"enqueue", "next", "sweep"}
      /\ data # None /\ (data.status = "DISPATCHED" => kind = "next")
      /\ kind = "enqueue" => n \in 1..enqueued
      /\ kind = "sweep" => Out(n)
      /\ kind = "next" => \A m \in Cmd : m < n => Out(m)
  BY <1>1, <1>2 DEF HandlerInOrder, Saves
<1>4. /\ job \in [Cmd -> Stored \cup {None}] /\ handed \in [Cmd -> Nat]
      /\ toExecute \in [Cmd -> Nat] /\ enqueued \in Nat
  BY DEF Ordered, TypeOK
<1>5. /\ UNCHANGED answers
      /\ \A m \in Cmd \ {n} : handed'[m] = handed[m] /\ toExecute'[m] = toExecute[m]
      /\ kind = "next" => handed'[n] = handed[n] + 1
      /\ kind # "next" => handed'[n] = handed[n] /\ toExecute'[n] = toExecute[n]
  BY <1>2, <1>3, <1>4 DEF Saved
<1>6. /\ \A m \in Cmd \ {n} : job'[m] = job[m]
      /\ job'[n] # None /\ job'[n] \in {data, job[n]}
      /\ job[n] = None => job'[n] = data
  BY <1>2, <1>3, <1>4
<1>7. /\ \A m \in Cmd : Out(m) => Out(m)'
      /\ kind = "next" => Out(n)'
  BY <1>3, <1>4, <1>5 DEF Out
<1>8. Grows
  <2>1. \A m \in Cmd : Kept(m) => Kept(m)'
    BY <1>6, <1>7 DEF Kept, Out
  <2> QED
    BY <1>4, <1>7, <2>1 DEF Grows
<1>9. \A a, b \in Cmd : a < b /\ Out(b)' => Out(a)'
  <2> SUFFICES ASSUME NEW a \in Cmd, NEW b \in Cmd, a < b, Out(b)' PROVE Out(a)'
    OBVIOUS
  <2>1. CASE Out(b)
    BY <1>4, <1>7, <2>1 DEF Ordered, FirstEnqueuedFirstHanded, Out
  <2>2. CASE ~Out(b)
    <3>1. b = n /\ kind = "next"
      BY <1>3, <1>5, <2>2 DEF Out
    <3> QED
      BY <1>3, <1>7, <3>1
  <2> QED
    BY <2>1, <2>2
<1>10. FirstEnqueuedFirstHanded'
  BY <1>9 DEF FirstEnqueuedFirstHanded, Out
<1>11. StoredInOrder'
  <2> SUFFICES ASSUME NEW a \in Cmd, NEW b \in Cmd, a < b, job'[b] # None
               PROVE  Kept(a)'
    BY DEF StoredInOrder
  <2>1. Kept(a) => Kept(a)'
    BY <1>8 DEF Grows
  <2>2. Out(a)' => Kept(a)'
    BY DEF Out, Kept
  <2>3. CASE job[b] # None
    BY <2>1, <2>3 DEF Ordered, StoredInOrder
  <2>4. CASE b = n /\ kind \in {"next", "sweep"}
    BY <1>3, <1>7, <1>9, <2>2, <2>4
  <2>5. CASE b = n /\ kind = "enqueue"
    <3>1. a \in 1..enqueued
      BY <1>3, <1>4, <2>5, QueueAssumption DEF Cmd
    <3>2. CASE Kept(a)
      BY <2>1, <3>2
    <3>3. ASSUME NEW g \in Members(wire), g.kind = "enqueue", g.n = a PROVE FALSE
      <4>1. g # turn
        BY <1>2, <2>5, <3>3, QueueAssumption DEF Cmd
      <4>2. Follows(g, turn)
        BY <1>1, <4>1
      <4>3. turn.kind = "enqueue" /\ turn.n = b /\ turn.at # "getJob"
        BY <1>2, <2>5
      <4> QED
        BY <3>3, <4>2, <4>3 DEF Follows
    <3> QED
      BY <3>1, <3>2, <3>3 DEF Ordered, NoneForgotten
  <2> QED
    BY <1>3, <1>6, <2>3, <2>4, <2>5
<1>12. WasOut'
  <2>1. ASSUME NEW m \in Cmd, job'[m] # None, job'[m].status = "DISPATCHED"
        PROVE  Out(m)'
    <3>1. CASE job'[m] = job[m]
      BY <1>7, <2>1, <3>1 DEF Ordered, WasOut
    <3>2. CASE job'[m] # job[m]
      BY <1>3, <1>6, <1>7, <2>1, <3>2
    <3> QED
      BY <3>1, <3>2
  <2>2. ASSUME NEW m \in Cmd, toExecute'[m] > 0 PROVE Out(m)'
    <3>1. CASE toExecute'[m] = toExecute[m]
      BY <1>7, <2>2, <3>1 DEF Ordered, WasOut
    <3>2. CASE toExecute'[m] # toExecute[m]
      BY <1>5, <1>7, <3>2
    <3> QED
      BY <3>1, <3>2
  <2>3. \A a \in answers' : Out(a.n)'
    BY <1>5, <1>7 DEF Ordered, WasOut, Out
  <2> QED
    BY <2>1, <2>2, <2>3 DEF WasOut
<1>13. \/ \E h \in Handler : StaysInOrder(h)
       \/ Done /\ \A m \in Cmd : turn.kind = "enqueue" /\ m = turn.n => Kept(m)'
  <2>1. CASE kind # "sweep"
    <3>1. Kept(n)'
      BY <1>3, <1>6 DEF Kept
    <3> QED
      BY <1>2, <2>1, <3>1 DEF Saved
  <2>2. CASE kind = "sweep"
    <3>1. PICK overdue : overdue = turn.overdue
      OBVIOUS
    <3>2. overdue \in SUBSET [n: Cmd, attempts: Nat] /\ \A e \in overdue : Out(e.n)
      BY <1>1, <3>1 DEF Handler, HandlerInOrder
    <3>3. \A e \in overdue : Out(e.n)'
      BY <1>7, <3>2
    <3>4. SweepNext(overdue)
      BY <1>2, <2>2, <3>1 DEF Saved
    <3> QED
      BY <1>1, <1>2, <2>2, <3>2, <3>3, <3>4, SweepInOrder
  <2> QED
    BY <2>1, <2>2
<1> QED
  BY <1>8, <1>10, <1>11, <1>12, <1>13, TurnInOrder

LEMMA WriteInOrder ==
  ASSUME Ordered, TypeOK', Update \/ Add
  PROVE  Ordered'
<1>1. wire # <<>> /\ UNCHANGED <<enqueued, told>> /\ turn.at \in {"update", "add"}
  BY DEF Update, Add, At
<1>2. HandlerInOrder(turn)
  BY <1>1, LineRest
<1>3. CASE Saved /\ (\/ job' = [job EXCEPT ![turn.n] = turn.data]
                     \/ job[turn.n] # None /\ UNCHANGED job)
  BY <1>1, <1>3, SavedInOrder
<1>4. CASE Update /\ job[turn.n] = None
  <2>1. Done /\ UNCHANGED <<job, phone>>
    BY <1>4 DEF Update
  <2>2. turn.kind = "enqueue" => Kept(turn.n)
    BY <1>2, <1>4 DEF Update, At, HandlerInOrder
  <2> QED
    BY <1>1, <2>1, <2>2, ReadInOrder
<1> QED
  BY <1>3, <1>4 DEF Update, Add

\* A command that is removed was handed out.
LEMMA RemoveInOrder ==
  ASSUME Ordered, TypeOK', Remove
  PROVE  Ordered'
<1>1. PICK n : n = turn.n
  OBVIOUS
<1>2. /\ turn.at = "remove" /\ wire # <<>> /\ job' = [job EXCEPT ![n] = None]
      /\ UNCHANGED <<enqueued, handed, toExecute, answers>>
  BY <1>1 DEF Remove, At, phone
<1>3. turn \in Handler /\ HandlerInOrder(turn)
  BY <1>2, WireParts, LineRest DEF Ordered
<1>4. Out(n) /\ turn.kind # "enqueue"
  BY <1>1, <1>2, <1>3 DEF HandlerInOrder, Saves
<1>5. /\ job \in [Cmd -> Stored \cup {None}] /\ enqueued \in Nat
  BY DEF Ordered, TypeOK
<1>6. \A m \in Cmd : job'[m] = IF m = n THEN None ELSE job[m]
  BY <1>2, <1>5
<1>7. \A m : Out(m)' = Out(m)
  BY <1>2 DEF Out
<1>8. \A m \in Cmd : Kept(m) => Kept(m)'
  BY <1>2, <1>4, <1>6 DEF Kept, Out
<1>9. Grows /\ FirstEnqueuedFirstHanded' /\ StoredInOrder' /\ WasOut'
  BY <1>2, <1>5, <1>6, <1>7, <1>8
     DEF Ordered, Grows, FirstEnqueuedFirstHanded, StoredInOrder, WasOut
<1>10. Done \/ \E h \in Handler : StaysInOrder(h)
  <2>1. CASE turn.kind # "sweep"
    BY <2>1 DEF Remove
  <2>2. CASE turn.kind = "sweep"
    <3>1. PICK overdue : overdue = turn.overdue
      OBVIOUS
    <3>2. overdue \in SUBSET [n: Cmd, attempts: Nat] /\ \A e \in overdue : Out(e.n)
      BY <1>3, <3>1 DEF Handler, HandlerInOrder
    <3>3. SweepNext(overdue)
      BY <2>2, <3>1 DEF Remove
    <3> QED
      BY <1>3, <1>7, <2>2, <3>2, <3>3, SweepInOrder
  <2> QED
    BY <2>1, <2>2
<1> QED
  BY <1>2, <1>4, <1>9, <1>10, TurnInOrder

\* The phone and time: what is executed was handed out.
LEMMA StillInOrder ==
  ASSUME Ordered, TypeOK', UNCHANGED <<wire, enqueued, handed>>,
         \A n \in Cmd : job'[n] = None <=> job[n] = None, WasOut'
  PROVE  Ordered'
<1>1. \A n : Out(n)' = Out(n) /\ Kept(n)' = Kept(n)
  BY DEF Out, Kept
<1>2. enqueued \in Nat
  BY DEF Ordered, TypeOK
<1>3. Grows
  BY <1>1, <1>2 DEF Grows
<1>4. CarriedInOrder'
  <2>1. \A g \in Members(wire) : HandlerInOrder(g)'
    BY <1>2, <1>3, InOrderStays DEF Ordered, CarriedInOrder
  <2> QED
    BY <2>1 DEF Ordered, CarriedInOrder
<1>5. NoneForgotten'
  BY <1>1 DEF Ordered, NoneForgotten
<1>6. FirstEnqueuedFirstHanded' /\ StoredInOrder'
  BY <1>1 DEF Ordered, FirstEnqueuedFirstHanded, StoredInOrder
<1> QED
  BY <1>4, <1>5, <1>6 DEF Ordered

LEMMA PhoneInOrder ==
  ASSUME Ordered, TypeOK', \E n \in Cmd : Execute(n) \/ TimePasses(n)
  PROVE  Ordered'
<1>1. job \in [Cmd -> Stored \cup {None}] /\ toExecute \in [Cmd -> Nat]
  BY DEF Ordered, TypeOK
<1>2. ASSUME NEW n \in Cmd, Execute(n) PROVE Ordered'
  <2>1. UNCHANGED <<job, wire, enqueued, handed>>
    BY <1>2 DEF Execute
  <2>2. /\ toExecute[n] > 0 /\ toExecute' = [toExecute EXCEPT ![n] = @ - 1]
        /\ \A a \in answers' : a \in answers \/ a.n = n
    BY <1>2 DEF Execute
  <2>3. Out(n) /\ \A m : Out(m)' = Out(m)
    BY <2>1, <2>2 DEF Ordered, WasOut, Out
  <2>4. \A m \in Cmd : toExecute'[m] > 0 => toExecute[m] > 0
    BY <1>1, <2>2
  <2>5. WasOut'
    BY <2>1, <2>2, <2>3, <2>4 DEF Ordered, WasOut
  <2> QED
    BY <2>1, <2>5, StillInOrder
<1>3. ASSUME NEW n \in Cmd, TimePasses(n) PROVE Ordered'
  <2>1. /\ UNCHANGED <<wire, enqueued, handed, toExecute, answers>>
        /\ job[n] \in Stored /\ job' = [job EXCEPT ![n].due = TRUE]
    BY <1>1, <1>3 DEF TimePasses, phone
  <2>2. PICK late : late = [job[n] EXCEPT !.due = TRUE]
    OBVIOUS
  <2>3. late \in Stored /\ late.status = job[n].status
    BY <2>1, <2>2 DEF Stored
  <2>4. late # None /\ job[n] # None
    BY <2>1, <2>3, NoneAssumption
  <2>5. \A m \in Cmd : job'[m] = IF m = n THEN late ELSE job[m]
    BY <1>1, <2>1, <2>2
  <2>6. \A m : Out(m)' = Out(m)
    BY <2>1 DEF Out
  <2>7. WasOut'
    BY <2>1, <2>3, <2>4, <2>5, <2>6 DEF Ordered, WasOut
  <2>8. \A m \in Cmd : job'[m] = None <=> job[m] = None
    BY <2>4, <2>5
  <2> QED
    BY <2>1, <2>7, <2>8, StillInOrder
<1> QED
  BY <1>2, <1>3

\* However many polls and sweeps there are under way, the phone gets the
\* commands for the first time in the order they were enqueued (save and
\* dequeueNext of the store).
THEOREM HandedInOrder == Spec => []FirstEnqueuedFirstHanded
<1>1. Init => Ordered
  <2> SUFFICES ASSUME Init PROVE Ordered
    OBVIOUS
  <2>1. Members(wire) = {} /\ InLine(wire)
    BY DEF Init, Members, InLine
  <2>2. TypeOK
    BY EmptySeq, QueueAssumption DEF Init, TypeOK
  <2> QED
    BY <2>1, <2>2 DEF Init, Ordered, FirstEnqueuedFirstHanded, NoneForgotten,
       StoredInOrder, WasOut, CarriedInOrder
<1>2. Ordered /\ TypeOK' /\ [Next]_vars => Ordered'
  <2> SUFFICES ASSUME Ordered, TypeOK', [Next]_vars PROVE Ordered'
    OBVIOUS
  <2>1. CASE UNCHANGED vars
    <3>1. UNCHANGED <<job, wire, enqueued, handed, toExecute, answers>>
      BY <2>1 DEF vars, phone
    <3>2. WasOut'
      BY <3>1 DEF Ordered, WasOut, Out
    <3> QED
      BY <3>1, <3>2, StillInOrder
  <2>2. CASE Next
    BY <2>2, BeginInOrder, ListIdsInOrder, ReadListInOrder, LookInOrder,
       WriteInOrder, RemoveInOrder, PhoneInOrder DEF Next, Command
  <2> QED
    BY <2>1, <2>2
<1>3. Ordered => FirstEnqueuedFirstHanded
  BY DEF Ordered
<1> QED
  BY <1>1, <1>2, <1>3, QueueTypeCorrect, PTL DEF Spec
=============================================================================
