----------------------------- MODULE UssdQueue ------------------------------
(***************************************************************************)
(* UssdCommandQueue over BullMqUssdCommandStore, one command to Redis at a *)
(* time, and the reseller's phone that polls, transfers and answers over   *)
(* the Tasker endpoints.  A stored command is a BullMQ job; BullMQ itself  *)
(* is taken from how the store uses it: getJob, add, updateData, remove    *)
(* and the ranges read are one command each, and a list of jobs is the     *)
(* range of ids followed by the read of every id.                          *)
(*                                                                         *)
(* Commands are numbered in the order they are enqueued, which is the      *)
(* order of createdAt the store sorts by.                                  *)
(*                                                                         *)
(* A definition named X_Y is X with a fault, for the runs that show that a *)
(* property notices it; no specification uses it.                          *)
(***************************************************************************)
EXTENDS Connection

CONSTANTS
  Commands,     \* how many commands are enqueued
  Dest,         \* Dest[n]: the number command n transfers to
  Amounts,      \* Amounts[n]: its payment amount and its delivery amount
  MaxAttempts,  \* USSD_COMMAND_MAX_ATTEMPTS
  OnePoll,      \* TRUE: a poll begins only after the last was answered
  None

Cmd == 1..Commands

ASSUME QueueAssumption ==
  /\ Commands \in Nat
  /\ MaxAttempts \in Nat \ {0}
  /\ MaxHandlers \in Nat \ {0}
  /\ OnePoll \in BOOLEAN

VARIABLES
  job,        \* job[n]: command n as stored, or None
  enqueued,   \* how many commands were enqueued
  handed,     \* handed[n]: how often command n was given to the phone
  toExecute,  \* toExecute[n]: how often the phone still has to execute it
  delivered,  \* the commands whose megas were transferred
  answers,    \* the phone's answers still to be sent: [n, ok]
  receipts,   \* the commands with a "Transferiste" SMS still to be reported
  told        \* told[n]: the outcomes announced for command n

phone == <<handed, toExecute, delivered, answers, receipts>>
vars == <<job, enqueued, wire, phone, told>>

\* A stored command; due: dispatched too long ago.
Stored == [status: {"PENDING", "DISPATCHED"}, attempts: Nat, due: BOOLEAN]

ASSUME NoneAssumption == None \notin Stored

\* A handler.  n, data: the command at hand and what is to be saved of it; ok:
\* the answer; todo: the ids of a list to be read; overdue: what a sweep found.
Handler ==
  [kind: {"enqueue", "next", "ack", "transfer", "sweep"},
   at: {"ids", "read", "getJob", "update", "add", "get", "remove"},
   n: Cmd \cup {None}, ok: BOOLEAN, data: Stored \cup {None},
   todo: SUBSET Cmd, overdue: SUBSET [n: Cmd, attempts: Nat]]

TypeOK ==
  /\ job \in [Cmd -> Stored \cup {None}]
  /\ enqueued \in 0..Commands
  /\ wire \in Seq(Handler)
  /\ handed \in [Cmd -> Nat] /\ toExecute \in [Cmd -> Nat]
  /\ delivered \subseteq Cmd /\ receipts \subseteq Cmd
  /\ answers \subseteq [n: Cmd, ok: BOOLEAN]
  /\ told \in [Cmd -> SUBSET {"COMPLETED", "FAILED"}]

Init ==
  /\ job = [n \in Cmd |-> None]
  /\ enqueued = 0
  /\ wire = <<>>
  /\ handed = [n \in Cmd |-> 0]
  /\ toExecute = [n \in Cmd |-> 0]
  /\ delivered = {}
  /\ answers = {}
  /\ receipts = {}
  /\ told = [n \in Cmd |-> {}]

-----------------------------------------------------------------------------
(* Handlers begin.                                                         *)

New(kind, at, n) ==
  [kind |-> kind, at |-> at, n |-> n, ok |-> TRUE, data |-> None,
   todo |-> {}, overdue |-> {}]

\* advanceToProcessing enqueues the next command; save looks for it first.
Enqueue ==
  /\ enqueued < Commands
  /\ enqueued' = enqueued + 1
  /\ Join([New("enqueue", "getJob", enqueued + 1) EXCEPT
            !.data = [status |-> "PENDING", attempts |-> 0, due |-> FALSE]])
  /\ UNCHANGED <<job, phone, told>>

\* GET /commands/next
Poll ==
  /\ OnePoll => \A other \in UnderWay : other.kind # "next"
  /\ Join(New("next", "ids", None))
  /\ UNCHANGED <<job, enqueued, phone, told>>

\* POST /commands/:id/ack
SendAnswer(a) ==
  /\ a \in answers
  /\ answers' = answers \ {a}
  /\ Join([New("ack", "get", a.n) EXCEPT !.ok = a.ok])
  /\ UNCHANGED <<job, enqueued, handed, toExecute, delivered, receipts, told>>

\* POST /sms with a "Transferiste" that some command n caused.
ReportTransfer(n) ==
  /\ n \in receipts
  /\ receipts' = receipts \ {n}
  /\ Join(New("transfer", "ids", n))
  /\ UNCHANGED <<job, enqueued, handed, toExecute, delivered, answers, told>>

\* The timer starts checkTimedOut; a sweep ends long before the next begins.
StartSweep ==
  /\ \A other \in UnderWay : other.kind # "sweep"
  /\ Join(New("sweep", "ids", None))
  /\ UNCHANGED <<job, enqueued, phone, told>>

-----------------------------------------------------------------------------
(* One command is executed and its handler goes on.                        *)

First(ids) == CHOOSE n \in ids : \A m \in ids : n <= m

\* The range of ids of a list.
ListIds ==
  /\ At("ids")
  /\ Continue([turn EXCEPT !.at = "read", !.todo = {n \in Cmd : job[n] # None}])
  /\ UNCHANGED <<job, enqueued, phone, told>>

\* An announcement: the command and whether it succeeded.
Announce(n, ok) ==
  told' = [told EXCEPT ![n] = @ \cup {IF ok THEN "COMPLETED" ELSE "FAILED"}]

\* Mutant: the last timeout is saved instead of deleted.
SweepNext_Saved(overdue) ==
  IF overdue = {} THEN Done
  ELSE LET n == First({e.n : e \in overdue})
           e == CHOOSE x \in overdue : x.n = n
           rest == [turn EXCEPT !.n = n, !.overdue = overdue \ {e}]
           again == [status |-> "PENDING", attempts |-> e.attempts, due |-> FALSE] IN
       IF e.attempts < MaxAttempts
       THEN Continue([rest EXCEPT !.at = "getJob", !.data = again])
       ELSE Continue([rest EXCEPT !.at = "getJob", !.data = [again EXCEPT !.status = "TIMED_OUT"]])

\* Mutant: one attempt too many.
SweepNext_OneMore(overdue) ==
  IF overdue = {} THEN Done
  ELSE LET n == First({e.n : e \in overdue})
           e == CHOOSE x \in overdue : x.n = n
           rest == [turn EXCEPT !.n = n, !.overdue = overdue \ {e}]
           again == [status |-> "PENDING", attempts |-> e.attempts, due |-> FALSE] IN
       IF e.attempts <= MaxAttempts
       THEN Continue([rest EXCEPT !.at = "getJob", !.data = again])
       ELSE Continue([rest EXCEPT !.at = "remove", !.ok = FALSE])

\* Mutant: the last timeout is left as it is.
SweepNext_LastIgnored(overdue) ==
  IF overdue = {} THEN Done
  ELSE LET n == First({e.n : e \in overdue})
           e == CHOOSE x \in overdue : x.n = n
           rest == [turn EXCEPT !.n = n, !.overdue = overdue \ {e}]
           again == [status |-> "PENDING", attempts |-> e.attempts, due |-> FALSE] IN
       IF e.attempts < MaxAttempts
       THEN Continue([rest EXCEPT !.at = "getJob", !.data = again])
       ELSE Done

\* A sweep takes its overdue commands one by one: again, or the end.
SweepNext(overdue) ==
  IF overdue = {} THEN Done
  ELSE LET n == First({e.n : e \in overdue})
           e == CHOOSE x \in overdue : x.n = n
           rest == [turn EXCEPT !.n = n, !.overdue = overdue \ {e}]
           again == [status |-> "PENDING", attempts |-> e.attempts, due |-> FALSE] IN
       IF e.attempts < MaxAttempts
       THEN Continue([rest EXCEPT !.at = "getJob", !.data = again])
       ELSE Continue([rest EXCEPT !.at = "remove", !.ok = FALSE])

\* Mutant: the list is not sorted.
PickNext_Unsorted ==
  LET waiting == {n \in turn.todo : job[n].status = "PENDING"} IN
    \/ waiting = {} /\ Done
    \/ \E n \in waiting :
         Continue([turn EXCEPT !.at = "getJob", !.n = n,
           !.data = [status |-> "DISPATCHED", attempts |-> job[n].attempts + 1,
                     due |-> FALSE]])

\* dequeueNext: the first PENDING command of the list.
PickNext ==
  LET waiting == {n \in turn.todo : job[n].status = "PENDING"} IN
    IF waiting = {} THEN Done
    ELSE LET n == First(waiting) IN
      Continue([turn EXCEPT !.at = "getJob", !.n = n,
        !.data = [status |-> "DISPATCHED", attempts |-> job[n].attempts + 1,
                  due |-> FALSE]])

\* Mutant: the amount is not compared.
PickTransferred_AnyAmount ==
  LET matching == {n \in turn.todo : /\ job[n].status = "DISPATCHED"
                                     /\ Dest[n] = Dest[turn.n]} IN
    IF matching = {} THEN Done
    ELSE Continue([turn EXCEPT !.at = "get", !.n = First(matching)])

\* ackMatchingTransfer: the first DISPATCHED command with an amount and the
\* number of the SMS.
PickTransferred ==
  \E amount \in Amounts[turn.n] :
    LET matching == {n \in turn.todo : /\ job[n].status = "DISPATCHED"
                                       /\ amount \in Amounts[n]
                                       /\ Dest[n] = Dest[turn.n]} IN
      IF matching = {} THEN Done
      ELSE Continue([turn EXCEPT !.at = "get", !.n = First(matching)])

\* The reads of a list.  A job removed since its id was read makes the list
\* throw and ends the handler.
ReadList ==
  /\ At("read")
  /\ IF \E n \in turn.todo : job[n] = None THEN Done
     ELSE \/ turn.kind = "next" /\ PickNext
          \/ turn.kind = "transfer" /\ PickTransferred
          \/ turn.kind = "sweep" /\ SweepNext({[n |-> n, attempts |-> job[n].attempts] :
               n \in {m \in turn.todo : job[m].status = "DISPATCHED" /\ job[m].due}})
  /\ UNCHANGED <<job, enqueued, phone, told>>

\* save: an existing job is updated, a missing one added.
LookUp ==
  /\ At("getJob")
  /\ Then(IF job[turn.n] # None THEN "update" ELSE "add")
  /\ UNCHANGED <<job, enqueued, phone, told>>

\* The saved command: the phone gets it, the sweep goes on.
Saved ==
  /\ IF turn.kind = "sweep" THEN SweepNext(turn.overdue) ELSE Done
  /\ IF turn.kind = "next"
     THEN /\ handed' = [handed EXCEPT ![turn.n] = @ + 1]
          /\ toExecute' = [toExecute EXCEPT ![turn.n] = @ + 1]
     ELSE UNCHANGED <<handed, toExecute>>
  /\ UNCHANGED <<delivered, answers, receipts>>

\* updateData throws when the job is gone; that ends the handler.
Update ==
  /\ At("update")
  /\ \/ /\ job[turn.n] # None
        /\ job' = [job EXCEPT ![turn.n] = turn.data]
        /\ Saved
     \/ /\ job[turn.n] = None
        /\ Done
        /\ UNCHANGED <<job, phone>>
  /\ UNCHANGED <<enqueued, told>>

\* add leaves a job that came to be meanwhile as it is.
Add ==
  /\ At("add")
  /\ job' = IF job[turn.n] = None THEN [job EXCEPT ![turn.n] = turn.data] ELSE job
  /\ Saved
  /\ UNCHANGED <<enqueued, told>>

\* ack: an unknown command is a 404.
Get ==
  /\ At("get")
  /\ IF job[turn.n] = None THEN Done ELSE Then("remove")
  /\ UNCHANGED <<job, enqueued, phone, told>>

\* Mutant: the sweep does not announce.
Remove_Silent ==
  /\ At("remove")
  /\ job' = [job EXCEPT ![turn.n] = None]
  /\ IF turn.kind = "sweep" THEN UNCHANGED told ELSE Announce(turn.n, turn.ok)
  /\ IF turn.kind = "sweep" THEN SweepNext(turn.overdue) ELSE Done
  /\ UNCHANGED <<enqueued, phone>>

\* ack and the last timeout announce, whether or not the job was still there.
Remove ==
  /\ At("remove")
  /\ job' = [job EXCEPT ![turn.n] = None]
  /\ Announce(turn.n, turn.ok)
  /\ IF turn.kind = "sweep" THEN SweepNext(turn.overdue) ELSE Done
  /\ UNCHANGED <<enqueued, phone>>

-----------------------------------------------------------------------------
(* The phone and time.                                                     *)

\* The phone runs the USSD: the megas go, with an SMS from the operator, or it
\* fails.  It may take a success for a failure, never the reverse, and its
\* answer may be sent late or never.
Execute(n) ==
  /\ toExecute[n] > 0
  /\ toExecute' = [toExecute EXCEPT ![n] = @ - 1]
  /\ \E gone \in SUBSET {n}, ok \in BOOLEAN :
       /\ ok => n \in gone
       /\ answers' = answers \cup {[n |-> n, ok |-> ok]}
       /\ delivered' = delivered \cup gone
       /\ receipts' = receipts \cup gone
  /\ UNCHANGED <<job, enqueued, wire, handed, told>>

\* A dispatched command waits too long.
TimePasses(n) ==
  /\ job[n] # None
  /\ job[n].status = "DISPATCHED" /\ ~job[n].due
  /\ job' = [job EXCEPT ![n].due = TRUE]
  /\ UNCHANGED <<enqueued, wire, phone, told>>

-----------------------------------------------------------------------------
Command ==
  ListIds \/ ReadList \/ LookUp \/ Update \/ Add \/ Get \/ Remove

Next ==
  \/ Enqueue \/ Poll \/ StartSweep
  \/ \E a \in answers : SendAnswer(a)
  \/ Command
  \/ \E n \in Cmd : ReportTransfer(n) \/ Execute(n) \/ TimePasses(n)

Spec == Init /\ [][Next]_vars

\* Redis answers, the timer fires, the phone polls and time passes; the phone
\* need neither transfer nor answer.
FairSpec ==
  /\ Spec
  /\ WF_vars(Command)
  /\ SF_vars(StartSweep)
  /\ SF_vars(Poll)
  /\ \A n \in Cmd : SF_vars(TimePasses(n))

-----------------------------------------------------------------------------
\* A command is handed to the phone MaxAttempts times at most, however late
\* answers, receipts and the sweep cross a poll (dequeueNext, checkTimedOut).
HandedBounded == \A n \in Cmd : handed[n] <= MaxAttempts

\* The SMS of command m's transfer may be taken for that of command n.
Alike(m, n) == m = n \/ (Dest[m] = Dest[n] /\ Amounts[m] \cap Amounts[n] # {})

\* The customer is told "delivered" only of megas that were transferred, by an
\* answer or by the SMS matched to the command (ackMatchingTransfer): those of
\* the command itself or, as an SMS says no more than a number and an amount,
\* those of another command to that number that has an amount in common.
CompletedIsDelivered ==
  \A n \in Cmd : "COMPLETED" \in told[n] => \E m \in delivered : Alike(m, n)

\* A command leaves the store only when its outcome was announced.
LeavesAnnounced ==
  \A n \in 1..enqueued :
    \/ job[n] # None
    \/ told[n] # {}
    \/ \E handler \in UnderWay : handler.kind = "enqueue" /\ handler.n = n

\* The phone gets the commands for the first time in the order they were
\* enqueued, whatever is enqueued or polled meanwhile (save, dequeueNext).
FirstEnqueuedFirstHanded ==
  \A n, m \in Cmd : n < m /\ handed[m] > 0 => handed[n] > 0

\* Every command comes to an end the customer hears of, even if the phone
\* never answers.
EveryCommandEnds == \A n \in Cmd : enqueued >= n ~> told[n] # {}
=============================================================================
