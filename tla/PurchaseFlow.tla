---------------------------- MODULE PurchaseFlow ----------------------------
(***************************************************************************)
(* The purchase flow of the Node gateway when payments stay local (no      *)
(* Spring Core): PurchaseFlowCoordinator, SessionManager,                  *)
(* PendingTransactionManager and UssdCommandQueue over their in-memory     *)
(* stores, joined by the EventBus, between the customers on WhatsApp and   *)
(* the reseller's phone that runs Tasker.                                  *)
(*                                                                         *)
(* Granularity.  In-memory stores answer in microtasks, so a handler and   *)
(* the event handlers it wakes run to the end before the next HTTP request *)
(* or timer: one action.  The one await that lets others in is the reply   *)
(* "claimRegistered" (WhatsApp I/O) that registerAndAdvance awaits before  *)
(* it advances a claim that met its SMS already there: "replying" holds    *)
(* the claims between the two halves.  A batch of WhatsApp messages is     *)
(* taken one message at a time here.  A store on Redis is taken as durable *)
(* and answering at once; PendingStore and UssdQueue take it command by    *)
(* command.                                                                *)
(*                                                                         *)
(* Time is abstracted: a timer may find an entry overdue at any moment     *)
(* after the entry was made.                                               *)
(*                                                                         *)
(* A definition named X_Y is X with a fault, for the runs that show that a *)
(* property notices it; no specification uses it.                          *)
(***************************************************************************)
EXTENDS Naturals, Sequences, SessionStates

CONSTANTS
  Ctx,          \* context keys: the chats
  Id,           \* M-Pesa transaction ids of payments the reseller received
  Amount,       \* amounts
  Phone,        \* destination numbers
  Paid,         \* Paid[i]: the amount the real SMS of payment i carries
  Claims,       \* the claims customers may write, see Claim below
  MaxAttempts,  \* USSD_COMMAND_MAX_ATTEMPTS
  Patient,      \* TRUE: a customer starts a purchase only after the last ended
  Durable,      \* the stores on Redis: "pending", "queue" (*_STORE settings)
  MaxRestarts,  \* bound on the restarts of the gateway
  NoId, NoPhone, None

\* What MpesaParser makes of a claim: the text may lack the id or the number.
Claim == [ctx: Ctx, id: Id \cup {NoId}, amount: Amount, dest: Phone \cup {NoPhone}]

ASSUME ConstantsAssumption ==
  /\ Paid \in [Id -> Amount]
  /\ Claims \subseteq Claim
  /\ MaxAttempts \in Nat \ {0}
  /\ Patient \in BOOLEAN
  /\ Durable \subseteq {"pending", "queue"}
  /\ MaxRestarts \in Nat
  /\ NoId \notin Id
  /\ NoPhone \notin Phone
  /\ None \notin Claim

VARIABLES
  session,   \* Ctx -> state of the session (SessionManager)
  destReq,   \* Ctx -> claim waiting for a destination (pendingDestinationRequests)
  pending,   \* Id -> claim waiting for its SMS (store, pending)
  orphan,    \* ids whose SMS waits for a claim (store, orphanReal)
  used,      \* ids already matched (store, used)
  replying,  \* verified claims whose "claimRegistered" reply is on its way
  commands,  \* every command ever enqueued, in order; finished ones left the store
  claimed,   \* history: claims given to registerClaim
  reported,  \* history: ids whose real SMS was reported
  restarts   \* history: restarts so far

stores == <<pending, orphan, used>>
vars == <<session, destReq, pending, orphan, used, replying, commands,
          claimed, reported, restarts>>

Live == {"PENDING", "DISPATCHED"}
\* LOST: gone from a store that did not survive a restart.
CommandStatus == Live \cup {"COMPLETED", "FAILED", "TIMED_OUT", "LOST"}
\* A UssdCommand: its purchase, which never changes, and its progress.
Command == [order: Claim, status: CommandStatus, attempts: Nat]

TypeOK ==
  /\ session \in [Ctx -> SessionState]
  /\ destReq \in [Ctx -> Claim \cup {None}]
  /\ pending \in [Id -> Claim \cup {None}]
  /\ orphan \subseteq Id
  /\ used \subseteq Id
  /\ replying \subseteq Claim
  /\ commands \in Seq(Command)
  /\ claimed \subseteq Claim
  /\ reported \subseteq Id
  /\ restarts \in 0..MaxRestarts

Init ==
  /\ session = [c \in Ctx |-> "IDLE"]
  /\ destReq = [c \in Ctx |-> None]
  /\ pending = [i \in Id |-> None]
  /\ orphan = {}
  /\ used = {}
  /\ replying = {}
  /\ commands = <<>>
  /\ claimed = {}
  /\ reported = {}
  /\ restarts = 0

-----------------------------------------------------------------------------
(* Steps shared by the handlers.                                           *)

\* SessionManager.transition, which may throw.
Transition(c, to) == session' = [session EXCEPT ![c] = Moved(@, to)]

\* Mutant: the order is placed without moving the session.
AdvanceToProcessing_SessionKept(k) ==
  /\ UNCHANGED session
  /\ commands' = IF CanMove(session[k.ctx], "PROCESSING")
                 THEN Append(commands,
                             [order |-> k, status |-> "PENDING", attempts |-> 0])
                 ELSE commands

\* advanceToProcessing: a session that cannot move to PROCESSING throws, and
\* the verified payment gets no command.
AdvanceToProcessing(k) ==
  /\ Transition(k.ctx, "PROCESSING")
  /\ commands' = IF CanMove(session[k.ctx], "PROCESSING")
                 THEN Append(commands,
                             [order |-> k, status |-> "PENDING", attempts |-> 0])
                 ELSE commands

\* registerClaim refuses: no id, an id already used, or an orphan SMS of
\* another amount, which is dropped all the same.
RejectClaim(k) ==
  /\ \/ /\ k.id \in used \cup {NoId}
        /\ UNCHANGED orphan
     \/ /\ k.id \in orphan \ used
        /\ k.amount # Paid[k.id]
        /\ orphan' = orphan \ {k.id}
  /\ Transition(k.ctx, "NOT_FOUND")
  /\ UNCHANGED <<pending, used, replying>>

\* Mutant: finalizeMatch forgets markUsed.
MatchOrphan_Unmarked(k) ==
  /\ k.id \in orphan \ used
  /\ k.amount = Paid[k.id]
  /\ orphan' = orphan \ {k.id}
  /\ Transition(k.ctx, "AWAITING_VERIFICATION")
  /\ replying' = IF CanMove(session[k.ctx], "AWAITING_VERIFICATION")
                 THEN replying \cup {k} ELSE replying
  /\ UNCHANGED <<pending, used>>

\* Mutant: isUsed is not asked, a repeated SMS pays again.
MatchOrphan_UsedUnchecked(k) ==
  /\ k.id \in orphan
  /\ k.amount = Paid[k.id]
  /\ orphan' = orphan \ {k.id}
  /\ used' = used \cup {k.id}
  /\ Transition(k.ctx, "AWAITING_VERIFICATION")
  /\ replying' = IF CanMove(session[k.ctx], "AWAITING_VERIFICATION")
                 THEN replying \cup {k} ELSE replying
  /\ UNCHANGED pending

\* Mutant: the amounts are not compared.
MatchOrphan_AnyAmount(k) ==
  /\ k.id \in orphan \ used
  /\ orphan' = orphan \ {k.id}
  /\ used' = used \cup {k.id}
  /\ Transition(k.ctx, "AWAITING_VERIFICATION")
  /\ replying' = IF CanMove(session[k.ctx], "AWAITING_VERIFICATION")
                 THEN replying \cup {k} ELSE replying
  /\ UNCHANGED pending

\* registerClaim meets an orphan SMS: verified at once.  When the session
\* cannot move the handler throws, the id is used and nothing follows.
MatchOrphan(k) ==
  /\ k.id \in orphan \ used
  /\ k.amount = Paid[k.id]
  /\ orphan' = orphan \ {k.id}
  /\ used' = used \cup {k.id}
  /\ Transition(k.ctx, "AWAITING_VERIFICATION")
  /\ replying' = IF CanMove(session[k.ctx], "AWAITING_VERIFICATION")
                 THEN replying \cup {k} ELSE replying
  /\ UNCHANGED pending

\* Mutant: a claim without an id is kept too.
KeepClaim_IdUnchecked(k) ==
  /\ k.id \notin used \cup orphan
  /\ pending' = [i \in Id \cup {k.id} |-> IF i = k.id THEN k ELSE pending[i]]
  /\ Transition(k.ctx, "AWAITING_VERIFICATION")
  /\ UNCHANGED <<orphan, used, replying>>

\* registerClaim keeps the claim, over any other claim of the same id.
KeepClaim(k) ==
  /\ k.id \in Id \ (used \cup orphan)
  /\ pending' = [pending EXCEPT ![k.id] = k]
  /\ Transition(k.ctx, "AWAITING_VERIFICATION")
  /\ UNCHANGED <<orphan, used, replying>>

RegisterAndAdvance(k) ==
  /\ RejectClaim(k) \/ MatchOrphan(k) \/ KeepClaim(k)
  /\ claimed' = claimed \cup {k}
  /\ UNCHANGED <<commands, reported, restarts>>

-----------------------------------------------------------------------------
(* The customer.                                                           *)

\* Nothing of customer c's earlier purchases is still under way.
AtRest(c) ==
  /\ destReq[c] = None
  /\ \A i \in Id : pending[i] # None => pending[i].ctx # c
  /\ \A k \in replying : k.ctx # c
  /\ \A n \in DOMAIN commands :
       commands[n].order.ctx = c => commands[n].status \notin Live

\* A claim arrives.  While PROCESSING it is ignored; without a destination
\* number the request is noted first and the session moved second, so that a
\* transition that throws leaves a request nobody was asked.
OnMessageReceived(k) ==
  /\ Patient => AtRest(k.ctx)
  /\ destReq[k.ctx] = None
  /\ session[k.ctx] # "PROCESSING"
  /\ \/ /\ k.dest = NoPhone
        /\ destReq' = [destReq EXCEPT ![k.ctx] = k]
        /\ Transition(k.ctx, "AWAITING_DESTINATION_NUMBER")
        /\ UNCHANGED <<stores, replying, commands, claimed, reported, restarts>>
     \/ /\ k.dest # NoPhone
        /\ RegisterAndAdvance(k)
        /\ UNCHANGED destReq

\* Mutant: the request is not forgotten.
OnDestinationNumberReply_RequestKept(c, p) ==
  /\ destReq[c] # None
  /\ RegisterAndAdvance([destReq[c] EXCEPT !.dest = p])
  /\ UNCHANGED destReq

\* With a request noted, any message is read as the number asked for.
OnDestinationNumberReply(c, p) ==
  /\ destReq[c] # None
  /\ destReq' = [destReq EXCEPT ![c] = None]
  /\ RegisterAndAdvance([destReq[c] EXCEPT !.dest = p])

OnInvalidDestinationReply(c) ==
  /\ destReq[c] # None
  /\ Transition(c, "AWAITING_DESTINATION_NUMBER")
  /\ UNCHANGED <<destReq, stores, replying, commands, claimed, reported, restarts>>

\* Mutant: a reply that fails ends the handler.
OnReplySent_Failed(k) ==
  /\ k \in replying
  /\ replying' = replying \ {k}
  /\ UNCHANGED <<session, commands, destReq, stores, claimed, reported, restarts>>

\* "claimRegistered" was sent (or failed): a claim verified in registerClaim
\* goes on.
OnReplySent(k) ==
  /\ k \in replying
  /\ replying' = replying \ {k}
  /\ AdvanceToProcessing(k)
  /\ UNCHANGED <<destReq, stores, claimed, reported, restarts>>

-----------------------------------------------------------------------------
(* The reseller's phone reports a received payment; Tasker may repeat it.  *)

\* Mutant: the matched claim is not deleted.
SmsReport_ClaimKept(i) ==
  /\ reported' = reported \cup {i}
  /\ pending[i] # None
  /\ pending[i].amount = Paid[i]
  /\ used' = used \cup {i}
  /\ AdvanceToProcessing(pending[i])
  /\ UNCHANGED <<destReq, pending, orphan, replying, claimed, restarts>>

SmsReport(i) ==
  /\ reported' = reported \cup {i}
  /\ \/ /\ pending[i] = None
        /\ orphan' = orphan \cup {i}
        /\ UNCHANGED <<session, pending, used, commands>>
     \/ /\ pending[i] # None
        /\ pending' = [pending EXCEPT ![i] = None]
        /\ UNCHANGED orphan
        /\ \/ /\ pending[i].amount = Paid[i]
              /\ used' = used \cup {i}
              /\ AdvanceToProcessing(pending[i])
           \/ /\ pending[i].amount # Paid[i]
              /\ Transition(pending[i].ctx, "NOT_FOUND")
              /\ UNCHANGED <<used, commands>>
  /\ UNCHANGED <<destReq, replying, claimed, restarts>>

\* Mutant: the claim expires and CLAIM_EXPIRED is not emitted.
ExpireClaim_Silent(i) ==
  /\ pending[i] # None
  /\ pending' = [pending EXCEPT ![i] = None]
  /\ UNCHANGED <<session, destReq, orphan, used, replying, commands, claimed,
                 reported, restarts>>

\* checkExpired drops a claim no SMS confirmed, and CLAIM_EXPIRED follows.
ExpireClaim(i) ==
  /\ pending[i] # None
  /\ pending' = [pending EXCEPT ![i] = None]
  /\ Transition(pending[i].ctx, "NOT_FOUND")
  /\ UNCHANGED <<destReq, orphan, used, replying, commands, claimed, reported, restarts>>

\* checkExpired drops an SMS no claim asked for.
ExpireOrphan(i) ==
  /\ i \in orphan
  /\ orphan' = orphan \ {i}
  /\ UNCHANGED <<session, destReq, pending, used, replying, commands,
                 claimed, reported, restarts>>

-----------------------------------------------------------------------------
(* The USSD queue and the phone that executes its commands.                *)

SetCommand(n, status, attempts) ==
  commands' = [commands EXCEPT ![n] =
                [@ EXCEPT !.status = status, !.attempts = attempts]]

\* Mutant: any PENDING command is taken.
DequeueNext_Any ==
  /\ \E n \in DOMAIN commands :
       /\ commands[n].status = "PENDING"
       /\ SetCommand(n, "DISPATCHED", commands[n].attempts + 1)
  /\ UNCHANGED <<session, destReq, stores, replying, claimed, reported, restarts>>

\* The phone polls: the first PENDING command is dispatched to it.
DequeueNext ==
  /\ \E n \in DOMAIN commands :
       /\ commands[n].status = "PENDING"
       /\ \A m \in 1..(n - 1) : commands[m].status # "PENDING"
       /\ SetCommand(n, "DISPATCHED", commands[n].attempts + 1)
  /\ UNCHANGED <<session, destReq, stores, replying, claimed, reported, restarts>>

\* Mutant: a command that already ended is acknowledged again.
Ack_Ended(n, success) ==
  /\ commands[n].attempts > 0
  /\ SetCommand(n, IF success THEN "COMPLETED" ELSE "FAILED", commands[n].attempts)
  /\ Transition(commands[n].order.ctx, IF success THEN "COMPLETED" ELSE "NOT_FOUND")
  /\ UNCHANGED <<destReq, stores, replying, claimed, reported, restarts>>

\* Mutant: the coordinator misses USSD_COMPLETED and USSD_FAILED.
Ack_Unheard(n, success) ==
  /\ commands[n].status \in Live
  /\ commands[n].attempts > 0
  /\ SetCommand(n, IF success THEN "COMPLETED" ELSE "FAILED", commands[n].attempts)
  /\ UNCHANGED <<session, destReq, stores, replying, claimed, reported, restarts>>

\* The phone answers for a command it was given.  The queue asks only that
\* the command is still stored, be it DISPATCHED or back to PENDING.
Ack(n, success) ==
  /\ commands[n].status \in Live
  /\ commands[n].attempts > 0
  /\ SetCommand(n, IF success THEN "COMPLETED" ELSE "FAILED", commands[n].attempts)
  /\ Transition(commands[n].order.ctx, IF success THEN "COMPLETED" ELSE "NOT_FOUND")
  /\ UNCHANGED <<destReq, stores, replying, claimed, reported, restarts>>

\* Mutant: one attempt too many.
CheckTimedOut_OneMore(n) ==
  /\ commands[n].status = "DISPATCHED"
  /\ commands[n].attempts <= MaxAttempts
  /\ SetCommand(n, "PENDING", commands[n].attempts)
  /\ UNCHANGED <<session, destReq, stores, replying, claimed, reported, restarts>>

\* Mutant: after the last attempt nothing happens.
CheckTimedOut_LastIgnored(n) ==
  /\ commands[n].status = "DISPATCHED"
  /\ commands[n].attempts < MaxAttempts
  /\ SetCommand(n, "PENDING", commands[n].attempts)
  /\ UNCHANGED <<session, destReq, stores, replying, claimed, reported, restarts>>

\* checkTimedOut finds no answer in time: again, or FAILED after the last try.
CheckTimedOut(n) ==
  /\ commands[n].status = "DISPATCHED"
  /\ \/ /\ commands[n].attempts < MaxAttempts
        /\ SetCommand(n, "PENDING", commands[n].attempts)
        /\ UNCHANGED session
     \/ /\ commands[n].attempts >= MaxAttempts
        /\ SetCommand(n, "TIMED_OUT", commands[n].attempts)
        /\ Transition(commands[n].order.ctx, "NOT_FOUND")
  /\ UNCHANGED <<destReq, stores, replying, claimed, reported, restarts>>

-----------------------------------------------------------------------------
(* The gateway process restarts between two handlers: what lived in memory *)
(* is gone, sessions and open requests always.                             *)

Restart ==
  /\ restarts < MaxRestarts
  /\ restarts' = restarts + 1
  /\ session' = [c \in Ctx |-> "IDLE"]
  /\ destReq' = [c \in Ctx |-> None]
  /\ replying' = {}
  /\ IF "pending" \in Durable
     THEN UNCHANGED stores
     ELSE pending' = [i \in Id |-> None] /\ orphan' = {} /\ used' = {}
  /\ IF "queue" \in Durable
     THEN UNCHANGED commands
     ELSE commands' = [n \in DOMAIN commands |->
                        IF commands[n].status \in Live
                        THEN [commands[n] EXCEPT !.status = "LOST"]
                        ELSE commands[n]]
  /\ UNCHANGED <<claimed, reported>>

-----------------------------------------------------------------------------
Customer ==
  \/ \E k \in Claims : OnMessageReceived(k)
  \/ \E c \in Ctx, p \in Phone : OnDestinationNumberReply(c, p)
  \/ \E c \in Ctx : OnInvalidDestinationReply(c)

Gateway ==
  \/ \E k \in replying : OnReplySent(k)
  \/ \E i \in Id : ExpireClaim(i) \/ ExpireOrphan(i)
  \/ \E n \in DOMAIN commands : CheckTimedOut(n)

ResellerPhone ==
  \/ \E i \in Id : SmsReport(i)
  \/ DequeueNext
  \/ \E n \in DOMAIN commands, success \in BOOLEAN : Ack(n, success)

Next == Customer \/ Gateway \/ ResellerPhone \/ Restart

Spec == Init /\ [][Next]_vars

\* Replies end, the timers of index.js keep firing and the phone keeps
\* polling.  Nothing is assumed of customers, nor of the phone answering.
FairSpec ==
  /\ Spec
  /\ WF_vars(\E k \in replying : OnReplySent(k))
  /\ \A i \in Id : WF_vars(ExpireClaim(i))
  /\ WF_vars(\E n \in DOMAIN commands : CheckTimedOut(n))
  /\ WF_vars(DequeueNext)

-----------------------------------------------------------------------------
(* Properties of every instance.                                           *)

\* The three stores never disagree about a payment: a used id has no claim
\* waiting, and a claim and an SMS of one payment never wait side by side.
\* (registerClaim and resolveWithRealTransaction, in whichever order.)
StoresExclusive ==
  \A i \in Id : pending[i] # None => i \notin used \cup orphan

\* Whatever waits or was ordered has its evidence: a waiting claim was made
\* for its id; an orphan was reported; a claim verified in registerClaim is
\* the only one of its payment, used already and not ordered yet.
Evidence ==
  /\ \A i \in Id : pending[i] # None => pending[i].id = i /\ pending[i] \in claimed
  /\ orphan \subseteq reported
  /\ \A k \in replying :
       /\ k \in claimed /\ k.id \in reported /\ k.amount = Paid[k.id]
       /\ k.id \in used
       /\ \A l \in replying : l.id = k.id => l = k
       /\ \A n \in DOMAIN commands : commands[n].order.id # k.id
  /\ \A n \in DOMAIN commands : commands[n].order.id \in used

\* A payment is ordered at most once, whatever is repeated, claimed by two
\* customers or reported twice (idempotency by transaction id).
OneCommandPerPayment ==
  \A n, m \in DOMAIN commands : commands[n].order.id = commands[m].order.id => n = m

\* A customer shown as being served is being served: PROCESSING only while a
\* command of that context is in the queue (no handler forgets one half).
ProcessingHasCommand ==
  \A c \in Ctx : session[c] = "PROCESSING" =>
    \E n \in DOMAIN commands :
      commands[n].order.ctx = c /\ commands[n].status \in Live

\* The phone gets the commands in the order they were paid for, retries and
\* timeouts notwithstanding; only one that a restart lost is passed over.
FirstPaidFirstDispatched ==
  \A n, m \in DOMAIN commands :
    n < m /\ commands[m].attempts > 0 =>
      commands[n].attempts > 0 \/ commands[n].status = "LOST"

\* A command is given to the phone MaxAttempts times at most: by default once,
\* for a second dispatch may deliver twice (dequeueNext, checkTimedOut).
AttemptsBounded ==
  \A n \in DOMAIN commands :
    /\ commands[n].attempts <= MaxAttempts
    /\ commands[n].status = "PENDING" => commands[n].attempts < MaxAttempts

\* A command ends once: a late answer, a timeout and a retry never overturn
\* the outcome its customer was told (ack and checkTimedOut).
EndsOnce ==
  [][\A n \in DOMAIN commands :
       commands[n].status \notin Live => commands'[n] = commands[n]]_vars

\* A request for a destination number is one the customer is asked when it is
\* noted, and stays asked until it is answered: nothing that happens to the
\* customer's other purchases meanwhile moves the session.  One noted while an
\* earlier claim awaits verification is the only one nobody was asked for
\* (#onMessageReceived notes it before the transition that throws).
RequestedIsAsked ==
  [][\A c \in Ctx : destReq'[c] # None =>
       \/ session'[c] = "AWAITING_DESTINATION_NUMBER"
       \/ destReq'[c] = destReq[c] /\ session[c] # "AWAITING_DESTINATION_NUMBER"
       \/ destReq[c] = None /\ session[c] = "AWAITING_VERIFICATION"]_vars

\* The flow keeps PaymentPromise.
Promise ==
  INSTANCE PaymentPromise WITH
    bought <- [n \in DOMAIN commands |-> commands[n].order]
KeepsPromise == Promise!PromiseSpec

\* No customer is left in PROCESSING, even if the phone never answers.
ProcessingEnds ==
  \A c \in Ctx : session[c] = "PROCESSING" ~> session[c] # "PROCESSING"

-----------------------------------------------------------------------------
(* Properties of customers who make one purchase at a time (Patient).      *)

Ordered == {commands[n].order.id : n \in DOMAIN commands}

\* A payment marked used has its command, or is about to: money taken is
\* never silently dropped (advanceToProcessing).
UsedIsOrdered == used \subseteq Ordered \cup {k.id : k \in replying}

\* The session and the queue agree on who is being served, both ways.
SessionTracksQueue ==
  \A c \in Ctx : session[c] = "PROCESSING" <=>
    \E n \in DOMAIN commands :
      commands[n].order.ctx = c /\ commands[n].status \in Live

\* A matched payment is delivered or its customer told of the failure.
PaidConcludes ==
  \A i \in Id : i \in used ~>
    \E n \in DOMAIN commands :
      commands[n].order.id = i /\ commands[n].status \notin Live

\* When no other customer claims the same payment, nobody waits for a
\* verification forever (CLAIM_EXPIRED or CLAIM_VERIFIED comes).
WaitingEnds ==
  \A c \in Ctx :
    session[c] = "AWAITING_VERIFICATION" ~> session[c] # "AWAITING_VERIFICATION"

-----------------------------------------------------------------------------
(* What the repository says and the code does not keep.                    *)

\* "um cenario perfeitamente normal (cliente manda duas transferencias
\* seguidas)": once every payment is matched, every payment has its command.
TransfersInARowServed == used = Id /\ replying = {} => Ordered = Id
=============================================================================
