---------------------------- MODULE PendingStore ----------------------------
(***************************************************************************)
(* PendingTransactionManager over RedisPendingTransactionStore, one Redis  *)
(* command at a time, with the coordinator's reaction to what it decides.  *)
(*                                                                         *)
(* The two sides of a payment are treated alike: what arrives (a claim, an *)
(* SMS) looks for the other side; found, it is deleted and the two are     *)
(* matched; not found, what arrived is kept.                               *)
(*                                                                         *)
(* A definition named X_Y is X with a fault, for the runs that show that a *)
(* property notices it; no specification uses it.                          *)
(***************************************************************************)
EXTENDS Connection, SessionStates

CONSTANTS
  Ctx,         \* context keys: the chats
  Id,          \* transaction ids, ordered as the sweep sorts them
  Paid,        \* Paid[i]: the amount of payment i
  Claims,      \* the claims customers send: [ctx, id, amount]
  MaxSent,     \* bound: how often each claim is sent
  MaxReports,  \* bound: how often the phone reports each payment
  MaxCrashes,  \* bound on the crashes of the gateway
  None

ASSUME StoreAssumption ==
  /\ Id \subseteq Nat
  /\ \A k \in Claims : k.ctx \in Ctx /\ k.id \in Id
  /\ MaxSent \in [Claims -> Nat] /\ MaxReports \in [Id -> Nat]
  /\ MaxHandlers \in Nat \ {0} /\ MaxCrashes \in Nat
  /\ None \notin Claims

VARIABLES
  key,       \* key[side][i]: the entry of payment i on that side, or None
  index,     \* index[side]: the SET of ids the sweep looks at
  used,      \* ids matched
  session,   \* the sessions, in memory
  replying,  \* verified claims whose "claimRegistered" reply is on its way
  ordered,   \* the claims that got a USSD command, in order
  sent, reports, crashes,  \* counters for the bounds
  overlapped, \* history: payments with two handlers under way at some time
  received,  \* history: payments whose SMS was answered
  closed     \* history: payments given up aloud: wrong amount, SMS expired

redis == <<key, index, used>>
coordinator == <<session, replying, ordered>>
bounds == <<sent, reports, crashes>>
history == <<overlapped, received, closed>>
vars == <<redis, wire, coordinator, bounds, history>>

Side == {"pending", "orphan"}
Other == [pending |-> "orphan", orphan |-> "pending"]

\* A claim waiting, or an SMS waiting (claim None); due: its time has run out.
Entry == [claim: Claims \cup {None}, due: BOOLEAN]

ASSUME NoneAssumption == None \notin Entry /\ None \notin Id

\* A handler and its next command.  side: the side that arrived (sweep: the
\* side it is looking at); todo, due: the ids a sweep must read, the entries
\* it found overdue.
Handler ==
  [kind: {"claim", "sms", "sweep"},
   at: {"isUsed", "get", "set", "sadd", "del", "srem", "markUsed",
        "ids", "read", "stale", "expire", "unindex"},
   side: Side, id: Id \cup {None}, claim: Claims \cup {None},
   todo: SUBSET Id, due: SUBSET [id: Id, claim: Claims \cup {None}]]

TypeOK ==
  /\ key \in [Side -> [Id -> Entry \cup {None}]]
  /\ index \in [Side -> SUBSET Id]
  /\ used \subseteq Id
  /\ wire \in Seq(Handler)
  /\ session \in [Ctx -> SessionState]
  /\ replying \in [Claims -> Nat]
  /\ ordered \in Seq(Claims)
  /\ overlapped \subseteq Id /\ received \subseteq Id /\ closed \subseteq Id

Init ==
  /\ key = [s \in Side |-> [i \in Id |-> None]]
  /\ index = [s \in Side |-> {}]
  /\ used = {}
  /\ wire = <<>>
  /\ session = [c \in Ctx |-> "IDLE"]
  /\ replying = [k \in Claims |-> 0]
  /\ ordered = <<>>
  /\ sent = [k \in Claims |-> 0]
  /\ reports = [i \in Id |-> 0]
  /\ crashes = 0
  /\ overlapped = {}
  /\ received = {}
  /\ closed = {}

-----------------------------------------------------------------------------
(* Handlers begin.                                                         *)

\* A handler joins the wire; overlapped notes that it was not alone.
Begin(handler) ==
  /\ Join(handler)
  /\ overlapped' = overlapped \cup
       {i \in {handler.id} \ {None} : \E other \in UnderWay : other.id = i}


\* A claim is registered, unless its customer is PROCESSING.
RegisterClaim(k) ==
  /\ sent[k] < MaxSent[k]
  /\ sent' = [sent EXCEPT ![k] = @ + 1]
  /\ session[k.ctx] # "PROCESSING"
  /\ Begin([kind |-> "claim", at |-> "isUsed", side |-> "pending",
            id |-> k.id, claim |-> k, todo |-> {}, due |-> {}])
  /\ UNCHANGED <<redis, coordinator, reports, crashes, received, closed>>

\* The phone reports the SMS of payment i, for the first time or again.
ResolveWithRealTransaction(i) ==
  /\ reports[i] < MaxReports[i]
  /\ reports' = [reports EXCEPT ![i] = @ + 1]
  /\ Begin([kind |-> "sms", at |-> "get", side |-> "orphan",
            id |-> i, claim |-> None, todo |-> {}, due |-> {}])
  /\ UNCHANGED <<redis, coordinator, sent, crashes, received, closed>>

\* The timer starts checkExpired; a sweep ends long before the next begins.
CheckExpired ==
  /\ \A other \in UnderWay : other.kind # "sweep"
  /\ Begin([kind |-> "sweep", at |-> "ids", side |-> "pending",
            id |-> None, claim |-> None, todo |-> {}, due |-> {}])
  /\ UNCHANGED <<redis, coordinator, bounds, received, closed>>

-----------------------------------------------------------------------------
(* One command is executed and its handler goes on.                        *)

SetKey(side, i, entry) == key' = [key EXCEPT ![side][i] = entry]
Unindex(side, i) == index' = [index EXCEPT ![side] = @ \ {i}]
Transition(c, to) == session' = [session EXCEPT ![c] = Moved(@, to)]

\* The SMS handler ends and the phone gets its answer.
Answered == received' = IF turn.kind = "sms" THEN received \cup {turn.id} ELSE received

\* Mutant: the answer of isUsed is not looked at.
IsUsed_Ignored ==
  /\ At("isUsed")
  /\ Then("get")
  /\ UNCHANGED <<redis, coordinator, bounds, history>>

\* registerClaim refuses an id already used.
IsUsed ==
  /\ At("isUsed")
  /\ \/ turn.id \in used /\ Done /\ Transition(turn.claim.ctx, "NOT_FOUND")
     \/ turn.id \notin used /\ Then("get") /\ UNCHANGED session
  /\ UNCHANGED <<redis, replying, ordered, bounds, history>>

\* getOrphanReal by a claim, get by an SMS.
GetOther ==
  /\ At("get")
  /\ LET entry == key[Other[turn.side]][turn.id] IN
       \/ entry = None /\ Then("set")
       \/ entry # None /\ turn.kind = "claim" /\ Then("del")
       \/ entry # None /\ turn.kind = "sms"
          /\ Continue([turn EXCEPT !.at = "del", !.claim = entry.claim])
  /\ UNCHANGED <<redis, coordinator, bounds, history>>

\* Mutant: the claim is stored without its time.
SetOwn_Bare ==
  /\ At("set")
  /\ SetKey(turn.side, turn.id, turn.claim)
  /\ Then("sadd")
  /\ UNCHANGED <<index, used, coordinator, bounds, history>>

\* Mutant: an SMS without a claim is dropped.
SetOwn_SmsDropped ==
  /\ At("set")
  /\ IF turn.kind = "sms" THEN UNCHANGED key
     ELSE SetKey(turn.side, turn.id, [claim |-> turn.claim, due |-> FALSE])
  /\ Then("sadd")
  /\ UNCHANGED <<index, used, coordinator, bounds, history>>

\* set and setOrphanReal: the entry, then the index.
SetOwn ==
  /\ At("set")
  /\ SetKey(turn.side, turn.id, [claim |-> turn.claim, due |-> FALSE])
  /\ Then("sadd")
  /\ UNCHANGED <<index, used, coordinator, bounds, history>>

IndexOwn ==
  /\ At("sadd")
  /\ index' = [index EXCEPT ![turn.side] = @ \cup {turn.id}]
  /\ Done
  /\ Answered
  /\ IF turn.kind = "claim"
     THEN Transition(turn.claim.ctx, "AWAITING_VERIFICATION")
     ELSE UNCHANGED session
  /\ UNCHANGED <<key, used, replying, ordered, bounds, overlapped, closed>>

\* Mutant: the entry is left and only its index entry goes.
DelOther_Kept ==
  /\ At("del")
  /\ Then("srem")
  /\ UNCHANGED <<redis, coordinator, bounds, history>>

\* delete and deleteOrphanReal: the entry, then the index.
DelOther ==
  /\ At("del")
  /\ SetKey(Other[turn.side], turn.id, None)
  /\ Then("srem")
  /\ UNCHANGED <<index, used, coordinator, bounds, history>>

\* finalizeMatch compares the amounts; a mismatch ends both sides.
UnindexOther ==
  /\ At("srem")
  /\ Unindex(Other[turn.side], turn.id)
  /\ \/ /\ turn.claim.amount = Paid[turn.id]
        /\ Then("markUsed")
        /\ UNCHANGED <<session, history>>
     \/ /\ turn.claim.amount # Paid[turn.id]
        /\ Done
        /\ Answered
        /\ Transition(turn.claim.ctx, "NOT_FOUND")
        /\ closed' = closed \cup {turn.id}
  /\ UNCHANGED <<key, used, replying, ordered, bounds, overlapped>>

\* advanceToProcessing, whose transition may throw.
AdvanceToProcessing(k) ==
  /\ Transition(k.ctx, "PROCESSING")
  /\ ordered' = IF CanMove(session[k.ctx], "PROCESSING")
                THEN Append(ordered, k) ELSE ordered

\* The match is final: the SMS emits CLAIM_VERIFIED; the claim returns to the
\* coordinator, which replies first and advances later.
MarkUsed ==
  /\ At("markUsed")
  /\ used' = used \cup {turn.id}
  /\ Done
  /\ Answered
  /\ \/ turn.kind = "sms" /\ AdvanceToProcessing(turn.claim) /\ UNCHANGED replying
     \/ /\ turn.kind = "claim"
        /\ Transition(turn.claim.ctx, "AWAITING_VERIFICATION")
        /\ replying' = IF CanMove(session[turn.claim.ctx], "AWAITING_VERIFICATION")
                       THEN [replying EXCEPT ![turn.claim] = @ + 1] ELSE replying
        /\ UNCHANGED ordered
  /\ UNCHANGED <<key, index, bounds, overlapped, closed>>

-----------------------------------------------------------------------------
(* The sweep: list a side, then drop what is overdue; claims first.        *)

Least(ids) == CHOOSE i \in ids : \A j \in ids : i <= j

\* The first overdue entry, in the order of the ids.
FirstDue(due) == CHOOSE e \in due : \A f \in due : e.id <= f.id

\* The sweep goes on: the rest of the listing, then the overdue entries, then
\* the other side.
SweepNext(todo, due) ==
  IF todo # {} THEN Continue([turn EXCEPT !.at = "read", !.todo = todo, !.due = due])
  ELSE IF due # {} THEN Continue([turn EXCEPT !.at = "expire", !.todo = {}, !.due = due])
  ELSE IF turn.side = "pending"
  THEN Continue([turn EXCEPT !.at = "ids", !.side = "orphan", !.todo = {}, !.due = {}])
  ELSE Done

ListIds ==
  /\ At("ids")
  /\ SweepNext(index[turn.side], {})
  /\ UNCHANGED <<redis, coordinator, bounds, history>>

\* An id without an entry is taken out of the index by the next command.
ListEntry ==
  /\ At("read")
  /\ LET i == Least(turn.todo)
         entry == key[turn.side][i] IN
       IF entry = None THEN Then("stale")
       ELSE SweepNext(turn.todo \ {i},
              IF entry.due THEN turn.due \cup {[id |-> i, claim |-> entry.claim]} ELSE turn.due)
  /\ UNCHANGED <<redis, coordinator, bounds, history>>

DropStaleId ==
  /\ At("stale")
  /\ Unindex(turn.side, Least(turn.todo))
  /\ SweepNext(turn.todo \ {Least(turn.todo)}, turn.due)
  /\ UNCHANGED <<key, used, coordinator, bounds, history>>

\* The entry found overdue is deleted, whatever is there by now.
Expire ==
  /\ At("expire")
  /\ SetKey(turn.side, FirstDue(turn.due).id, None)
  /\ Then("unindex")
  /\ UNCHANGED <<index, used, coordinator, bounds, history>>

\* Mutant: CLAIM_EXPIRED is not emitted.
UnindexExpired_Silent ==
  /\ At("unindex")
  /\ Unindex(turn.side, FirstDue(turn.due).id)
  /\ SweepNext({}, turn.due \ {FirstDue(turn.due)})
  /\ UNCHANGED <<key, used, coordinator, bounds, history>>

\* CLAIM_EXPIRED reaches the customer of the entry that was listed.
UnindexExpired ==
  /\ At("unindex")
  /\ LET e == FirstDue(turn.due) IN
       /\ Unindex(turn.side, e.id)
       /\ SweepNext({}, turn.due \ {e})
       /\ \/ /\ turn.side = "pending"
             /\ Transition(e.claim.ctx, "NOT_FOUND")
             /\ UNCHANGED closed
          \/ /\ turn.side = "orphan"
             /\ closed' = closed \cup {e.id}
             /\ UNCHANGED session
  /\ UNCHANGED <<key, used, replying, ordered, bounds, overlapped, received>>

-----------------------------------------------------------------------------
(* Around the store.                                                       *)

\* The reply was sent: the coordinator advances the claim.
OnReplySent(k) ==
  /\ replying[k] > 0
  /\ replying' = [replying EXCEPT ![k] = @ - 1]
  /\ AdvanceToProcessing(k)
  /\ UNCHANGED <<redis, wire, bounds, history>>

\* The command of a customer ends, well or badly (UssdCommandQueue), between
\* any two commands to Redis.
UssdEnds(c) ==
  /\ session[c] = "PROCESSING"
  /\ \E to \in {"COMPLETED", "NOT_FOUND"} : Transition(c, to)
  /\ UNCHANGED <<redis, wire, replying, ordered, bounds, history>>

\* The time of an entry runs out, between any two commands.
TimePasses(side, i) ==
  /\ key[side][i] # None
  /\ ~key[side][i].due
  /\ key' = [key EXCEPT ![side][i].due = TRUE]
  /\ UNCHANGED <<index, used, wire, coordinator, bounds, history>>

\* Outside the code: the process dies between two commands and starts again.
Crash ==
  /\ crashes < MaxCrashes
  /\ crashes' = crashes + 1
  /\ wire' = <<>>
  /\ session' = [c \in Ctx |-> "IDLE"]
  /\ replying' = [k \in Claims |-> 0]
  /\ UNCHANGED <<redis, ordered, sent, reports, history>>

-----------------------------------------------------------------------------
Command ==
  \/ IsUsed \/ GetOther \/ SetOwn \/ IndexOwn \/ DelOther \/ UnindexOther \/ MarkUsed
  \/ ListIds \/ ListEntry \/ DropStaleId \/ Expire \/ UnindexExpired

Next ==
  \/ \E k \in Claims : RegisterClaim(k) \/ OnReplySent(k)
  \/ \E i \in Id : ResolveWithRealTransaction(i)
  \/ CheckExpired
  \/ Command
  \/ \E c \in Ctx : UssdEnds(c)
  \/ \E side \in Side, i \in Id : TimePasses(side, i)
  \/ Crash

Spec == Init /\ [][Next]_vars

\* Redis answers, replies end, the timer fires and time passes.
FairSpec ==
  /\ Spec
  /\ WF_vars(Command)
  /\ WF_vars(CheckExpired)
  /\ \A k \in Claims : WF_vars(OnReplySent(k))
  /\ \A side \in Side, i \in Id : SF_vars(TimePasses(side, i))

-----------------------------------------------------------------------------
\* An entry and its id in the index go together, or a handler is about to
\* restore that.
Indexed ==
  \A side \in Side, i \in Id :
    key[side][i] # None =>
      \/ i \in index[side]
      \/ \E handler \in UnderWay :
           handler.at = "sadd" /\ handler.side = side /\ handler.id = i

\* Only a crash may leave an entry that no sweep will ever find: the pairs
\* SET/SADD and DEL/SREM of handlers taking turns never cross.
OnlyCrashUnindexes == [][Indexed /\ crashes' = crashes => Indexed']_vars

OrderedTwice(i) ==
  \E n, m \in DOMAIN ordered : n # m /\ ordered[n].id = i /\ ordered[m].id = i

\* A payment is ordered twice only if two handlers of its claims or SMS were
\* under way at the same time: repeats one after the other, rival customers,
\* sweeps and crashes never do it (isUsed, delete and markUsed).
OrderedOnce == \A i \in Id : OrderedTwice(i) => i \in overlapped

\* What the phone was told is accepted is matched, waiting, given up aloud, or
\* in the hands of a handler.
Kept(i) ==
  \/ i \in used \cup closed
  \/ key["orphan"][i] # None
  \/ \E handler \in UnderWay :
       \/ handler.id = i /\ handler.at \in {"srem", "markUsed"}
       \/ handler.at = "unindex" /\ \E e \in handler.due : e.id = i
PaymentKept == crashes = 0 => \A i \in received : Kept(i)

\* A customer who claims her own payment is told how it ends: verified,
\* refused or expired, whatever crosses on the wire.
WaitingEnds ==
  \A c \in Ctx :
    session[c] = "AWAITING_VERIFICATION" ~> session[c] # "AWAITING_VERIFICATION"
=============================================================================
