------------------------ MODULE PendingStore_proofs ------------------------
(***************************************************************************)
(* Proofs about PendingStore, for any number of chats, payments, claims,   *)
(* reports, crashes and handlers under way: the types; that only a crash   *)
(* leaves an entry out of the index; that what the phone was told is       *)
(* accepted is not lost; and that a payment is ordered once unless two     *)
(* handlers of it overlapped.                                              *)
(*                                                                         *)
(* Handlers take turns, one command of Redis at a time, so an invariant    *)
(* says of every handler on the wire what its next command may rely on:    *)
(* Behind for the index, KeptInv for the payments, Once for the orders.    *)
(***************************************************************************)
EXTENDS PendingStore, SequenceTheorems, WellFoundedInduction, TLAPS

\* A handler at a command it has, with what it learnt so far.
HandlerOK(h) ==
  /\ h.kind = "claim" =>
       /\ h.at \in {"isUsed", "get", "set", "sadd", "del", "srem", "markUsed"}
       /\ h.side = "pending" /\ h.claim \in Claims /\ h.id = h.claim.id
  /\ h.kind = "sms" =>
       /\ h.at \in {"get", "set", "sadd", "del", "srem", "markUsed"}
       /\ h.side = "orphan" /\ h.id \in Id
       /\ h.at \in {"get", "set", "sadd"} => h.claim = None
       /\ h.at \in {"del", "srem", "markUsed"} => h.claim \in Claims /\ h.claim.id = h.id
  /\ h.kind = "sweep" =>
       /\ h.at \in {"ids", "read", "stale", "expire", "unindex"}
       /\ h.id = None
       /\ h.at \in {"read", "stale"} => h.todo # {}
       /\ h.at \in {"expire", "unindex"} => h.due # {}
       /\ h.side = "pending" => \A e \in h.due : e.claim \in Claims

Sound == {h \in Handler : HandlerOK(h)}

\* A claim waits under its own id.
EntriesOK ==
  \A i \in Id : key["pending"][i] # None =>
    key["pending"][i].claim \in Claims /\ key["pending"][i].claim.id = i

Typed == TypeOK /\ wire \in Seq(Sound) /\ EntriesOK /\ crashes \in Nat

-----------------------------------------------------------------------------
(* The least of some ids.                                                  *)

Smaller == {p \in Nat \X Nat : p[1] < p[2]}

LEMMA Smallest ==
  ASSUME NEW S \in SUBSET Nat, S # {}
  PROVE  \E n \in S : \A m \in S : n <= m
<1>1. IsWellFoundedOn(Smaller, Nat)
  BY NatLessThanWellFounded DEF OpToRel, Smaller
<1>2. PICK n \in S : \A m \in S : <<m, n>> \notin Smaller
  BY <1>1, WFMin
<1>3. ASSUME NEW m \in S PROVE n <= m
  <2>1. m \in Nat /\ n \in Nat /\ <<m, n>> \notin Smaller
    BY <1>2
  <2>2. ~(m < n)
    BY <2>1 DEF Smaller
  <2> QED
    BY <2>1, <2>2
<1> QED
  BY <1>3

\* A sweep reads an id of its list, and drops an entry it found overdue.
LEMMA LeastIn ==
  ASSUME NEW ids \in SUBSET Id, ids # {}
  PROVE  Least(ids) \in ids
<1>1. ids \in SUBSET Nat
  BY StoreAssumption
<1>2. \E n \in ids : \A m \in ids : n <= m
  BY <1>1, Smallest
<1> QED
  BY <1>2 DEF Least

LEMMA FirstDueIn ==
  ASSUME NEW due \in SUBSET [id: Id, claim: Claims \cup {None}], due # {}
  PROVE  FirstDue(due) \in due /\ FirstDue(due).id \in Id
<1>1. PICK ids : ids = {e.id : e \in due}
  OBVIOUS
<1>2. ids \in SUBSET Nat /\ ids # {}
  <2>1. \A e \in due : e.id \in Id
    OBVIOUS
  <2>2. Id \in SUBSET Nat
    BY StoreAssumption
  <2>3. PICK e \in due : TRUE
    OBVIOUS
  <2> QED
    BY <1>1, <2>1, <2>2, <2>3
<1>3. PICK n \in ids : \A m \in ids : n <= m
  BY <1>2, Smallest
<1>4. PICK e \in due : e.id = n
  BY <1>1
<1>5. \A f \in due : e.id <= f.id
  BY <1>1, <1>3, <1>4
<1>6. \E d \in due : \A f \in due : d.id <= f.id
  BY <1>5
<1> QED
  BY <1>6 DEF FirstDue

-----------------------------------------------------------------------------
(* The connection.                                                         *)

Rest == Tail(wire)
Members(handlers) == {handlers[n] : n \in DOMAIN handlers}

\* The handler whose turn it is, and the others.
LEMMA TurnFacts ==
  ASSUME wire \in Seq(Sound), wire # <<>>
  PROVE  /\ turn \in Sound /\ Rest \in Seq(Sound)
         /\ 1 \in DOMAIN wire /\ turn = wire[1]
         /\ DOMAIN wire = 1..Len(wire) /\ Len(wire) \in Nat \ {0}
         /\ DOMAIN Rest = 1..(Len(wire) - 1)
         /\ \A n \in DOMAIN Rest : n + 1 \in DOMAIN wire /\ Rest[n] = wire[n + 1]
         /\ UnderWay = Members(Rest) \cup {turn}
<1>1. Len(wire) \in Nat \ {0} /\ DOMAIN wire = 1..Len(wire)
  BY EmptySeq, LenProperties
<1>2. turn = wire[1] /\ 1 \in DOMAIN wire /\ turn \in Sound
  BY <1>1 DEF turn
<1>3. /\ Rest \in Seq(Sound) /\ DOMAIN Rest = 1..(Len(wire) - 1)
      /\ \A n \in 1..(Len(wire) - 1) : Rest[n] = wire[n + 1]
  BY <1>1 DEF Rest
<1>4. \A n \in DOMAIN Rest : n + 1 \in DOMAIN wire /\ Rest[n] = wire[n + 1]
  BY <1>1, <1>3
<1>5. \A n \in DOMAIN wire : n = 1 \/ (n - 1 \in DOMAIN Rest /\ Rest[n - 1] = wire[n])
  BY <1>1, <1>3
<1>6. UnderWay = Members(Rest) \cup {turn}
  BY <1>2, <1>4, <1>5 DEF UnderWay, Members
<1> QED
  BY <1>1, <1>2, <1>3, <1>4, <1>6

\* A handler at the end of the wire.
LEMMA AppendFacts ==
  ASSUME NEW rest \in Seq(Sound), NEW h \in Sound, wire' = Append(rest, h)
  PROVE  /\ wire' \in Seq(Sound) /\ UnderWay' = Members(rest) \cup {h}
         /\ Len(rest) \in Nat /\ DOMAIN rest = 1..Len(rest)
         /\ DOMAIN wire' = 1..(Len(rest) + 1) /\ wire'[Len(rest) + 1] = h
         /\ \A n \in 1..Len(rest) : wire'[n] = rest[n]
<1>1. /\ wire' \in Seq(Sound)
      /\ Len(rest) \in Nat /\ DOMAIN rest = 1..Len(rest)
      /\ DOMAIN wire' = 1..(Len(rest) + 1) /\ wire'[Len(rest) + 1] = h
      /\ \A n \in 1..Len(rest) : wire'[n] = rest[n]
  OBVIOUS
<1>2. \A n \in DOMAIN wire' : n = Len(rest) + 1 \/ n \in DOMAIN rest
  BY <1>1
<1>3. UnderWay' = Members(rest) \cup {h}
  BY <1>1, <1>2 DEF UnderWay, Members
<1> QED
  BY <1>1, <1>3

\* The turn goes on with another command.
GoesTo(command) ==
  \E h \in Sound :
    /\ Continue(h) /\ h.at = command
    /\ h.kind = turn.kind /\ h.side = turn.side /\ h.id = turn.id
    /\ h.todo = turn.todo /\ h.due = turn.due

\* The sweep goes on to read, to drop or to list.
SweepGoes ==
  Done \/ \E h \in Sound : /\ Continue(h) /\ h.kind = "sweep" /\ h.id = None
                           /\ h.at \in {"ids", "read", "expire"}

LEMMA ThenGoes ==
  ASSUME Typed, wire # <<>>, NEW command, Then(command),
         \/ turn.kind = "claim" /\ command \in {"get", "set", "sadd", "del", "srem", "markUsed"}
         \/ turn.at = "get" /\ command = "set" /\ turn.kind # "sweep"
         \/ turn.at = "set" /\ command = "sadd"
         \/ turn.at = "del" /\ command = "srem"
         \/ turn.at = "srem" /\ command = "markUsed"
         \/ turn.at = "read" /\ command = "stale"
         \/ turn.at = "expire" /\ command = "unindex"
  PROVE  GoesTo(command)
<1>1. turn \in Handler /\ HandlerOK(turn)
  BY TurnFacts DEF Typed, Sound
<1>2. PICK h : h = [turn EXCEPT !.at = command]
  OBVIOUS
<1>3. /\ h \in Handler /\ h.at = command
      /\ h.kind = turn.kind /\ h.side = turn.side /\ h.id = turn.id
      /\ h.claim = turn.claim /\ h.todo = turn.todo /\ h.due = turn.due
  BY <1>1, <1>2 DEF Handler
<1>4. HandlerOK(h)
  <2>1. CASE turn.kind = "claim"
    BY <1>1, <1>3, <2>1 DEF HandlerOK
  <2>2. CASE turn.kind = "sms"
    BY <1>1, <1>3, <2>2 DEF HandlerOK
  <2>3. CASE turn.kind = "sweep"
    BY <1>1, <1>3, <2>3 DEF HandlerOK
  <2> QED
    BY <1>1, <2>1, <2>2, <2>3 DEF Handler
<1>5. Continue(h)
  BY <1>2 DEF Then
<1> QED
  BY <1>3, <1>4, <1>5 DEF GoesTo, Sound

LEMMA SweepNextGoes ==
  ASSUME Typed, wire # <<>>, turn.kind = "sweep",
         NEW todo \in SUBSET Id, NEW due \in SUBSET [id: Id, claim: Claims \cup {None}],
         turn.side = "pending" => \A e \in due : e.claim \in Claims,
         SweepNext(todo, due)
  PROVE  SweepGoes
<1>1. turn \in Handler /\ HandlerOK(turn) /\ turn.id = None
  BY TurnFacts DEF Typed, Sound, HandlerOK
<1>2. PICK reads : reads = [turn EXCEPT !.at = "read", !.todo = todo, !.due = due]
  OBVIOUS
<1>3. PICK drops : drops = [turn EXCEPT !.at = "expire", !.todo = {}, !.due = due]
  OBVIOUS
<1>4. PICK lists : lists = [turn EXCEPT !.at = "ids", !.side = "orphan",
                                        !.todo = {}, !.due = {}]
  OBVIOUS
<1>5. /\ reads \in Handler /\ reads.kind = "sweep" /\ reads.at = "read" /\ reads.id = None
      /\ reads.side = turn.side /\ reads.todo = todo /\ reads.due = due
  BY <1>1, <1>2 DEF Handler
<1>6. /\ drops \in Handler /\ drops.kind = "sweep" /\ drops.at = "expire" /\ drops.id = None
      /\ drops.side = turn.side /\ drops.due = due
  BY <1>1, <1>3 DEF Handler
<1>7. /\ lists \in Handler /\ lists.kind = "sweep" /\ lists.at = "ids" /\ lists.id = None
      /\ lists.side = "orphan"
  BY <1>1, <1>4 DEF Handler, Side
<1>8. CASE todo # {}
  <2>1. Continue(reads)
    BY <1>2, <1>8 DEF SweepNext
  <2>2. HandlerOK(reads)
    BY <1>5, <1>8 DEF HandlerOK
  <2> QED
    BY <1>5, <2>1, <2>2 DEF SweepGoes, Sound
<1>9. CASE todo = {} /\ due # {}
  <2>1. Continue(drops)
    BY <1>3, <1>9 DEF SweepNext
  <2>2. HandlerOK(drops)
    BY <1>6, <1>9 DEF HandlerOK
  <2> QED
    BY <1>6, <2>1, <2>2 DEF SweepGoes, Sound
<1>10. CASE todo = {} /\ due = {} /\ turn.side = "pending"
  <2>1. Continue(lists)
    BY <1>4, <1>10 DEF SweepNext
  <2>2. HandlerOK(lists)
    BY <1>7 DEF HandlerOK
  <2> QED
    BY <1>7, <2>1, <2>2 DEF SweepGoes, Sound
<1>11. CASE todo = {} /\ due = {} /\ turn.side # "pending"
  BY <1>11 DEF SweepNext, SweepGoes
<1> QED
  BY <1>8, <1>9, <1>10, <1>11

\* What the command of the turn says of its handler.
LEMMA TurnKinds ==
  ASSUME Typed, wire # <<>>
  PROVE  /\ turn.at = "isUsed" => turn.kind = "claim"
         /\ turn.at \in {"isUsed", "get", "set", "sadd", "del", "srem", "markUsed"} =>
              /\ turn.id \in Id /\ turn.side \in Side /\ Other[turn.side] \in Side
              /\ \/ /\ turn.kind = "claim" /\ turn.side = "pending"
                    /\ turn.claim \in Claims /\ turn.claim.id = turn.id
                 \/ turn.kind = "sms" /\ turn.side = "orphan"
         /\ turn.at \in {"del", "srem", "markUsed"} =>
              turn.claim \in Claims /\ turn.claim.id = turn.id
         /\ turn.at \in {"ids", "read", "stale", "expire", "unindex"} =>
              turn.kind = "sweep" /\ turn.id = None /\ turn.side \in Side
         /\ turn.at \in {"read", "stale"} =>
              Least(turn.todo) \in turn.todo /\ Least(turn.todo) \in Id
         /\ turn.at \in {"expire", "unindex"} =>
              FirstDue(turn.due) \in turn.due /\ FirstDue(turn.due).id \in Id
<1>1. turn \in Handler /\ HandlerOK(turn)
  BY TurnFacts DEF Typed, Sound
<1>2. Other["pending"] = "orphan" /\ Other["orphan"] = "pending"
  BY DEF Other
<1>3. turn.kind \in {"claim", "sms", "sweep"} /\ turn.todo \in SUBSET Id
      /\ turn.due \in SUBSET [id: Id, claim: Claims \cup {None}] /\ turn.side \in Side
  BY <1>1 DEF Handler
<1>4. CASE turn.kind = "claim"
  BY <1>1, <1>2, <1>4, StoreAssumption DEF HandlerOK, Side
<1>5. CASE turn.kind = "sms"
  BY <1>1, <1>2, <1>5 DEF HandlerOK, Side
<1>6. CASE turn.kind = "sweep"
  <2>1. /\ turn.at \in {"ids", "read", "stale", "expire", "unindex"} /\ turn.id = None
        /\ turn.at \in {"read", "stale"} => turn.todo # {}
        /\ turn.at \in {"expire", "unindex"} => turn.due # {}
    BY <1>1, <1>6 DEF HandlerOK
  <2>2. turn.at \in {"read", "stale"} =>
          Least(turn.todo) \in turn.todo /\ Least(turn.todo) \in Id
    BY <1>3, <2>1, LeastIn
  <2>3. turn.at \in {"expire", "unindex"} =>
          FirstDue(turn.due) \in turn.due /\ FirstDue(turn.due).id \in Id
    BY <1>3, <2>1, FirstDueIn
  <2> QED
    BY <1>3, <1>6, <2>1, <2>2, <2>3
<1> QED
  BY <1>3, <1>4, <1>5, <1>6

-----------------------------------------------------------------------------
(* What a step keeps of the types.                                         *)

LEMMA WireTyped ==
  ASSUME Typed,
         \/ UNCHANGED wire
         \/ wire # <<>> /\ Done
         \/ wire # <<>> /\ \E h \in Sound : Continue(h)
         \/ \E h \in Sound : Join(h)
         \/ wire' = <<>>
  PROVE  wire' \in Seq(Sound) /\ wire' \in Seq(Handler)
<1>1. wire \in Seq(Sound) /\ (wire # <<>> => Rest \in Seq(Sound))
  BY TurnFacts DEF Typed
<1>2. wire' \in Seq(Sound)
  <2>1. CASE UNCHANGED wire
    BY <1>1, <2>1
  <2>2. CASE wire # <<>> /\ Done
    BY <1>1, <2>2 DEF Done, Rest
  <2>3. ASSUME wire # <<>>, NEW h \in Sound, Continue(h) PROVE wire' \in Seq(Sound)
    BY <1>1, <2>3, AppendFacts DEF Continue, Rest
  <2>4. ASSUME NEW h \in Sound, Join(h) PROVE wire' \in Seq(Sound)
    BY <1>1, <2>4, AppendFacts DEF Join
  <2>5. CASE wire' = <<>>
    BY <2>5
  <2> QED
    BY <2>1, <2>2, <2>3, <2>4, <2>5
<1>3. \A n \in 1..Len(wire') : wire'[n] \in Handler
  BY <1>2 DEF Sound
<1> QED
  BY <1>2, <1>3

LEMMA SetKeyTyped ==
  ASSUME Typed, NEW side \in Side, NEW i \in Id, NEW entry \in Entry \cup {None},
         side = "pending" /\ entry # None => entry.claim \in Claims /\ entry.claim.id = i,
         SetKey(side, i, entry)
  PROVE  /\ key' \in [Side -> [Id -> Entry \cup {None}]] /\ EntriesOK'
         /\ \A s \in Side, j \in Id :
              key'[s][j] = IF s = side /\ j = i THEN entry ELSE key[s][j]
<1>1. key \in [Side -> [Id -> Entry \cup {None}]] /\ "pending" \in Side
  BY DEF Typed, TypeOK, Side
<1>2. key' = [key EXCEPT ![side] = [key[side] EXCEPT ![i] = entry]]
  BY DEF SetKey
<1>3. [key[side] EXCEPT ![i] = entry] \in [Id -> Entry \cup {None}]
  BY <1>1
<1>4. key' \in [Side -> [Id -> Entry \cup {None}]]
  BY <1>1, <1>2, <1>3
<1>5. \A s \in Side, j \in Id :
        key'[s][j] = IF s = side /\ j = i THEN entry ELSE key[s][j]
  BY <1>1, <1>2
<1>6. EntriesOK'
  BY <1>1, <1>5 DEF EntriesOK, Typed
<1> QED
  BY <1>4, <1>5, <1>6

LEMMA TransitionTyped ==
  ASSUME Typed, NEW c \in Ctx, NEW to \in SessionState, Transition(c, to)
  PROVE  session' \in [Ctx -> SessionState]
BY DEF Transition, Moved, Typed, TypeOK

LEMMA AdvanceTyped ==
  ASSUME Typed, NEW k \in Claims, AdvanceToProcessing(k)
  PROVE  session' \in [Ctx -> SessionState] /\ ordered' \in Seq(Claims)
<1>1. k.ctx \in Ctx /\ "PROCESSING" \in SessionState
  BY StoreAssumption DEF SessionState
<1>2. session' \in [Ctx -> SessionState]
  BY <1>1, TransitionTyped DEF AdvanceToProcessing
<1>3. ordered \in Seq(Claims)
  BY DEF Typed, TypeOK
<1> QED
  BY <1>2, <1>3 DEF AdvanceToProcessing

\* A step that changes the wire, and perhaps a session.
LEMMA WireStep ==
  ASSUME Typed, UNCHANGED <<key, index, used, replying, ordered, crashes, received, closed>>,
         overlapped' \subseteq Id, session' \in [Ctx -> SessionState],
         wire' \in Seq(Sound) /\ wire' \in Seq(Handler)
  PROVE  Typed'
BY DEF Typed, TypeOK, EntriesOK

\* A step that changes entries.
LEMMA KeyStep ==
  ASSUME Typed, UNCHANGED <<used, session, replying, ordered, crashes, overlapped,
                            received, closed>>,
         key' \in [Side -> [Id -> Entry \cup {None}]], EntriesOK',
         index' \in [Side -> SUBSET Id],
         wire' \in Seq(Sound) /\ wire' \in Seq(Handler)
  PROVE  Typed'
BY DEF Typed, TypeOK

\* A step that leaves the entries.
LEMMA OtherStep ==
  ASSUME Typed, UNCHANGED <<key, crashes, overlapped>>,
         index' \in [Side -> SUBSET Id], used' \subseteq Id,
         session' \in [Ctx -> SessionState], replying' \in [Claims -> Nat],
         ordered' \in Seq(Claims), received' \subseteq Id, closed' \subseteq Id,
         wire' \in Seq(Sound) /\ wire' \in Seq(Handler)
  PROVE  Typed'
BY DEF Typed, TypeOK, EntriesOK

-----------------------------------------------------------------------------
(* What each step does.                                                    *)

\* A handler that begins is at its first command.
Begins(h) ==
  h.at \in {"isUsed", "get", "ids"} /\ (h.kind = "sweep" => h.at = "ids")
  /\ (h.at = "get" => h.kind = "sms")

LEMMA BeginFacts ==
  ASSUME Typed,
         \/ \E k \in Claims : RegisterClaim(k)
         \/ \E i \in Id : ResolveWithRealTransaction(i)
         \/ CheckExpired
  PROVE  /\ Typed' /\ UNCHANGED <<redis, coordinator, crashes, received, closed>>
         /\ \E h \in Sound : Begin(h) /\ Begins(h)
<1>1. PICK h \in Handler :
        /\ HandlerOK(h) /\ Begins(h) /\ Begin(h)
        /\ UNCHANGED <<redis, coordinator, crashes, received, closed>>
  <2>1. ASSUME NEW k \in Claims, RegisterClaim(k)
        PROVE  \E h \in Handler :
                 /\ HandlerOK(h) /\ Begins(h) /\ Begin(h)
                 /\ UNCHANGED <<redis, coordinator, crashes, received, closed>>
    <3>1. PICK h : h = [kind |-> "claim", at |-> "isUsed", side |-> "pending",
                        id |-> k.id, claim |-> k, todo |-> {}, due |-> {}]
      OBVIOUS
    <3>2. h \in Handler /\ HandlerOK(h) /\ Begins(h)
      BY <3>1, StoreAssumption DEF Handler, HandlerOK, Begins, Side
    <3>3. Begin(h) /\ UNCHANGED <<redis, coordinator, crashes, received, closed>>
      BY <2>1, <3>1 DEF RegisterClaim
    <3> QED
      BY <3>2, <3>3
  <2>2. ASSUME NEW i \in Id, ResolveWithRealTransaction(i)
        PROVE  \E h \in Handler :
                 /\ HandlerOK(h) /\ Begins(h) /\ Begin(h)
                 /\ UNCHANGED <<redis, coordinator, crashes, received, closed>>
    <3>1. PICK h : h = [kind |-> "sms", at |-> "get", side |-> "orphan",
                        id |-> i, claim |-> None, todo |-> {}, due |-> {}]
      OBVIOUS
    <3>2. h \in Handler /\ HandlerOK(h) /\ Begins(h)
      BY <3>1 DEF Handler, HandlerOK, Begins, Side
    <3>3. Begin(h) /\ UNCHANGED <<redis, coordinator, crashes, received, closed>>
      BY <2>2, <3>1 DEF ResolveWithRealTransaction
    <3> QED
      BY <3>2, <3>3
  <2>3. ASSUME CheckExpired
        PROVE  \E h \in Handler :
                 /\ HandlerOK(h) /\ Begins(h) /\ Begin(h)
                 /\ UNCHANGED <<redis, coordinator, crashes, received, closed>>
    <3>1. PICK h : h = [kind |-> "sweep", at |-> "ids", side |-> "pending",
                        id |-> None, claim |-> None, todo |-> {}, due |-> {}]
      OBVIOUS
    <3>2. h \in Handler /\ HandlerOK(h) /\ Begins(h)
      BY <3>1 DEF Handler, HandlerOK, Begins, Side
    <3>3. Begin(h) /\ UNCHANGED <<redis, coordinator, crashes, received, closed>>
      BY <2>3, <3>1 DEF CheckExpired, bounds
    <3> QED
      BY <3>2, <3>3
  <2> QED
    BY <2>1, <2>2, <2>3
<1>2. h \in Sound
  BY <1>1 DEF Sound
<1>3. wire' \in Seq(Sound) /\ wire' \in Seq(Handler)
  BY <1>1, <1>2, WireTyped DEF Begin
<1>4. overlapped' \subseteq Id
  BY <1>1 DEF Begin, Handler, Typed, TypeOK
<1>5. Typed'
  BY <1>1, <1>3, <1>4, WireStep DEF redis, coordinator, Typed, TypeOK
<1> QED
  BY <1>1, <1>2, <1>5

LEMMA IsUsedFacts ==
  ASSUME Typed, IsUsed
  PROVE  /\ Typed' /\ wire # <<>> /\ turn.at = "isUsed"
         /\ \/ turn.id \in used /\ Done
            \/ turn.id \notin used /\ GoesTo("get")
         /\ UNCHANGED <<redis, replying, ordered, crashes, history>>
<1>1. /\ wire # <<>> /\ turn.at = "isUsed"
      /\ UNCHANGED <<redis, replying, ordered, crashes, history>>
      /\ \/ turn.id \in used /\ Done /\ Transition(turn.claim.ctx, "NOT_FOUND")
         \/ turn.id \notin used /\ Then("get") /\ UNCHANGED session
  BY DEF IsUsed, At, bounds
<1>2. turn.kind = "claim" /\ turn.claim.ctx \in Ctx /\ "NOT_FOUND" \in SessionState
  BY <1>1, TurnKinds, StoreAssumption DEF SessionState
<1>3. \/ turn.id \in used /\ Done
      \/ turn.id \notin used /\ GoesTo("get")
  BY <1>1, <1>2, ThenGoes
<1>4. wire' \in Seq(Sound) /\ wire' \in Seq(Handler)
  BY <1>1, <1>3, WireTyped DEF GoesTo
<1>5. session' \in [Ctx -> SessionState]
  BY <1>1, <1>2, TransitionTyped DEF Typed, TypeOK
<1>6. Typed'
  BY <1>1, <1>4, <1>5, WireStep DEF redis, history, Typed, TypeOK
<1> QED
  BY <1>1, <1>3, <1>6

LEMMA GetOtherFacts ==
  ASSUME Typed, GetOther
  PROVE  /\ Typed' /\ wire # <<>> /\ turn.at = "get"
         /\ \/ key[Other[turn.side]][turn.id] = None /\ GoesTo("set")
            \/ key[Other[turn.side]][turn.id] # None /\ GoesTo("del")
         /\ UNCHANGED <<redis, coordinator, bounds, history>>
<1>1. /\ wire # <<>> /\ turn.at = "get"
      /\ UNCHANGED <<redis, coordinator, bounds, history>>
  BY DEF GetOther, At
<1>2. PICK entry : entry = key[Other[turn.side]][turn.id]
  OBVIOUS
<1>3. \/ entry = None /\ Then("set")
      \/ entry # None /\ turn.kind = "claim" /\ Then("del")
      \/ /\ entry # None /\ turn.kind = "sms"
         /\ Continue([turn EXCEPT !.at = "del", !.claim = entry.claim])
  BY <1>2 DEF GetOther
<1>4. /\ turn.kind = "claim" \/ (turn.kind = "sms" /\ turn.side = "orphan")
      /\ turn.id \in Id /\ turn \in Handler
  BY <1>1, TurnKinds, TurnFacts DEF Typed, Sound
<1>5. ASSUME entry # None, turn.kind = "sms",
             Continue([turn EXCEPT !.at = "del", !.claim = entry.claim])
      PROVE  GoesTo("del")
  <2>1. PICK h : h = [turn EXCEPT !.at = "del", !.claim = entry.claim]
    OBVIOUS
  <2>2. Other[turn.side] = "pending"
    BY <1>4, <1>5 DEF Other
  <2>3. entry.claim \in Claims /\ entry.claim.id = turn.id
    BY <1>2, <1>4, <1>5, <2>2 DEF Typed, EntriesOK
  <2>4. /\ h \in Handler /\ h.at = "del" /\ h.claim = entry.claim
        /\ h.kind = turn.kind /\ h.side = turn.side /\ h.id = turn.id
        /\ h.todo = turn.todo /\ h.due = turn.due
    BY <1>4, <2>1, <2>3 DEF Handler
  <2>5. HandlerOK(h)
    BY <1>4, <1>5, <2>3, <2>4 DEF HandlerOK
  <2> QED
    BY <1>5, <2>1, <2>4, <2>5 DEF GoesTo, Sound
<1>6. \/ entry = None /\ GoesTo("set")
      \/ entry # None /\ GoesTo("del")
  BY <1>1, <1>3, <1>4, <1>5, ThenGoes
<1>7. wire' \in Seq(Sound) /\ wire' \in Seq(Handler)
  BY <1>1, <1>6, WireTyped DEF GoesTo
<1>8. Typed'
  BY <1>1, <1>7, WireStep DEF redis, coordinator, bounds, history, Typed, TypeOK
<1> QED
  BY <1>1, <1>2, <1>6, <1>8

LEMMA SetOwnFacts ==
  ASSUME Typed, SetOwn
  PROVE  /\ Typed' /\ wire # <<>> /\ turn.at = "set" /\ GoesTo("sadd")
         /\ key'[turn.side][turn.id] # None
         /\ \A s \in Side, j \in Id :
              key'[s][j] = key[s][j] \/ (s = turn.side /\ j = turn.id)
         /\ UNCHANGED <<index, used, coordinator, bounds, history>>
<1>1. /\ wire # <<>> /\ turn.at = "set" /\ Then("sadd")
      /\ SetKey(turn.side, turn.id, [claim |-> turn.claim, due |-> FALSE])
      /\ UNCHANGED <<index, used, coordinator, bounds, history>>
  BY DEF SetOwn, At
<1>2. PICK entry : entry = [claim |-> turn.claim, due |-> FALSE]
  OBVIOUS
<1>3. /\ turn \in Handler /\ turn.id \in Id /\ turn.side \in Side
      /\ turn.side = "pending" => turn.claim \in Claims /\ turn.claim.id = turn.id
  BY <1>1, TurnKinds, TurnFacts DEF Typed, Sound
<1>4. entry \in Entry /\ entry # None /\ entry.claim = turn.claim
  <2>1. turn.claim \in Claims \cup {None}
    BY <1>3 DEF Handler
  <2>2. entry \in Entry /\ entry.claim = turn.claim
    BY <1>2, <2>1 DEF Entry
  <2> QED
    BY <2>2, NoneAssumption
<1>5. /\ key' \in [Side -> [Id -> Entry \cup {None}]] /\ EntriesOK'
      /\ \A s \in Side, j \in Id :
           key'[s][j] = IF s = turn.side /\ j = turn.id THEN entry ELSE key[s][j]
  BY <1>1, <1>2, <1>3, <1>4, SetKeyTyped
<1>6. GoesTo("sadd")
  BY <1>1, ThenGoes
<1>7. wire' \in Seq(Sound) /\ wire' \in Seq(Handler)
  BY <1>1, <1>6, WireTyped DEF GoesTo
<1>8. Typed'
  BY <1>1, <1>5, <1>7, KeyStep DEF coordinator, bounds, history, Typed, TypeOK
<1> QED
  BY <1>1, <1>3, <1>4, <1>5, <1>6, <1>8

LEMMA DelOtherFacts ==
  ASSUME Typed, DelOther
  PROVE  /\ Typed' /\ wire # <<>> /\ turn.at = "del" /\ GoesTo("srem")
         /\ \A s \in Side, j \in Id :
              key'[s][j] = IF s = Other[turn.side] /\ j = turn.id THEN None ELSE key[s][j]
         /\ UNCHANGED <<index, used, coordinator, bounds, history>>
<1>1. /\ wire # <<>> /\ turn.at = "del" /\ Then("srem")
      /\ SetKey(Other[turn.side], turn.id, None)
      /\ UNCHANGED <<index, used, coordinator, bounds, history>>
  BY DEF DelOther, At
<1>2. turn.id \in Id /\ Other[turn.side] \in Side
  BY <1>1, TurnKinds
<1>3. /\ key' \in [Side -> [Id -> Entry \cup {None}]] /\ EntriesOK'
      /\ \A s \in Side, j \in Id :
           key'[s][j] = IF s = Other[turn.side] /\ j = turn.id THEN None ELSE key[s][j]
  BY <1>1, <1>2, SetKeyTyped
<1>4. GoesTo("srem")
  BY <1>1, ThenGoes
<1>5. wire' \in Seq(Sound) /\ wire' \in Seq(Handler)
  BY <1>1, <1>4, WireTyped DEF GoesTo
<1>6. Typed'
  BY <1>1, <1>3, <1>5, KeyStep DEF coordinator, bounds, history, Typed, TypeOK
<1> QED
  BY <1>1, <1>3, <1>4, <1>6

LEMMA IndexTyped ==
  ASSUME Typed, NEW side \in Side, NEW i \in Id,
         \/ Unindex(side, i)
         \/ index' = [index EXCEPT ![side] = @ \cup {i}]
  PROVE  index' \in [Side -> SUBSET Id]
BY DEF Typed, TypeOK, Unindex

LEMMA IndexOwnFacts ==
  ASSUME Typed, IndexOwn
  PROVE  /\ Typed' /\ wire # <<>> /\ turn.at = "sadd" /\ Done
         /\ index' = [index EXCEPT ![turn.side] = @ \cup {turn.id}] /\ Answered
         /\ UNCHANGED <<key, used, replying, ordered, bounds, overlapped, closed>>
<1>1. /\ wire # <<>> /\ turn.at = "sadd" /\ Done
      /\ index' = [index EXCEPT ![turn.side] = @ \cup {turn.id}] /\ Answered
      /\ UNCHANGED <<key, used, replying, ordered, bounds, overlapped, closed>>
      /\ IF turn.kind = "claim"
         THEN Transition(turn.claim.ctx, "AWAITING_VERIFICATION")
         ELSE UNCHANGED session
  BY DEF IndexOwn, At
<1>2. /\ turn.id \in Id /\ turn.side \in Side
      /\ turn.kind = "claim" => turn.claim.ctx \in Ctx
  BY <1>1, TurnKinds, StoreAssumption
<1>3. index' \in [Side -> SUBSET Id]
  BY <1>1, <1>2, IndexTyped
<1>4. "AWAITING_VERIFICATION" \in SessionState
  BY DEF SessionState
<1>5. session' \in [Ctx -> SessionState]
  BY <1>1, <1>2, <1>4, TransitionTyped DEF Typed, TypeOK
<1>6. received' \subseteq Id
  BY <1>1, <1>2 DEF Answered, Typed, TypeOK
<1>7. wire' \in Seq(Sound) /\ wire' \in Seq(Handler)
  BY <1>1, WireTyped
<1>8. Typed'
  BY <1>1, <1>3, <1>5, <1>6, <1>7, OtherStep DEF bounds, Typed, TypeOK
<1> QED
  BY <1>1, <1>8

LEMMA UnindexOtherFacts ==
  ASSUME Typed, UnindexOther
  PROVE  /\ Typed' /\ wire # <<>> /\ turn.at = "srem"
         /\ Unindex(Other[turn.side], turn.id)
         /\ \/ GoesTo("markUsed") /\ UNCHANGED history
            \/ Done /\ Answered /\ closed' = closed \cup {turn.id}
         /\ UNCHANGED <<key, used, replying, ordered, bounds, overlapped>>
<1>1. /\ wire # <<>> /\ turn.at = "srem" /\ Unindex(Other[turn.side], turn.id)
      /\ UNCHANGED <<key, used, replying, ordered, bounds, overlapped>>
  BY DEF UnindexOther, At
<1>2. \/ Then("markUsed") /\ UNCHANGED <<session, history>>
      \/ /\ Done /\ Answered /\ Transition(turn.claim.ctx, "NOT_FOUND")
         /\ closed' = closed \cup {turn.id}
  BY DEF UnindexOther
<1>3. /\ turn.id \in Id /\ Other[turn.side] \in Side /\ turn.claim.ctx \in Ctx
  BY <1>1, TurnKinds, StoreAssumption
<1>4. index' \in [Side -> SUBSET Id]
  BY <1>1, <1>3, IndexTyped
<1>5. Then("markUsed") => GoesTo("markUsed")
  BY <1>1, ThenGoes
<1>6. wire' \in Seq(Sound) /\ wire' \in Seq(Handler)
  BY <1>1, <1>2, <1>5, WireTyped DEF GoesTo
<1>7. received' \subseteq Id /\ closed' \subseteq Id
  BY <1>2, <1>3 DEF Answered, history, Typed, TypeOK
<1>8. "NOT_FOUND" \in SessionState
  BY DEF SessionState
<1>9. session' \in [Ctx -> SessionState]
  BY <1>2, <1>3, <1>8, TransitionTyped DEF Typed, TypeOK
<1>10. Typed'
  BY <1>1, <1>4, <1>6, <1>7, <1>9, OtherStep DEF bounds, Typed, TypeOK
<1> QED
  BY <1>1, <1>2, <1>5, <1>10

\* A match is ordered at once, or its reply is on its way, or neither.
LEMMA MarkUsedFacts ==
  ASSUME Typed, MarkUsed
  PROVE  /\ Typed' /\ wire # <<>> /\ turn.at = "markUsed" /\ Done /\ Answered
         /\ used' = used \cup {turn.id} /\ turn.id \in Id
         /\ \/ ordered' = Append(ordered, turn.claim) /\ replying' = replying
            \/ /\ ordered' = ordered
               /\ replying' = [replying EXCEPT ![turn.claim] = @ + 1]
            \/ ordered' = ordered /\ replying' = replying
         /\ turn.claim \in Claims /\ turn.claim.id = turn.id
         /\ UNCHANGED <<key, index, bounds, overlapped, closed>>
<1>1. /\ wire # <<>> /\ turn.at = "markUsed" /\ Done /\ Answered
      /\ used' = used \cup {turn.id}
      /\ UNCHANGED <<key, index, bounds, overlapped, closed>>
  BY DEF MarkUsed, At
<1>2. /\ turn.id \in Id /\ turn.claim \in Claims /\ turn.claim.id = turn.id
      /\ turn.claim.ctx \in Ctx
  BY <1>1, TurnKinds, StoreAssumption
<1>3. \/ AdvanceToProcessing(turn.claim) /\ UNCHANGED replying
      \/ /\ Transition(turn.claim.ctx, "AWAITING_VERIFICATION")
         /\ replying' = IF CanMove(session[turn.claim.ctx], "AWAITING_VERIFICATION")
                        THEN [replying EXCEPT ![turn.claim] = @ + 1] ELSE replying
         /\ UNCHANGED ordered
  BY DEF MarkUsed
<1>4. \/ ordered' = Append(ordered, turn.claim) /\ replying' = replying
      \/ /\ ordered' = ordered
         /\ replying' = [replying EXCEPT ![turn.claim] = @ + 1]
      \/ ordered' = ordered /\ replying' = replying
  BY <1>3 DEF AdvanceToProcessing
<1>5. replying' \in [Claims -> Nat]
  BY <1>2, <1>4 DEF Typed, TypeOK
<1>6. "AWAITING_VERIFICATION" \in SessionState
  BY DEF SessionState
<1>7. session' \in [Ctx -> SessionState] /\ ordered' \in Seq(Claims)
  BY <1>2, <1>3, <1>6, TransitionTyped, AdvanceTyped DEF Typed, TypeOK
<1>8. received' \subseteq Id /\ used' \subseteq Id
  BY <1>1, <1>2 DEF Answered, Typed, TypeOK
<1>9. wire' \in Seq(Sound) /\ wire' \in Seq(Handler)
  BY <1>1, WireTyped
<1>10. Typed'
  BY <1>1, <1>5, <1>7, <1>8, <1>9, OtherStep DEF bounds, Typed, TypeOK
<1> QED
  BY <1>1, <1>2, <1>4, <1>10

\* The sweep reads its list.
LEMMA ListFacts ==
  ASSUME Typed, ListIds \/ ListEntry
  PROVE  /\ Typed' /\ wire # <<>> /\ turn.at \in {"ids", "read"}
         /\ \/ SweepGoes
            \/ key[turn.side][Least(turn.todo)] = None /\ GoesTo("stale")
         /\ UNCHANGED <<redis, coordinator, bounds, history>>
<1>1. /\ wire # <<>> /\ turn.at \in {"ids", "read"}
      /\ UNCHANGED <<redis, coordinator, bounds, history>>
  BY DEF ListIds, ListEntry, At
<1>2. /\ turn.kind = "sweep" /\ turn.side \in Side /\ turn \in Handler /\ HandlerOK(turn)
      /\ turn.at = "read" => Least(turn.todo) \in Id
  BY <1>1, TurnKinds, TurnFacts DEF Typed, Sound
<1>3. ASSUME ListIds PROVE SweepGoes
  <2>1. index[turn.side] \in SUBSET Id
    BY <1>2 DEF Typed, TypeOK
  <2>2. SweepNext(index[turn.side], {})
    BY <1>3 DEF ListIds
  <2> QED
    BY <1>1, <1>2, <2>1, <2>2, SweepNextGoes
<1>4. ASSUME ListEntry
      PROVE  \/ SweepGoes
             \/ key[turn.side][Least(turn.todo)] = None /\ GoesTo("stale")
  <2>1. PICK i, entry : i = Least(turn.todo) /\ entry = key[turn.side][i]
    OBVIOUS
  <2>2. PICK due : due = IF entry.due THEN turn.due \cup {[id |-> i, claim |-> entry.claim]}
                         ELSE turn.due
    OBVIOUS
  <2>3. \/ entry = None /\ Then("stale")
        \/ entry # None /\ SweepNext(turn.todo \ {i}, due)
    BY <1>4, <2>1, <2>2 DEF ListEntry
  <2>4. turn.at = "read"
    BY <1>4 DEF ListEntry, At
  <2>5. CASE entry = None
    BY <1>1, <2>1, <2>3, <2>4, <2>5, ThenGoes
  <2>6. CASE entry # None
    <3>1. i \in Id /\ turn.todo \in SUBSET Id
      BY <1>2, <2>1, <2>4 DEF Handler
    <3>2. /\ entry.claim \in Claims \cup {None}
          /\ turn.side = "pending" => entry.claim \in Claims
      BY <1>2, <2>1, <2>6, <3>1 DEF Typed, TypeOK, EntriesOK, Entry
    <3>3. /\ turn.due \in SUBSET [id: Id, claim: Claims \cup {None}]
          /\ turn.side = "pending" => \A e \in turn.due : e.claim \in Claims
      BY <1>2 DEF Handler, HandlerOK
    <3>4. PICK late : late = [id |-> i, claim |-> entry.claim]
      OBVIOUS
    <3>5. late \in [id: Id, claim: Claims \cup {None}] /\ late.claim = entry.claim
      BY <3>1, <3>2, <3>4
    <3>6. /\ due \in SUBSET [id: Id, claim: Claims \cup {None}]
          /\ turn.side = "pending" => \A e \in due : e.claim \in Claims
      BY <2>2, <3>2, <3>3, <3>4, <3>5
    <3> QED
      BY <1>1, <1>2, <2>3, <2>6, <3>1, <3>6, SweepNextGoes
  <2> QED
    BY <2>5, <2>6
<1>5. wire' \in Seq(Sound) /\ wire' \in Seq(Handler)
  BY <1>1, <1>3, <1>4, WireTyped DEF GoesTo, SweepGoes
<1>6. Typed'
  BY <1>1, <1>5, WireStep DEF redis, coordinator, bounds, history, Typed, TypeOK
<1> QED
  BY <1>1, <1>3, <1>4, <1>6

LEMMA DropStaleIdFacts ==
  ASSUME Typed, DropStaleId
  PROVE  /\ Typed' /\ wire # <<>> /\ turn.at = "stale" /\ SweepGoes
         /\ Unindex(turn.side, Least(turn.todo))
         /\ UNCHANGED <<key, used, coordinator, bounds, history>>
<1>1. /\ wire # <<>> /\ turn.at = "stale" /\ Unindex(turn.side, Least(turn.todo))
      /\ SweepNext(turn.todo \ {Least(turn.todo)}, turn.due)
      /\ UNCHANGED <<key, used, coordinator, bounds, history>>
  BY DEF DropStaleId, At
<1>2. /\ turn.kind = "sweep" /\ turn.side \in Side /\ turn \in Handler /\ HandlerOK(turn)
      /\ Least(turn.todo) \in Id
  BY <1>1, TurnKinds, TurnFacts DEF Typed, Sound
<1>3. /\ turn.todo \ {Least(turn.todo)} \in SUBSET Id
      /\ turn.due \in SUBSET [id: Id, claim: Claims \cup {None}]
      /\ turn.side = "pending" => \A e \in turn.due : e.claim \in Claims
  BY <1>2 DEF Handler, HandlerOK
<1>4. SweepGoes
  BY <1>1, <1>2, <1>3, SweepNextGoes
<1>5. wire' \in Seq(Sound) /\ wire' \in Seq(Handler)
  BY <1>1, <1>4, WireTyped DEF SweepGoes
<1>6. index' \in [Side -> SUBSET Id]
  BY <1>1, <1>2, IndexTyped
<1>7. Typed'
  BY <1>1, <1>5, <1>6, OtherStep DEF coordinator, bounds, history, Typed, TypeOK
<1> QED
  BY <1>1, <1>4, <1>7

LEMMA ExpireFacts ==
  ASSUME Typed, Expire
  PROVE  /\ Typed' /\ wire # <<>> /\ turn.at = "expire" /\ GoesTo("unindex")
         /\ \A s \in Side, j \in Id :
              key'[s][j] = IF s = turn.side /\ j = FirstDue(turn.due).id
                           THEN None ELSE key[s][j]
         /\ UNCHANGED <<index, used, coordinator, bounds, history>>
<1>1. /\ wire # <<>> /\ turn.at = "expire" /\ Then("unindex")
      /\ SetKey(turn.side, FirstDue(turn.due).id, None)
      /\ UNCHANGED <<index, used, coordinator, bounds, history>>
  BY DEF Expire, At
<1>2. turn.side \in Side /\ FirstDue(turn.due).id \in Id
  BY <1>1, TurnKinds
<1>3. /\ key' \in [Side -> [Id -> Entry \cup {None}]] /\ EntriesOK'
      /\ \A s \in Side, j \in Id :
           key'[s][j] = IF s = turn.side /\ j = FirstDue(turn.due).id
                        THEN None ELSE key[s][j]
  BY <1>1, <1>2, SetKeyTyped
<1>4. GoesTo("unindex")
  BY <1>1, ThenGoes
<1>5. wire' \in Seq(Sound) /\ wire' \in Seq(Handler)
  BY <1>1, <1>4, WireTyped DEF GoesTo
<1>6. Typed'
  BY <1>1, <1>3, <1>5, KeyStep DEF coordinator, bounds, history, Typed, TypeOK
<1> QED
  BY <1>1, <1>3, <1>4, <1>6

LEMMA UnindexExpiredFacts ==
  ASSUME Typed, UnindexExpired
  PROVE  /\ Typed' /\ wire # <<>> /\ turn.at = "unindex" /\ SweepGoes
         /\ Unindex(turn.side, FirstDue(turn.due).id)
         /\ \/ turn.side = "pending" /\ UNCHANGED closed
            \/ turn.side = "orphan" /\ closed' = closed \cup {FirstDue(turn.due).id}
         /\ UNCHANGED <<key, used, replying, ordered, bounds, overlapped, received>>
<1>1. PICK e : e = FirstDue(turn.due)
  OBVIOUS
<1>2. /\ wire # <<>> /\ turn.at = "unindex" /\ Unindex(turn.side, e.id)
      /\ SweepNext({}, turn.due \ {e})
      /\ UNCHANGED <<key, used, replying, ordered, bounds, overlapped, received>>
  BY <1>1 DEF UnindexExpired, At
<1>3. \/ /\ turn.side = "pending" /\ Transition(e.claim.ctx, "NOT_FOUND")
         /\ UNCHANGED closed
      \/ /\ turn.side = "orphan" /\ closed' = closed \cup {e.id}
         /\ UNCHANGED session
  BY <1>1 DEF UnindexExpired
<1>4. /\ turn.kind = "sweep" /\ turn.side \in Side /\ turn \in Handler /\ HandlerOK(turn)
      /\ e \in turn.due /\ e.id \in Id
  BY <1>1, <1>2, TurnKinds, TurnFacts DEF Typed, Sound
<1>5. /\ turn.due \ {e} \in SUBSET [id: Id, claim: Claims \cup {None}]
      /\ turn.side = "pending" => \A f \in turn.due : f.claim \in Claims
  BY <1>4 DEF Handler, HandlerOK
<1>6. {} \in SUBSET Id
  OBVIOUS
<1>7. SweepGoes
  BY <1>2, <1>4, <1>5, <1>6, SweepNextGoes
<1>8. wire' \in Seq(Sound) /\ wire' \in Seq(Handler)
  BY <1>2, <1>7, WireTyped DEF SweepGoes
<1>9. index' \in [Side -> SUBSET Id]
  BY <1>2, <1>4, IndexTyped
<1>10. session' \in [Ctx -> SessionState]
  <2>1. turn.side = "pending" => e.claim.ctx \in Ctx /\ "NOT_FOUND" \in SessionState
    BY <1>4, <1>5, StoreAssumption DEF SessionState
  <2> QED
    BY <1>3, <2>1, TransitionTyped DEF Typed, TypeOK
<1>11. closed' \subseteq Id
  BY <1>3, <1>4 DEF Typed, TypeOK
<1>12. Typed'
  BY <1>2, <1>8, <1>9, <1>10, <1>11, OtherStep DEF bounds, Typed, TypeOK
<1> QED
  BY <1>1, <1>2, <1>3, <1>7, <1>12

LEMMA OnReplySentFacts ==
  ASSUME Typed, NEW k \in Claims, OnReplySent(k)
  PROVE  /\ Typed' /\ UNCHANGED <<redis, wire, bounds, history>>
         /\ replying[k] > 0 /\ replying' = [replying EXCEPT ![k] = @ - 1]
         /\ ordered' = Append(ordered, k) \/ ordered' = ordered
<1>1. /\ UNCHANGED <<redis, wire, bounds, history>> /\ AdvanceToProcessing(k)
      /\ replying[k] > 0 /\ replying' = [replying EXCEPT ![k] = @ - 1]
  BY DEF OnReplySent
<1>2. replying' \in [Claims -> Nat]
  BY <1>1 DEF Typed, TypeOK
<1>3. session' \in [Ctx -> SessionState] /\ ordered' \in Seq(Claims)
  BY <1>1, AdvanceTyped
<1>4. wire' \in Seq(Sound) /\ wire' \in Seq(Handler)
  BY <1>1, WireTyped
<1>5. Typed'
  BY <1>1, <1>2, <1>3, <1>4, OtherStep DEF redis, bounds, history, Typed, TypeOK
<1> QED
  BY <1>1, <1>5 DEF AdvanceToProcessing

LEMMA UssdEndsFacts ==
  ASSUME Typed, NEW c \in Ctx, UssdEnds(c)
  PROVE  Typed' /\ UNCHANGED <<redis, wire, replying, ordered, bounds, history>>
<1>1. PICK to \in {"COMPLETED", "NOT_FOUND"} :
        Transition(c, to) /\ UNCHANGED <<redis, wire, replying, ordered, bounds, history>>
  BY DEF UssdEnds
<1>2. to \in SessionState
  BY DEF SessionState
<1>3. session' \in [Ctx -> SessionState]
  BY <1>1, <1>2, TransitionTyped
<1>4. wire' \in Seq(Sound) /\ wire' \in Seq(Handler)
  BY <1>1, WireTyped
<1> QED
  BY <1>1, <1>3, <1>4, OtherStep DEF redis, bounds, history, Typed, TypeOK

LEMMA TimePassesFacts ==
  ASSUME Typed, NEW side \in Side, NEW i \in Id, TimePasses(side, i)
  PROVE  /\ Typed'
         /\ \A s \in Side, j \in Id : key'[s][j] = None <=> key[s][j] = None
         /\ UNCHANGED <<index, used, wire, coordinator, bounds, history>>
<1>1. /\ key[side][i] # None
      /\ key' = [key EXCEPT ![side][i].due = TRUE]
      /\ UNCHANGED <<index, used, wire, coordinator, bounds, history>>
  BY DEF TimePasses
<1>2. PICK entry : entry = [key[side][i] EXCEPT !.due = TRUE]
  OBVIOUS
<1>3. key[side][i] \in Entry
  BY <1>1 DEF Typed, TypeOK
<1>4. entry \in Entry /\ entry # None /\ entry.claim = key[side][i].claim
  BY <1>2, <1>3, NoneAssumption DEF Entry
<1>5. side = "pending" => entry.claim \in Claims /\ entry.claim.id = i
  BY <1>1, <1>4 DEF Typed, EntriesOK
<1>6. SetKey(side, i, entry)
  BY <1>1, <1>2 DEF SetKey
<1>7. /\ key' \in [Side -> [Id -> Entry \cup {None}]] /\ EntriesOK'
      /\ \A s \in Side, j \in Id :
           key'[s][j] = IF s = side /\ j = i THEN entry ELSE key[s][j]
  BY <1>4, <1>5, <1>6, SetKeyTyped
<1>8. wire' \in Seq(Sound) /\ wire' \in Seq(Handler)
  BY <1>1, WireTyped
<1>9. Typed'
  BY <1>1, <1>7, <1>8, KeyStep DEF coordinator, bounds, history, Typed, TypeOK
<1> QED
  BY <1>1, <1>4, <1>7, <1>9

LEMMA CrashFacts ==
  ASSUME Typed, Crash
  PROVE  /\ Typed' /\ wire' = <<>> /\ crashes' = crashes + 1
         /\ replying' = [k \in Claims |-> 0]
         /\ UNCHANGED <<redis, ordered, history>>
<1>1. /\ crashes' = crashes + 1 /\ wire' = <<>>
      /\ session' = [c \in Ctx |-> "IDLE"] /\ replying' = [k \in Claims |-> 0]
      /\ UNCHANGED <<redis, ordered, history>>
  BY DEF Crash
<1>2. session' \in [Ctx -> SessionState] /\ replying' \in [Claims -> Nat]
  BY <1>1 DEF SessionState
<1>3. wire' \in Seq(Sound) /\ wire' \in Seq(Handler)
  BY <1>1, WireTyped
<1>4. Typed'
  BY <1>1, <1>2, <1>3 DEF redis, history, Typed, TypeOK, EntriesOK
<1> QED
  BY <1>1, <1>4

LEMMA TypedStep ==
  ASSUME Typed, [Next]_vars
  PROVE  Typed'
<1>1. CASE UNCHANGED vars
  BY <1>1 DEF vars, redis, coordinator, bounds, history, Typed, TypeOK, EntriesOK
<1>2. CASE Next
  BY <1>2, BeginFacts, IsUsedFacts, GetOtherFacts, SetOwnFacts, IndexOwnFacts,
     DelOtherFacts, UnindexOtherFacts, MarkUsedFacts, ListFacts, DropStaleIdFacts,
     ExpireFacts, UnindexExpiredFacts, OnReplySentFacts, UssdEndsFacts,
     TimePassesFacts, CrashFacts DEF Next, Command
<1> QED
  BY <1>1, <1>2

LEMMA TypedInvariant == Spec => []Typed
<1>1. Init => Typed
  <2> SUFFICES ASSUME Init PROVE Typed
    OBVIOUS
  <2>1. wire \in Seq(Sound) /\ wire \in Seq(Handler) /\ ordered \in Seq(Claims)
    BY EmptySeq DEF Init
  <2>2. \A i \in Id : key["pending"][i] = None
    BY DEF Init, Side
  <2> QED
    BY <2>1, <2>2 DEF Init, Typed, TypeOK, EntriesOK, SessionState
<1>2. Typed /\ [Next]_vars => Typed'
  BY TypedStep
<1> QED
  BY <1>1, <1>2, PTL DEF Spec

\* The store, the handlers under way and the coordinator keep their types
\* (RedisPendingTransactionStore, PendingTransactionManager).
THEOREM StoreTypeCorrect == Spec => []TypeOK
<1>1. Typed => TypeOK
  BY DEF Typed
<1> QED
  BY <1>1, TypedInvariant, PTL

-----------------------------------------------------------------------------
(* The index.  A handler about to take an id out of the index has deleted  *)
(* the entry, or seen it gone; an entry stored since then belongs to a     *)
(* handler further back on the wire, which will put the id in again.       *)

Unindexes(h, side, i) ==
  \/ h.at = "srem" /\ side = Other[h.side] /\ i = h.id
  \/ h.at = "stale" /\ side = h.side /\ i = Least(h.todo)
  \/ h.at = "unindex" /\ side = h.side /\ i = FirstDue(h.due).id

Indexes(h, side, i) == h.at = "sadd" /\ h.side = side /\ h.id = i

Behind ==
  \A n \in DOMAIN wire, side \in Side, i \in Id :
    Unindexes(wire[n], side, i) /\ key[side][i] # None =>
      \E m \in DOMAIN wire : m > n /\ Indexes(wire[m], side, i)

\* What a step changes for the index: entries appear only with a handler that
\* goes on to SADD, ids leave only by the handler of the turn, and a handler
\* goes on to SREM only with its entry gone.
LEMMA TurnBehind ==
  ASSUME Typed, Typed', Behind, wire # <<>>,
         \/ Done /\ UNCHANGED key
         \/ \E h \in Sound :
              /\ Continue(h)
              /\ \A s \in Side, j \in Id :
                   /\ key'[s][j] # None => key[s][j] # None \/ Indexes(h, s, j)
                   /\ Unindexes(h, s, j) => key'[s][j] = None
  PROVE  Behind'
<1>1. /\ Rest \in Seq(Sound) /\ Len(wire) \in Nat \ {0}
      /\ DOMAIN wire = 1..Len(wire) /\ DOMAIN Rest = 1..(Len(wire) - 1)
      /\ \A n \in DOMAIN Rest : n + 1 \in DOMAIN wire /\ Rest[n] = wire[n + 1]
  BY TurnFacts DEF Typed
<1>2. \A n \in DOMAIN Rest, s \in Side, j \in Id :
        Unindexes(Rest[n], s, j) /\ key[s][j] # None =>
          \E m \in DOMAIN Rest : m > n /\ Indexes(Rest[m], s, j)
  <2> SUFFICES ASSUME NEW n \in DOMAIN Rest, NEW s \in Side, NEW j \in Id,
                      Unindexes(Rest[n], s, j), key[s][j] # None
               PROVE  \E m \in DOMAIN Rest : m > n /\ Indexes(Rest[m], s, j)
    OBVIOUS
  <2>1. n + 1 \in DOMAIN wire /\ Unindexes(wire[n + 1], s, j)
    BY <1>1
  <2>2. PICK m \in DOMAIN wire : m > n + 1 /\ Indexes(wire[m], s, j)
    BY <2>1 DEF Behind
  <2>3. m - 1 \in DOMAIN Rest /\ m - 1 > n /\ Rest[m - 1] = wire[m]
    BY <1>1, <2>2
  <2> QED
    BY <2>2, <2>3
<1>3. CASE Done /\ UNCHANGED key
  <2>1. wire' = Rest
    BY <1>3 DEF Done, Rest
  <2> QED
    BY <1>2, <1>3, <2>1 DEF Behind
<1>4. ASSUME NEW h \in Sound, Continue(h),
             \A s \in Side, j \in Id :
               /\ key'[s][j] # None => key[s][j] # None \/ Indexes(h, s, j)
               /\ Unindexes(h, s, j) => key'[s][j] = None
      PROVE  Behind'
  <2>1. PICK rest \in Seq(Sound) : rest = Rest
    BY <1>1
  <2>2. wire' = Append(rest, h)
    BY <1>4, <2>1 DEF Continue, Rest
  <2>3. /\ Len(rest) \in Nat /\ DOMAIN rest = 1..Len(rest)
        /\ DOMAIN wire' = 1..(Len(rest) + 1) /\ wire'[Len(rest) + 1] = h
        /\ \A n \in 1..Len(rest) : wire'[n] = rest[n]
    BY <2>2, AppendFacts
  <2> SUFFICES ASSUME NEW n \in DOMAIN wire', NEW s \in Side, NEW j \in Id,
                      Unindexes(wire'[n], s, j), key'[s][j] # None
               PROVE  \E m \in DOMAIN wire' : m > n /\ Indexes(wire'[m], s, j)
    BY DEF Behind
  <2>4. n \in DOMAIN rest /\ Unindexes(rest[n], s, j)
    <3>1. n # Len(rest) + 1
      BY <1>4, <2>3
    <3> QED
      BY <2>3, <3>1
  <2>5. CASE Indexes(h, s, j)
    BY <2>3, <2>4, <2>5
  <2>6. CASE key[s][j] # None
    <3>1. PICK m \in DOMAIN rest : m > n /\ Indexes(rest[m], s, j)
      BY <1>2, <2>1, <2>4, <2>6
    <3> QED
      BY <2>3, <3>1
  <2> QED
    BY <1>4, <2>5, <2>6
<1> QED
  BY <1>3, <1>4

LEMMA JoinBehind ==
  ASSUME Typed, Behind, NEW h \in Sound, Join(h), Begins(h), UNCHANGED key
  PROVE  Behind'
<1>1. PICK rest \in Seq(Sound) : rest = wire
  BY DEF Typed
<1>2. wire' = Append(rest, h)
  BY <1>1 DEF Join
<1>3. /\ Len(rest) \in Nat /\ DOMAIN rest = 1..Len(rest)
      /\ DOMAIN wire' = 1..(Len(rest) + 1) /\ wire'[Len(rest) + 1] = h
      /\ \A n \in 1..Len(rest) : wire'[n] = rest[n]
  BY <1>2, AppendFacts
<1> SUFFICES ASSUME NEW n \in DOMAIN wire', NEW s \in Side, NEW j \in Id,
                    Unindexes(wire'[n], s, j), key[s][j] # None
             PROVE  \E m \in DOMAIN wire' : m > n /\ Indexes(wire'[m], s, j)
  BY DEF Behind
<1>4. ~Unindexes(h, s, j)
  BY DEF Unindexes, Begins
<1>5. n \in DOMAIN rest /\ Unindexes(rest[n], s, j)
  BY <1>3, <1>4
<1>6. PICK m \in DOMAIN rest : m > n /\ Indexes(rest[m], s, j)
  BY <1>1, <1>5 DEF Behind
<1> QED
  BY <1>3, <1>6

\* A handler that goes on, to a command other than SREM, or with its entry gone.
LEMMA GoesBehind ==
  ASSUME Typed, Typed', Behind, wire # <<>>,
         \/ /\ UNCHANGED key
            /\ \/ Done \/ SweepGoes
               \/ \E c \in {"get", "set", "del", "markUsed"} : GoesTo(c)
         \/ /\ UNCHANGED key /\ GoesTo("stale") /\ key[turn.side][Least(turn.todo)] = None
         \/ /\ GoesTo("sadd")
            /\ \A s \in Side, j \in Id :
                 key'[s][j] = key[s][j] \/ (s = turn.side /\ j = turn.id)
         \/ /\ GoesTo("srem")
            /\ \A s \in Side, j \in Id :
                 key'[s][j] = IF s = Other[turn.side] /\ j = turn.id THEN None ELSE key[s][j]
         \/ /\ GoesTo("unindex")
            /\ \A s \in Side, j \in Id :
                 key'[s][j] = IF s = turn.side /\ j = FirstDue(turn.due).id
                              THEN None ELSE key[s][j]
  PROVE  Behind'
<1>1. CASE Done /\ UNCHANGED key
  BY <1>1, TurnBehind
<1>2. ASSUME NEW h \in Sound, Continue(h), UNCHANGED key,
             h.at \in {"get", "set", "del", "markUsed", "ids", "read", "expire"}
      PROVE  Behind'
  <2>1. \A s \in Side, j \in Id : ~Unindexes(h, s, j)
    BY <1>2 DEF Unindexes
  <2> QED
    BY <1>2, <2>1, TurnBehind
<1>3. ASSUME GoesTo("stale"), UNCHANGED key, key[turn.side][Least(turn.todo)] = None
      PROVE  Behind'
  <2>1. PICK h \in Sound : /\ Continue(h) /\ h.at = "stale"
                           /\ h.side = turn.side /\ h.todo = turn.todo
    BY <1>3 DEF GoesTo
  <2>2. \A s \in Side, j \in Id : Unindexes(h, s, j) => key'[s][j] = None
    BY <1>3, <2>1 DEF Unindexes
  <2> QED
    BY <1>3, <2>1, <2>2, TurnBehind
<1>4. ASSUME GoesTo("sadd"),
             \A s \in Side, j \in Id :
               key'[s][j] = key[s][j] \/ (s = turn.side /\ j = turn.id)
      PROVE  Behind'
  <2>1. PICK h \in Sound : /\ Continue(h) /\ h.at = "sadd"
                           /\ h.side = turn.side /\ h.id = turn.id
    BY <1>4 DEF GoesTo
  <2>2. \A s \in Side, j \in Id :
          /\ ~Unindexes(h, s, j)
          /\ key'[s][j] # None => key[s][j] # None \/ Indexes(h, s, j)
    BY <1>4, <2>1 DEF Unindexes, Indexes
  <2> QED
    BY <2>1, <2>2, TurnBehind
<1>5. ASSUME GoesTo("srem"),
             \A s \in Side, j \in Id :
               key'[s][j] = IF s = Other[turn.side] /\ j = turn.id THEN None ELSE key[s][j]
      PROVE  Behind'
  <2>1. PICK h \in Sound : /\ Continue(h) /\ h.at = "srem"
                           /\ h.side = turn.side /\ h.id = turn.id
    BY <1>5 DEF GoesTo
  <2>2. \A s \in Side, j \in Id :
          /\ Unindexes(h, s, j) => key'[s][j] = None
          /\ key'[s][j] # None => key[s][j] # None
    BY <1>5, <2>1 DEF Unindexes
  <2> QED
    BY <2>1, <2>2, TurnBehind
<1>6. ASSUME GoesTo("unindex"),
             \A s \in Side, j \in Id :
               key'[s][j] = IF s = turn.side /\ j = FirstDue(turn.due).id
                            THEN None ELSE key[s][j]
      PROVE  Behind'
  <2>1. PICK h \in Sound : /\ Continue(h) /\ h.at = "unindex"
                           /\ h.side = turn.side /\ h.due = turn.due
    BY <1>6 DEF GoesTo
  <2>2. \A s \in Side, j \in Id :
          /\ Unindexes(h, s, j) => key'[s][j] = None
          /\ key'[s][j] # None => key[s][j] # None
    BY <1>6, <2>1 DEF Unindexes
  <2> QED
    BY <2>1, <2>2, TurnBehind
<1> QED
  BY <1>1, <1>2, <1>3, <1>4, <1>5, <1>6 DEF GoesTo, SweepGoes

LEMMA BehindStep ==
  ASSUME Typed, Behind, [Next]_vars
  PROVE  Behind'
<1>1. Typed'
  BY TypedStep
<1>2. ASSUME UNCHANGED <<wire, key>> PROVE Behind'
  BY <1>2 DEF Behind
<1>3. ASSUME wire' = <<>> PROVE Behind'
  BY <1>3 DEF Behind
<1>4. CASE UNCHANGED vars
  BY <1>2, <1>4 DEF vars, redis
<1>5. CASE \/ \E k \in Claims : RegisterClaim(k)
           \/ \E i \in Id : ResolveWithRealTransaction(i)
           \/ CheckExpired
  BY <1>5, BeginFacts, JoinBehind DEF Begin, redis
<1>6. ASSUME NEW k \in Claims, OnReplySent(k) PROVE Behind'
  BY <1>2, <1>6, OnReplySentFacts DEF redis
<1>7. ASSUME NEW c \in Ctx, UssdEnds(c) PROVE Behind'
  BY <1>2, <1>7, UssdEndsFacts DEF redis
<1>8. ASSUME NEW side \in Side, NEW i \in Id, TimePasses(side, i) PROVE Behind'
  BY <1>8, TimePassesFacts DEF Behind
<1>9. CASE Crash
  BY <1>3, <1>9, CrashFacts
<1>10. CASE IsUsed \/ GetOther
  BY <1>1, <1>10, IsUsedFacts, GetOtherFacts, GoesBehind DEF redis
<1>11. CASE SetOwn
  BY <1>1, <1>11, SetOwnFacts, GoesBehind
<1>12. CASE IndexOwn \/ UnindexOther \/ MarkUsed
  BY <1>1, <1>12, IndexOwnFacts, UnindexOtherFacts, MarkUsedFacts, GoesBehind
<1>13. CASE DelOther
  BY <1>1, <1>13, DelOtherFacts, GoesBehind
<1>14. CASE ListIds \/ ListEntry
  BY <1>1, <1>14, ListFacts, GoesBehind DEF redis
<1>15. CASE DropStaleId \/ UnindexExpired
  BY <1>1, <1>15, DropStaleIdFacts, UnindexExpiredFacts, GoesBehind
<1>16. CASE Expire
  BY <1>1, <1>16, ExpireFacts, GoesBehind
<1> QED
  BY <1>4, <1>5, <1>6, <1>7, <1>8, <1>9, <1>10, <1>11, <1>12, <1>13, <1>14, <1>15, <1>16
     DEF Next, Command

\* The id of an entry stays in the index, or with a handler still to come.
LEMMA TurnIndexed ==
  ASSUME Typed, Behind, Indexed, wire # <<>>, Members(Rest) \subseteq UnderWay',
         \A s \in Side, j \in Id :
           /\ key'[s][j] # None => \/ key[s][j] # None
                                  \/ \E h \in UnderWay' : Indexes(h, s, j)
           /\ j \in index[s] => j \in index'[s] \/ Unindexes(turn, s, j)
           /\ Indexes(turn, s, j) => j \in index'[s]
  PROVE  Indexed'
<1> SUFFICES ASSUME NEW s \in Side, NEW j \in Id, key'[s][j] # None
             PROVE  j \in index'[s] \/ \E h \in UnderWay' : Indexes(h, s, j)
  BY DEF Indexed, Indexes
<1>1. /\ UnderWay = Members(Rest) \cup {turn} /\ 1 \in DOMAIN wire /\ turn = wire[1]
      /\ DOMAIN wire = 1..Len(wire) /\ Len(wire) \in Nat
      /\ DOMAIN Rest = 1..(Len(wire) - 1)
      /\ \A n \in DOMAIN Rest : Rest[n] = wire[n + 1]
  BY TurnFacts DEF Typed
<1>2. CASE key[s][j] # None /\ j \in index[s] /\ Unindexes(turn, s, j)
  <2>1. PICK m \in DOMAIN wire : m > 1 /\ Indexes(wire[m], s, j)
    BY <1>1, <1>2 DEF Behind
  <2>2. m - 1 \in DOMAIN Rest /\ Rest[m - 1] = wire[m]
    BY <1>1, <2>1
  <2>3. wire[m] \in Members(Rest)
    BY <2>2 DEF Members
  <2> QED
    BY <2>1, <2>3
<1>3. CASE key[s][j] # None /\ \E h \in UnderWay : Indexes(h, s, j)
  BY <1>1, <1>3
<1>4. CASE key[s][j] # None
  BY <1>2, <1>3, <1>4 DEF Indexed, Indexes
<1> QED
  BY <1>4

\* The others stay on the wire.
LEMMA OthersStay ==
  ASSUME Typed, wire # <<>>, Done \/ SweepGoes \/ \E c : GoesTo(c)
  PROVE  Members(Rest) \subseteq UnderWay'
<1>1. Rest \in Seq(Sound)
  BY TurnFacts DEF Typed
<1>2. CASE Done
  BY <1>2 DEF Done, Rest, Members, UnderWay
<1>3. ASSUME NEW h \in Sound, Continue(h) PROVE Members(Rest) \subseteq UnderWay'
  <2>1. PICK rest \in Seq(Sound) : rest = Rest
    BY <1>1
  <2>2. wire' = Append(rest, h)
    BY <1>3, <2>1 DEF Continue, Rest
  <2> QED
    BY <2>1, <2>2, AppendFacts
<1> QED
  BY <1>2, <1>3 DEF SweepGoes, GoesTo

LEMMA IndexedStep ==
  ASSUME Typed, Behind, [Next]_vars, Indexed, crashes' = crashes
  PROVE  Indexed'
<1>1. ASSUME UNCHANGED <<wire, index>>,
             \A s \in Side, j \in Id : key'[s][j] # None => key[s][j] # None
      PROVE  Indexed'
  BY <1>1 DEF Indexed, UnderWay
<1>2. CASE UNCHANGED vars
  BY <1>1, <1>2 DEF vars, redis
<1>3. CASE \/ \E k \in Claims : RegisterClaim(k)
           \/ \E i \in Id : ResolveWithRealTransaction(i)
           \/ CheckExpired
  <2>1. PICK h \in Sound : Join(h) /\ UNCHANGED <<key, index>>
    BY <1>3, BeginFacts DEF Begin, redis
  <2>2. PICK rest \in Seq(Sound) : rest = wire
    BY DEF Typed
  <2>3. wire' = Append(rest, h)
    BY <2>1, <2>2 DEF Join
  <2>4. UnderWay \subseteq UnderWay'
    BY <2>2, <2>3, AppendFacts DEF UnderWay, Members
  <2> QED
    BY <2>1, <2>4 DEF Indexed
<1>4. ASSUME NEW k \in Claims, OnReplySent(k) PROVE Indexed'
  BY <1>1, <1>4, OnReplySentFacts DEF redis
<1>5. ASSUME NEW c \in Ctx, UssdEnds(c) PROVE Indexed'
  BY <1>1, <1>5, UssdEndsFacts DEF redis
<1>6. ASSUME NEW side \in Side, NEW i \in Id, TimePasses(side, i) PROVE Indexed'
  BY <1>1, <1>6, TimePassesFacts
<1>7. CASE Crash
  BY <1>7, CrashFacts DEF Typed
<1>8. index \in [Side -> SUBSET Id]
  BY DEF Typed, TypeOK
<1>9. ASSUME wire # <<>>, turn.at # "sadd", UNCHANGED index,
             \A s \in Side, j \in Id : key'[s][j] # None => key[s][j] # None,
             Done \/ SweepGoes \/ \E c : GoesTo(c)
      PROVE  Indexed'
  <2>1. Members(Rest) \subseteq UnderWay'
    BY <1>9, OthersStay
  <2>2. \A s \in Side, j \in Id : ~Indexes(turn, s, j)
    BY <1>9 DEF Indexes
  <2> QED
    BY <1>9, <2>1, <2>2, TurnIndexed
<1>10. ASSUME wire # <<>>, turn.at # "sadd", UNCHANGED key,
              NEW side \in Side, NEW i \in Id, Unindex(side, i), Unindexes(turn, side, i),
              Done \/ SweepGoes \/ \E c : GoesTo(c)
       PROVE  Indexed'
  <2>1. Members(Rest) \subseteq UnderWay'
    BY <1>10, OthersStay
  <2>2. \A s \in Side, j \in Id : ~Indexes(turn, s, j)
    BY <1>10 DEF Indexes
  <2>3. \A s \in Side, j \in Id : j \in index[s] => j \in index'[s] \/ Unindexes(turn, s, j)
    BY <1>8, <1>10 DEF Unindex
  <2> QED
    BY <1>10, <2>1, <2>2, <2>3, TurnIndexed
<1>11. CASE IsUsed \/ GetOther \/ ListIds \/ ListEntry
  BY <1>9, <1>11, IsUsedFacts, GetOtherFacts, ListFacts DEF redis
<1>12. CASE MarkUsed
  BY <1>9, <1>12, MarkUsedFacts
<1>13. CASE DelOther
  BY <1>9, <1>13, DelOtherFacts
<1>14. CASE Expire
  BY <1>9, <1>14, ExpireFacts
<1>15. CASE UnindexOther
  <2>1. /\ wire # <<>> /\ turn.at = "srem" /\ UNCHANGED key
        /\ Unindex(Other[turn.side], turn.id) /\ (Done \/ \E c : GoesTo(c))
    BY <1>15, UnindexOtherFacts
  <2>2. Other[turn.side] \in Side /\ turn.id \in Id
    BY <2>1, TurnKinds
  <2>3. Unindexes(turn, Other[turn.side], turn.id)
    BY <2>1 DEF Unindexes
  <2> QED
    BY <1>10, <2>1, <2>2, <2>3
<1>16. CASE DropStaleId
  <2>1. /\ wire # <<>> /\ turn.at = "stale" /\ UNCHANGED key /\ SweepGoes
        /\ Unindex(turn.side, Least(turn.todo))
    BY <1>16, DropStaleIdFacts
  <2>2. turn.side \in Side /\ Least(turn.todo) \in Id
    BY <2>1, TurnKinds
  <2>3. Unindexes(turn, turn.side, Least(turn.todo))
    BY <2>1 DEF Unindexes
  <2> QED
    BY <1>10, <2>1, <2>2, <2>3
<1>17. CASE UnindexExpired
  <2>1. /\ wire # <<>> /\ turn.at = "unindex" /\ UNCHANGED key /\ SweepGoes
        /\ Unindex(turn.side, FirstDue(turn.due).id)
    BY <1>17, UnindexExpiredFacts
  <2>2. turn.side \in Side /\ FirstDue(turn.due).id \in Id
    BY <2>1, TurnKinds
  <2>3. Unindexes(turn, turn.side, FirstDue(turn.due).id)
    BY <2>1 DEF Unindexes
  <2> QED
    BY <1>10, <2>1, <2>2, <2>3
<1>18. CASE IndexOwn
  <2>1. /\ wire # <<>> /\ turn.at = "sadd" /\ UNCHANGED key /\ Done
        /\ index' = [index EXCEPT ![turn.side] = @ \cup {turn.id}]
    BY <1>18, IndexOwnFacts
  <2>2. Members(Rest) \subseteq UnderWay'
    BY <2>1, OthersStay
  <2>3. \A s \in Side, j \in Id :
          /\ j \in index[s] => j \in index'[s]
          /\ Indexes(turn, s, j) => j \in index'[s]
    BY <1>8, <2>1 DEF Indexes
  <2> QED
    BY <2>1, <2>2, <2>3, TurnIndexed
<1>19. CASE SetOwn
  <2>1. /\ wire # <<>> /\ turn.at = "set" /\ GoesTo("sadd") /\ UNCHANGED index
        /\ \A s \in Side, j \in Id :
             key'[s][j] = key[s][j] \/ (s = turn.side /\ j = turn.id)
    BY <1>19, SetOwnFacts
  <2>2. PICK h \in Sound : Continue(h) /\ Indexes(h, turn.side, turn.id)
    BY <2>1 DEF GoesTo, Indexes
  <2>3. PICK rest \in Seq(Sound) : rest = Rest
    BY <2>1, TurnFacts DEF Typed
  <2>4. wire' = Append(rest, h)
    BY <2>2, <2>3 DEF Continue, Rest
  <2>5. Members(Rest) \subseteq UnderWay' /\ h \in UnderWay'
    BY <2>3, <2>4, AppendFacts
  <2>6. \A s \in Side, j \in Id :
          /\ ~Indexes(turn, s, j)
          /\ key'[s][j] # None => key[s][j] # None \/ Indexes(h, s, j)
    BY <2>1, <2>2 DEF Indexes
  <2> QED
    BY <2>1, <2>5, <2>6, TurnIndexed
<1> QED
  BY <1>2, <1>3, <1>4, <1>5, <1>6, <1>7, <1>11, <1>12, <1>13, <1>14, <1>15, <1>16,
     <1>17, <1>18, <1>19 DEF Next, Command

\* An entry leaves the index before its time only in a crash, however handlers
\* and sweeps of one payment cross (set, delete, listAll).
THEOREM IndexKept == Spec => OnlyCrashUnindexes
<1>1. Init => Behind
  BY DEF Init, Behind
<1>2. Typed /\ Behind /\ [Next]_vars => Behind'
  BY BehindStep
<1>3. Spec => []Behind
  BY <1>1, <1>2, TypedInvariant, PTL DEF Spec
<1>4. Typed /\ Behind /\ [Next]_vars => [Indexed /\ crashes' = crashes => Indexed']_vars
  BY IndexedStep
<1> QED
  BY <1>3, <1>4, TypedInvariant, PTL DEF Spec, OnlyCrashUnindexes

-----------------------------------------------------------------------------
(* What the phone was told is accepted.                                    *)

\* Handler h has taken payment i out of the store and is about to match it, or
\* to give it up aloud.
InHand(h, i) ==
  \/ h.id = i /\ h.at \in {"srem", "markUsed"}
  \/ h.at = "unindex" /\ h.side = "orphan" /\ FirstDue(h.due).id = i

Safe(i) ==
  \/ i \in used \cup closed
  \/ key["orphan"][i] # None
  \/ \E h \in UnderWay : InHand(h, i)

\* The SMS of payment i is stored; its answer is on its way.
Answers(h, i) == h.kind = "sms" /\ h.at = "sadd" /\ h.id = i

KeptInv ==
  crashes = 0 => \A i \in Id :
    i \in received \/ (\E h \in UnderWay : Answers(h, i)) => Safe(i)

LEMMA ContinueFacts ==
  ASSUME Typed, wire # <<>>, NEW h \in Sound, Continue(h)
  PROVE  UnderWay' = Members(Rest) \cup {h} /\ h \in UnderWay'
<1>1. PICK rest \in Seq(Sound) : rest = Rest
  BY TurnFacts DEF Typed
<1>2. wire' = Append(rest, h)
  BY <1>1 DEF Continue, Rest
<1> QED
  BY <1>1, <1>2, AppendFacts

LEMMA TurnKept ==
  ASSUME Typed, KeptInv, wire # <<>>, crashes' = crashes,
         Members(Rest) \subseteq UnderWay', used \subseteq used', closed \subseteq closed',
         \A i \in Id :
           /\ key["orphan"][i] # None \/ InHand(turn, i) =>
                \/ i \in used' \cup closed' \/ key'["orphan"][i] # None
                \/ \E h \in UnderWay' : InHand(h, i)
           /\ i \in received' => i \in received \/ Answers(turn, i) \/ i \in used' \cup closed'
           /\ \A h \in UnderWay' :
                Answers(h, i) => h \in Members(Rest) \/ key'["orphan"][i] # None
  PROVE  KeptInv'
<1>1. UnderWay = Members(Rest) \cup {turn}
  BY TurnFacts DEF Typed
<1>2. ASSUME NEW i \in Id, Safe(i) PROVE Safe(i)'
  BY <1>1, <1>2 DEF Safe
<1> SUFFICES ASSUME crashes = 0, NEW i \in Id,
                    i \in received' \/ \E h \in UnderWay' : Answers(h, i)
             PROVE  Safe(i)'
  BY DEF KeptInv
<1>3. CASE i \in received \/ \E h \in UnderWay : Answers(h, i)
  BY <1>2, <1>3 DEF KeptInv
<1>4. CASE i \in used' \cup closed' \/ key'["orphan"][i] # None
  BY <1>4 DEF Safe
<1> QED
  BY <1>1, <1>3, <1>4

\* A handler goes on and takes nothing out.
LEMMA PlainKept ==
  ASSUME Typed, KeptInv, wire # <<>>, UNCHANGED <<used, closed, received, crashes>>,
         turn.at \notin {"srem", "markUsed", "unindex"},
         \A i \in Id : key["orphan"][i] # None => key'["orphan"][i] # None,
         \/ Done \/ SweepGoes
         \/ \E c \in {"get", "set", "del", "srem", "stale"} : GoesTo(c)
  PROVE  KeptInv'
<1>1. Members(Rest) \subseteq UnderWay'
  BY OthersStay
<1>2. \A i \in Id : ~InHand(turn, i)
  BY DEF InHand
<1>3. \A h \in UnderWay' : h.at # "sadd" \/ h \in Members(Rest)
  <2>1. CASE Done
    BY <2>1 DEF Done, UnderWay, Members, Rest
  <2>2. CASE ~Done
    <3>1. PICK h \in Sound : Continue(h) /\ h.at # "sadd"
      BY <2>2 DEF SweepGoes, GoesTo
    <3> QED
      BY <3>1, ContinueFacts
  <2> QED
    BY <2>1, <2>2
<1> QED
  BY <1>1, <1>2, <1>3, TurnKept DEF Answers

LEMMA KeptStep ==
  ASSUME Typed, KeptInv, [Next]_vars
  PROVE  KeptInv'
<1>1. ASSUME UNCHANGED <<wire, used, closed, received, crashes>>,
             \A i \in Id : key["orphan"][i] # None => key'["orphan"][i] # None
      PROVE  KeptInv'
  BY <1>1 DEF KeptInv, Safe, UnderWay
<1>2. CASE UNCHANGED vars
  BY <1>1, <1>2 DEF vars, redis, history, bounds
<1>3. CASE \/ \E k \in Claims : RegisterClaim(k)
           \/ \E i \in Id : ResolveWithRealTransaction(i)
           \/ CheckExpired
  <2>1. PICK h \in Sound : /\ Join(h) /\ Begins(h)
                           /\ UNCHANGED <<key, used, closed, received, crashes>>
    BY <1>3, BeginFacts DEF Begin, redis
  <2>2. PICK rest \in Seq(Sound) : rest = wire
    BY DEF Typed
  <2>3. wire' = Append(rest, h)
    BY <2>1, <2>2 DEF Join
  <2>4. UnderWay' = UnderWay \cup {h}
    BY <2>2, <2>3, AppendFacts DEF UnderWay, Members
  <2>5. \A i \in Id : ~Answers(h, i)
    BY <2>1 DEF Begins, Answers
  <2> QED
    BY <2>1, <2>4, <2>5 DEF KeptInv, Safe
<1>4. ASSUME NEW k \in Claims, OnReplySent(k) PROVE KeptInv'
  BY <1>1, <1>4, OnReplySentFacts DEF redis, history, bounds
<1>5. ASSUME NEW c \in Ctx, UssdEnds(c) PROVE KeptInv'
  BY <1>1, <1>5, UssdEndsFacts DEF redis, history, bounds
<1>6. ASSUME NEW side \in Side, NEW i \in Id, TimePasses(side, i) PROVE KeptInv'
  BY <1>1, <1>6, TimePassesFacts DEF history, bounds, Side
<1>7. CASE Crash
  BY <1>7, CrashFacts DEF Typed, KeptInv
<1>8. CASE IsUsed \/ GetOther \/ ListIds \/ ListEntry
  BY <1>8, IsUsedFacts, GetOtherFacts, ListFacts, PlainKept DEF redis, history, bounds
<1>9. CASE DropStaleId
  BY <1>9, DropStaleIdFacts, PlainKept DEF history, bounds
<1>10. CASE SetOwn
  <2>1. /\ wire # <<>> /\ turn.at = "set" /\ GoesTo("sadd")
        /\ key'[turn.side][turn.id] # None
        /\ \A s \in Side, j \in Id :
             key'[s][j] = key[s][j] \/ (s = turn.side /\ j = turn.id)
        /\ UNCHANGED <<used, closed, received, crashes>>
    BY <1>10, SetOwnFacts DEF history, bounds
  <2>2. PICK h \in Sound : /\ Continue(h) /\ h.at = "sadd" /\ h.kind = turn.kind
                           /\ h.id = turn.id
    BY <2>1 DEF GoesTo
  <2>3. UnderWay' = Members(Rest) \cup {h}
    BY <2>1, <2>2, ContinueFacts
  <2>4. turn.kind = "sms" => turn.side = "orphan"
    BY <2>1, TurnKinds
  <2>5. \A i \in Id : /\ ~InHand(turn, i)
                      /\ Answers(h, i) => key'["orphan"][i] # None
                      /\ key["orphan"][i] # None => key'["orphan"][i] # None
    BY <2>1, <2>2, <2>4 DEF InHand, Answers, Side
  <2> QED
    BY <2>1, <2>3, <2>5, TurnKept
<1>11. CASE IndexOwn
  <2>1. /\ wire # <<>> /\ turn.at = "sadd" /\ Done /\ Answered
        /\ UNCHANGED <<key, used, closed, crashes>>
    BY <1>11, IndexOwnFacts DEF bounds
  <2>2. UnderWay' = Members(Rest)
    BY <2>1 DEF Done, UnderWay, Members, Rest
  <2>3. \A i \in Id : /\ ~InHand(turn, i)
                      /\ i \in received' => i \in received \/ Answers(turn, i)
    BY <2>1 DEF InHand, Answers, Answered
  <2> QED
    BY <2>1, <2>2, <2>3, TurnKept
<1>12. CASE DelOther
  <2>1. /\ wire # <<>> /\ turn.at = "del" /\ GoesTo("srem")
        /\ \A s \in Side, j \in Id :
             key'[s][j] = IF s = Other[turn.side] /\ j = turn.id THEN None ELSE key[s][j]
        /\ UNCHANGED <<used, closed, received, crashes>>
    BY <1>12, DelOtherFacts DEF history, bounds
  <2>2. PICK h \in Sound : Continue(h) /\ h.at = "srem" /\ h.id = turn.id
    BY <2>1 DEF GoesTo
  <2>3. UnderWay' = Members(Rest) \cup {h}
    BY <2>1, <2>2, ContinueFacts
  <2>4. \A i \in Id : /\ ~InHand(turn, i) /\ ~Answers(h, i)
                      /\ key["orphan"][i] # None =>
                           key'["orphan"][i] # None \/ InHand(h, i)
    BY <2>1, <2>2 DEF InHand, Answers, Side
  <2> QED
    BY <2>1, <2>3, <2>4, TurnKept
<1>13. CASE Expire
  <2>1. /\ wire # <<>> /\ turn.at = "expire" /\ GoesTo("unindex")
        /\ \A s \in Side, j \in Id :
             key'[s][j] = IF s = turn.side /\ j = FirstDue(turn.due).id
                          THEN None ELSE key[s][j]
        /\ UNCHANGED <<used, closed, received, crashes>>
    BY <1>13, ExpireFacts DEF history, bounds
  <2>2. PICK h \in Sound : /\ Continue(h) /\ h.at = "unindex"
                           /\ h.side = turn.side /\ h.due = turn.due
    BY <2>1 DEF GoesTo
  <2>3. UnderWay' = Members(Rest) \cup {h}
    BY <2>1, <2>2, ContinueFacts
  <2>4. \A i \in Id : /\ ~InHand(turn, i) /\ ~Answers(h, i)
                      /\ key["orphan"][i] # None =>
                           key'["orphan"][i] # None \/ InHand(h, i)
    BY <2>1, <2>2 DEF InHand, Answers, Side
  <2> QED
    BY <2>1, <2>3, <2>4, TurnKept
<1>14. CASE UnindexOther
  <2>1. /\ wire # <<>> /\ turn.at = "srem" /\ UNCHANGED <<key, used, crashes>>
        /\ \/ GoesTo("markUsed") /\ UNCHANGED <<closed, received>>
           \/ Done /\ Answered /\ closed' = closed \cup {turn.id}
    BY <1>14, UnindexOtherFacts DEF history, bounds
  <2>2. \A i \in Id : InHand(turn, i) => i = turn.id
    BY <2>1 DEF InHand
  <2>3. CASE GoesTo("markUsed") /\ UNCHANGED <<closed, received>>
    <3>1. PICK h \in Sound : Continue(h) /\ h.at = "markUsed" /\ h.id = turn.id
      BY <2>3 DEF GoesTo
    <3>2. UnderWay' = Members(Rest) \cup {h}
      BY <2>1, <3>1, ContinueFacts
    <3>3. \A i \in Id : ~Answers(h, i) /\ (InHand(turn, i) => InHand(h, i))
      BY <2>2, <3>1 DEF InHand, Answers
    <3> QED
      BY <2>1, <2>3, <3>2, <3>3, TurnKept
  <2>4. CASE Done /\ Answered /\ closed' = closed \cup {turn.id}
    <3>1. UnderWay' = Members(Rest)
      BY <2>4 DEF Done, UnderWay, Members, Rest
    <3>2. \A i \in Id : i \in received' => i \in received \/ i \in closed'
      BY <2>4 DEF Answered
    <3> QED
      BY <2>1, <2>2, <2>4, <3>1, <3>2, TurnKept
  <2> QED
    BY <2>1, <2>3, <2>4
<1>15. CASE MarkUsed
  <2>1. /\ wire # <<>> /\ turn.at = "markUsed" /\ Done /\ Answered
        /\ used' = used \cup {turn.id} /\ UNCHANGED <<key, closed, crashes>>
    BY <1>15, MarkUsedFacts DEF bounds
  <2>2. UnderWay' = Members(Rest)
    BY <2>1 DEF Done, UnderWay, Members, Rest
  <2>3. \A i \in Id : /\ InHand(turn, i) => i = turn.id
                      /\ i \in received' => i \in received \/ i \in used'
    BY <2>1 DEF InHand, Answered
  <2> QED
    BY <2>1, <2>2, <2>3, TurnKept
<1>16. CASE UnindexExpired
  <2>1. /\ wire # <<>> /\ turn.at = "unindex" /\ SweepGoes
        /\ UNCHANGED <<key, used, received, crashes>>
        /\ \/ turn.side = "pending" /\ UNCHANGED closed
           \/ turn.side = "orphan" /\ closed' = closed \cup {FirstDue(turn.due).id}
    BY <1>16, UnindexExpiredFacts DEF bounds
  <2>2. Members(Rest) \subseteq UnderWay'
    BY <2>1, OthersStay
  <2>3. \A h \in UnderWay' : h.at # "sadd" \/ h \in Members(Rest)
    <3>1. CASE Done
      BY <3>1 DEF Done, UnderWay, Members, Rest
    <3>2. CASE ~Done
      BY <2>1, <3>2, ContinueFacts DEF SweepGoes
    <3> QED
      BY <3>1, <3>2
  <2>4. \A i \in Id : InHand(turn, i) => i \in closed'
    BY <2>1 DEF InHand
  <2> QED
    BY <2>1, <2>2, <2>3, <2>4, TurnKept DEF Answers
<1> QED
  BY <1>2, <1>3, <1>4, <1>5, <1>6, <1>7, <1>8, <1>9, <1>10, <1>11, <1>12, <1>13, <1>14,
     <1>15, <1>16 DEF Next, Command

\* Without a crash, no payment whose SMS the phone was told is accepted gets
\* lost: it is matched, waits, was given up aloud, or is in a handler's hands,
\* however claims, reports and sweeps cross (resolveWithRealTransaction).
THEOREM PaymentsAreKept == Spec => []PaymentKept
<1>1. Init => KeptInv
  BY DEF Init, KeptInv, UnderWay
<1>2. Typed /\ KeptInv /\ [Next]_vars => KeptInv'
  BY KeptStep
<1>3. Typed /\ KeptInv => PaymentKept
  <2> SUFFICES ASSUME Typed, KeptInv, crashes = 0, NEW i \in received
               PROVE  Kept(i)
    BY DEF PaymentKept
  <2>1. Safe(i)
    BY DEF KeptInv, Typed, TypeOK
  <2>2. ASSUME NEW h \in UnderWay, h.at = "unindex", FirstDue(h.due).id = i
        PROVE  \E e \in h.due : e.id = i
    <3>1. h \in Sound
      BY DEF UnderWay, Typed
    <3>2. h.due \in SUBSET [id: Id, claim: Claims \cup {None}] /\ h.due # {}
      BY <2>2, <3>1 DEF Sound, Handler, HandlerOK
    <3>3. FirstDue(h.due) \in h.due
      BY <3>2, FirstDueIn
    <3> QED
      BY <2>2, <3>3
  <2> QED
    BY <2>1, <2>2 DEF Safe, Kept, InHand
<1> QED
  BY <1>1, <1>2, <1>3, TypedInvariant, PTL DEF Spec

-----------------------------------------------------------------------------
(* One order for a payment whose handlers never overlapped.                *)

Alone(i) ==
  \A m, n \in DOMAIN wire : wire[m].id = i /\ wire[n].id = i => m = n

Ordered(i) == \E n \in DOMAIN ordered : ordered[n].id = i
Replying(k, i) == k.id = i /\ replying[k] > 0

\* An order, or the one reply that leads to it, is of a used id.
Booked(i) ==
  /\ Ordered(i) => i \in used
  /\ ~OrderedTwice(i)
  /\ \A k \in Claims : Replying(k, i) =>
       /\ i \in used /\ replying[k] = 1 /\ ~Ordered(i)
       /\ \A l \in Claims : Replying(l, i) => l = k

\* The two sides never wait for each other, and a used id has no claim waiting.
Apart(i) ==
  /\ i \in used => key["pending"][i] = None
  /\ key["pending"][i] = None \/ key["orphan"][i] = None

\* What a handler of payment i relies on.
OnceAt(h, i) ==
  /\ i \in used => \/ h.kind = "claim" /\ h.at = "isUsed"
                   \/ h.kind # "claim" /\ h.at \in {"get", "set", "sadd"}
  /\ h.kind = "claim" /\ h.at \in {"set", "sadd"} => key["orphan"][i] = None
  /\ h.kind # "claim" /\ h.at \in {"set", "sadd"} => key["pending"][i] = None
  /\ h.kind = "claim" /\ h.at = "del" => key["pending"][i] = None
  /\ h.at \in {"srem", "markUsed"} => key["pending"][i] = None

Once(i) ==
  /\ Alone(i) /\ Booked(i) /\ Apart(i)
  /\ \A h \in UnderWay : h.id = i => OnceAt(h, i)

OnceInv == \A i \in Id \ overlapped : Once(i)

LEMMA AloneOthers ==
  ASSUME Typed, wire # <<>>, NEW i \in Id, Alone(i), turn.id = i
  PROVE  \A g \in Members(Rest) : g.id # i
<1>1. /\ 1 \in DOMAIN wire /\ turn = wire[1] /\ DOMAIN Rest = 1..(Len(wire) - 1)
      /\ Len(wire) \in Nat
      /\ \A n \in DOMAIN Rest : n + 1 \in DOMAIN wire /\ Rest[n] = wire[n + 1]
  BY TurnFacts DEF Typed
<1> SUFFICES ASSUME NEW n \in DOMAIN Rest PROVE Rest[n].id # i
  BY DEF Members
<1>2. n + 1 # 1
  BY <1>1
<1> QED
  BY <1>1, <1>2 DEF Alone

LEMMA AloneGoes ==
  ASSUME Typed, wire # <<>>, NEW i \in Id, Alone(i),
         Done \/ \E h \in Sound : Continue(h) /\ h.id = turn.id
  PROVE  Alone(i)'
<1>1. /\ Rest \in Seq(Sound) /\ DOMAIN Rest = 1..(Len(wire) - 1) /\ Len(wire) \in Nat
      /\ \A n \in DOMAIN Rest : n + 1 \in DOMAIN wire /\ Rest[n] = wire[n + 1]
  BY TurnFacts DEF Typed
<1>2. \A m, n \in DOMAIN Rest : Rest[m].id = i /\ Rest[n].id = i => m = n
  <2> TAKE m, n \in DOMAIN Rest
  <2> HAVE Rest[m].id = i /\ Rest[n].id = i
  <2>1. m + 1 = n + 1
    BY <1>1 DEF Alone
  <2> QED
    BY <1>1, <2>1
<1>3. CASE Done
  BY <1>2, <1>3 DEF Done, Rest, Alone
<1>4. ASSUME NEW h \in Sound, Continue(h), h.id = turn.id PROVE Alone(i)'
  <2>1. PICK rest \in Seq(Sound) : rest = Rest
    BY <1>1
  <2>2. wire' = Append(rest, h)
    BY <1>4, <2>1 DEF Continue, Rest
  <2>3. /\ DOMAIN rest = 1..Len(rest) /\ Len(rest) \in Nat
        /\ DOMAIN wire' = 1..(Len(rest) + 1) /\ wire'[Len(rest) + 1] = h
        /\ \A n \in 1..Len(rest) : wire'[n] = rest[n]
    BY <2>2, AppendFacts
  <2>4. h.id = i => \A n \in DOMAIN rest : rest[n].id # i
    BY <1>4, <2>1, AloneOthers DEF Members
  <2> SUFFICES ASSUME NEW m \in DOMAIN wire', NEW n \in DOMAIN wire',
                      wire'[m].id = i, wire'[n].id = i
               PROVE  m = n
    BY DEF Alone
  <2>5. CASE m \in DOMAIN rest /\ n \in DOMAIN rest
    BY <1>2, <2>1, <2>3, <2>5
  <2>6. CASE m = Len(rest) + 1 \/ n = Len(rest) + 1
    BY <2>3, <2>4, <2>6
  <2> QED
    BY <2>3, <2>5, <2>6
<1> QED
  BY <1>3, <1>4

\* A step that leaves the orders of payment i, and stores nothing of it.
LEMMA BookedStays ==
  ASSUME NEW i, Booked(i), UNCHANGED <<ordered, replying>>, i \in used <=> i \in used'
  PROVE  Booked(i)'
BY DEF Booked, Ordered, OrderedTwice, Replying

LEMMA ApartStays ==
  ASSUME NEW i \in Id, Apart(i), i \in used <=> i \in used',
         \A s \in Side : key[s][i] = None => key'[s][i] = None
  PROVE  Apart(i)'
BY DEF Apart, Side

\* The turn is of another payment, or of the sweep.
LEMMA OthersOnce ==
  ASSUME Typed, wire # <<>>, NEW i \in Id, Once(i), turn.id # i, Booked(i)',
         i \in used <=> i \in used',
         \A s \in Side : key[s][i] = None => key'[s][i] = None,
         \/ Done
         \/ SweepGoes /\ turn.id = None
         \/ \E c : GoesTo(c)
  PROVE  Once(i)'
<1>1. Apart(i)'
  BY ApartStays DEF Once
<1>2. Done \/ \E h \in Sound : Continue(h) /\ h.id = turn.id
  BY DEF SweepGoes, GoesTo
<1>3. Alone(i)'
  BY <1>2, AloneGoes DEF Once
<1>4. \A h \in UnderWay' : h.id = i => h \in UnderWay
  <2>1. UnderWay = Members(Rest) \cup {turn}
    BY TurnFacts DEF Typed
  <2>2. CASE Done
    BY <2>1, <2>2 DEF Done, UnderWay, Members, Rest
  <2>3. ASSUME NEW h \in Sound, Continue(h), h.id = turn.id
        PROVE  \A g \in UnderWay' : g.id = i => g \in UnderWay
    BY <2>1, <2>3, ContinueFacts
  <2> QED
    BY <1>2, <2>2, <2>3
<1>5. \A h : OnceAt(h, i) => OnceAt(h, i)'
  BY DEF OnceAt, Side
<1> QED
  BY <1>1, <1>3, <1>4, <1>5 DEF Once

\* The turn is of payment i, and of nobody else on the wire.
LEMMA OwnOnce ==
  ASSUME Typed, wire # <<>>, NEW i \in Id, Once(i), turn.id = i, Booked(i)', Apart(i)',
         Done \/ \E h \in Sound : Continue(h) /\ h.id = i /\ OnceAt(h, i)'
  PROVE  Once(i)'
<1>1. \A g \in Members(Rest) : g.id # i
  BY AloneOthers DEF Once
<1>2. Alone(i)'
  BY AloneGoes DEF Once
<1>3. CASE Done
  <2>1. UnderWay' = Members(Rest)
    BY <1>3 DEF Done, UnderWay, Members, Rest
  <2> QED
    BY <1>1, <1>2, <2>1 DEF Once
<1>4. ASSUME NEW h \in Sound, Continue(h), h.id = i, OnceAt(h, i)'
      PROVE  Once(i)'
  <2>1. UnderWay' = Members(Rest) \cup {h}
    BY <1>4, ContinueFacts
  <2> QED
    BY <1>1, <1>2, <1>4, <2>1 DEF Once
<1> QED
  BY <1>3, <1>4

\* One more order.
LEMMA OrderMore ==
  ASSUME Typed, NEW k \in Claims, NEW i, ordered' = Append(ordered, k)
  PROVE  /\ Ordered(i)' <=> Ordered(i) \/ k.id = i
         /\ OrderedTwice(i)' => OrderedTwice(i) \/ (Ordered(i) /\ k.id = i)
<1>1. /\ ordered \in Seq(Claims) /\ Len(ordered) \in Nat
      /\ DOMAIN ordered = 1..Len(ordered)
      /\ DOMAIN ordered' = 1..(Len(ordered) + 1) /\ ordered'[Len(ordered) + 1] = k
      /\ \A n \in 1..Len(ordered) : ordered'[n] = ordered[n]
  BY DEF Typed, TypeOK
<1>2. \A n \in DOMAIN ordered' : n \in DOMAIN ordered \/ n = Len(ordered) + 1
  BY <1>1
<1>3. Ordered(i)' <=> Ordered(i) \/ k.id = i
  <2>1. Ordered(i)' => Ordered(i) \/ k.id = i
    BY <1>1, <1>2 DEF Ordered
  <2>2. Ordered(i) => Ordered(i)'
    BY <1>1 DEF Ordered
  <2>3. k.id = i => Ordered(i)'
    BY <1>1 DEF Ordered
  <2> QED
    BY <2>1, <2>2, <2>3
<1>4. ASSUME OrderedTwice(i)' PROVE OrderedTwice(i) \/ (Ordered(i) /\ k.id = i)
  <2>1. PICK n, m \in DOMAIN ordered' : n # m /\ ordered'[n].id = i /\ ordered'[m].id = i
    BY <1>4 DEF OrderedTwice
  <2>2. CASE n \in DOMAIN ordered /\ m \in DOMAIN ordered
    BY <1>1, <2>1, <2>2 DEF OrderedTwice
  <2>3. CASE n = Len(ordered) + 1
    BY <1>1, <1>2, <2>1, <2>3 DEF Ordered
  <2>4. CASE m = Len(ordered) + 1
    BY <1>1, <1>2, <2>1, <2>4 DEF Ordered
  <2> QED
    BY <1>2, <2>1, <2>2, <2>3, <2>4
<1> QED
  BY <1>3, <1>4

\* The order or the reply of another payment.
LEMMA BookedOther ==
  ASSUME Typed, NEW i \in Id, Booked(i), NEW k \in Claims, k.id # i,
         i \in used <=> i \in used',
         ordered' = ordered \/ ordered' = Append(ordered, k),
         \A l \in Claims : l # k => replying'[l] = replying[l]
  PROVE  Booked(i)'
<1>1. (Ordered(i)' <=> Ordered(i)) /\ (OrderedTwice(i)' => OrderedTwice(i))
  BY OrderMore DEF Ordered, OrderedTwice
<1>2. \A l \in Claims : l.id = i => replying'[l] = replying[l]
  OBVIOUS
<1>3. \A l \in Claims : Replying(l, i)' <=> Replying(l, i)
  BY <1>2 DEF Replying
<1>4. \A l \in Claims : Replying(l, i)' => replying'[l] = replying[l]
  BY <1>2 DEF Replying
<1> QED
  BY <1>1, <1>3, <1>4 DEF Booked

\* The reply of the one match was sent: its claim is ordered, or not at all.
LEMMA BookedSent ==
  ASSUME Typed, NEW i \in Id, Booked(i), NEW k \in Claims, k.id = i, replying[k] > 0,
         UNCHANGED used, ordered' = ordered \/ ordered' = Append(ordered, k),
         replying' = [replying EXCEPT ![k] = @ - 1]
  PROVE  Booked(i)'
<1>1. /\ i \in used /\ replying[k] = 1 /\ ~Ordered(i) /\ ~OrderedTwice(i)
      /\ \A l \in Claims : Replying(l, i) => l = k
  BY DEF Booked, Replying
<1>2. replying \in [Claims -> Nat]
  BY DEF Typed, TypeOK
<1>3. replying'[k] = 0 /\ \A l \in Claims : l # k => replying'[l] = replying[l]
  BY <1>1, <1>2
<1>4. \A l \in Claims : ~Replying(l, i)'
  BY <1>1, <1>3 DEF Replying
<1>5. ~OrderedTwice(i)'
  BY <1>1, OrderMore DEF OrderedTwice
<1> QED
  BY <1>1, <1>4, <1>5 DEF Booked

\* The match of a payment not used before.
LEMMA BookedMatch ==
  ASSUME Typed, NEW i \in Id, Booked(i), i \notin used, used' = used \cup {i},
         NEW k \in Claims, k.id = i,
         \/ ordered' = Append(ordered, k) /\ replying' = replying
         \/ ordered' = ordered /\ replying' = [replying EXCEPT ![k] = @ + 1]
         \/ ordered' = ordered /\ replying' = replying
  PROVE  Booked(i)'
<1>1. ~Ordered(i) /\ ~OrderedTwice(i) /\ \A l \in Claims : ~Replying(l, i)
  BY DEF Booked
<1>2. replying \in [Claims -> Nat]
  BY DEF Typed, TypeOK
<1>3. \A l \in Claims : l.id = i => replying[l] = 0
  BY <1>1, <1>2 DEF Replying
<1>4. CASE ordered' = Append(ordered, k) /\ replying' = replying
  <2>1. ~OrderedTwice(i)' /\ \A l \in Claims : ~Replying(l, i)'
    BY <1>1, <1>4, OrderMore DEF Replying
  <2> QED
    BY <2>1 DEF Booked
<1>5. CASE ordered' = ordered /\ replying' = [replying EXCEPT ![k] = @ + 1]
  <2>1. replying'[k] = 1 /\ \A l \in Claims : l # k => replying'[l] = replying[l]
    BY <1>2, <1>3, <1>5
  <2>2. \A l \in Claims : Replying(l, i)' => l = k
    BY <1>3, <2>1 DEF Replying
  <2>3. ~Ordered(i)' /\ ~OrderedTwice(i)'
    BY <1>1, <1>5 DEF Ordered, OrderedTwice
  <2> QED
    BY <2>1, <2>2, <2>3 DEF Booked
<1>6. CASE ordered' = ordered /\ replying' = replying
  <2>1. ~Ordered(i)' /\ ~OrderedTwice(i)' /\ \A l \in Claims : ~Replying(l, i)'
    BY <1>1, <1>6 DEF Ordered, OrderedTwice, Replying
  <2> QED
    BY <2>1 DEF Booked
<1> QED
  BY <1>4, <1>5, <1>6

\* A handler that joins is alone with its payment, or they overlapped.
LEMMA JoinOnce ==
  ASSUME Typed, NEW i \in Id, Once(i), i \notin overlapped',
         NEW h \in Sound, Begin(h), Begins(h), UNCHANGED <<redis, replying, ordered>>
  PROVE  Once(i)'
<1>1. PICK rest \in Seq(Sound) : rest = wire
  BY DEF Typed
<1>2. wire' = Append(rest, h)
  BY <1>1 DEF Begin, Join
<1>3. /\ UnderWay' = UnderWay \cup {h}
      /\ DOMAIN rest = 1..Len(rest) /\ Len(rest) \in Nat
      /\ DOMAIN wire' = 1..(Len(rest) + 1) /\ wire'[Len(rest) + 1] = h
      /\ \A n \in 1..Len(rest) : wire'[n] = rest[n]
  BY <1>1, <1>2, AppendFacts DEF UnderWay, Members
<1>4. h.id = i => \A g \in UnderWay : g.id # i
  BY NoneAssumption DEF Begin
<1>5. Alone(i)'
  <2> SUFFICES ASSUME NEW m \in DOMAIN wire', NEW n \in DOMAIN wire',
                      wire'[m].id = i, wire'[n].id = i
               PROVE  m = n
    BY DEF Alone
  <2>1. CASE m \in DOMAIN rest /\ n \in DOMAIN rest
    BY <1>1, <1>3, <2>1 DEF Once, Alone
  <2>2. CASE m = Len(rest) + 1 \/ n = Len(rest) + 1
    BY <1>1, <1>3, <1>4, <2>2 DEF UnderWay
  <2> QED
    BY <1>3, <2>1, <2>2
<1>6. Booked(i)' /\ Apart(i)'
  BY BookedStays, ApartStays DEF Once, redis
<1>7. \A g : OnceAt(g, i) => OnceAt(g, i)'
  BY DEF OnceAt, redis
<1>8. ASSUME h.id = i PROVE OnceAt(h, i)'
  <2>1. \/ h.kind = "claim" /\ h.at = "isUsed"
        \/ h.kind = "sms" /\ h.at = "get"
    BY <1>8, NoneAssumption DEF Begins, Sound, HandlerOK, Handler
  <2> QED
    BY <2>1 DEF OnceAt
<1> QED
  BY <1>3, <1>5, <1>6, <1>7, <1>8 DEF Once

\* A step of the handler whose turn it is, for the payment it is about or not.
LEMMA TurnOnce ==
  ASSUME Typed, Command, NEW i \in Id, Once(i)
  PROVE  Once(i)'
<1>1. ASSUME wire # <<>>, turn.id # i, UNCHANGED <<used, ordered, replying>>,
             \A s \in Side : key[s][i] = None => key'[s][i] = None,
             \/ Done
             \/ SweepGoes /\ turn.id = None
             \/ \E c : GoesTo(c)
      PROVE  Once(i)'
  BY <1>1, BookedStays, OthersOnce DEF Once
<1>2. ASSUME wire # <<>>, turn.id = i
      PROVE  turn \in UnderWay /\ turn \in Sound /\ OnceAt(turn, i)
  BY <1>2, TurnFacts DEF Typed, Once
<1>3. ASSUME turn.id = i, NEW c, GoesTo(c)
      PROVE  \E h \in Sound : Continue(h) /\ h.id = i /\ h.at = c /\ h.kind = turn.kind
  BY <1>3 DEF GoesTo
<1>4. CASE IsUsed
  <2>1. /\ wire # <<>> /\ turn.at = "isUsed"
        /\ UNCHANGED <<key, used, replying, ordered>>
        /\ \/ turn.id \in used /\ Done
           \/ turn.id \notin used /\ GoesTo("get")
    BY <1>4, IsUsedFacts DEF redis
  <2>2. CASE turn.id = i
    <3>1. Booked(i)' /\ Apart(i)'
      BY <2>1, BookedStays, ApartStays DEF Once
    <3>2. CASE Done
      BY <2>1, <2>2, <3>1, <3>2, OwnOnce
    <3>3. CASE i \notin used /\ GoesTo("get")
      <4>1. PICK h \in Sound : Continue(h) /\ h.id = i /\ h.at = "get"
        BY <1>3, <2>2, <3>3
      <4>2. OnceAt(h, i)'
        BY <2>1, <3>3, <4>1 DEF OnceAt
      <4> QED
        BY <2>1, <2>2, <3>1, <4>1, <4>2, OwnOnce
    <3> QED
      BY <2>1, <2>2, <3>2, <3>3
  <2> QED
    BY <1>1, <2>1, <2>2
<1>5. CASE GetOther
  <2>1. /\ wire # <<>> /\ turn.at = "get"
        /\ UNCHANGED <<key, used, replying, ordered>>
        /\ \/ key[Other[turn.side]][turn.id] = None /\ GoesTo("set")
           \/ key[Other[turn.side]][turn.id] # None /\ GoesTo("del")
    BY <1>5, GetOtherFacts DEF redis, coordinator
  <2>2. CASE turn.id = i
    <3>1. Booked(i)' /\ Apart(i)' /\ Apart(i)
      BY <2>1, BookedStays, ApartStays DEF Once
    <3>2. /\ OnceAt(turn, i)
          /\ \/ turn.kind = "claim" /\ Other[turn.side] = "orphan"
             \/ turn.kind = "sms" /\ Other[turn.side] = "pending"
      BY <1>2, <2>1, <2>2, TurnKinds DEF Other
    <3>3. CASE key[Other[turn.side]][i] = None /\ GoesTo("set")
      <4>1. PICK h \in Sound : /\ Continue(h) /\ h.id = i /\ h.at = "set"
                               /\ h.kind = turn.kind
        BY <1>3, <2>2, <3>3
      <4>2. OnceAt(h, i)'
        BY <2>1, <3>2, <3>3, <4>1 DEF OnceAt
      <4> QED
        BY <2>1, <2>2, <3>1, <4>1, <4>2, OwnOnce
    <3>4. CASE key[Other[turn.side]][i] # None /\ GoesTo("del")
      <4>1. PICK h \in Sound : /\ Continue(h) /\ h.id = i /\ h.at = "del"
                               /\ h.kind = turn.kind
        BY <1>3, <2>2, <3>4
      <4>2. i \notin used /\ (h.kind = "claim" => key["pending"][i] = None)
        BY <2>1, <3>1, <3>2, <3>4, <4>1 DEF OnceAt, Apart
      <4>3. OnceAt(h, i)'
        BY <2>1, <4>1, <4>2 DEF OnceAt
      <4> QED
        BY <2>1, <2>2, <3>1, <4>1, <4>3, OwnOnce
    <3> QED
      BY <2>1, <2>2, <3>3, <3>4
  <2> QED
    BY <1>1, <2>1, <2>2
<1>6. CASE SetOwn
  <2>1. /\ wire # <<>> /\ turn.at = "set" /\ GoesTo("sadd")
        /\ \A s \in Side, j \in Id :
             key'[s][j] = key[s][j] \/ (s = turn.side /\ j = turn.id)
        /\ UNCHANGED <<used, replying, ordered>>
    BY <1>6, SetOwnFacts DEF coordinator
  <2>2. CASE turn.id = i
    <3>1. Booked(i)' /\ Apart(i)
      BY <2>1, BookedStays DEF Once
    <3>2. /\ OnceAt(turn, i)
          /\ \/ turn.kind = "claim" /\ turn.side = "pending"
             \/ turn.kind = "sms" /\ turn.side = "orphan"
      BY <1>2, <2>1, <2>2, TurnKinds
    <3>3. PICK h \in Sound : /\ Continue(h) /\ h.id = i /\ h.at = "sadd"
                             /\ h.kind = turn.kind
      BY <1>3, <2>1, <2>2
    <3>4. CASE turn.kind = "claim" /\ turn.side = "pending"
      <4>1. i \notin used /\ key'["orphan"][i] = None
        BY <2>1, <3>2, <3>4 DEF OnceAt, Side
      <4>2. Apart(i)' /\ OnceAt(h, i)'
        BY <2>1, <3>3, <3>4, <4>1 DEF OnceAt, Apart
      <4> QED
        BY <2>1, <2>2, <3>1, <3>3, <4>2, OwnOnce
    <3>5. CASE turn.kind = "sms" /\ turn.side = "orphan"
      <4>1. key'["pending"][i] = None
        BY <2>1, <3>2, <3>5 DEF OnceAt, Side
      <4>2. Apart(i)' /\ OnceAt(h, i)'
        BY <3>3, <3>5, <4>1 DEF OnceAt, Apart
      <4> QED
        BY <2>1, <2>2, <3>1, <3>3, <4>2, OwnOnce
    <3> QED
      BY <3>2, <3>4, <3>5
  <2>3. CASE turn.id # i
    <3>1. \A s \in Side : key'[s][i] = key[s][i]
      BY <2>1, <2>3
    <3> QED
      BY <1>1, <2>1, <2>3, <3>1
  <2> QED
    BY <2>2, <2>3
<1>7. CASE IndexOwn
  <2>1. /\ wire # <<>> /\ Done /\ UNCHANGED <<key, used, replying, ordered>>
    BY <1>7, IndexOwnFacts
  <2>2. Booked(i)' /\ Apart(i)'
    BY <2>1, BookedStays, ApartStays DEF Once
  <2> QED
    BY <1>1, <2>1, <2>2, OwnOnce
<1>8. CASE DelOther
  <2>1. /\ wire # <<>> /\ turn.at = "del" /\ GoesTo("srem")
        /\ \A s \in Side, j \in Id :
             key'[s][j] = IF s = Other[turn.side] /\ j = turn.id THEN None ELSE key[s][j]
        /\ UNCHANGED <<used, replying, ordered>>
    BY <1>8, DelOtherFacts DEF coordinator
  <2>2. \A s \in Side : key[s][i] = None => key'[s][i] = None
    BY <2>1
  <2>3. CASE turn.id = i
    <3>1. Booked(i)' /\ Apart(i)'
      BY <2>1, <2>2, BookedStays, ApartStays DEF Once
    <3>2. /\ OnceAt(turn, i)
          /\ \/ turn.kind = "claim"
             \/ turn.kind = "sms" /\ Other[turn.side] = "pending"
      BY <1>2, <2>1, <2>3, TurnKinds DEF Other
    <3>3. PICK h \in Sound : Continue(h) /\ h.id = i /\ h.at = "srem"
      BY <1>3, <2>1, <2>3
    <3>4. i \notin used /\ key'["pending"][i] = None
      BY <2>1, <2>3, <3>2 DEF OnceAt, Side
    <3>5. OnceAt(h, i)'
      BY <2>1, <3>3, <3>4 DEF OnceAt
    <3> QED
      BY <2>1, <2>3, <3>1, <3>3, <3>5, OwnOnce
  <2> QED
    BY <1>1, <2>1, <2>2, <2>3
<1>9. CASE UnindexOther
  <2>1. /\ wire # <<>> /\ turn.at = "srem" /\ UNCHANGED <<key, used, replying, ordered>>
        /\ GoesTo("markUsed") \/ Done
    BY <1>9, UnindexOtherFacts
  <2>2. CASE turn.id = i
    <3>1. Booked(i)' /\ Apart(i)' /\ OnceAt(turn, i)
      BY <1>2, <2>1, <2>2, BookedStays, ApartStays DEF Once
    <3>2. CASE GoesTo("markUsed")
      <4>1. PICK h \in Sound : Continue(h) /\ h.id = i /\ h.at = "markUsed"
        BY <1>3, <2>2, <3>2
      <4>2. OnceAt(h, i)'
        BY <2>1, <3>1, <4>1 DEF OnceAt
      <4> QED
        BY <2>1, <2>2, <3>1, <4>1, <4>2, OwnOnce
    <3> QED
      BY <2>1, <2>2, <3>1, <3>2, OwnOnce
  <2> QED
    BY <1>1, <2>1, <2>2
<1>10. CASE MarkUsed
  <2>1. PICK k : k = turn.claim
    OBVIOUS
  <2>2. /\ wire # <<>> /\ turn.at = "markUsed" /\ Done /\ used' = used \cup {turn.id}
        /\ k \in Claims /\ k.id = turn.id /\ UNCHANGED key
        /\ \/ ordered' = Append(ordered, k) /\ replying' = replying
           \/ ordered' = ordered /\ replying' = [replying EXCEPT ![k] = @ + 1]
           \/ ordered' = ordered /\ replying' = replying
    BY <1>10, <2>1, MarkUsedFacts
  <2>3. CASE turn.id = i
    <3>1. i \notin used /\ key["pending"][i] = None
      BY <1>2, <2>2, <2>3 DEF OnceAt
    <3>2. Booked(i)' /\ Apart(i)'
      BY <2>2, <2>3, <3>1, BookedMatch DEF Once, Apart
    <3> QED
      BY <2>2, <2>3, <3>2, OwnOnce
  <2>4. CASE turn.id # i
    <3>1. /\ i \in used <=> i \in used'
          /\ ordered' = ordered \/ ordered' = Append(ordered, k)
          /\ \A l \in Claims : l # k => replying'[l] = replying[l]
      BY <2>2, <2>4 DEF Typed, TypeOK
    <3>2. Booked(i)'
      BY <2>2, <2>4, <3>1, BookedOther DEF Once
    <3> QED
      BY <2>2, <2>4, <3>1, <3>2, OthersOnce
  <2> QED
    BY <2>3, <2>4
<1>11. CASE ListIds \/ ListEntry \/ DropStaleId \/ Expire \/ UnindexExpired
  <2>1. /\ wire # <<>> /\ turn.at \in {"ids", "read", "stale", "expire", "unindex"}
        /\ UNCHANGED <<used, replying, ordered>> /\ (SweepGoes \/ \E c : GoesTo(c))
        /\ \A s \in Side, j \in Id : key[s][j] = None => key'[s][j] = None
    BY <1>11, ListFacts, DropStaleIdFacts, ExpireFacts, UnindexExpiredFacts
       DEF redis, coordinator
  <2>2. turn.id = None /\ turn.id # i
    BY <2>1, TurnKinds, NoneAssumption
  <2> QED
    BY <1>1, <2>1, <2>2
<1> QED
  BY <1>4, <1>5, <1>6, <1>7, <1>8, <1>9, <1>10, <1>11 DEF Command

LEMMA OnceStep ==
  ASSUME Typed, OnceInv, [Next]_vars
  PROVE  OnceInv'
<1> SUFFICES ASSUME NEW i \in Id \ overlapped' PROVE Once(i)'
  BY DEF OnceInv
<1>1. overlapped \subseteq overlapped'
  <2>1. CASE UNCHANGED vars
    BY <2>1 DEF vars, history
  <2>2. CASE Next
    BY <2>2, BeginFacts, IsUsedFacts, GetOtherFacts, SetOwnFacts, IndexOwnFacts,
       DelOtherFacts, UnindexOtherFacts, MarkUsedFacts, ListFacts, DropStaleIdFacts,
       ExpireFacts, UnindexExpiredFacts, OnReplySentFacts, UssdEndsFacts,
       TimePassesFacts, CrashFacts DEF Next, Command, Begin, history
  <2> QED
    BY <2>1, <2>2
<1>2. Once(i)
  BY <1>1 DEF OnceInv
<1>3. ASSUME UNCHANGED <<wire, used, replying, ordered>>,
             \A s \in Side : key[s][i] = None => key'[s][i] = None
      PROVE  Once(i)'
  <2>1. Booked(i)' /\ Apart(i)'
    BY <1>2, <1>3, BookedStays, ApartStays DEF Once
  <2> QED
    BY <1>2, <1>3, <2>1 DEF Once, Alone, OnceAt, UnderWay, Side
<1>4. CASE UNCHANGED vars
  BY <1>3, <1>4 DEF vars, redis, coordinator
<1>5. CASE \/ \E k \in Claims : RegisterClaim(k)
           \/ \E j \in Id : ResolveWithRealTransaction(j)
           \/ CheckExpired
  BY <1>2, <1>5, BeginFacts, JoinOnce DEF coordinator
<1>6. CASE Command
  BY <1>2, <1>6, TurnOnce
<1>7. ASSUME NEW k \in Claims, OnReplySent(k) PROVE Once(i)'
  <2>1. /\ UNCHANGED <<key, used, wire>> /\ replying[k] > 0
        /\ replying' = [replying EXCEPT ![k] = @ - 1]
        /\ ordered' = ordered \/ ordered' = Append(ordered, k)
    BY <1>7, OnReplySentFacts DEF redis
  <2>2. \A l \in Claims : l # k => replying'[l] = replying[l]
    BY <2>1 DEF Typed, TypeOK
  <2>3. Booked(i)' /\ Apart(i)'
    BY <1>2, <2>1, <2>2, BookedSent, BookedOther, ApartStays DEF Once
  <2> QED
    BY <1>2, <2>1, <2>3 DEF Once, Alone, OnceAt, UnderWay
<1>8. ASSUME NEW c \in Ctx, UssdEnds(c) PROVE Once(i)'
  BY <1>3, <1>8, UssdEndsFacts DEF redis
<1>9. ASSUME NEW side \in Side, NEW j \in Id, TimePasses(side, j) PROVE Once(i)'
  BY <1>3, <1>9, TimePassesFacts DEF coordinator
<1>10. CASE Crash
  <2>1. /\ UNCHANGED <<key, used, ordered>> /\ wire' = <<>>
        /\ replying' = [k \in Claims |-> 0]
    BY <1>10, CrashFacts DEF redis
  <2>2. \A k \in Claims : ~Replying(k, i)'
    BY <2>1 DEF Replying
  <2>3. Booked(i)' /\ Apart(i)'
    BY <1>2, <2>1, <2>2, ApartStays DEF Once, Booked, Ordered, OrderedTwice
  <2> QED
    BY <2>1, <2>3 DEF Once, Alone, UnderWay
<1> QED
  BY <1>4, <1>5, <1>6, <1>7, <1>8, <1>9, <1>10 DEF Next

\* A payment is ordered twice only if two of its handlers overlapped: repeats
\* one after the other, rival customers, sweeps and crashes never do it
\* (isUsed, delete, markUsed).
THEOREM OrdersAreSingle == Spec => []OrderedOnce
<1>1. Init => OnceInv
  <2> SUFFICES ASSUME Init, NEW i \in Id PROVE Once(i)
    BY DEF OnceInv
  <2>1. Alone(i) /\ UnderWay = {}
    BY DEF Init, Alone, UnderWay
  <2>2. Booked(i) /\ Apart(i)
    BY DEF Init, Booked, Ordered, OrderedTwice, Replying, Apart, Side
  <2> QED
    BY <2>1, <2>2 DEF Once
<1>2. Typed /\ OnceInv /\ [Next]_vars => OnceInv'
  BY OnceStep
<1>3. OnceInv => OrderedOnce
  BY DEF OnceInv, Once, Booked, OrderedOnce
<1> QED
  BY <1>1, <1>2, <1>3, TypedInvariant, PTL DEF Spec
=============================================================================
