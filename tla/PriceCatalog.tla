---------------------------- MODULE PriceCatalog ----------------------------
(***************************************************************************)
(* The prices of one package in the Core.  createPrice is a transaction of *)
(* two statements: the update that closes the prices before, and the       *)
(* insert.  PostgreSQL runs it at its default isolation: the update reads  *)
(* what is committed when it begins, waits for rows that another           *)
(* transaction has updated, and then looks at those rows again.            *)
(***************************************************************************)
EXTENDS Naturals, FiniteSets

CONSTANTS
  Requests,  \* the prices that are created; each is a row of its own
  Instants,  \* the instants a price may begin or end
  None

VARIABLES
  prices,  \* the committed rows: [id, from, to]; to = None: open
  asked,   \* asked[r]: the validity request r asks for, or None
  seen,    \* seen[r]: the ids its update read, or None
  closed,  \* closed[r]: the ids it has updated and holds, or None
  now

vars == <<prices, asked, seen, closed, now>>

Validity == [from : Instants, to : Instants \cup {None}]

Init ==
  /\ prices = {}
  /\ asked = [r \in Requests |-> None]
  /\ seen = [r \in Requests |-> None]
  /\ closed = [r \in Requests |-> None]
  /\ now \in Instants

\* CatalogService.createPrice refuses an end that is not after the beginning.
CreatePrice(r, validity) ==
  /\ asked[r] = None
  /\ validity.to # None => validity.to > validity.from
  /\ asked' = [asked EXCEPT ![r] = validity]
  /\ UNCHANGED <<prices, seen, closed, now>>

\* What closeOpenPrices ends at the new price's beginning.
Open(price, from) ==
  price.from < from /\ (price.to # None => price.to > from)

ReadOpenPrices(r) ==
  /\ asked[r] # None /\ seen[r] = None
  /\ seen' = [seen EXCEPT ![r] =
                {p.id : p \in {q \in prices : Open(q, asked[r].from)}}]
  /\ UNCHANGED <<prices, asked, closed, now>>

CloseOpenPrices(r) ==
  /\ seen[r] # None /\ closed[r] = None
  /\ \A other \in Requests \ {r} :
       closed[other] # None /\ ~(\E p \in prices : p.id = other)
         => closed[other] \cap seen[r] = {}
  /\ closed' = [closed EXCEPT ![r] =
                  {p.id : p \in {q \in prices : q.id \in seen[r] /\ Open(q, asked[r].from)}}]
  /\ UNCHANGED <<prices, asked, seen, now>>

\* insertPrice and the commit.
InsertPrice(r) ==
  /\ closed[r] # None /\ ~(\E p \in prices : p.id = r)
  /\ prices' = {IF p.id \in closed[r] THEN [p EXCEPT !.to = asked[r].from] ELSE p :
                  p \in prices}
               \cup {[id |-> r, from |-> asked[r].from, to |-> asked[r].to]}
  /\ UNCHANGED <<asked, seen, closed, now>>

Tick == now + 1 \in Instants /\ now' = now + 1 /\ UNCHANGED <<prices, asked, seen, closed>>

Next ==
  \/ Tick
  \/ \E r \in Requests :
       \/ \E validity \in Validity : CreatePrice(r, validity)
       \/ ReadOpenPrices(r) \/ CloseOpenPrices(r) \/ InsertPrice(r)

Spec == Init /\ [][Next]_vars

\* The prices that findActivePackageByAmount takes for valid.
Current == {p \in prices : p.from <= now /\ (p.to # None => p.to > now)}

\* "Isto evita manter dois precos correntes para o mesmo pacote."
OneCurrentPrice == Cardinality(Current) <= 1
=============================================================================
