----------------------------- MODULE RateLimiter ----------------------------
(***************************************************************************)
(* RateLimiter.allow: for every key the times of the requests it allowed,  *)
(* the old ones dropped whenever it is asked again.  The model keeps the   *)
(* whole history of requests and, in place of the times, the positions of  *)
(* their requests in it.  Date.now() does not go back.                     *)
(*                                                                         *)
(* A definition named X_Y is X with a fault, for the runs that show that a *)
(* property notices it; no specification uses it.                          *)
(***************************************************************************)
EXTENDS Naturals, Sequences, FiniteSets

CONSTANTS Keys, MaxRequests, Window

ASSUME LimiterAssumption == MaxRequests \in Nat /\ Window \in Nat \ {0}

VARIABLES
  now,       \* Date.now()
  requests,  \* every request that asked: [key, at, allowed]
  hits       \* hits[k]: the requests of k whose times are kept

limiterVars == <<now, requests, hits>>

LimiterTypeOK ==
  /\ now \in Nat
  /\ requests \in Seq([key : Keys, at : Nat, allowed : BOOLEAN])
  /\ hits \in [Keys -> SUBSET (DOMAIN requests)]

LimiterInit == now = 0 /\ requests = <<>> /\ hits = [k \in Keys |-> {}]

Recent(k) == {n \in hits[k] : now - requests[n].at < Window}
Allows(k) == Cardinality(Recent(k)) < MaxRequests

Asked(k, allowed, kept) ==
  /\ requests' = Append(requests, [key |-> k, at |-> now, allowed |-> allowed])
  /\ hits' = [hits EXCEPT ![k] = kept]

Allow_Forgets(k) ==
  Asked(k, Allows(k), IF Allows(k) THEN Recent(k) \cup {Len(requests) + 1} ELSE {})

Allow(k) ==
  Asked(k, Allows(k), Recent(k) \cup (IF Allows(k) THEN {Len(requests) + 1} ELSE {}))

Tick == now' = now + 1 /\ UNCHANGED <<requests, hits>>

LimiterNext == Tick \/ \E k \in Keys : Allow(k) /\ UNCHANGED now
LimiterSpec == LimiterInit /\ [][LimiterNext]_limiterVars

-----------------------------------------------------------------------------
(* Properties.                                                             *)

Allowed(k, from, to) ==
  {n \in DOMAIN requests : /\ requests[n].key = k /\ requests[n].allowed
                           /\ requests[n].at \in from..to}

\* What a key's next request is judged by is what its whole history says: the
\* requests that were allowed less than a window ago.  None is lost by the
\* pruning, and neither a refused request nor another key's takes a place.
CountsAllowed ==
  \A k \in Keys :
    Recent(k) = {n \in Allowed(k, 0, now) : now - requests[n].at < Window}

\* In no window, wherever it begins, are more requests of a key allowed than
\* the limit: also not across the moment at which old ones are dropped.
WindowBound ==
  \A k \in Keys : \A from \in 0..now :
    Cardinality(Allowed(k, from, from + Window - 1)) <= MaxRequests
=============================================================================
