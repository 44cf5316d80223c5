------------------------- MODULE RateLimiter_proofs -------------------------
(***************************************************************************)
(* The limiter's bound for every limit, window and set of keys.  The       *)
(* invariant is CountsAllowed with what it rests on: no request is later   *)
(* than now, and every kept position is of an allowed request of its key.  *)
(***************************************************************************)
EXTENDS RateLimiter, FiniteSetTheorems, TLAPS

Past == \A n \in DOMAIN requests : requests[n].at <= now

Kept ==
  \A k \in Keys :
    /\ \A n \in hits[k] : requests[n].key = k /\ requests[n].allowed
    /\ \A n \in DOMAIN requests :
         /\ requests[n].key = k /\ requests[n].allowed
         /\ now - requests[n].at < Window
         => n \in hits[k]

\* Whatever its bounds, a window holds no more of a key than the limit.
Bounded ==
  \A k \in Keys : \A from \in Nat :
    Cardinality(Allowed(k, from, from + Window - 1)) <= MaxRequests

LimiterInv == LimiterTypeOK /\ Past /\ Kept /\ Bounded

\* The time of a request is a number.
LEMMA AtType ==
  ASSUME LimiterTypeOK
  PROVE  now \in Nat /\ \A n \in DOMAIN requests : requests[n].at \in Nat
<1> DEFINE S == [key : Keys, at : Nat, allowed : BOOLEAN]
<1>1. requests \in Seq(S) /\ now \in Nat
  BY DEF LimiterTypeOK
<1>2. \A n \in DOMAIN requests : requests[n] \in S
  <2> HIDE DEF S
  <2> QED
    BY <1>1
<1> QED
  BY <1>1, <1>2

\* A set of requests is finite.
LEMMA AllowedFinite ==
  ASSUME LimiterTypeOK, NEW S, S \subseteq DOMAIN requests
  PROVE  IsFiniteSet(S) /\ Cardinality(S) \in Nat
<1>1. DOMAIN requests = 1..Len(requests) /\ Len(requests) \in Nat
  BY DEF LimiterTypeOK
<1>2. IsFiniteSet(1..Len(requests))
  BY <1>1, FS_Interval
<1>3. IsFiniteSet(S)
  BY <1>1, <1>2, FS_Subset
<1> QED
  BY <1>3, FS_CardinalityType

\* The invariant holds at the start, when no request has come.
LEMMA LimiterInitially == LimiterInit => LimiterInv
<1> SUFFICES ASSUME LimiterInit PROVE LimiterInv
  OBVIOUS
<1>1. DOMAIN requests = {}
  BY DEF LimiterInit
<1>2. LimiterTypeOK
  BY <1>1 DEF LimiterInit, LimiterTypeOK
<1>3. Past /\ Kept
  BY <1>1 DEF LimiterInit, Past, Kept
<1>4. Bounded
  <2> SUFFICES ASSUME NEW k \in Keys, NEW from \in Nat
               PROVE  Cardinality(Allowed(k, from, from + Window - 1)) <= MaxRequests
    BY DEF Bounded
  <2>1. Allowed(k, from, from + Window - 1) = {}
    BY <1>1 DEF Allowed
  <2> QED
    BY <2>1, FS_EmptySet, LimiterAssumption
<1> QED
  BY <1>2, <1>3, <1>4 DEF LimiterInv

\* A request keeps the invariant: when it is allowed it enters windows whose
\* other requests are all among the recent ones that were counted.
LEMMA AllowKeeps ==
  ASSUME LimiterInv, NEW q \in Keys, Allow(q), UNCHANGED now
  PROVE  LimiterInv'
<1> DEFINE m == Len(requests) + 1
           entry == [key |-> q, at |-> now, allowed |-> Allows(q)]
<1> USE LimiterAssumption
<1>1. /\ requests \in Seq([key : Keys, at : Nat, allowed : BOOLEAN])
      /\ hits \in [Keys -> SUBSET (DOMAIN requests)]
      /\ now \in Nat /\ now' = now
      /\ entry \in [key : Keys, at : Nat, allowed : BOOLEAN]
  BY DEF LimiterInv, LimiterTypeOK, Allows
<1>2. /\ requests' = Append(requests, entry)
      /\ hits' = [hits EXCEPT ![q] = Recent(q) \cup (IF Allows(q) THEN {m} ELSE {})]
  BY DEF Allow, Asked
<1>3. /\ DOMAIN requests = 1..Len(requests) /\ Len(requests) \in Nat
      /\ DOMAIN requests' = 1..m
      /\ \A n \in DOMAIN requests : requests'[n] = requests[n]
      /\ requests'[m] = entry
      /\ requests' \in Seq([key : Keys, at : Nat, allowed : BOOLEAN])
  BY <1>1, <1>2
<1>4. Recent(q) \subseteq hits[q] /\ hits[q] \subseteq DOMAIN requests
  BY <1>1 DEF Recent
<1>5. LimiterTypeOK'
  <2>1. hits' \in [Keys -> SUBSET (DOMAIN requests')]
    BY <1>1, <1>2, <1>3, <1>4
  <2> QED
    BY <2>1, <1>1, <1>3 DEF LimiterTypeOK
<1>6. Past'
  <2> SUFFICES ASSUME NEW n \in 1..m PROVE requests'[n].at <= now
    BY <1>1, <1>3 DEF Past
  <2>1. CASE n = m
    BY <2>1, <1>1, <1>3
  <2>2. CASE n # m
    BY <2>2, <1>3 DEF LimiterInv, Past
  <2> QED
    BY <2>1, <2>2
<1>7. Kept'
  <2> SUFFICES ASSUME NEW k \in Keys
               PROVE  /\ \A n \in hits'[k] : requests'[n].key = k /\ requests'[n].allowed
                      /\ \A n \in 1..m :
                           /\ requests'[n].key = k /\ requests'[n].allowed
                           /\ now - requests'[n].at < Window
                           => n \in hits'[k]
    BY <1>1, <1>3 DEF Kept
  <2>1. hits'[k] = IF k = q THEN Recent(q) \cup (IF Allows(q) THEN {m} ELSE {})
                            ELSE hits[k]
    BY <1>1, <1>2
  <2>2. m \notin DOMAIN requests /\ hits[k] \subseteq DOMAIN requests
    BY <1>1, <1>3
  <2>3. ASSUME NEW n \in hits'[k]
        PROVE  requests'[n].key = k /\ requests'[n].allowed
    <3>1. CASE n = m
      BY <3>1, <2>1, <2>2, <2>3, <1>3, <1>4
    <3>2. CASE n # m
      <4>1. n \in hits[k]
        BY <3>2, <2>1, <2>3, <1>4
      <4> QED
        BY <4>1, <2>2, <1>3 DEF LimiterInv, Kept
    <3> QED
      BY <3>1, <3>2
  <2>4. ASSUME NEW n \in 1..m, requests'[n].key = k, requests'[n].allowed,
               now - requests'[n].at < Window
        PROVE  n \in hits'[k]
    <3>1. CASE n = m
      BY <3>1, <2>1, <2>4, <1>3
    <3>2. CASE n # m
      <4>1. n \in DOMAIN requests /\ requests'[n] = requests[n]
        BY <3>2, <1>3
      <4>2. n \in hits[k] /\ now - requests[n].at < Window
        BY <4>1, <2>4 DEF LimiterInv, Kept
      <4> QED
        BY <4>2, <2>1 DEF Recent
    <3> QED
      BY <3>1, <3>2
  <2> QED
    BY <2>3, <2>4
<1>8. Bounded'
  <2> SUFFICES ASSUME NEW k \in Keys, NEW from \in Nat
               PROVE  Cardinality(Allowed(k, from, from + Window - 1)') <= MaxRequests
    BY DEF Bounded
  <2> DEFINE old == Allowed(k, from, from + Window - 1)
             new == Allowed(k, from, from + Window - 1)'
  <2>1. old \subseteq DOMAIN requests
    BY DEF Allowed
  <2>2. Cardinality(old) <= MaxRequests
    BY DEF LimiterInv, Bounded
  <2>3. new \subseteq old \cup {m}
    BY <1>3 DEF Allowed
  <2>4. old \subseteq new
    BY <1>3 DEF Allowed
  <2>5. CASE m \notin new
    BY <2>2, <2>3, <2>4, <2>5, new = old
  <2>6. CASE m \in new
    <3>1. k = q /\ Allows(q) /\ now \in from..(from + Window - 1)
      BY <2>6, <1>1, <1>3 DEF Allowed
    <3>2. old \subseteq Recent(q)
      <4> SUFFICES ASSUME NEW n \in old PROVE n \in Recent(q)
        OBVIOUS
      <4>1. /\ n \in DOMAIN requests /\ requests[n].key = q /\ requests[n].allowed
            /\ requests[n].at \in Nat /\ requests[n].at >= from
        BY <3>1, <1>1, <1>3 DEF Allowed
      <4>2. now - requests[n].at < Window
        BY <4>1, <3>1, <1>1
      <4> QED
        BY <4>1, <4>2 DEF LimiterInv, Kept, Recent
    <3>3. IsFiniteSet(Recent(q)) /\ Cardinality(Recent(q)) \in Nat
      BY <1>4, AllowedFinite DEF LimiterInv
    <3>4. Cardinality(old) <= Cardinality(Recent(q)) /\ IsFiniteSet(old)
          /\ Cardinality(old) \in Nat
      BY <3>2, <3>3, <2>1, FS_Subset, AllowedFinite DEF LimiterInv
    <3>5. new = old \cup {m} /\ m \notin old
      BY <2>1, <2>3, <2>4, <2>6, <1>3
    <3>6. Cardinality(new) = Cardinality(old) + 1
      BY <3>4, <3>5, FS_AddElement
    <3> QED
      BY <3>1, <3>3, <3>4, <3>6 DEF Allows
  <2> QED
    BY <2>5, <2>6
<1> QED
  BY <1>5, <1>6, <1>7, <1>8 DEF LimiterInv

\* The clock keeps the invariant: what was recent only grows older.
LEMMA TickKeeps ==
  ASSUME LimiterInv, Tick
  PROVE  LimiterInv'
<1> USE DEF Tick
<1>1. LimiterTypeOK' /\ Bounded'
  <2>1. LimiterTypeOK'
    BY DEF LimiterInv, LimiterTypeOK
  <2>2. Bounded'
    BY DEF LimiterInv, Bounded, Allowed
  <2> QED
    BY <2>1, <2>2
<1>2. now \in Nat /\ \A n \in DOMAIN requests : requests[n].at \in Nat
  BY AtType DEF LimiterInv
<1>3. Past'
  BY <1>2 DEF LimiterInv, Past, Tick
<1>4. Kept'
  BY <1>2, LimiterAssumption DEF LimiterInv, Kept, Tick
<1> QED
  BY <1>1, <1>3, <1>4 DEF LimiterInv

\* The limiter's invariant holds throughout, for every set of keys.
LEMMA LimiterSafe == LimiterSpec => []LimiterInv
<1>1. LimiterInv /\ [LimiterNext]_limiterVars => LimiterInv'
  <2> SUFFICES ASSUME LimiterInv, [LimiterNext]_limiterVars PROVE LimiterInv'
    OBVIOUS
  <2>1. CASE Tick
    BY <2>1, TickKeeps
  <2>2. ASSUME NEW k \in Keys, Allow(k), UNCHANGED now PROVE LimiterInv'
    BY <2>2, AllowKeeps
  <2>3. CASE UNCHANGED limiterVars
    BY <2>3 DEF limiterVars, LimiterInv, LimiterTypeOK, Past, Kept, Bounded, Allowed
  <2> QED
    BY <2>1, <2>2, <2>3 DEF LimiterNext
<1> QED
  BY LimiterInitially, <1>1, PTL DEF LimiterSpec

\* RateLimiter.allow never lets more than maxRequests of one key through in
\* any windowMs, for every limit, window and set of keys.
THEOREM WindowBounded == LimiterSpec => []WindowBound
<1>1. LimiterInv => WindowBound
  BY DEF LimiterInv, LimiterTypeOK, Bounded, WindowBound
<1> QED
  BY LimiterSafe, <1>1, PTL

\* Pruning loses nothing and refusals take no place: the kept times within the
\* window are those of the history's allowed requests.
THEOREM CountsWhatWasAllowed == LimiterSpec => []CountsAllowed
<1>1. LimiterInv => CountsAllowed
  <2> SUFFICES ASSUME LimiterInv, NEW k \in Keys
               PROVE  Recent(k) = {n \in Allowed(k, 0, now) : now - requests[n].at < Window}
    BY DEF CountsAllowed
  <2>1. /\ hits[k] \subseteq DOMAIN requests
        /\ \A n \in DOMAIN requests : requests[n].at \in 0..now
    BY AtType DEF LimiterInv, LimiterTypeOK, Past
  <2> QED
    BY <2>1 DEF LimiterInv, Kept, Recent, Allowed
<1> QED
  BY LimiterSafe, <1>1, PTL
=============================================================================
