---------------------------- MODULE Intake_proofs ----------------------------
(***************************************************************************)
(* The gateway's HTTP server drives the rate limiter as RateLimiter        *)
(* describes, whatever the requests carry and however texts from WhatsApp  *)
(* come in between; so what is proved of the limiter holds of the server.  *)
(* And of the texts it takes: a claim is of a payment pasted, with that    *)
(* payment's amount, and a report counts exactly when it is of a payment,  *)
(* in time and entitled.                                                   *)
(***************************************************************************)
EXTENDS Intake, RateLimiter_proofs, WellFoundedInduction, SequenceTheorems

LEMMA RequestLimited ==
  ASSUME NEW d \in Devices \cup {None}, NEW h \in Headers, Counted(d, h), UNCHANGED now
  PROVE  [LimiterNext]_limiterVars
<1>1. <<d, h>> \in Keys
  BY IntakeAssumption
<1>2. Allow(<<d, h>>) \/ UNCHANGED <<requests, hits>>
  BY DEF Counted
<1> QED
  BY <1>1, <1>2 DEF LimiterNext, limiterVars

\* An authentic request asks the limiter once, under the key of its device and
\* its Authorization header as spelled, and nothing else does (createTaskerServer): the server implements the
\* limiter.
THEOREM ServerLimits == Spec => LimiterSpec
<1>1. Init => LimiterInit
  BY DEF Init
<1>2. [Next]_vars => [LimiterNext]_limiterVars
  <2> SUFFICES ASSUME [Next]_vars PROVE [LimiterNext]_limiterVars
    OBVIOUS
  <2>1. CASE UNCHANGED limiterVars
    BY <2>1
  <2>2. CASE Tick
    BY <2>2 DEF LimiterNext
  <2>3. ASSUME NEW d \in Devices \cup {None}, NEW h \in Headers, OtherRequest(d, h)
        PROVE  [LimiterNext]_limiterVars
    BY <2>3, RequestLimited DEF OtherRequest
  <2>4. ASSUME NEW d \in Devices \cup {None}, NEW h \in Headers,
               NEW body, NEW form, NEW sent, PostSms(d, h, body, form, sent)
        PROVE  [LimiterNext]_limiterVars
    BY <2>4, RequestLimited DEF PostSms
  <2> QED
    BY <2>1, <2>2, <2>3, <2>4 DEF Next, Done, Upsert, vars
<1> QED
  BY <1>1, <1>2, PTL DEF Spec, LimiterSpec

\* No window of the server's history has more requests of one device and one
\* spelling of the Authorization header allowed than the limit, whatever comes
\* in between.  A device that spells its header in several ways has as many
\* windows (createTaskerServer).
THEOREM ServerWindowBounded == Spec => []WindowBound
<1> QED
  BY ServerLimits, WindowBounded, PTL

-----------------------------------------------------------------------------
(* Where an expression finds its first piece.                              *)

Smaller == {p \in Nat \X Nat : p[1] < p[2]}

LEMMA Smallest ==
  ASSUME NEW S \in SUBSET Nat, S # {}
  PROVE  \E n \in S : \A m \in S : n <= m
<1>1. IsWellFoundedOn(Smaller, Nat)
  BY NatLessThanWellFounded DEF OpToRel, Smaller
<1>2. PICK n \in S : \A m \in S : <<m, n>> \notin Smaller
  BY <1>1, WFMin
<1>3. ASSUME NEW m \in S PROVE n <= m
  <2>1. m \in Nat /\ n \in Nat /\ <<m, n>> \notin Smaller
    BY <1>2
  <2>2. ~(m < n)
    BY <2>1 DEF Smaller
  <2> QED
    BY <2>1, <2>2
<1> QED
  BY <1>3

\* First is the first place of a piece of the kinds, or 0.
LEMMA FirstPiece ==
  ASSUME NEW S, NEW text \in Seq(S), NEW kinds
  PROVE  \/ /\ First(text, kinds) = 0
            /\ \A n \in DOMAIN text : text[n].piece \notin kinds
         \/ /\ First(text, kinds) \in DOMAIN text
            /\ text[First(text, kinds)].piece \in kinds
            /\ \A n \in DOMAIN text : text[n].piece \in kinds => First(text, kinds) <= n
<1> DEFINE I == {n \in 1..Len(text) : text[n].piece \in kinds}
<1>1. First(text, kinds) = IF I # {} THEN Min(I) ELSE 0
  BY DEF First, SelectInSeq
<1>2. DOMAIN text = 1..Len(text) /\ Len(text) \in Nat
  OBVIOUS
<1>3. CASE I = {}
  BY <1>1, <1>2, <1>3
<1>4. CASE I # {}
  <2>1. \E n \in I : \A m \in I : n <= m
    <3>1. I \in SUBSET Nat
      BY <1>2
    <3> HIDE DEF I
    <3> QED
      BY <1>4, <3>1, Smallest
  <2>2. Min(I) \in I /\ \A m \in I : Min(I) <= m
    BY <2>1 DEF Min
  <2> QED
    BY <1>1, <1>2, <1>4, <2>2
<1> QED
  BY <1>3, <1>4

-----------------------------------------------------------------------------
(* The texts.                                                              *)

\* What a text is made of.
Piece ==
  {Confirmed(p) : p \in Payments} \cup {Received(Amount[p]) : p \in Payments}
    \cup {Sent(Amount[p], 0, Reseller) : p \in Payments}
    \cup {Number(n) : n \in Phones} \cup {Footer, Words}

LEMMA PieceKinds ==
  ASSUME NEW e \in Piece
  PROVE  /\ e.piece \in {"confirmed", "received", "sent", "number", "footer", "words"}
         /\ e.piece = "confirmed" => \E p \in Payments : e = Confirmed(p) /\ e.id = p
         /\ e.piece = "number" => e = Number(e.phone)
         /\ e.piece = "footer" => e = Footer
<1>1. CASE e \in {Footer, Words}
  BY <1>1 DEF Footer, Words
<1>2. CASE \E n \in Phones : e = Number(n)
  BY <1>2 DEF Number
<1>3. CASE \E p \in Payments :
             e \in {Confirmed(p), Received(Amount[p]), Sent(Amount[p], 0, Reseller)}
  BY <1>3 DEF Confirmed, Received, Sent
<1> QED
  BY <1>1, <1>2, <1>3 DEF Piece

Paid(e) == e.piece \in {"received", "sent"}

\* What was paid stands behind the id of its payment, and a transfer stands
\* behind a footer only if two payments were pasted.
Plain(text) ==
  /\ text \in Seq(Piece)
  /\ \A n \in DOMAIN text : Paid(text[n]) =>
       \E p \in Pasted(text) : text[n].amount = Amount[p]
  /\ \A m, n \in DOMAIN text :
       m < n /\ text[m].piece = "footer" /\ text[n].piece = "sent" =>
         \E p, q \in Pasted(text) : p # q

\* An SMS, whole or without its end.
Pasting(x, p) ==
  /\ p \in Payments /\ x \in Seq(Piece) /\ Len(x) \in 2..3
  /\ x[1] = Confirmed(p) /\ Paid(x[2]) /\ x[2].amount = Amount[p]
  /\ Len(x) = 3 => x[3] = Footer

LEMMA SmsPasted ==
  ASSUME NEW p \in Payments, NEW s \in {"payer", "reseller"}
  PROVE  Pasting(Sms(p, s), p) /\ Pasting(Front(Sms(p, s)), p)
<1> DEFINE paid == IF s = "reseller" THEN Received(Amount[p]) ELSE Sent(Amount[p], 0, Reseller)
<1>1. /\ {Confirmed(p), paid, Footer} \subseteq Piece
      /\ Paid(paid) /\ paid.amount = Amount[p]
  BY DEF Piece, Paid, Received, Sent
<1>2. Sms(p, s) = <<Confirmed(p), paid, Footer>>
  BY DEF Sms
<1> HIDE DEF paid
<1>3. Pasting(<<Confirmed(p), paid, Footer>>, p)
  BY <1>1 DEF Pasting
<1>4. ASSUME NEW x, Pasting(x, p), Len(x) = 3 PROVE Pasting(Front(x), p)
  <2>1. x \in Seq(Piece) /\ Len(x) = 3
    BY <1>4 DEF Pasting
  <2>2. /\ Front(x) \in Seq(Piece) /\ Len(Front(x)) = 2
        /\ Front(x)[1] = x[1] /\ Front(x)[2] = x[2]
    BY <2>1 DEF Front
  <2> QED
    BY <1>4, <2>2 DEF Pasting
<1>5. Len(<<Confirmed(p), paid, Footer>>) = 3
  OBVIOUS
<1> QED
  BY <1>2, <1>3, <1>4, <1>5

Aside(x) ==
  x \in Seq(Piece) /\ \A n \in DOMAIN x : x[n].piece \in {"number", "words"}

LEMMA AroundAside ==
  ASSUME NEW x \in Around PROVE Aside(x)
<1>1. Words \in Piece /\ \A n \in Phones : Number(n) \in Piece
  BY DEF Piece
<1>2. Words.piece = "words" /\ \A n \in Phones : Number(n).piece = "number"
  BY DEF Words, Number
<1>3. CASE x = <<>>
  BY <1>3 DEF Aside
<1>4. CASE x = <<Words>>
  BY <1>1, <1>2, <1>4 DEF Aside
<1>5. ASSUME NEW n \in Phones, x = <<Number(n)>> PROVE Aside(x)
  BY <1>1, <1>2, <1>5 DEF Aside
<1>6. ASSUME NEW n \in Phones, x = <<Words, Number(n)>> PROVE Aside(x)
  BY <1>1, <1>2, <1>6 DEF Aside
<1> QED
  BY <1>3, <1>4, <1>5, <1>6 DEF Around

LEMMA SurroundedPlain ==
  ASSUME NEW before, NEW x, NEW after, NEW p, Aside(before), Pasting(x, p), Aside(after)
  PROVE  Plain(before \o x \o after)
<1> DEFINE t == before \o x \o after
           b == Len(before)
           l == Len(x)
<1>1. /\ before \in Seq(Piece) /\ x \in Seq(Piece) /\ after \in Seq(Piece)
      /\ b \in Nat /\ l \in {2, 3} /\ Len(after) \in Nat
  BY DEF Aside, Pasting
<1>2. /\ t \in Seq(Piece) /\ DOMAIN t = 1..(b + l + Len(after))
      /\ \A n \in 1..b : t[n] = before[n]
      /\ \A n \in 1..l : t[b + n] = x[n]
      /\ \A n \in 1..Len(after) : t[b + l + n] = after[n]
  BY <1>1
<1>3. /\ t[b + 1] = Confirmed(p) /\ t[b + 2] = x[2] /\ b + 1 \in DOMAIN t
      /\ l = 3 => t[b + 3] = Footer
  BY <1>1, <1>2 DEF Pasting
<1>4. \A n \in DOMAIN t : n \notin {b + 1, b + 2, b + 3} \/ n > b + l =>
        t[n].piece \in {"number", "words"}
  <2> SUFFICES ASSUME NEW n \in DOMAIN t, n \notin {b + 1, b + 2, b + 3} \/ n > b + l
               PROVE  t[n].piece \in {"number", "words"}
    OBVIOUS
  <2>1. CASE n <= b
    BY <1>1, <1>2, <2>1 DEF Aside
  <2>2. CASE n > b + l
    <3>1. PICK k \in 1..Len(after) : n = b + l + k
      <4>1. n - (b + l) \in 1..Len(after) /\ n = b + l + (n - (b + l))
        BY <1>1, <1>2, <2>2
      <4> QED
        BY <4>1
    <3>2. t[n] = after[k] /\ k \in DOMAIN after
      BY <1>1, <1>2, <3>1
    <3> QED
      BY <3>2 DEF Aside
  <2>3. n <= b \/ n > b + l
    <3> HIDE DEF t, b, l
    <3>1. n \in Nat
      BY <1>1, <1>2
    <3> QED
      BY <1>1, <3>1
  <2> QED
    BY <2>1, <2>2, <2>3
<1>5. Confirmed(p).piece = "confirmed" /\ Footer.piece = "footer"
  BY DEF Confirmed, Footer
<1>6. \A n \in DOMAIN t : n \in Nat /\ (Paid(t[n]) => n = b + 2)
  <2> SUFFICES ASSUME NEW n \in DOMAIN t, Paid(t[n]) PROVE n = b + 2
    BY <1>1, <1>2
  <2>1. ~Paid(t[b + 1]) /\ (l = 3 => ~Paid(t[b + 3]))
    BY <1>3, <1>5 DEF Paid
  <2>2. n \in {b + 1, b + 2, b + 3} /\ ~(n > b + l)
    BY <1>4 DEF Paid
  <2> HIDE DEF t, b, l
  <2> QED
    BY <1>1, <2>1, <2>2
<1>7. p \in Pasted(t)
  BY <1>3 DEF Pasted, Pasting
<1>8. \A m \in DOMAIN t : t[m].piece = "footer" => m > b + 2
  <2> SUFFICES ASSUME NEW m \in DOMAIN t, t[m].piece = "footer" PROVE m > b + 2
    OBVIOUS
  <2>1. t[b + 2].piece # "footer" /\ t[b + 1].piece # "footer"
    BY <1>3, <1>5 DEF Pasting, Paid
  <2>2. m \in {b + 1, b + 2, b + 3}
    BY <1>4
  <2> HIDE DEF t, b, l
  <2> QED
    BY <1>1, <2>1, <2>2
<1> HIDE DEF t
<1>9. Plain(t)
  <2>1. \A n \in DOMAIN t : Paid(t[n]) => t[n].amount = Amount[p]
    BY <1>3, <1>6 DEF Pasting
  <2>2. \A m, n \in DOMAIN t :
          ~(m < n /\ t[m].piece = "footer" /\ t[n].piece = "sent")
    BY <1>1, <1>2, <1>6, <1>8 DEF Paid
  <2> QED
    BY <1>2, <1>7, <2>1, <2>2 DEF Plain
<1> QED
  BY <1>9 DEF t

LEMMA TwicePlain ==
  ASSUME NEW x, NEW y, NEW p, NEW q, Pasting(x, p), Pasting(y, q), p # q
  PROVE  Plain(x \o y)
<1> DEFINE t == x \o y
           l == Len(x)
<1>1. /\ x \in Seq(Piece) /\ y \in Seq(Piece) /\ l \in 2..3 /\ Len(y) \in 2..3
      /\ x[1] = Confirmed(p) /\ y[1] = Confirmed(q) /\ p \in Payments /\ q \in Payments
  BY DEF Pasting
<1>2. /\ t \in Seq(Piece) /\ DOMAIN t = 1..(l + Len(y))
      /\ \A n \in 1..l : t[n] = x[n]
      /\ \A n \in 1..Len(y) : t[l + n] = y[n]
  BY <1>1
<1>3. 1 \in DOMAIN t /\ t[1] = Confirmed(p) /\ l + 1 \in DOMAIN t /\ t[l + 1] = Confirmed(q)
  BY <1>1, <1>2
<1>4. {p, q} \subseteq Pasted(t)
  BY <1>1, <1>3 DEF Pasted
<1>5. \A e : Paid(e) => e # Confirmed(p) /\ e # Confirmed(q) /\ e # Footer
  BY DEF Paid, Confirmed, Footer
<1>6. \A n \in DOMAIN t : Paid(t[n]) => t[n].amount \in {Amount[p], Amount[q]}
  <2> SUFFICES ASSUME NEW n \in DOMAIN t, Paid(t[n])
               PROVE  t[n].amount \in {Amount[p], Amount[q]}
    OBVIOUS
  <2>1. CASE n <= l
    <3>1. n \in 1..l /\ t[n] = x[n]
      BY <1>1, <1>2, <2>1
    <3>2. n = 2
      BY <1>1, <1>5, <3>1 DEF Pasting
    <3> QED
      BY <3>1, <3>2 DEF Pasting
  <2>2. CASE n > l
    <3>1. PICK k \in 1..Len(y) : n = l + k
      <4>1. n - l \in 1..Len(y) /\ n = l + (n - l)
        BY <1>1, <1>2, <2>2
      <4> QED
        BY <4>1
    <3>2. t[n] = y[k]
      BY <1>2, <3>1
    <3>3. k = 2
      BY <1>1, <1>5, <3>1, <3>2 DEF Pasting
    <3> QED
      BY <3>2, <3>3 DEF Pasting
  <2> QED
    BY <1>1, <1>2, <2>1, <2>2
<1> HIDE DEF t
<1>7. Plain(t)
  BY <1>2, <1>4, <1>6 DEF Plain
<1> QED
  BY <1>7 DEF t

LEMMA TextsPlain ==
  ASSUME NEW text \in Texts PROVE Plain(text)
<1>1. ASSUME NEW before \in Around, NEW p \in Payments, NEW s \in {"payer", "reseller"},
             NEW cut \in BOOLEAN, NEW after \in Around,
             text = before \o (IF cut THEN Front(Sms(p, s)) ELSE Sms(p, s)) \o after
      PROVE  Plain(text)
  BY <1>1, AroundAside, SmsPasted, SurroundedPlain
<1>2. ASSUME NEW p \in Payments, NEW s \in {"payer", "reseller"}, NEW q \in Payments \ {p},
             text = Sms(p, "payer") \o Sms(q, s)
      PROVE  Plain(text)
  BY <1>2, SmsPasted, TwicePlain
<1>3. ASSUME Aside(text) PROVE Plain(text)
  BY <1>3 DEF Aside, Plain, Paid
<1>4. CASE text \in {<<Words>>, <<>>}
  BY <1>3, <1>4, AroundAside DEF Around
<1> DEFINE One(before, p, s, cut, after) ==
             before \o (IF cut THEN Front(Sms(p, s)) ELSE Sms(p, s)) \o after
           Two(p, s) == {Sms(p, "payer") \o Sms(q, s) : q \in Payments \ {p}}
           Ones == {One(before, p, s, cut, after) :
                      before \in Around, p \in Payments, s \in {"payer", "reseller"},
                      cut \in BOOLEAN, after \in Around}
           Twos == {Two(p, s) : p \in Payments, s \in {"payer", "reseller"}}
<1>5. Texts = Ones \cup (UNION Twos) \cup {<<Words>>, <<>>}
  BY DEF Texts
<1>6. CASE text \in Ones
  <2>1. PICK before \in Around, p \in Payments, s \in {"payer", "reseller"},
             cut \in BOOLEAN, after \in Around : text = One(before, p, s, cut, after)
    <3> HIDE DEF One
    <3> QED
      BY <1>6
  <2> QED
    BY <1>1, <2>1
<1>7. CASE text \in UNION Twos
  <2>1. PICK p \in Payments, s \in {"payer", "reseller"} : text \in Two(p, s)
    <3> HIDE DEF Two
    <3> QED
      BY <1>7
  <2>2. PICK q \in Payments \ {p} : text = Sms(p, "payer") \o Sms(q, s)
    BY <2>1
  <2> QED
    BY <1>2, <2>2, Zenon
<1> HIDE DEF Ones, Twos
<1> QED
  BY <1>4, <1>5, <1>6, <1>7

\* An SMS by itself is such a text too.
LEMMA SmsPlain ==
  ASSUME NEW p \in Payments, NEW s \in {"payer", "reseller"}
  PROVE  Plain(Sms(p, s))
<1>1. <<>> \in Around
  BY DEF Around
<1>2. Plain(<<>> \o Sms(p, s) \o <<>>)
  BY <1>1, AroundAside, SmsPasted, SurroundedPlain
<1>3. Sms(p, s) \in Seq(Piece)
  BY SmsPasted DEF Pasting
<1>4. <<>> \o Sms(p, s) \o <<>> = Sms(p, s)
  BY <1>3
<1> QED
  BY <1>2, <1>4

-----------------------------------------------------------------------------
(* What is parsed.                                                         *)

\* Of a text with one payment the parser finds this payment and its amount.
LEMMA ParsedPayment ==
  ASSUME NEW text, Plain(text), Parse(text).matched, NEW p, Pasted(text) = {p}
  PROVE  Parse(text).id = p /\ Parse(text).amount = Amount[p]
<1> DEFINE kind == IF Has(text, "received") THEN "received" ELSE "sent"
           paid == First(text, {kind})
           id == First(text, {"confirmed"})
<1>1. text \in Seq(Piece) /\ \A n \in DOMAIN text : text[n] \in Piece
  BY DEF Plain
<1>2. Has(text, kind)
  BY DEF Parse, Unknown
<1>3. Parse(text).id = (IF id = 0 THEN None ELSE text[id].id) /\ Parse(text).amount = text[paid].amount
  BY <1>2 DEF Parse
<1>4. PICK n \in DOMAIN text : text[n] = Confirmed(p)
  BY DEF Pasted
<1>5. text[n].piece = "confirmed" /\ n # 0
  BY <1>1, <1>4 DEF Confirmed
<1>6. id \in DOMAIN text /\ text[id].piece = "confirmed" /\ id # 0
  BY <1>1, <1>5, FirstPiece
<1>7. PICK q \in Payments : text[id] = Confirmed(q) /\ text[id].id = q
  BY <1>1, <1>6, PieceKinds
<1>8. q = p
  BY <1>6, <1>7 DEF Pasted
<1>9. paid \in DOMAIN text /\ text[paid].piece = kind
  BY <1>1, <1>2, FirstPiece DEF Has
<1>10. Paid(text[paid])
  BY <1>9 DEF Paid
<1>11. text[paid].amount = Amount[p]
  BY <1>9, <1>10 DEF Plain
<1> QED
  BY <1>3, <1>6, <1>7, <1>8, <1>11

\* The number it finds to deliver to is one that stands behind the payment.
LEMMA ParsedDestination ==
  ASSUME NEW text, Plain(text), NEW p, Pasted(text) = {p}
  PROVE  IF Added(text) = {} THEN ExtractDestination(text) = None
                             ELSE ExtractDestination(text) \in Added(text)
<1> DEFINE f == First(text, {"footer"})
           tail == SubSeq(text, f + 1, Len(text))
           n == First(tail, {"number", "sent"})
<1>0. ExtractDestination(text) = IF Has(text, "footer") /\ n # 0 THEN tail[n].phone ELSE None
  BY DEF ExtractDestination
<1>1. /\ text \in Seq(Piece) /\ \A k \in DOMAIN text : text[k] \in Piece
      /\ DOMAIN text = 1..Len(text) /\ Len(text) \in Nat
  BY DEF Plain
<1>2. ASSUME NEW k \in DOMAIN text, text[k].piece = "number",
             NEW m \in 1..(k - 1), text[m] = Footer
      PROVE  f # 0 /\ f <= m /\ f < k
  <2>1. m \in DOMAIN text /\ text[m].piece = "footer"
    BY <1>1, <1>2 DEF Footer
  <2> QED
    BY <1>1, <2>1, FirstPiece
<1>3. CASE f = 0
  <2>1. Added(text) = {}
    BY <1>2, <1>3 DEF Added
  <2>2. ExtractDestination(text) = None
    BY <1>0, <1>3 DEF Has
  <2> QED
    BY <2>1, <2>2
<1>4. CASE f # 0
  <2>1. f \in DOMAIN text /\ text[f] = Footer /\ f \in Nat /\ f # 0
    <3>1. f \in DOMAIN text /\ text[f].piece = "footer"
      BY <1>1, <1>4, FirstPiece
    <3>2. text[f] = Footer
      BY <1>1, <3>1, PieceKinds
    <3> QED
      BY <1>1, <1>4, <3>1, <3>2
  <2>2. /\ tail \in Seq(Piece) /\ DOMAIN tail = 1..(Len(text) - f)
        /\ \A k \in DOMAIN tail : /\ tail[k] = text[f + k] /\ k \in Nat \ {0}
                                  /\ f + k \in DOMAIN text /\ f \in 1..(f + k - 1)
    <3> HIDE DEF f
    <3>1. f + 1 \in 1..(Len(text) + 1) /\ Len(text) \in f..Len(text)
      BY <1>1, <2>1
    <3>2. /\ tail \in Seq(Piece) /\ Len(tail) = Len(text) - f
          /\ \A k \in 1..(Len(text) - f) : tail[k] = text[f + k]
      BY <1>1, <2>1, <3>1, SubSeqProperties
    <3> HIDE DEF tail
    <3> QED
      BY <1>1, <2>1, <3>2
  <2>3. ASSUME NEW k \in DOMAIN tail PROVE tail[k].piece # "sent"
    <3>1. SUFFICES ASSUME tail[k].piece = "sent" PROVE FALSE
      OBVIOUS
    <3> HIDE DEF f, tail
    <3>2. f < f + k /\ text[f].piece = "footer" /\ text[f + k].piece = "sent"
      BY <2>1, <2>2, <3>1 DEF Footer
    <3>3. \E a, b \in Pasted(text) : a # b
      BY <2>1, <2>2, <3>2 DEF Plain
    <3> QED
      BY <3>3
  <2>4. ASSUME NEW k \in DOMAIN tail, tail[k].piece = "number"
        PROVE  tail[k].phone \in Added(text)
    <3> HIDE DEF f, tail
    <3>1. /\ f + k \in DOMAIN text /\ text[f + k] = tail[k]
          /\ f \in 1..((f + k) - 1) /\ text[f] = Footer
      BY <2>1, <2>2, <2>4
    <3> QED
      BY <2>4, <3>1 DEF Added
  <2>5. Has(text, "footer")
    BY <1>4 DEF Has
  <2>6. CASE n = 0
    <3>1. \A k \in DOMAIN tail : tail[k].piece # "number"
      BY <2>2, <2>6, FirstPiece
    <3>2. Added(text) = {}
      <4> SUFFICES ASSUME NEW k \in DOMAIN text, text[k].piece = "number",
                          NEW m \in 1..(k - 1), text[m] = Footer
                   PROVE  FALSE
        BY DEF Added
      <4>1. f < k /\ k \in Nat
        BY <1>1, <1>2
      <4>2. k - f \in DOMAIN tail /\ f + (k - f) = k
        <5> HIDE DEF f, tail
        <5> QED
          BY <1>1, <2>1, <2>2, <4>1
      <4>3. tail[k - f] = text[k]
        BY <2>2, <4>2
      <4> QED
        BY <3>1, <4>2, <4>3
    <3>3. ExtractDestination(text) = None
      BY <1>0, <2>6
    <3> QED
      BY <3>2, <3>3
  <2>7. CASE n # 0
    <3>1. n \in DOMAIN tail /\ tail[n].piece = "number"
      <4>1. n \in DOMAIN tail /\ tail[n].piece \in {"number", "sent"}
        BY <2>2, <2>7, FirstPiece
      <4> QED
        BY <2>3, <4>1
    <3>2. ExtractDestination(text) = tail[n].phone
      BY <1>0, <2>5, <2>7
    <3> QED
      BY <2>4, <3>1, <3>2
  <2> QED
    BY <2>6, <2>7
<1> QED
  BY <1>3, <1>4

\* A claim is of the payment that was pasted, and goes to a number added after
\* it, for every text of the chats (parse, extractDestinationNumber,
\* onMessageReceived).
THEOREM ClaimsArePayments == Spec => []ClaimIsPayment
<1>1. Init => ClaimIsPayment
  BY DEF Init, Idle, ClaimIsPayment
<1>2. ASSUME NEW type, NEW m \in Messages, Upsert(type, m) PROVE ClaimIsPayment'
  <2>1. Plain(m.text)
    BY TextsPlain, SmsPlain DEF Messages
  <2>2. last' = [kind |-> "chat", from |-> type, text |-> m, became |-> Claimed(type, m)]
    BY <1>2 DEF Upsert
  <2> SUFFICES ASSUME Claimed(type, m).transaction # None,
                      NEW p \in Payments, Pasted(m.text) = {p}
               PROVE  /\ Claimed(type, m).transaction.id = p
                      /\ Claimed(type, m).transaction.amount = Amount[p]
                      /\ IF Added(m.text) = {}
                         THEN Claimed(type, m).transaction.destination = None
                         ELSE Claimed(type, m).transaction.destination \in Added(m.text)
    BY <2>2 DEF ClaimIsPayment
  <2>3. /\ Parse(m.text).matched
        /\ Claimed(type, m).transaction = Transaction(Parse(m.text), "WHATSAPP_TEXT")
    BY DEF Claimed
  <2>4. Parse(m.text).destination = ExtractDestination(m.text)
    BY <2>3 DEF Parse, Unknown
  <2>5. Parse(m.text).id = p /\ Parse(m.text).amount = Amount[p]
    BY <2>1, <2>3, ParsedPayment
  <2>6. IF Added(m.text) = {} THEN ExtractDestination(m.text) = None
                              ELSE ExtractDestination(m.text) \in Added(m.text)
    BY <2>1, ParsedDestination
  <2> QED
    BY <2>3, <2>4, <2>5, <2>6 DEF Transaction
<1>3. ASSUME NEW d, NEW h, NEW body, NEW form, NEW sent, PostSms(d, h, body, form, sent)
      PROVE  ClaimIsPayment'
  BY <1>3 DEF PostSms, ClaimIsPayment
<1>4. ASSUME ClaimIsPayment, UNCHANGED last PROVE ClaimIsPayment'
  BY <1>4 DEF ClaimIsPayment
<1>5. ASSUME Done PROVE ClaimIsPayment'
  BY <1>5 DEF Done, Idle, ClaimIsPayment
<1>6. ClaimIsPayment /\ [Next]_vars => ClaimIsPayment'
  BY <1>2, <1>3, <1>4, <1>5 DEF Next, OtherRequest, vars
<1> QED
  BY <1>1, <1>6, PTL DEF Spec

-----------------------------------------------------------------------------
(* What is reported.                                                       *)

\* An SMS says its payment, and no number to deliver to.
LEMMA SmsParsed ==
  ASSUME NEW p \in Payments, NEW s \in {"payer", "reseller"}
  PROVE  /\ Parse(Sms(p, s)).matched
         /\ Parse(Sms(p, s)).type \in {"received", "sent"}
         /\ Parse(Sms(p, s)).id = p /\ Parse(Sms(p, s)).amount = Amount[p]
         /\ Parse(Sms(p, s)).destination = None
<1>1. PICK x : x = Sms(p, s)
  OBVIOUS
<1>2. Pasting(x, p) /\ Plain(x)
  BY <1>1, SmsPasted, SmsPlain
<1>3. /\ x \in Seq(Piece) /\ {1, 2} \subseteq DOMAIN x /\ DOMAIN x \subseteq 1..3
      /\ \A n \in DOMAIN x : n \in {1, 2, 3} /\ (n = 3 => x[n] = Footer)
  BY <1>2 DEF Pasting
<1>4. x[1] = Confirmed(p) /\ Paid(x[2])
  BY <1>2 DEF Pasting
<1>5. Pasted(x) = {p}
  BY <1>2, <1>3, <1>4 DEF Pasted, Pasting, Paid, Confirmed, Footer
<1>6. Added(x) = {}
  BY <1>3, <1>4 DEF Added, Paid, Confirmed, Footer
<1>7. Has(x, "received") \/ Has(x, "sent")
  <2>1. CASE x[2].piece = "received"
    BY <1>3, <2>1, FirstPiece DEF Has
  <2>2. CASE x[2].piece = "sent"
    BY <1>3, <2>2, FirstPiece DEF Has
  <2> QED
    BY <1>4, <2>1, <2>2 DEF Paid
<1>8. /\ Parse(x).matched /\ Parse(x).type \in {"received", "sent"}
      /\ Parse(x).destination = ExtractDestination(x)
  BY <1>7 DEF Parse, Unknown
<1> QED
  BY <1>1, <1>2, <1>5, <1>6, <1>8, ParsedPayment, ParsedDestination

\* Of the other texts the phone sends, none has an id.
LEMMA OthersParsed ==
  ASSUME NEW text, text = <<Words>> \/ \E p \in Payments : text = Tail(Sms(p, "reseller"))
  PROVE  ~Parse(text).matched \/ Parse(text).id = None
<1>1. CASE text = <<Words>>
  <2>1. text \in Seq({Words}) /\ \A n \in DOMAIN text : text[n].piece = "words"
    BY <1>1 DEF Words
  <2>2. First(text, {"received"}) = 0 /\ First(text, {"sent"}) = 0
    BY <2>1, FirstPiece
  <2> QED
    BY <2>2 DEF Parse, Has, Unknown
<1>2. ASSUME NEW p \in Payments, text = Tail(Sms(p, "reseller"))
      PROVE  ~Parse(text).matched \/ Parse(text).id = None
  <2>1. PICK x : x = Sms(p, "reseller")
    OBVIOUS
  <2>2. Pasting(x, p)
    BY <2>1, SmsPasted
  <2>3. /\ x \in Seq(Piece) /\ Len(x) \in {2, 3} /\ text = Tail(x)
        /\ Paid(x[2]) /\ (Len(x) = 3 => x[3] = Footer)
    BY <1>2, <2>1, <2>2 DEF Pasting
  <2>4. /\ text \in Seq(Piece) /\ DOMAIN text = 1..(Len(x) - 1)
        /\ \A n \in DOMAIN text : text[n] = x[n + 1] /\ n \in {1, 2} /\ (n = 2 => Len(x) = 3)
    BY <2>3
  <2>5. \A n \in DOMAIN text : text[n].piece # "confirmed"
    BY <2>3, <2>4 DEF Paid, Footer
  <2>6. First(text, {"confirmed"}) = 0
    BY <2>4, <2>5, FirstPiece
  <2> QED
    BY <2>6 DEF Parse, Unknown
<1> QED
  BY <1>1, <1>2

\* The payments that the body is about.
Of(body) ==
  {p \in Payments : /\ body.rawSms \in {Sms(p, "payer"), Sms(p, "reseller")}
                    /\ body.id \in {p, None}
                    /\ body.amount \in {Amount[p], None}}

\* The answer to an authentic report that the limit lets pass, and whether it
\* comes without a time that can be read or out of the time allowed; and whether
\* it is clear whose time it says.
Answer(device, body, form, sent) == HandleSmsReport(device, body, Written(form, sent))
Late(form, sent) == \/ form \in {"unreadable", "missing"}
                    \/ sent \notin (now - Skew)..(now + Skew)
Zoned(form) == form # "zoneless" \/ ServerOffset = Offset

\* A body is taken exactly when it is in time and about a payment, and what is
\* taken is that payment.
LEMMA BodyTaken ==
  ASSUME NEW body \in Bodies, NEW form \in Form,
         NEW device, NEW sent \in Int, now \in Nat
  PROVE  /\ Answer(device, body, form, sent).transaction # None =>
              /\ Zoned(form) => ~Late(form, sent)
              /\ \E p \in Of(body) : /\ Answer(device, body, form, sent).transaction.id = p
                                     /\ Answer(device, body, form, sent).transaction.amount = Amount[p]
         /\ Zoned(form) /\ ~Late(form, sent) /\ Of(body) # {} => Answer(device, body, form, sent).transaction # None
<1> DEFINE answer == Answer(device, body, form, sent)
           late == Late(form, sent)
           timestamp == Written(form, sent)
           reporter == IF body.device = None THEN device ELSE body.device
           parsed == Parse(body.rawSms)
           id == Reported(body.id, parsed.id)
           amount == Reported(body.amount, parsed.amount)
<1>1. /\ body.id \in Payments \cup {None}
      /\ body.amount \in {Amount[p] : p \in Payments} \cup {None, Unreadable}
      /\ \/ \E p \in Payments, s \in {"payer", "reseller"} : body.rawSms = Sms(p, s)
         \/ body.rawSms = None
         \/ body.rawSms = <<Words>>
         \/ \E p \in Payments : body.rawSms = Tail(Sms(p, "reseller"))
  <2>1. /\ body.id \in Payments \cup {None}
        /\ body.amount \in {Amount[p] : p \in Payments} \cup {None, Unreadable}
        /\ body.rawSms \in Whole \cup {Tail(Sms(p, "reseller")) : p \in Payments} \cup {<<Words>>, None}
    BY DEF Bodies
  <2>2. body.rawSms \in Whole => \E p \in Payments, s \in {"payer", "reseller"} : body.rawSms = Sms(p, s)
    BY DEF Whole
  <2> QED BY <2>1, <2>2
<1>2. /\ timestamp.form = form
      /\ Zoned(form) /\ form \in {"instant", "local", "zoneless"} => Normalized(timestamp) = sent
  <2>1. timestamp = [form |-> form, value |-> IF form \in {"local", "zoneless"}
                                              THEN sent + Offset ELSE sent]
    BY DEF Written
  <2>2. CASE form = "instant"
    <3>1. timestamp = [form |-> "instant", value |-> sent]
      BY <2>1, <2>2
    <3>2. Normalized([form |-> "instant", value |-> sent]) = sent - 0
      BY DEF Normalized
    <3> QED BY <2>1, <3>1, <3>2
  <2>3. CASE form = "local"
    <3>1. timestamp = [form |-> "local", value |-> sent + Offset]
      BY <2>1, <2>3
    <3>2. Normalized([form |-> "local", value |-> sent + Offset]) = (sent + Offset) - Offset
      BY DEF Normalized
    <3> QED BY <2>1, <3>1, <3>2, ValuesAssumption
  <2>4. CASE form = "zoneless"
    <3>1. timestamp = [form |-> "zoneless", value |-> sent + Offset]
      BY <2>1, <2>4
    <3>2. Normalized([form |-> "zoneless", value |-> sent + Offset]) = (sent + Offset) - ServerOffset
      BY DEF Normalized
    <3> QED BY <2>1, <2>4, <3>1, <3>2, ValuesAssumption DEF Zoned
  <2> QED BY <2>1, <2>2, <2>3, <2>4
<1>3. Zoned(form) => (late <=> timestamp.form = "missing" \/ Stale(timestamp))
  BY <1>2 DEF Stale, Late, Form
<1>4. answer = IF body.rawSms = None \/ timestamp.form = "missing" THEN Refused("INVALID_PAYLOAD")
               ELSE IF Stale(timestamp) THEN Refused("STALE_TIMESTAMP")
               ELSE IF ~parsed.matched THEN Refused("UNPARSEABLE_SMS")
               ELSE IF id = None \/ amount = None THEN Refused("INVALID_PAYLOAD")
               ELSE IF parsed.id # id \/ parsed.amount # amount THEN Refused("PAYLOAD_MISMATCH")
               ELSE Taken(parsed, reporter)
  BY DEF HandleSmsReport, Answer
<1>5. \A reason : Refused(reason).transaction = None
  BY DEF Refused
<1>6. Taken(parsed, reporter).transaction = Transaction(parsed, "TASKER_SMS")
  BY DEF Taken
<1> HIDE DEF answer, late, timestamp, parsed, id, amount, reporter
<1>7. ASSUME answer.transaction # None
      PROVE  /\ Zoned(form) => ~late
             /\ \E p \in Of(body) : /\ answer.transaction.id = p
                                    /\ answer.transaction.amount = Amount[p]
  <2>1. /\ body.rawSms # None /\ (Zoned(form) => ~late) /\ parsed.matched
        /\ id # None /\ amount # None /\ parsed.id = id /\ parsed.amount = amount
        /\ answer = Taken(parsed, reporter)
    BY <1>3, <1>4, <1>5, <1>7
  <2>2. PICK p \in Payments, s \in {"payer", "reseller"} : body.rawSms = Sms(p, s)
    BY <1>1, <2>1, OthersParsed DEF parsed
  <2>3. parsed.id = p /\ parsed.amount = Amount[p]
    BY <2>2, SmsParsed DEF parsed
  <2>4. body.id \in {p, None} /\ body.amount \in {Amount[p], None}
    BY <2>1, <2>3 DEF id, amount, Reported
  <2>5. p \in Of(body)
    BY <2>2, <2>4 DEF Of
  <2> QED
    BY <1>6, <2>1, <2>3, <2>5 DEF Transaction
<1>8. ASSUME Zoned(form), ~late, NEW p \in Of(body) PROVE answer.transaction # None
  <2>1. PICK s \in {"payer", "reseller"} : body.rawSms = Sms(p, s)
    BY <1>8 DEF Of
  <2>2. /\ p \in Payments /\ body.id \in {p, None} /\ body.amount \in {Amount[p], None}
    BY <1>8 DEF Of
  <2>3. /\ parsed.matched /\ parsed.type \in {"received", "sent"} /\ parsed.id = p
        /\ parsed.amount = Amount[p] /\ parsed.destination = None
    BY <2>1, <2>2, SmsParsed DEF parsed
  <2>4. p \notin {None, Unreadable} /\ Amount[p] \notin {None, Unreadable}
    BY <2>2, ValuesAssumption
  <2>5. id = p /\ amount = Amount[p]
    BY <2>2, <2>3, <2>4 DEF id, amount, Reported
  <2>6. body.rawSms # None
    BY <2>1, <2>2, ValuesAssumption
  <2>7. answer = Taken(parsed, reporter)
    BY <1>3, <1>4, <1>8, <2>3, <2>4, <2>5, <2>6
  <2>8. Transaction(parsed, "TASKER_SMS") \in
          [type : {"received", "sent"}, id : Payments, source : {"TASKER_SMS"},
           amount : {Amount[q] : q \in Payments}, destination : {None}]
    BY <2>2, <2>3 DEF Transaction
  <2> QED
    BY <1>6, <2>7, <2>8, ValuesAssumption
<1> QED
  BY <1>7, <1>8 DEF answer, late

\* A transaction counts as real exactly when it is a payment whose SMS was
\* reported in time by a phone that may, unless the limit refuses it; of times
\* that leave open whose time they say, only who reported what is certain
\* (verifyTaskerCredentials, handleSmsReport, normalizeTaskerTimestamp).
THEOREM ReportsArePayments == Spec => []ReportIsPayment
<1>1. Init => ReportIsPayment
  BY DEF Init, Idle, ReportIsPayment
<1>2. ASSUME now \in Nat, NEW d, NEW h, NEW body \in Bodies,
             NEW form \in Form,
             NEW sent \in Int, PostSms(d, h, body, form, sent)
      PROVE  ReportIsPayment'
  <2> DEFINE answer == Answer(d, body, form, sent)
             late == Late(form, sent)
             became == Verdict(d, h, answer)
  <2>1. last' = [kind |-> "sms", entitled |-> Authentic(d, h), text |-> body,
                 zoned |-> Zoned(form), late |-> late, became |-> became]
    BY <1>2 DEF PostSms, Answer, Late, Zoned
  <2>2. /\ answer.transaction # None =>
             /\ Zoned(form) => ~late
            /\ \E p \in Of(body) : /\ answer.transaction.id = p
                                   /\ answer.transaction.amount = Amount[p]
        /\ Zoned(form) /\ ~late /\ Of(body) # {} => answer.transaction # None
    BY <1>2, BodyTaken
  <2>3. \/ ~Authentic(d, h) /\ became.transaction = None
        \/ Authentic(d, h) /\ became.status = "RATE_LIMITED" /\ became.transaction = None
        \/ Authentic(d, h) /\ became = answer
    BY DEF Verdict, Refused
  <2> HIDE DEF answer, late, became
  <2>4. IF became.transaction = None
        THEN Authentic(d, h) /\ Zoned(form) /\ ~late /\ Of(body) # {} => became.status = "RATE_LIMITED"
        ELSE /\ Authentic(d, h) /\ (Zoned(form) => ~late)
             /\ \E p \in Of(body) : /\ became.transaction.id = p
                                    /\ became.transaction.amount = Amount[p]
    BY <2>2, <2>3
  <2>5. /\ last'.kind = "sms" /\ last'.text = body /\ last'.entitled = Authentic(d, h)
        /\ last'.zoned = Zoned(form) /\ last'.late = late /\ last'.became = became
    BY <2>1
  <2> QED
    BY <2>4, <2>5 DEF ReportIsPayment, Of
<1>3. ASSUME NEW type, NEW m, Upsert(type, m) PROVE ReportIsPayment'
  BY <1>3 DEF Upsert, ReportIsPayment
<1>4. ASSUME ReportIsPayment, UNCHANGED last PROVE ReportIsPayment'
  BY <1>4 DEF ReportIsPayment
<1>5. ASSUME Done PROVE ReportIsPayment'
  BY <1>5 DEF Done, Idle, ReportIsPayment
<1>6. now \in Nat /\ ReportIsPayment /\ [Next]_vars => ReportIsPayment'
  <2> SUFFICES ASSUME now \in Nat, ReportIsPayment, [Next]_vars PROVE ReportIsPayment'
    OBVIOUS
  <2>1. ASSUME NEW d, NEW h, NEW body \in Bodies,
               NEW form \in Form,
               NEW delay \in {-Skew - 1, -Skew, Skew, Skew + 1}, PostSms(d, h, body, form, now + delay)
        PROVE  ReportIsPayment'
    <3>1. now + delay \in Int
      BY ValuesAssumption
    <3> QED
      BY <1>2, <2>1, <3>1
  <2> QED
    BY <1>3, <1>4, <1>5, <2>1 DEF Next, OtherRequest, vars
<1>7. LimiterInv => now \in Nat
  BY DEF LimiterInv, LimiterTypeOK
<1> QED
  BY <1>1, <1>6, <1>7, ServerLimits, LimiterSafe, PTL DEF Spec

=============================================================================
