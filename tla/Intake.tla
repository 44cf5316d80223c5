------------------------------- MODULE Intake -------------------------------
(***************************************************************************)
(* How a text enters the gateway: an SMS that the reseller's phone reports *)
(* over HTTP (authentication, rate limit, handleSmsReport) and a message   *)
(* that Baileys hands over (onMessagesUpsert, onMessageReceived), both up  *)
(* to the transaction that the payment logic gets.  A payment p is known   *)
(* by its id, which is p itself.                                           *)
(*                                                                         *)
(* A definition named X_Y is X with a fault, for the runs that show that a *)
(* property notices it; no specification uses it.                          *)
(***************************************************************************)
EXTENDS RateLimiter, MpesaParser, Integers

CONSTANTS
  Payments,  \* the payments; SMS of them reach payer and reseller
  Amount,    \* Amount[p]: what was paid
  Devices,   \* the devices a request may name
  Token,     \* Token[d]: parseTaskerDeviceTokens; empty: only ApiKey counts
  ApiKey,    \* TASKER_API_KEY, or None
  Headers,   \* the Authorization headers a request may carry, letter by letter
  Presents,  \* Presents[h]: the token verifyTaskerToken reads of h, or None
  Reseller,  \* the number payers transfer to
  Phones,    \* the numbers a customer may add
  Unreadable,  \* an amount that is no number
  Skew,      \* MAX_TIMESTAMP_SKEW_MS
  Offset,    \* TASKER_LOCAL_UTC_OFFSET: how far the phone's wall clock is ahead
  ServerOffset,  \* how far the server's local time is ahead of UTC
  MaxTime,   \* bound on the time
  MaxAsked   \* bound on the requests that pass authentication

ASSUME IntakeAssumption ==
  /\ Keys = (Devices \cup {None}) \X Headers
  /\ DOMAIN Token \subseteq Devices

VARIABLE last  \* the text that came in and what became of it, or Idle

vars == <<limiterVars, last>>

Idle == [kind |-> "none"]

\* What the payment logic gets of a text.
Transaction(parsed, source) ==
  [type |-> parsed.type, id |-> parsed.id, amount |-> parsed.amount,
   destination |-> parsed.destination, source |-> source]

-----------------------------------------------------------------------------
(* The requests of the reseller's phone.                                   *)

\* verifyTaskerCredentials.  A header's spaces and what follows its token do
\* not count here, so that many headers present one token.
Authentic(device, header) ==
  IF DOMAIN Token # {}
  THEN device \in DOMAIN Token /\ Presents[header] = Token[device]
  ELSE ApiKey # None /\ Presents[header] = ApiKey

\* How the phone writes an instant, and normalizeTaskerTimestamp: an ISO time
\* with its zone and a number say the instant; a time without a zone is
\* Maputo's if it is "local", written as LOCAL_TIMESTAMP_REGEX has it, and the
\* server's if it is written otherwise ("zoneless").
Form == {"instant", "local", "zoneless", "unreadable", "missing"}
Written(form, instant) ==
  [form |-> form,
   value |-> IF form \in {"local", "zoneless"} THEN instant + Offset ELSE instant]
Normalized(timestamp) ==
  timestamp.value - (CASE timestamp.form = "local" -> Offset
                       [] timestamp.form = "zoneless" -> ServerOffset
                       [] OTHER -> 0)

Stale(timestamp) ==
  timestamp.form = "unreadable" \/ Normalized(timestamp) \notin (now - Skew)..(now + Skew)

Refused(reason) == [status |-> reason, transaction |-> None, device |-> None]

\* ackMatchingTransfer gets what was transferred, resolveWithRealTransaction
\* what was received, with the device that reported it.
Taken(parsed, device) ==
  [status |-> IF parsed.type = "sent" THEN "queue" ELSE "manager",
   transaction |-> Transaction(parsed, "TASKER_SMS"),
   device |-> IF parsed.type = "sent" THEN None ELSE device]

\* A field the body leaves out is taken from the SMS.
Reported(field, parsed) ==
  IF field = None THEN parsed ELSE IF field = Unreadable THEN None ELSE field

HandleSmsReport_TrustsSms(device, body, timestamp) ==
  LET parsed == Parse(body.rawSms)
  IN  IF body.rawSms = None \/ timestamp.form = "missing" THEN Refused("INVALID_PAYLOAD")
      ELSE IF Stale(timestamp) THEN Refused("STALE_TIMESTAMP")
      ELSE IF parsed.matched THEN Taken(parsed, device) ELSE Refused("UNPARSEABLE_SMS")

\* The device the body names goes before the one that was authenticated.
HandleSmsReport(device, body, timestamp) ==
  LET parsed == Parse(body.rawSms)
      id == Reported(body.id, parsed.id)
      amount == Reported(body.amount, parsed.amount)
  IN  IF body.rawSms = None \/ timestamp.form = "missing" THEN Refused("INVALID_PAYLOAD")
      ELSE IF Stale(timestamp) THEN Refused("STALE_TIMESTAMP")
      ELSE IF ~parsed.matched THEN Refused("UNPARSEABLE_SMS")
      ELSE IF id = None \/ amount = None THEN Refused("INVALID_PAYLOAD")
      ELSE IF parsed.id # id \/ parsed.amount # amount THEN Refused("PAYLOAD_MISMATCH")
      ELSE Taken(parsed, IF body.device = None THEN device ELSE body.device)

\* The middleware: only what is authentic is counted, under its device and its
\* header as it is spelled.
Counted(device, header) ==
  IF Authentic(device, header)
  THEN Len(requests) < MaxAsked /\ Allow(<<device, header>>)
  ELSE UNCHANGED <<requests, hits>>

Verdict(device, header, answer) ==
  IF ~Authentic(device, header) THEN Refused("INVALID_AUTH")
  ELSE IF ~Allows(<<device, header>>) THEN Refused("RATE_LIMITED") ELSE answer

\* POST /sms, which the phone dates "sent" by its clock.
PostSms(device, header, body, form, sent) ==
  /\ Counted(device, header)
  /\ last' = [kind |-> "sms", entitled |-> Authentic(device, header), text |-> body,
              zoned |-> form # "zoneless" \/ ServerOffset = Offset,
              late |-> form \in {"unreadable", "missing"} \/ sent \notin (now - Skew)..(now + Skew),
              became |-> Verdict(device, header,
                                 HandleSmsReport(device, body, Written(form, sent)))]
  /\ UNCHANGED now

\* GET /commands/next and the answers, which take their place in the window.
OtherRequest(device, header) ==
  /\ Authentic(device, header)
  /\ Counted(device, header)
  /\ UNCHANGED <<now, last>>

-----------------------------------------------------------------------------
(* The messages of WhatsApp.                                               *)

\* ContextKeyResolver.resolve; "" is a chat or participant Baileys left out.
ContextKey(message) ==
  IF message.group THEN <<message.chat, message.participant>> ELSE <<message.chat>>

\* onMessagesUpsert drops what is not new, not the customer's or of nobody;
\* onMessageReceived what has no text or is no SMS.
Claimed(type, message) ==
  LET parsed == Parse(message.text)
  IN  IF /\ type = "notify" /\ message.content # "none" /\ ~message.fromMe
         /\ message.chat # "" /\ (message.group => message.participant # "")
         /\ message.content = "text" /\ parsed.matched
      THEN [key |-> ContextKey(message),
            transaction |-> Transaction(parsed, "WHATSAPP_TEXT")]
      ELSE [key |-> None, transaction |-> None]

Upsert(type, message) ==
  /\ last' = [kind |-> "chat", from |-> type, text |-> message,
              became |-> Claimed(type, message)]
  /\ UNCHANGED limiterVars

-----------------------------------------------------------------------------
(* What comes in.                                                          *)

Sms(p, side) ==
  <<Confirmed(p), IF side = "reseller" THEN Received(Amount[p])
                                       ELSE Sent(Amount[p], 0, Reseller), Footer>>

\* No id, amount, text or transaction is none, and the body's field that is no
\* amount is neither an amount nor an id.
ASSUME ValuesAssumption ==
  /\ Skew \in Nat /\ Offset \in Int /\ ServerOffset \in Int
  /\ {None, Unreadable} \cap (Payments \cup {Amount[p] : p \in Payments}) = {}
  /\ \A p \in Payments : None \notin {Sms(p, "payer"), Sms(p, "reseller")}
  /\ None \notin [type : {"received", "sent"}, id : Payments, source : {"TASKER_SMS"},
                  amount : {Amount[p] : p \in Payments}, destination : {None}]

\* The SMS of a payment, one without its id, one of another service; the body
\* repeats what the SMS says, leaves it out, or says another payment's, and may
\* name a device.
Whole == {Sms(p, s) : p \in Payments, s \in {"payer", "reseller"}}
Bodies ==
  [rawSms : Whole \cup {Tail(Sms(p, "reseller")) : p \in Payments} \cup {<<Words>>, None},
   id : Payments \cup {None}, amount : {Amount[p] : p \in Payments} \cup {None, Unreadable},
   device : {None}]
    \cup [rawSms : Whole, id : {None}, amount : {None}, device : Devices]

\* What a customer writes: SMS that were pasted, the last one perhaps without
\* its end, with numbers and words around them.
Around == {<<>>, <<Words>>} \cup {<<Number(n)>> : n \in Phones}
              \cup {<<Words, Number(n)>> : n \in Phones}
Texts ==
  {before \o (IF cut THEN Front(Sms(p, s)) ELSE Sms(p, s)) \o after :
     before \in Around, p \in Payments, s \in {"payer", "reseller"},
     cut \in BOOLEAN, after \in Around}
    \cup (UNION {{Sms(p, "payer") \o Sms(q, s) : q \in Payments \ {p}} :
                    p \in Payments, s \in {"payer", "reseller"}})
    \cup {<<Words>>, <<>>}

Messages ==
  [content : {"text"}, fromMe : {FALSE}, group : {FALSE}, chat : {"c"},
   participant : {""}, text : Texts]
    \cup {m \in [content : {"text", "media", "none"}, fromMe : BOOLEAN, group : BOOLEAN,
                 chat : {"c", ""}, participant : {"u", ""},
                 text : {Sms(p, "payer") : p \in Payments}] : m.group => m.chat # ""}

Init == LimiterInit /\ last = Idle

Done == last # Idle /\ last' = Idle /\ UNCHANGED limiterVars

Next ==
  \/ Done
  \/ last = Idle /\ now < MaxTime /\ Tick /\ UNCHANGED last
  \/ last = Idle /\ \E d \in Devices \cup {None}, h \in Headers :
       \/ OtherRequest(d, h)
       \/ \E body \in Bodies, form \in Form, delay \in {-Skew - 1, -Skew, Skew, Skew + 1} :
            PostSms(d, h, body, form, now + delay)
  \/ last = Idle /\ \E type \in {"notify", "append"}, m \in Messages : Upsert(type, m)

Spec == Init /\ [][Next]_vars

-----------------------------------------------------------------------------
(* Properties.                                                             *)

\* What is known of a text apart from the parser: the payments pasted into it,
\* and the numbers that stand after them.
Pasted(text) == {p \in Payments : \E n \in DOMAIN text : text[n] = Confirmed(p)}
Added(text) ==
  {text[n].phone : n \in {k \in DOMAIN text :
     text[k].piece = "number" /\ \E m \in 1..(k - 1) : text[m] = Footer}}

\* A claim is of one payment that the customer pasted, with the amount that
\* was paid, and goes to a number that he added after it: never to one that
\* stood before, nor to the reseller's, as long as he pasted one SMS.
ClaimIsPayment ==
  last.kind = "chat" /\ last.became.transaction # None =>
    LET tx == last.became.transaction
        text == last.text.text
    IN  \A p \in Payments : Pasted(text) = {p} =>
          /\ tx.id = p /\ tx.amount = Amount[p]
          /\ IF Added(text) = {} THEN tx.destination = None
                                 ELSE tx.destination \in Added(text)

\* A transaction that counts as real is of a payment whose SMS was reported in
\* time by a phone that may, with the id and amount of that payment; and no
\* such report is refused, unless the limit says so.  Of a time that says
\* neither its zone nor is written as Maputo's, this holds only where the
\* server's local time is Maputo's (normalizeTaskerTimestamp).
ReportIsPayment ==
  last.kind = "sms" =>
    LET body == last.text
        of == {p \in Payments : /\ body.rawSms \in {Sms(p, "payer"), Sms(p, "reseller")}
                                /\ body.id \in {p, None}
                                /\ body.amount \in {Amount[p], None}}
    IN  IF last.became.transaction = None
        THEN last.entitled /\ last.zoned /\ ~last.late /\ of # {} =>
               last.became.status = "RATE_LIMITED"
        ELSE /\ last.entitled
             /\ last.zoned => ~last.late
             /\ \E p \in of : /\ last.became.transaction.id = p
                             /\ last.became.transaction.amount = Amount[p]
=============================================================================
