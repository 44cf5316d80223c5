----------------------------- MODULE MpesaParser ----------------------------
(***************************************************************************)
(* MpesaParser.parse.  A text is the sequence of the pieces its regular    *)
(* expressions look for; each expression finds its first piece anywhere in *)
(* the text, not the one that stands beside what another has found.        *)
(*                                                                         *)
(* A definition named X_Y is X with a fault, for the runs that show that a *)
(* property notices it; no specification uses it.                          *)
(***************************************************************************)
EXTENDS Naturals, Sequences, SequencesExt

CONSTANT None

\* "Confirmado <id>."; "Recebeste <amount> de 258...": that number has twelve
\* digits; "Transferiste <amount> e a taxa foi de <fee> para <phone>"; "liga
\* 100."; a mobile number of nine digits; anything else.
Confirmed(id) == [piece |-> "confirmed", id |-> id]
Received(amount) == [piece |-> "received", amount |-> amount, fee |-> 0]
Sent(amount, fee, phone) ==
  [piece |-> "sent", amount |-> amount, fee |-> fee, phone |-> phone]
Footer == [piece |-> "footer"]
Number(phone) == [piece |-> "number", phone |-> phone]
Words == [piece |-> "words"]

\* Where the first piece of one of these kinds stands, or 0.
First(text, kinds) == SelectInSeq(text, LAMBDA e : e.piece \in kinds)
Has(text, kind) == First(text, {kind}) # 0

\* A number after the footer was added by the customer - or is the "para" of
\* an SMS pasted after the first.
ExtractDestination_Anywhere(text) ==
  LET n == First(text, {"number", "sent"})
  IN  IF n = 0 THEN None ELSE text[n].phone
ExtractDestination(text) ==
  LET tail == SubSeq(text, First(text, {"footer"}) + 1, Len(text))
      n == First(tail, {"number", "sent"})
  IN  IF Has(text, "footer") /\ n # 0 THEN tail[n].phone ELSE None

Unknown == [matched |-> FALSE]

\* The patterns are tried in this order.
Parse(text) ==
  LET kind == IF Has(text, "received") THEN "received" ELSE "sent"
      paid == text[First(text, {kind})]
      id == First(text, {"confirmed"})
  IN  IF ~Has(text, kind) THEN Unknown
      ELSE [matched |-> TRUE, type |-> kind,
            id |-> IF id = 0 THEN None ELSE text[id].id,
            amount |-> paid.amount, fee |-> paid.fee,
            destination |-> ExtractDestination(text)]
=============================================================================
