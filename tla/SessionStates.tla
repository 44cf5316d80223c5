--------------------------- MODULE SessionStates ---------------------------
(***************************************************************************)
(* The purchase conversation of one WhatsApp context (one chat): the six   *)
(* states a session may be in and the transitions Session.transitionTo     *)
(* lets through.  Every other transition makes transitionTo throw; the     *)
(* throw ends the calling handler, and what the handler already did stays. *)
(***************************************************************************)

SessionState ==
  {"IDLE", "AWAITING_DESTINATION_NUMBER", "AWAITING_VERIFICATION",
   "PROCESSING", "COMPLETED", "NOT_FOUND"}

Allowed ==
  [IDLE |-> {"AWAITING_VERIFICATION", "AWAITING_DESTINATION_NUMBER", "NOT_FOUND"},
   AWAITING_DESTINATION_NUMBER |->
     {"AWAITING_DESTINATION_NUMBER", "AWAITING_VERIFICATION"},
   AWAITING_VERIFICATION |-> {"AWAITING_VERIFICATION", "PROCESSING", "NOT_FOUND"},
   PROCESSING |-> {"COMPLETED", "NOT_FOUND"},
   COMPLETED |-> {"IDLE", "AWAITING_VERIFICATION", "AWAITING_DESTINATION_NUMBER"},
   NOT_FOUND |->
     {"IDLE", "AWAITING_VERIFICATION", "AWAITING_DESTINATION_NUMBER", "NOT_FOUND"}]

\* transitionTo does not throw.
CanMove(from, to) == to \in Allowed[from]

\* The session after a transition that may throw: a throw leaves it as it was.
Moved(from, to) == IF CanMove(from, to) THEN to ELSE from
=============================================================================
