----------------------------- MODULE Connection -----------------------------
(***************************************************************************)
(* The gateway's one connection to Redis.  The gateway is one process: a   *)
(* handler has at most one command under way and sends the next when it    *)
(* gets the answer, and answers come in the order of the commands.  So the *)
(* handlers under way take turns: "wire" is the queue of their next        *)
(* commands, and a new handler joins at its end at any moment.             *)
(***************************************************************************)
EXTENDS Naturals, Sequences

CONSTANT MaxHandlers  \* bound on the handlers under way

VARIABLE wire  \* the handlers, each with the command it sent: a field "at"

Join(handler) == Len(wire) < MaxHandlers /\ wire' = Append(wire, handler)

UnderWay == {wire[n] : n \in DOMAIN wire}

\* The handler whose command is executed now.
turn == Head(wire)
At(command) == wire # <<>> /\ turn.at = command

\* With the answer it sends its next command, or it ends.
Continue(next) == wire' = Append(Tail(wire), next)
Then(command) == Continue([turn EXCEPT !.at = command])
Done == wire' = Tail(wire)
=============================================================================
