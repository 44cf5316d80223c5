------------------------------ MODULE MCIntake ------------------------------
(* Instances of Intake for TLC.                                            *)
EXTENDS Intake, TLC

CONSTANTS p1, p2, d1, d2, t1, t2, h1, h1Spaced, h2

AllKeys == (Devices \cup {None}) \X Headers
Amounts == p1 :> 10 @@ p2 :> 20

\* One device may; its token comes in two spellings of the header, and
\* another header presents another token.
OwnToken == d1 :> t1
Read == h1 :> t1 @@ h1Spaced :> t1 @@ h2 :> t2
=============================================================================
