---------------------------- MODULE MCDirectCalls ----------------------------
(***************************************************************************)
(* Small instances of DirectCalls: a call of its own that asks, as an      *)
(* operation does, and buffered calls of which some ask, as saves do, and  *)
(* one has a callback that raises, as the loading of an element has.       *)
(***************************************************************************)
EXTENDS DirectCallsInv, TLC

CONSTANTS operation, save, load

MCAsks == [c \in Calls |-> IF c = operation THEN {"q1"} ELSE IF c = save THEN {"q2"} ELSE {}]
=============================================================================
