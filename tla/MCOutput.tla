------------------------------ MODULE MCOutput ------------------------------
(* Streams of stdio and blocks of up to three bytes under a log whose      *)
(* lines are of one to three bytes.                                        *)
EXTENDS Logger

CONSTANTS a, nl

SmallSizes == {0, 1, 3}
Texts == {<< >>, <<a>>}
Places == [level \in Level |-> IF level = LOG_WARN THEN <<a>> ELSE << >>]
NewlineText == <<nl>>
=============================================================================
