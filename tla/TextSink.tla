------------------------------ MODULE TextSink ------------------------------
(***************************************************************************)
(* What an output stream promises to those who print into it: the texts in *)
(* the order in which they were printed, cut off at a fixed length.        *)
(***************************************************************************)
EXTENDS Integers, Sequences

CONSTANTS
  Text,       \* what is printed: sequences of characters
  Limits,     \* where a sink may cut off
  Unlimited   \* the limit of a sink that keeps everything

VARIABLES
  text,       \* what has arrived
  limit       \* how many characters arrive at most

\* The part of s that arrives.
UpTo(s, n) == IF n = Unlimited \/ Len(s) <= n THEN s ELSE SubSeq(s, 1, n)

Init ==
  /\ text = << >>
  /\ limit \in Limits \cup {Unlimited}

Arrive(s) ==
  /\ text' = UpTo(text \o s, limit)
  /\ UNCHANGED limit

\* Starting over; only a sink with a limit can.
Clear ==
  /\ limit # Unlimited
  /\ text' = << >>
  /\ UNCHANGED limit

\* Nothing arrives any more.
Close ==
  /\ limit # Unlimited
  /\ text' = << >>
  /\ limit' = 0

Next ==
  \/ \E s \in Text : Arrive(s)
  \/ Clear
  \/ Close

Spec == Init /\ [][Next]_<<text, limit>>
=============================================================================
