---------------------------- MODULE TextScanner ----------------------------
(***************************************************************************)
(* What the scanner promises to the reader: the functions of scanner.h, as *)
(* if the whole text lay in memory, each of them one step.  Scanner        *)
(* implements it with a buffer that is filled piece by piece.              *)
(***************************************************************************)
EXTENDS Integers, Sequences

CONSTANTS
  Char,  \* the characters a text is made of
  EOF,   \* what the functions return at the end of the text
  Text   \* the texts to scan

ASSUME CharAssumption == EOF \notin Char /\ Text \subseteq Seq(Char)

\* A scanner function that is called with the characters it looks for.
Call == [op : {"until"}, tokens : SUBSET (Char \cup {EOF})]
          \cup [op : {"while", "one_of", "peek"}, tokens : SUBSET Char]

Idle == [op |-> "idle"]

VARIABLES
  text,      \* all of the input
  position,  \* number of characters read
  consumed,  \* number of characters that no later slice contains
  call,      \* the running call
  result     \* the character that the last call returned, and its slice

textVars == <<text, position, consumed, call, result>>

CharAt(i) == IF i <= Len(text) THEN text[i] ELSE EOF

\* The first character at or behind `i` that is in `set`, or is not.
IsFirstIn(end, i, set) ==
  /\ CharAt(end) \in set
  /\ \A k \in i..(end - 1) : CharAt(k) \notin set

IsFirstNotIn(end, i, set) ==
  /\ CharAt(end) \notin set
  /\ \A k \in i..(end - 1) : CharAt(k) \in set

Slice(end) == SubSeq(text, consumed + 1, end - 1)

Begin(c) ==
  /\ call = Idle
  /\ call' = c
  /\ UNCHANGED <<text, position, consumed, result>>

Answer(char, slice) ==
  /\ result' = [char |-> char, slice |-> slice]
  /\ call' = Idle
  /\ UNCHANGED text

\* The terminator is consumed, unless it is the end of the text.
Until ==
  \E end \in (position + 1)..(Len(text) + 1) :
    /\ call.op = "until"
    /\ IsFirstIn(end, position + 1, call.tokens)
    /\ position' = IF end <= Len(text) THEN end ELSE Len(text)
    /\ consumed' = position'
    /\ Answer(CharAt(end), Slice(end))

\* slip: what was skipped belongs to the next slice
WhileUnconsumed ==
  \E end \in (position + 1)..(Len(text) + 1) :
    /\ call.op = "while"
    /\ IsFirstNotIn(end, position + 1, call.tokens)
    /\ position' = end - 1
    /\ consumed' = consumed
    /\ Answer(CharAt(end), Slice(end))

\* The terminator is left for the next call.
While ==
  \E end \in (position + 1)..(Len(text) + 1) :
    /\ call.op = "while"
    /\ IsFirstNotIn(end, position + 1, call.tokens)
    /\ position' = end - 1
    /\ consumed' = position'
    /\ Answer(CharAt(end), Slice(end))

\* A character that is not in the list is skipped, but stays unconsumed.
OneOf ==
  LET char == CharAt(position + 1)
  IN  /\ call.op = "one_of"
      /\ position' = IF char = EOF THEN position ELSE position + 1
      /\ consumed' = IF char \in call.tokens THEN consumed + 1 ELSE consumed
      /\ Answer(char, << >>)

Peek ==
  /\ call.op = "peek"
  /\ Answer(CharAt(position + 1), << >>)
  /\ UNCHANGED <<position, consumed>>

Init ==
  /\ text \in Text
  /\ position = 0
  /\ consumed = 0
  /\ call = Idle
  /\ result = [char |-> EOF, slice |-> << >>]

Return == Until \/ While \/ OneOf \/ Peek

Next == Return \/ \E c \in Call : Begin(c)

Spec == Init /\ [][Next]_textVars
=============================================================================
