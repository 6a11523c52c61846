------------------------------ MODULE Scanner ------------------------------
(***************************************************************************)
(* The scanner (scanner.c): a buffer over a file descriptor, which is      *)
(* refilled whenever a function needs a character that is not there yet.   *)
(*                                                                         *)
(* The buffer's contents are a sequence, of which buffer_filled is the     *)
(* length.  Reading one character and looking at it is one step, a call of *)
(* read() another.  The two versions of each function, for characters and  *)
(* for predicates, are one: `tokens` is the set they accept.               *)
(*                                                                         *)
(* Calls of read() that fail, and the byte 255, which the code cannot tell *)
(* from the end of the file, are left out.                                 *)
(***************************************************************************)
EXTENDS Integers, Sequences, FiniteSets

CONSTANTS
  Char,       \* the characters a text is made of
  Newline,
  EOF,
  Text,       \* the texts to scan
  BlockSize,  \* 4096: the size by which the buffer grows
  TokenSet    \* bound: the tokens a caller looks for

ASSUME CharAssumption == EOF \notin Char /\ Newline \in Char /\ Text \subseteq Seq(Char)
ASSUME BlockAssumption == BlockSize \in Nat \ {0}
ASSUME TokenAssumption == TokenSet \subseteq SUBSET (Char \cup {EOF})

VARIABLES
  fd,       \* a descriptor, or none (-1): the buffer is the text
  unread,   \* what the descriptor still delivers
  buffer, buffer_size, buffer_pos, buffer_consumed, eof,
  cursor,   \* line, col and prev_col
  call,     \* the running call
  result,   \* the character that the last call returned, and its slice
  text,     \* history: all of the input
  start     \* history: the position at which the call began

bufferVars == <<buffer, buffer_size, buffer_pos, buffer_consumed>>
history == <<text, start>>
vars == <<fd, unread, bufferVars, eof, cursor, call, result, history>>

Cursor == [line : Int, col : Int, prev_col : Int]

\* As in TextScanner; only scan_until can wait for the end of the file.
Call == [op : {"until"}, tokens : TokenSet]
          \cup [op : {"while", "one_of"}, tokens : {set \in TokenSet : EOF \notin set}]
          \cup [op : {"peek"}, tokens : {{}}]

Idle == [op |-> "idle"]

-----------------------------------------------------------------------------
(* Refilling the buffer.                                                   *)

\* slip: the part of the buffer that is kept begins at the position
KeptFromPosition == SubSeq(buffer, buffer_pos + 1, Len(buffer))

Kept == SubSeq(buffer, buffer_consumed + 1, Len(buffer))

\* slip: a full buffer is not expanded
SizeFixed == buffer_size

SizeForKept == IF Len(Kept) = buffer_size THEN buffer_size + BlockSize ELSE buffer_size

\* What read() may return with room for `space` bytes: 0 at the end of the
\* file, and if it is asked for none.
BytesRead(space) ==
  {n \in 0..space : n <= Len(unread) /\ (n = 0 => space = 0 \/ unread = << >>)}

NeedsInput == call # Idle /\ ~eof /\ buffer_pos >= Len(buffer)

\* read_into_buffer, and the end of the file that scan_peek takes from it
Refill ==
  /\ NeedsInput
  /\ fd = "file"
  /\ \E n \in BytesRead(SizeForKept - Len(Kept)) :
       /\ buffer' = Kept \o SubSeq(unread, 1, n)
       /\ unread' = SubSeq(unread, n + 1, Len(unread))
       /\ eof' = (n = 0)
  /\ buffer_size' = SizeForKept
  /\ buffer_pos' = buffer_pos - buffer_consumed
  /\ buffer_consumed' = 0
  /\ UNCHANGED <<fd, cursor, call, result, history>>

EndOfString ==
  /\ NeedsInput
  /\ fd = "none"
  /\ eof' = TRUE
  /\ UNCHANGED <<fd, unread, bufferVars, cursor, call, result, history>>

-----------------------------------------------------------------------------
(* One character, line and column.                                         *)

Ready == eof \/ buffer_pos < Len(buffer)

\* scan_peek
NextChar == IF eof THEN EOF ELSE buffer[buffer_pos + 1]

\* read_next_char
PosAfter == IF NextChar = EOF THEN buffer_pos ELSE buffer_pos + 1

CursorAfter ==
  CASE NextChar = EOF -> cursor
    [] NextChar = Newline ->
         [line |-> cursor.line + 1, col |-> 1, prev_col |-> cursor.col]
    [] OTHER -> [cursor EXCEPT !.col = @ + 1]

\* slip: the column of the line before is not restored
RewoundToColumnOne(after, char) ==
  IF char = Newline
  THEN [line |-> after.line - 1, col |-> 1, prev_col |-> 1]
  ELSE [after EXCEPT !.col = @ - 1]

\* rewind_one_char, `char` being the one before the position
Rewound(after, char) ==
  IF char = Newline
  THEN [line |-> after.line - 1, col |-> after.prev_col, prev_col |-> 1]
  ELSE [after EXCEPT !.col = @ - 1]

-----------------------------------------------------------------------------
(* The functions of scanner.h.                                             *)

\* slip: the slice begins at the front of the buffer
SliceFromFront == SubSeq(buffer, 1, buffer_pos)

\* The unconsumed part of the buffer up to the terminator.
Slice == SubSeq(buffer, buffer_consumed + 1, buffer_pos)

Running(op) == call.op = op /\ Ready

Begin(c) ==
  /\ call = Idle
  /\ call' = c
  /\ start' = Len(text) - Len(unread) - Len(buffer) + buffer_pos
  /\ UNCHANGED <<fd, unread, bufferVars, eof, cursor, result, text>>

\* The call goes on behind the character.  At the end of the file this
\* changes nothing: a loop without an end.
Continue ==
  /\ buffer_pos' = PosAfter
  /\ cursor' = CursorAfter
  /\ UNCHANGED <<fd, unread, buffer, buffer_size, buffer_consumed, eof, call, result, history>>

Answer(char, slice) ==
  /\ result' = [char |-> char, slice |-> slice]
  /\ call' = Idle
  /\ UNCHANGED <<fd, unread, buffer, buffer_size, eof, history>>

UntilContinues ==
  /\ Running("until")
  /\ NextChar \notin call.tokens
  /\ Continue

UntilReturns ==
  /\ Running("until")
  /\ NextChar \in call.tokens
  /\ buffer_pos' = PosAfter
  /\ cursor' = CursorAfter
  /\ buffer_consumed' = PosAfter
  /\ Answer(NextChar, Slice)

WhileContinues ==
  /\ Running("while")
  /\ NextChar \in call.tokens
  /\ Continue

\* The terminator is read and put back.
WhileReturns ==
  /\ Running("while")
  /\ NextChar \notin call.tokens
  /\ cursor' = IF NextChar = EOF THEN cursor ELSE Rewound(CursorAfter, NextChar)
  /\ buffer_consumed' = buffer_pos
  /\ Answer(NextChar, Slice)
  /\ UNCHANGED buffer_pos

OneOfReturns ==
  /\ Running("one_of")
  /\ buffer_pos' = PosAfter
  /\ cursor' = CursorAfter
  /\ buffer_consumed' = IF NextChar \in call.tokens THEN buffer_consumed + 1
                        ELSE buffer_consumed
  /\ Answer(NextChar, << >>)

PeekReturns ==
  /\ Running("peek")
  /\ Answer(NextChar, << >>)
  /\ UNCHANGED <<buffer_pos, buffer_consumed, cursor>>

-----------------------------------------------------------------------------
\* scan_open and scan_open_string
Init ==
  /\ text \in Text
  /\ \/ fd = "file" /\ unread = text /\ buffer = << >> /\ buffer_size = BlockSize
     \/ fd = "none" /\ unread = << >> /\ buffer = text /\ buffer_size = Len(text)
  /\ buffer_pos = 0
  /\ buffer_consumed = 0
  /\ eof = FALSE
  /\ cursor = [line |-> 1, col |-> 1, prev_col |-> 0]
  /\ call = Idle
  /\ result = [char |-> EOF, slice |-> << >>]
  /\ start = 0

Step ==
  \/ Refill \/ EndOfString
  \/ UntilContinues \/ UntilReturns
  \/ WhileContinues \/ WhileReturns
  \/ OneOfReturns \/ PeekReturns

Next == Step \/ \E c \in Call : Begin(c)

\* The functions run without waiting but for input, which the descriptor
\* delivers some time.
Spec == Init /\ [][Next]_vars /\ WF_vars(Step)

-----------------------------------------------------------------------------
Base == Len(text) - Len(unread) - Len(buffer)
Position == Base + buffer_pos

TypeOK ==
  /\ fd \in {"file", "none"}
  /\ text \in Seq(Char)
  /\ unread \in Seq(Char)
  /\ buffer \in Seq(Char)
  /\ buffer_size \in Nat
  /\ buffer_pos \in Nat
  /\ buffer_consumed \in Nat
  /\ eof \in BOOLEAN
  /\ cursor \in Cursor
  /\ call \in Call \cup {Idle}
  /\ result \in [char : Char \cup {EOF}, slice : Seq(Char)]
  /\ start \in Nat
  /\ buffer_consumed <= buffer_pos
  /\ buffer_pos <= Len(buffer)
  /\ Len(buffer) <= buffer_size

\* line and col tell where the next character is: the number of lines before
\* it, and its distance from the last line break, although a line break that
\* ends scan_while is counted and taken back.
LineAndColumn ==
  LET lineStart == Position + 1 - cursor.col
  IN  /\ cursor.line = 1 + Cardinality({i \in 1..Position : text[i] = Newline})
      /\ lineStart \in 0..Position
      /\ lineStart > 0 => text[lineStart] = Newline
      /\ \A i \in (lineStart + 1)..Position : text[i] # Newline

\* In whatever pieces the descriptor delivers the text, and however the buffer
\* moves and grows meanwhile, each call answers as if it saw all of the text.
Whole == INSTANCE TextScanner WITH
           position <- IF call = Idle THEN Position ELSE start,
           consumed <- Base + buffer_consumed
ImplementsTextScanner == Whole!Spec

\* The only call that does not return is scan_until for a character that does
\* not come any more: at the end of the file its loop goes on.
InVain ==
  /\ call.op = "until"
  /\ EOF \notin call.tokens
  /\ \A i \in (start + 1)..Len(text) : text[i] \notin call.tokens

CallsReturn == [](call # Idle /\ ~InVain => <>(call = Idle))
=============================================================================
