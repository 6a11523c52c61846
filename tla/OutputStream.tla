---------------------------- MODULE OutputStream ----------------------------
(***************************************************************************)
(* The output stream (output_stream.c): print goes to a file of stdio, or  *)
(* into a block of memory whose content a test then compares.  The texts   *)
(* are formatted before they get here.                                     *)
(*                                                                         *)
(* The block is what malloc returns: it holds anything at first.           *)
(***************************************************************************)
EXTENDS Integers, Sequences, SequencesExt

CONSTANTS
  Char,        \* the characters that are printed
  NUL,         \* the end of a C string
  Text,        \* what is printed at once: sequences of characters
  Sizes,       \* the sizes os_new_capture is asked for
  MaxPrinted   \* bound: characters printed into one stream

ASSUME NulAssumption == NUL \notin Char
ASSUME TextAssumption == Text \subseteq Seq(Char)
ASSUME SizesAssumption == Sizes \subseteq Nat

VARIABLES
  os,       \* the output_stream_t, and what is in its file or in its block
  printed,  \* everything printed since the stream was created or cleared
  touched,  \* os_printf or os_clear has been called since its creation
  freed     \* os_destroy has been called

streamVars == <<os, printed, touched, freed>>

Byte == Char \cup {NUL}

Smaller(m, n) == IF m < n THEN m ELSE n

-----------------------------------------------------------------------------
os_new ==
  [stream |-> TRUE, file |-> << >>, buffer_ptr |-> << >>, buffer_size |-> 0, buffer_filled |-> 0]

os_new_capture(size, block) ==
  [stream |-> FALSE, file |-> << >>, buffer_ptr |-> block, buffer_size |-> size,
   buffer_filled |-> 0]

\* vsnprintf into the block behind its first `at` bytes: as many characters
\* as leave room for the NUL, and the NUL; nothing without any room.  It
\* writes where it is told to, inside of the block or behind it.
vsnprintf(block, at, space, text) ==
  LET n == Smaller(Len(text), space - 1)
  IN  IF space = 0 THEN block
      ELSE [i \in DOMAIN block \cup (at + 1)..(at + n + 1) |->
              IF i \in (at + 1)..(at + n) THEN text[i - at]
              ELSE IF i = at + n + 1 THEN NUL ELSE block[i]]

FreeSpace(s) == s.buffer_size - s.buffer_filled

\* slip: vsnprintf returns the length of the text, not of what fitted
ResultNotClipped(s, text) == Len(text)

Result(s, text) == Smaller(Len(text), FreeSpace(s))

\* slip: the NUL left at the end of every text
NulKept(s, text) ==
  IF s.stream THEN [s EXCEPT !.file = @ \o text]
  ELSE [s EXCEPT !.buffer_ptr = vsnprintf(@, s.buffer_filled, FreeSpace(s), text),
                 !.buffer_filled = @ + Smaller(Len(text) + 1, FreeSpace(s))]

os_vprintf(s, text) ==
  IF s.stream THEN [s EXCEPT !.file = @ \o text]
  ELSE [s EXCEPT !.buffer_ptr = vsnprintf(@, s.buffer_filled, FreeSpace(s), text),
                 !.buffer_filled = @ + Result(s, text)]

os_printf(text) ==
  /\ Len(printed \o text) <= MaxPrinted
  /\ os' = os_vprintf(os, text)
  /\ printed' = printed \o text
  /\ touched' = TRUE
  /\ UNCHANGED freed

\* A stream of stdio has no block, and a destroyed one none of any size.
Cleared(s) ==
  [s EXCEPT !.buffer_filled = 0,
            !.buffer_ptr = IF s.buffer_size > 0 THEN [@ EXCEPT ![1] = NUL] ELSE @]

os_clear ==
  /\ os' = Cleared(os)
  /\ printed' = IF os.stream THEN printed ELSE << >>
  /\ touched' = TRUE
  /\ UNCHANGED freed

\* slip: the size of the block stays
SizeKept(s) == [s EXCEPT !.buffer_filled = 0]

\* buffer_ptr still points to the block that is free now.
Destroyed(s) == [s EXCEPT !.buffer_size = 0, !.buffer_filled = 0]

\* A second time would free the block again: nobody may.
os_destroy ==
  /\ ~freed
  /\ os' = Destroyed(os)
  /\ printed' = IF os.stream THEN printed ELSE << >>
  /\ freed' = TRUE
  /\ UNCHANGED touched

StreamInit ==
  /\ \/ os = os_new
     \/ \E size \in Sizes : \E block \in [1..size -> Byte] : os = os_new_capture(size, block)
  /\ printed = << >>
  /\ touched = FALSE
  /\ freed = FALSE

StreamNext ==
  \/ \E text \in Text : os_printf(text)
  \/ os_clear
  \/ os_destroy

-----------------------------------------------------------------------------
\* What a capture stream keeps of a text: the terminator needs a byte too.
Kept(size, s) == IF size = 0 THEN << >> ELSE SubSeq(s, 1, Smaller(Len(s), size - 1))

\* strcmp(block, text) == 0
Shows(block, text) ==
  /\ \A i \in 1..Len(text) : block[i] = text[i]
  /\ block[Len(text) + 1] = NUL

\* Types; nothing was written behind the block.
StreamTypeOK ==
  /\ printed \in Seq(Char)
  /\ touched \in BOOLEAN
  /\ freed \in BOOLEAN
  /\ os.stream \in BOOLEAN
  /\ os.file \in Seq(Char)
  /\ os.buffer_size \in Nat
  /\ os.buffer_filled \in 0..os.buffer_size
  /\ os.buffer_ptr \in [DOMAIN os.buffer_ptr -> Byte]
  /\ ~freed => DOMAIN os.buffer_ptr = 1..os.buffer_size

\* What the tests compare: from the first print or clear on the block is a
\* C string, and it is everything printed since then, in order, as long as
\* it fits, and the beginning of it from then on.
CapturesPrefix ==
  touched /\ os.buffer_size > 0 => Shows(os.buffer_ptr, Kept(os.buffer_size, printed))

\* Nothing is written into a block that has been freed: after os_destroy, and
\* os_clear or os_printf after it, the size 0 is what keeps them out.
FreedBlockUntouched == [][freed => os'.buffer_ptr = os.buffer_ptr]_streamVars
=============================================================================
