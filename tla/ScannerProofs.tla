--------------------------- MODULE ScannerProofs ---------------------------
(***************************************************************************)
(* Theorems about Scanner: the buffer holds a window of the text, so each  *)
(* function answers what TextScanner answers, whatever pieces read()       *)
(* delivers and for every size of the buffer.                              *)
(***************************************************************************)
EXTENDS Scanner, SequenceTheorems, FiniteSetTheorems, TLAPS

\* The buffer is a window of the text; what follows it is still unread.
Window ==
  /\ Len(unread) + Len(buffer) <= Len(text)
  /\ \A i \in 1..Len(buffer) : buffer[i] = text[Base + i]
  /\ \A i \in 1..Len(unread) : unread[i] = text[Len(text) - Len(unread) + i]

\* eof is set at the end of the text only; a string has nothing to be read.
EndKnown ==
  /\ eof => Len(unread) = 0 /\ buffer_pos = Len(buffer)
  /\ fd = "none" => Len(unread) = 0

\* What the running call has seen of the text.
Seen ==
  /\ call # Idle => start <= Position
  /\ call.op \in {"one_of", "peek"} => start = Position
  /\ call.op = "until" => \A k \in (start + 1)..Position : text[k] \notin call.tokens
  /\ call.op = "while" => \A k \in (start + 1)..Position : text[k] \in call.tokens

IInv == TypeOK /\ Window /\ EndKnown /\ Seen

-----------------------------------------------------------------------------
(* Calls, and the next character.                                          *)

LEMMA CallTypes ==
  ASSUME call \in Call \cup {Idle}
  PROVE  /\ call = Idle <=> call.op = "idle"
         /\ call.op = "until" => call.tokens \subseteq Char \cup {EOF}
         /\ call.op \in {"while", "one_of"} => call.tokens \subseteq Char
         /\ call.op \in {"idle", "until", "while", "one_of", "peek"}
BY TokenAssumption DEF Call, Idle

LEMMA Numbers ==
  ASSUME TypeOK, Window
  PROVE  /\ Len(text) \in Nat /\ Len(unread) \in Nat /\ Len(buffer) \in Nat
         /\ Base \in Nat /\ Position \in Nat
         /\ Base + Len(buffer) + Len(unread) = Len(text)
         /\ Position = Base + buffer_pos
         /\ Position <= Base + Len(buffer)
         /\ buffer_pos \in Nat /\ buffer_consumed \in Nat /\ buffer_consumed <= buffer_pos
         /\ start \in Nat
<1>1. Len(text) \in Nat /\ Len(unread) \in Nat /\ Len(buffer) \in Nat
  BY LenProperties DEF TypeOK
<1> QED
  BY <1>1 DEF TypeOK, Window, Base, Position

\* The next character in the buffer is the next one of the text.
LEMMA NextCharOfText ==
  ASSUME IInv, Ready
  PROVE  /\ NextChar = Whole!CharAt(Position + 1)
         /\ NextChar = EOF => Position = Len(text) /\ PosAfter = buffer_pos
         /\ NextChar # EOF => /\ Position + 1 <= Len(text)
                              /\ buffer_pos < Len(buffer)
                              /\ PosAfter = buffer_pos + 1
                              /\ NextChar = text[Position + 1]
                              /\ NextChar \in Char
         /\ NextChar \in Char \cup {EOF}
<1>1. TypeOK /\ Window /\ EndKnown
  BY DEF IInv
<1>2. /\ Len(text) \in Nat /\ Len(unread) \in Nat /\ Len(buffer) \in Nat
      /\ Base \in Nat /\ Position \in Nat
      /\ Base + Len(buffer) + Len(unread) = Len(text)
      /\ Position = Base + buffer_pos
      /\ Position <= Base + Len(buffer)
      /\ buffer_pos \in Nat
  BY <1>1, Numbers
<1>3. CASE eof
  <2>1. NextChar = EOF /\ Position = Len(text) /\ PosAfter = buffer_pos
    BY <1>1, <1>2, <1>3 DEF EndKnown, NextChar, PosAfter
  <2> QED
    BY <2>1, <1>2 DEF Whole!CharAt
<1>4. CASE ~eof
  <2>1. buffer_pos < Len(buffer)
    BY <1>4 DEF Ready
  <2>2. NextChar = buffer[buffer_pos + 1] /\ buffer_pos + 1 \in 1..Len(buffer)
    BY <1>2, <1>4, <2>1 DEF NextChar
  <2>3. NextChar \in Char
    BY <1>1, <2>2, ElementOfSeq DEF TypeOK
  <2>4. buffer[buffer_pos + 1] = text[Base + (buffer_pos + 1)]
    BY <1>1, <2>2 DEF Window
  <2>5. Base + (buffer_pos + 1) = Position + 1 /\ Position + 1 <= Len(text)
    BY <1>2, <2>1
  <2>6. NextChar # EOF
    BY <2>3, CharAssumption
  <2> QED
    BY <2>1, <2>2, <2>3, <2>4, <2>5, <2>6 DEF Whole!CharAt, PosAfter
<1> QED
  BY <1>3, <1>4

-----------------------------------------------------------------------------
(* Refilling.                                                              *)

\* What a slice of a sequence is, in the form in which the scanner counts:
\* `m` elements are left out.
LEMMA Part ==
  ASSUME NEW S, NEW s \in Seq(S), NEW m \in Nat, NEW n \in Nat, m <= n, n <= Len(s)
  PROVE  /\ SubSeq(s, m + 1, n) \in Seq(S)
         /\ Len(SubSeq(s, m + 1, n)) = n - m
         /\ \A i \in 1..(n - m) : SubSeq(s, m + 1, n)[i] = s[m + i]
<1> DEFINE part == SubSeq(s, m + 1, n)
<1>1. \A i \in (m + 1)..n : s[i] \in S
  <2>1. Len(s) \in Nat
    BY LenProperties
  <2> QED
    BY <2>1, ElementOfSeq
<1>2. m + 1 \in Int /\ n \in Int
  OBVIOUS
<1>3. /\ part \in Seq(S)
      /\ Len(part) = IF m + 1 <= n THEN n - (m + 1) + 1 ELSE 0
      /\ \A i \in 1..(n - (m + 1) + 1) : part[i] = s[m + 1 + i - 1]
  BY <1>1, <1>2, SubSeqProperties
<1>4. n - (m + 1) + 1 = n - m /\ \A i \in 1..(n - m) : m + 1 + i - 1 = m + i
  OBVIOUS
<1>5. (IF m + 1 <= n THEN n - m ELSE 0) = n - m
  OBVIOUS
<1> HIDE DEF part
<1>6. Len(part) = n - m
  BY <1>3, <1>4, <1>5
<1>7. \A i \in 1..(n - m) : part[i] = s[m + i]
  BY <1>3, <1>4
<1> QED
  BY <1>3, <1>6, <1>7 DEF part

\* What Refill does when read() returns n.
Reads(n) ==
  /\ n \in BytesRead(SizeForKept - Len(Kept))
  /\ buffer' = Kept \o SubSeq(unread, 1, n)
  /\ unread' = SubSeq(unread, n + 1, Len(unread))
  /\ text' = text

LEMMA ReadMoves ==
  ASSUME IInv, NEW n, Reads(n)
  PROVE  /\ n \in Nat
         /\ buffer' \in Seq(Char) /\ unread' \in Seq(Char)
         /\ Len(buffer') = Len(buffer) - buffer_consumed + n
         /\ Len(buffer') <= SizeForKept
         /\ Len(unread') = Len(unread) - n
         /\ Window'
         /\ Base' = Base + buffer_consumed
         /\ n = 0 => Len(unread) = 0
<1>1. TypeOK /\ Window /\ EndKnown
  BY DEF IInv
<1>2. /\ Len(text) \in Nat /\ Len(unread) \in Nat /\ Len(buffer) \in Nat
      /\ Base \in Nat /\ Base + Len(buffer) + Len(unread) = Len(text)
      /\ buffer_pos \in Nat /\ buffer_consumed \in Nat /\ buffer_consumed <= buffer_pos
      /\ buffer_pos <= Len(buffer)
      /\ buffer \in Seq(Char) /\ unread \in Seq(Char) /\ buffer_size \in Nat
      /\ Len(buffer) <= buffer_size
  BY <1>1, Numbers DEF TypeOK
<1>3. /\ Kept \in Seq(Char)
      /\ Len(Kept) = Len(buffer) - buffer_consumed
      /\ \A i \in 1..(Len(buffer) - buffer_consumed) : Kept[i] = buffer[buffer_consumed + i]
  <2>1. buffer_consumed <= Len(buffer)
    BY <1>2
  <2> QED
    BY <1>2, <2>1, Part DEF Kept
<1>4. SizeForKept - Len(Kept) \in Nat /\ SizeForKept - Len(Kept) > 0
  BY <1>2, <1>3, BlockAssumption DEF SizeForKept
<1>5. n \in Nat /\ n <= SizeForKept - Len(Kept) /\ n <= Len(unread)
      /\ (n = 0 => unread = << >>)
  BY <1>4 DEF Reads, BytesRead
<1> DEFINE piece == SubSeq(unread, 1, n)
           rest == SubSeq(unread, n + 1, Len(unread))
<1>6. /\ piece \in Seq(Char) /\ Len(piece) = n
      /\ \A i \in 1..n : piece[i] = unread[i]
  <2>1. /\ SubSeq(unread, 0 + 1, n) \in Seq(Char)
        /\ Len(SubSeq(unread, 0 + 1, n)) = n - 0
        /\ \A i \in 1..(n - 0) : SubSeq(unread, 0 + 1, n)[i] = unread[0 + i]
    BY <1>2, <1>5, Part
  <2>2. 0 + 1 = 1 /\ n - 0 = n /\ \A i \in 1..n : 0 + i = i
    BY <1>5
  <2> QED
    BY <2>1, <2>2
<1>7. /\ rest \in Seq(Char) /\ Len(rest) = Len(unread) - n
      /\ \A i \in 1..(Len(unread) - n) : rest[i] = unread[n + i]
  BY <1>2, <1>5, Part
<1> HIDE DEF piece, rest
<1>8. /\ Kept \o piece \in Seq(Char)
      /\ Len(Kept \o piece) = Len(Kept) + n
      /\ \A i \in 1..(Len(Kept) + n) :
           (Kept \o piece)[i] = IF i <= Len(Kept) THEN Kept[i] ELSE piece[i - Len(Kept)]
  BY <1>3, <1>6, ConcatProperties
<1>9. buffer' = Kept \o piece /\ unread' = rest /\ text' = text
  BY DEF piece, rest, Reads
<1>10. /\ Len(buffer') = Len(buffer) - buffer_consumed + n
       /\ Len(unread') = Len(unread) - n
       /\ Base' = Base + buffer_consumed
  <2>1. Len(Kept) \in Nat /\ Len(Kept) = Len(buffer) - buffer_consumed
    BY <1>2, <1>3
  <2>2. Len(buffer') = Len(buffer) - buffer_consumed + n
    BY <1>8, <1>9, <2>1
  <2>3. Len(unread') = Len(unread) - n
    BY <1>7, <1>9
  <2>4. Base' = Len(text) - Len(unread') - Len(buffer')
    BY <1>9 DEF Base
  <2>5. Len(text) \in Nat /\ Len(unread) \in Nat /\ Len(buffer) \in Nat /\ Base \in Nat
        /\ n \in Nat /\ buffer_consumed \in Nat /\ Base + Len(buffer) + Len(unread) = Len(text)
    BY <1>2, <1>5
  <2>6. Base' = Len(text) - (Len(unread) - n) - (Len(buffer) - buffer_consumed + n)
    BY <2>2, <2>3, <2>4
  <2>7. Base' = Base + buffer_consumed
    BY <2>5, <2>6
  <2> QED
    BY <2>2, <2>3, <2>7
<1>11. \A i \in 1..Len(buffer') : buffer'[i] = text[Base + buffer_consumed + i]
  <2> SUFFICES ASSUME NEW i \in 1..Len(buffer')
               PROVE  buffer'[i] = text[Base + buffer_consumed + i]
    OBVIOUS
  <2>0. i \in Nat /\ i >= 1 /\ i <= Len(Kept) + n
    BY <1>2, <1>3, <1>5, <1>10
  <2>1. CASE i <= Len(Kept)
    <3>1. buffer'[i] = buffer[buffer_consumed + i] /\ buffer_consumed + i \in 1..Len(buffer)
      BY <2>0, <2>1, <1>2, <1>3, <1>5, <1>8, <1>9
    <3>2. buffer[buffer_consumed + i] = text[Base + (buffer_consumed + i)]
      BY <3>1, <1>1 DEF Window
    <3>3. Base + (buffer_consumed + i) = Base + buffer_consumed + i
      BY <2>0, <1>2
    <3> QED
      BY <3>1, <3>2, <3>3
  <2>2. CASE i > Len(Kept)
    <3> DEFINE j == i - Len(Kept)
    <3>1. j \in 1..n /\ j \in 1..Len(unread)
      BY <2>0, <2>2, <1>2, <1>3, <1>5
    <3>2. buffer'[i] = unread[j]
      <4>1. i \in 1..(Len(Kept) + n) /\ ~(i <= Len(Kept))
        BY <2>0, <2>2, <1>2, <1>3
      <4>2. (Kept \o piece)[i] = piece[j]
        BY <4>1, <1>8
      <4>3. piece[j] = unread[j]
        BY <3>1, <1>6
      <4> QED
        BY <4>2, <4>3, <1>9
    <3>3. unread[j] = text[Len(text) - Len(unread) + j]
      BY <3>1, <1>1 DEF Window
    <3>4. Len(Kept) \in Nat /\ Len(Kept) = Len(buffer) - buffer_consumed
      BY <1>2, <1>3
    <3>5. Len(text) - Len(unread) = Base + Len(buffer)
      BY <1>2
    <3>6. Len(text) - Len(unread) + j = Base + buffer_consumed + i
      BY <3>4, <3>5, <2>0, <1>2
    <3> QED
      BY <3>2, <3>3, <3>6
  <2> QED
    BY <2>0, <2>1, <2>2, <1>2, <1>3
<1>12. \A i \in 1..Len(unread') : unread'[i] = text[Len(text) - Len(unread') + i]
  <2> SUFFICES ASSUME NEW i \in 1..Len(unread')
               PROVE  unread'[i] = text[Len(text) - Len(unread') + i]
    OBVIOUS
  <2>0. Len(unread) \in Nat /\ n \in Nat /\ i \in 1..(Len(unread) - n)
    BY <1>2, <1>5, <1>10
  <2>1. n + i \in 1..Len(unread) /\ unread'[i] = unread[n + i]
    BY <2>0, <1>7, <1>9
  <2>2. unread[n + i] = text[Len(text) - Len(unread) + (n + i)]
    BY <2>1, <1>1 DEF Window
  <2>3. Len(text) - Len(unread) + (n + i) = Len(text) - Len(unread') + i
    BY <1>2, <1>5, <1>10
  <2> QED
    BY <2>1, <2>2, <2>3
<1>13. Window'
  <2>1. Len(unread') + Len(buffer') <= Len(text')
    BY <1>2, <1>5, <1>9, <1>10
  <2>2. \A i \in 1..Len(buffer') : buffer'[i] = text'[Base' + i]
    BY <1>9, <1>10, <1>11
  <2>3. \A i \in 1..Len(unread') : unread'[i] = text'[Len(text') - Len(unread') + i]
    BY <1>9, <1>12
  <2> QED
    BY <2>1, <2>2, <2>3 DEF Window
<1>14. Len(buffer') <= SizeForKept
  <2>1. SizeForKept \in Nat
    BY <1>2, BlockAssumption DEF SizeForKept
  <2>2. Len(Kept) \in Nat /\ Len(Kept) = Len(buffer) - buffer_consumed
    BY <1>2, <1>3
  <2>3. Len(buffer') = Len(Kept) + n
    BY <2>2, <1>2, <1>5, <1>10
  <2>4. n \in Nat /\ n <= SizeForKept - Len(Kept)
    BY <1>5
  <2> QED
    BY <2>1, <2>2, <2>3, <2>4
<1>15. n = 0 => Len(unread) = 0
  BY <1>5
<1> QED
  BY <1>5, <1>7, <1>8, <1>9, <1>10, <1>13, <1>14, <1>15

-----------------------------------------------------------------------------
(* The invariant is inductive.                                             *)

LEMMA InitIInv == Init => IInv
<1> SUFFICES ASSUME Init
             PROVE  IInv
  OBVIOUS
<1>1. text \in Seq(Char) /\ Len(text) \in Nat
  BY CharAssumption, LenProperties DEF Init
<1>2. \A i \in 1..Len(text) : text[i] \in Char
  BY <1>1, ElementOfSeq
<1>3. call = Idle /\ call.op = "idle" /\ call \in Call \cup {Idle}
  BY DEF Init, Idle
<1>4. cursor \in Cursor
  BY DEF Init, Cursor
<1>5. << >> \in Seq(Char) /\ Len(<< >>) = 0
  BY EmptySeq
<1>6. result \in [char : Char \cup {EOF}, slice : Seq(Char)]
  BY <1>5 DEF Init
<1>0. buffer_pos = 0 /\ buffer_consumed = 0 /\ start = 0
  BY DEF Init
<1>9. eof = FALSE
  BY DEF Init
<1>10. eof \in BOOLEAN
  BY <1>9
<1>7. CASE fd = "file" /\ unread = text /\ buffer = << >> /\ buffer_size = BlockSize
  <2>1. TypeOK
    <3>1. buffer \in Seq(Char) /\ Len(buffer) = 0 /\ unread \in Seq(Char)
      BY <1>1, <1>5, <1>7
    <3>2. buffer_size \in Nat /\ 0 <= buffer_size
      BY <1>7, BlockAssumption
    <3> QED
      BY <1>0, <1>1, <1>3, <1>4, <1>6, <1>7, <1>10, <3>1, <3>2 DEF TypeOK
  <2>2. Base = 0 /\ Position = 0
    <3>1. Base = Len(text) - Len(text) - 0
      BY <1>5, <1>7 DEF Base
    <3> QED
      BY <3>1, <1>0, <1>1 DEF Position
  <2>3. Window
    BY <1>1, <1>5, <1>7, <2>2 DEF Window
  <2>4. EndKnown
    BY <1>7 DEF Init, EndKnown
  <2>5. Seen
    BY <1>3 DEF Seen
  <2> QED
    BY <2>1, <2>3, <2>4, <2>5 DEF IInv
<1>8. CASE fd = "none" /\ unread = << >> /\ buffer = text /\ buffer_size = Len(text)
  <2>1. TypeOK
    <3>1. buffer \in Seq(Char) /\ Len(buffer) \in Nat /\ unread \in Seq(Char)
      BY <1>1, <1>5, <1>8
    <3>2. buffer_size \in Nat /\ Len(buffer) <= buffer_size /\ 0 <= Len(buffer)
      BY <1>1, <1>8
    <3> QED
      BY <1>0, <1>1, <1>3, <1>4, <1>6, <1>8, <1>10, <3>1, <3>2 DEF TypeOK
  <2>2. Base = 0 /\ Position = 0
    <3>1. Base = Len(text) - 0 - Len(text)
      BY <1>5, <1>8 DEF Base
    <3> QED
      BY <3>1, <1>0, <1>1 DEF Position
  <2>3. Window
    BY <1>1, <1>5, <1>8, <2>2 DEF Window
  <2>4. EndKnown
    BY <1>5, <1>8 DEF Init, EndKnown
  <2>5. Seen
    BY <1>3 DEF Seen
  <2> QED
    BY <2>1, <2>3, <2>4, <2>5 DEF IInv
<1> QED
  BY <1>7, <1>8 DEF Init

LEMMA RefillInv ==
  ASSUME IInv, Refill
  PROVE  IInv' /\ Position' = Position /\ Base' + buffer_consumed' = Base + buffer_consumed
<1>1. TypeOK /\ Window /\ EndKnown /\ Seen
  BY DEF IInv
<1>2. /\ Len(buffer) \in Nat /\ Len(unread) \in Nat /\ Base \in Nat
      /\ Position = Base + buffer_pos
      /\ buffer_pos \in Nat /\ buffer_consumed \in Nat /\ buffer_consumed <= buffer_pos
      /\ buffer_pos <= Len(buffer) /\ buffer_size \in Nat
  BY <1>1, Numbers DEF TypeOK
<1>3. PICK n : Reads(n) /\ eof' = (n = 0)
  BY DEF Refill, Reads, history
<1>4. /\ n \in Nat
      /\ buffer' \in Seq(Char) /\ unread' \in Seq(Char)
      /\ Len(buffer') = Len(buffer) - buffer_consumed + n
      /\ Len(buffer') <= SizeForKept
      /\ Len(unread') = Len(unread) - n
      /\ Window'
      /\ Base' = Base + buffer_consumed
      /\ n = 0 => Len(unread) = 0
  BY <1>3, ReadMoves
<1>5. /\ buffer_pos = Len(buffer) /\ fd = "file" /\ call # Idle
      /\ buffer_size' = SizeForKept
      /\ buffer_pos' = buffer_pos - buffer_consumed /\ buffer_consumed' = 0
      /\ fd' = fd /\ cursor' = cursor /\ call' = call /\ result' = result
      /\ text' = text /\ start' = start
  BY <1>2 DEF Refill, NeedsInput, history
<1>6. Position' = Position /\ Base' + buffer_consumed' = Base + buffer_consumed
  BY <1>2, <1>4, <1>5 DEF Position
<1>7. SizeForKept \in Nat
  BY <1>2, BlockAssumption DEF SizeForKept
<1>8. buffer_pos' \in Nat /\ buffer_pos' <= Len(buffer') /\ 0 <= buffer_pos' /\ 0 \in Nat
  BY <1>2, <1>4, <1>5
<1>9. eof' \in BOOLEAN
  BY <1>3
<1>10. TypeOK'
  <2>1. fd \in {"file", "none"} /\ text \in Seq(Char) /\ cursor \in Cursor
        /\ call \in Call \cup {Idle} /\ start \in Nat
        /\ result \in [char : Char \cup {EOF}, slice : Seq(Char)]
    BY <1>1 DEF TypeOK
  <2>2. buffer_size' \in Nat /\ Len(buffer') <= buffer_size'
    BY <1>4, <1>5, <1>7
  <2>3. buffer_consumed' \in Nat /\ buffer_consumed' <= buffer_pos'
    BY <1>5, <1>8
  <2>4. buffer' \in Seq(Char) /\ unread' \in Seq(Char)
    BY <1>4
  <2> QED
    BY <1>5, <1>8, <1>9, <2>1, <2>2, <2>3, <2>4 DEF TypeOK
<1>11. EndKnown'
  <2>1. ASSUME eof'
        PROVE  Len(unread') = 0 /\ buffer_pos' = Len(buffer')
    <3>1. n = 0
      BY <1>3, <2>1
    <3> QED
      BY <3>1, <1>2, <1>4, <1>5
  <2>2. fd' # "none"
    BY <1>5
  <2> QED
    BY <2>1, <2>2 DEF EndKnown
<1>12. Seen'
  BY <1>1, <1>5, <1>6 DEF Seen
<1> QED
  BY <1>4, <1>6, <1>10, <1>11, <1>12 DEF IInv

\* The window does not change while no input is read.
LEMMA SameWindow ==
  ASSUME Window, text' = text, unread' = unread, buffer' = buffer
  PROVE  Window' /\ Base' = Base
BY DEF Window, Base

LEMMA CursorTypes ==
  ASSUME TypeOK
  PROVE  CursorAfter \in Cursor /\ \A char : Rewound(CursorAfter, char) \in Cursor
<1>1. cursor \in Cursor
  BY DEF TypeOK
<1>2. CursorAfter \in Cursor
  BY <1>1 DEF CursorAfter, Cursor
<1>3. ASSUME NEW char, NEW after \in Cursor
      PROVE  Rewound(after, char) \in Cursor
  BY <1>3 DEF Rewound, Cursor
<1> QED
  BY <1>2, <1>3

LEMMA SliceOfText ==
  ASSUME IInv
  PROVE  /\ Slice \in Seq(Char)
         /\ Slice = SubSeq(text, Base + buffer_consumed + 1, Position)
<1>1. TypeOK /\ Window
  BY DEF IInv
<1>2. /\ Len(text) \in Nat /\ Len(buffer) \in Nat /\ Len(unread) \in Nat
      /\ Base \in Nat /\ Base + Len(buffer) + Len(unread) = Len(text)
      /\ Position = Base + buffer_pos
      /\ buffer_pos \in Nat /\ buffer_consumed \in Nat /\ buffer_consumed <= buffer_pos
      /\ buffer_pos <= Len(buffer)
      /\ text \in Seq(Char) /\ buffer \in Seq(Char)
  BY <1>1, Numbers DEF TypeOK
<1> DEFINE n == buffer_pos - buffer_consumed
           from == Base + buffer_consumed + 1
           onText == SubSeq(text, from, Position)
<1>3. n \in Nat /\ from \in Nat /\ from >= 1
  BY <1>2
<1>4. /\ Slice \in Seq(Char) /\ Len(Slice) = n
      /\ \A i \in 1..n : Slice[i] = buffer[buffer_consumed + i]
  <2>1. /\ SubSeq(buffer, buffer_consumed + 1, buffer_pos) \in Seq(Char)
        /\ Len(SubSeq(buffer, buffer_consumed + 1, buffer_pos)) = buffer_pos - buffer_consumed
        /\ \A i \in 1..(buffer_pos - buffer_consumed) :
             SubSeq(buffer, buffer_consumed + 1, buffer_pos)[i] = buffer[buffer_consumed + i]
    BY <1>2, Part
  <2> QED
    BY <2>1 DEF Slice
<1>5. /\ onText \in Seq(Char) /\ Len(onText) = n
      /\ \A i \in 1..n : onText[i] = text[Base + (buffer_consumed + i)]
  <2> DEFINE m == Base + buffer_consumed
  <2>1. m \in Nat /\ Position \in Nat /\ m <= Position /\ Position <= Len(text)
        /\ Position - m = n /\ \A i \in 1..n : m + i = Base + (buffer_consumed + i)
    BY <1>2
  <2> HIDE DEF m
  <2>2. /\ SubSeq(text, m + 1, Position) \in Seq(Char)
        /\ Len(SubSeq(text, m + 1, Position)) = Position - m
        /\ \A i \in 1..(Position - m) : SubSeq(text, m + 1, Position)[i] = text[m + i]
    BY <1>2, <2>1, Part
  <2>3. onText = SubSeq(text, m + 1, Position)
    BY DEF m
  <2> HIDE DEF onText, n
  <2> QED
    BY <2>1, <2>2, <2>3
<1>6. \A i \in 1..n : Slice[i] = onText[i]
  <2> SUFFICES ASSUME NEW i \in 1..n
               PROVE  Slice[i] = onText[i]
    OBVIOUS
  <2>1. buffer_consumed + i \in 1..Len(buffer)
    BY <1>2
  <2>2. buffer[buffer_consumed + i] = text[Base + (buffer_consumed + i)]
    BY <1>1, <2>1 DEF Window
  <2> HIDE DEF onText, n
  <2> QED
    BY <1>4, <1>5, <2>2
<1>7. Slice = onText
  <2> HIDE DEF onText, n
  <2> QED
    BY <1>4, <1>5, <1>6, SeqEqual
<1> QED
  BY <1>4, <1>7

-----------------------------------------------------------------------------
(* Steps that read no input.                                               *)

\* A step that leaves the window alone and moves within it.
LEMMA MoveInv ==
  ASSUME IInv,
         fd' = fd, text' = text, unread' = unread, buffer' = buffer,
         buffer_size' = buffer_size, eof' = eof,
         buffer_pos' \in Nat, buffer_pos' <= Len(buffer), eof => buffer_pos' = buffer_pos,
         buffer_consumed' \in Nat, buffer_consumed' <= buffer_pos',
         cursor' \in Cursor, call' \in Call \cup {Idle},
         result' \in [char : Char \cup {EOF}, slice : Seq(Char)], start' \in Nat
  PROVE  /\ TypeOK' /\ Window' /\ EndKnown'
         /\ Base' = Base
         /\ Position' = Base + buffer_pos'
<1>1. TypeOK /\ Window /\ EndKnown
  BY DEF IInv
<1>2. Window' /\ Base' = Base
  BY <1>1, SameWindow
<1>3. TypeOK'
  BY <1>1 DEF TypeOK
<1>4. EndKnown'
  BY <1>1 DEF EndKnown
<1>5. Position' = Base + buffer_pos'
  BY <1>2 DEF Position
<1> QED
  BY <1>2, <1>3, <1>4, <1>5

LEMMA NothingStored ==
  ASSUME IInv
  PROVE  result \in [char : Char \cup {EOF}, slice : Seq(Char)] /\ start \in Nat
         /\ call \in Call \cup {Idle} /\ cursor \in Cursor
BY DEF IInv, TypeOK

\* Where the character after the next one is.
LEMMA PosAfterBounds ==
  ASSUME IInv, Ready
  PROVE  /\ PosAfter \in Nat /\ PosAfter <= Len(buffer) /\ buffer_pos <= PosAfter
         /\ eof => PosAfter = buffer_pos
         /\ buffer_consumed \in Nat /\ buffer_consumed <= buffer_pos
         /\ buffer_pos \in Nat /\ buffer_pos <= Len(buffer)
         /\ Base \in Nat /\ Position \in Nat /\ Position = Base + buffer_pos
<1>1. TypeOK /\ Window
  BY DEF IInv
<1>2. /\ buffer_pos \in Nat /\ buffer_pos <= Len(buffer) /\ Len(buffer) \in Nat
      /\ buffer_consumed \in Nat /\ buffer_consumed <= buffer_pos
      /\ Base \in Nat /\ Position \in Nat /\ Position = Base + buffer_pos
  BY <1>1, Numbers DEF TypeOK
<1>3. /\ NextChar = EOF => PosAfter = buffer_pos
      /\ NextChar # EOF => buffer_pos < Len(buffer) /\ PosAfter = buffer_pos + 1
  BY NextCharOfText
<1>4. eof => PosAfter = buffer_pos
  BY DEF PosAfter, NextChar
<1> QED
  BY <1>2, <1>3, <1>4

LEMMA BeginInv ==
  ASSUME IInv, NEW c \in Call, Begin(c)
  PROVE  IInv' /\ Position' = Position /\ Base' = Base /\ start' = Position
<1>1. TypeOK /\ Window /\ EndKnown
  BY DEF IInv
<1>2. /\ fd' = fd /\ text' = text /\ unread' = unread /\ buffer' = buffer
      /\ buffer_size' = buffer_size /\ eof' = eof /\ buffer_pos' = buffer_pos
      /\ buffer_consumed' = buffer_consumed /\ cursor' = cursor /\ result' = result
      /\ call' = c
  BY DEF Begin, bufferVars
<1>3. start' = Position
  BY DEF Begin, Position, Base
<1>4. Position \in Nat /\ buffer_pos \in Nat /\ buffer_pos <= Len(buffer)
      /\ buffer_consumed \in Nat /\ buffer_consumed <= buffer_pos /\ Position = Base + buffer_pos
  BY <1>1, Numbers DEF TypeOK
<1>5. TypeOK' /\ Window' /\ EndKnown' /\ Base' = Base /\ Position' = Base + buffer_pos'
  BY <1>2, <1>3, <1>4, NothingStored, MoveInv
<1>6. Position' = Position /\ start' = Position'
  BY <1>2, <1>3, <1>4, <1>5
<1>7. Seen'
  <2>1. \A k \in (start' + 1)..Position' : FALSE
    BY <1>3, <1>4, <1>6
  <2>2. start' <= Position'
    BY <1>3, <1>4, <1>6
  <2> QED
    BY <2>1, <2>2, <1>6 DEF Seen
<1> QED
  BY <1>3, <1>5, <1>6, <1>7 DEF IInv

LEMMA EndOfStringInv ==
  ASSUME IInv, EndOfString
  PROVE  IInv' /\ Position' = Position /\ Base' = Base
<1>1. TypeOK /\ Window /\ EndKnown /\ Seen
  BY DEF IInv
<1>2. /\ fd' = fd /\ text' = text /\ unread' = unread /\ buffer' = buffer
      /\ buffer_size' = buffer_size /\ buffer_pos' = buffer_pos
      /\ buffer_consumed' = buffer_consumed /\ cursor' = cursor /\ result' = result
      /\ call' = call /\ start' = start /\ fd = "none"
  BY DEF EndOfString, bufferVars, history
<1>3. eof' = TRUE /\ eof' \in BOOLEAN
  BY DEF EndOfString
<1>4. Window' /\ Base' = Base
  BY <1>1, <1>2, SameWindow
<1>5. Position' = Position
  BY <1>2, <1>4 DEF Position
<1>6. TypeOK'
  BY <1>1, <1>2, <1>3 DEF TypeOK
<1>7. buffer_pos = Len(buffer)
  <2>1. buffer_pos >= Len(buffer)
    BY DEF EndOfString, NeedsInput
  <2>2. buffer_pos \in Nat /\ Len(buffer) \in Nat /\ buffer_pos <= Len(buffer)
    BY <1>1, Numbers DEF TypeOK
  <2> QED
    BY <2>1, <2>2
<1>8. EndKnown'
  BY <1>1, <1>2, <1>7 DEF EndKnown
<1>9. Seen'
  BY <1>1, <1>2, <1>5 DEF Seen
<1> QED
  BY <1>4, <1>5, <1>6, <1>8, <1>9 DEF IInv

\* A call goes on.
LEMMA ContinueInv ==
  ASSUME IInv, Ready, call.op \in {"until", "while"}, Continue,
         call.op = "until" => NextChar \notin call.tokens,
         call.op = "while" => NextChar \in call.tokens
  PROVE  IInv' /\ Base' = Base
<1>1. TypeOK /\ Window /\ EndKnown /\ Seen
  BY DEF IInv
<1>2. /\ fd' = fd /\ text' = text /\ unread' = unread /\ buffer' = buffer
      /\ buffer_size' = buffer_size /\ eof' = eof /\ buffer_pos' = PosAfter
      /\ buffer_consumed' = buffer_consumed /\ cursor' = CursorAfter
      /\ call' = call /\ result' = result /\ start' = start
  BY DEF Continue, history
<1>3. /\ PosAfter \in Nat /\ PosAfter <= Len(buffer) /\ buffer_pos <= PosAfter
      /\ eof => PosAfter = buffer_pos
      /\ buffer_consumed \in Nat /\ buffer_consumed <= buffer_pos /\ buffer_pos \in Nat
      /\ Base \in Nat /\ Position \in Nat /\ Position = Base + buffer_pos
  BY PosAfterBounds
<1>4. CursorAfter \in Cursor
  BY <1>1, CursorTypes
<1>5. buffer_consumed <= PosAfter
  BY <1>3
<1>6. TypeOK' /\ Window' /\ EndKnown' /\ Base' = Base /\ Position' = Base + buffer_pos'
  BY <1>2, <1>3, <1>4, <1>5, NothingStored, MoveInv
<1>7. call # Idle /\ start <= Position /\ start \in Nat
  <2>1. call # Idle
    BY DEF Idle
  <2> QED
    BY <2>1, <1>1 DEF Seen, TypeOK
<1>8. Seen'
  <2>1. CASE NextChar = EOF
    <3>1. Position' = Position
      BY <2>1, <1>2, <1>3, <1>6, NextCharOfText
    <3> QED
      BY <3>1, <1>1, <1>2 DEF Seen
  <2>2. CASE NextChar # EOF
    <3>1. Position' = Position + 1 /\ NextChar = text[Position + 1]
      BY <2>2, <1>2, <1>3, <1>6, NextCharOfText
    <3>2. \A k \in (start + 1)..Position' : k \in (start + 1)..Position \/ k = Position + 1
      BY <3>1, <1>3, <1>7
    <3>3. call.op = "until" => \A k \in (start + 1)..Position' : text[k] \notin call.tokens
      BY <3>1, <3>2, <1>1 DEF Seen
    <3>4. call.op = "while" => \A k \in (start + 1)..Position' : text[k] \in call.tokens
      BY <3>1, <3>2, <1>1 DEF Seen
    <3>5. start <= Position'
      BY <3>1, <1>3, <1>7
    <3> QED
      BY <3>3, <3>4, <3>5, <1>2 DEF Seen
  <2> QED
    BY <2>1, <2>2
<1> QED
  BY <1>6, <1>8 DEF IInv

\* A call returns: at a position that is not behind the character it looked at.
LEMMA ReturnInv ==
  ASSUME IInv, Ready, NEW slice \in Seq(Char), Answer(NextChar, slice),
         buffer_pos' \in {buffer_pos, PosAfter},
         buffer_consumed' \in Nat, buffer_consumed' <= buffer_pos',
         cursor' \in Cursor
  PROVE  IInv' /\ Base' = Base /\ Position' = Base + buffer_pos'
<1>1. /\ fd' = fd /\ text' = text /\ unread' = unread /\ buffer' = buffer
      /\ buffer_size' = buffer_size /\ eof' = eof /\ call' = Idle /\ start' = start
      /\ result' = [char |-> NextChar, slice |-> slice]
  BY DEF Answer, history
<1>2. NextChar \in Char \cup {EOF}
  BY NextCharOfText
<1>3. result' \in [char : Char \cup {EOF}, slice : Seq(Char)]
  BY <1>1, <1>2
<1>4. call' \in Call \cup {Idle} /\ start' \in Nat
  BY <1>1, NothingStored
<1>5. buffer_pos' \in Nat /\ buffer_pos' <= Len(buffer) /\ (eof => buffer_pos' = buffer_pos)
  BY PosAfterBounds
<1>6. TypeOK' /\ Window' /\ EndKnown' /\ Base' = Base /\ Position' = Base + buffer_pos'
  BY <1>1, <1>3, <1>4, <1>5, MoveInv
<1>7. Seen'
  BY <1>1 DEF Seen, Idle
<1> QED
  BY <1>6, <1>7 DEF IInv

-----------------------------------------------------------------------------
(* The functions answer as TextScanner's do.                               *)

\* The position as TextScanner sees it: that of the caller.
CallerPosition == IF call = Idle THEN Position ELSE start

\* Facts about a running call, in terms of the text.
LEMMA RunningCall ==
  ASSUME IInv, NEW op \in {"until", "while", "one_of", "peek"}, Running(op)
  PROVE  /\ Ready /\ call.op = op /\ call # Idle
         /\ CallerPosition = start
         /\ start \in Nat /\ start <= Position /\ Position <= Len(text)
         /\ Len(text) \in Nat /\ Position \in Nat
         /\ Position + 1 \in (start + 1)..(Len(text) + 1)
         /\ \A k \in (start + 1)..Position : Whole!CharAt(k) = text[k]
<1>1. TypeOK /\ Window /\ Seen
  BY DEF IInv
<1>2. Ready /\ call.op = op /\ call # Idle
  BY DEF Running, Idle
<1>3. start <= Position /\ CallerPosition = start
  BY <1>1, <1>2 DEF Seen, CallerPosition
<1>4. /\ Len(text) \in Nat /\ Position \in Nat /\ start \in Nat /\ Base \in Nat
      /\ Base + Len(buffer) + Len(unread) = Len(text)
      /\ Len(unread) \in Nat /\ Len(buffer) \in Nat
      /\ Position <= Base + Len(buffer)
  BY <1>1, Numbers
<1>5. Position <= Len(text)
  BY <1>4
<1>6. \A k \in (start + 1)..Position : Whole!CharAt(k) = text[k]
  BY <1>4, <1>5 DEF Whole!CharAt
<1> QED
  BY <1>2, <1>3, <1>4, <1>5, <1>6

LEMMA UntilImplements ==
  ASSUME IInv, UntilReturns
  PROVE  IInv' /\ Whole!Until
<1> DEFINE end == Position + 1
<1>1. /\ Ready /\ call.op = "until" /\ call # Idle /\ CallerPosition = start
      /\ start \in Nat /\ start <= Position /\ Position <= Len(text)
      /\ Len(text) \in Nat /\ Position \in Nat
      /\ end \in (start + 1)..(Len(text) + 1)
      /\ \A k \in (start + 1)..Position : Whole!CharAt(k) = text[k]
  BY RunningCall DEF UntilReturns
<1>2. /\ NextChar \in call.tokens /\ buffer_pos' = PosAfter /\ cursor' = CursorAfter
      /\ buffer_consumed' = PosAfter /\ Answer(NextChar, Slice)
  BY DEF UntilReturns
<1>3. TypeOK /\ Seen
  BY DEF IInv
<1>4. Slice \in Seq(Char) /\ Slice = SubSeq(text, Base + buffer_consumed + 1, Position)
  BY SliceOfText
<1>5. /\ PosAfter \in Nat /\ PosAfter <= PosAfter
      /\ Position = Base + buffer_pos /\ Base \in Nat /\ buffer_pos \in Nat
  BY <1>1, PosAfterBounds
<1>6. CursorAfter \in Cursor
  BY <1>3, CursorTypes
<1>7. IInv' /\ Base' = Base /\ Position' = Base + PosAfter
  BY <1>1, <1>2, <1>4, <1>5, <1>6, ReturnInv
<1>8. /\ NextChar = Whole!CharAt(end)
      /\ NextChar = EOF => Position = Len(text) /\ PosAfter = buffer_pos
      /\ NextChar # EOF => end <= Len(text) /\ PosAfter = buffer_pos + 1
  BY <1>1, NextCharOfText
<1>9. Position' = IF end <= Len(text) THEN end ELSE Len(text)
  <2>1. CASE NextChar = EOF
    BY <2>1, <1>1, <1>5, <1>7, <1>8
  <2>2. CASE NextChar # EOF
    BY <2>2, <1>1, <1>5, <1>7, <1>8
  <2> QED
    BY <2>1, <2>2
<1>10. call' = Idle /\ text' = text /\ result' = [char |-> NextChar, slice |-> Slice]
  BY <1>2 DEF Answer, history
<1>11. CallerPosition' = Position' /\ Base' + buffer_consumed' = Position'
  BY <1>2, <1>7, <1>10 DEF CallerPosition
<1>12. Whole!IsFirstIn(end, start + 1, call.tokens)
  <2>1. \A k \in (start + 1)..Position : text[k] \notin call.tokens
    BY <1>1, <1>3 DEF Seen
  <2>2. end - 1 = Position
    BY <1>1
  <2> QED
    BY <2>1, <2>2, <1>1, <1>2, <1>8 DEF Whole!IsFirstIn
<1>13. Whole!Slice(end) = Slice
  <2>1. end - 1 = Position
    BY <1>1
  <2> QED
    BY <2>1, <1>4 DEF Whole!Slice
<1>14. Whole!Answer(Whole!CharAt(end), Whole!Slice(end))
  BY <1>8, <1>10, <1>13 DEF Whole!Answer, Whole!Idle, Idle
<1> HIDE DEF end
<1>15. Whole!Until
  BY <1>1, <1>9, <1>11, <1>12, <1>14 DEF Whole!Until, CallerPosition
<1> QED
  BY <1>7, <1>15

LEMMA WhileImplements ==
  ASSUME IInv, WhileReturns
  PROVE  IInv' /\ Whole!While
<1> DEFINE end == Position + 1
<1>1. /\ Ready /\ call.op = "while" /\ call # Idle /\ CallerPosition = start
      /\ start \in Nat /\ start <= Position /\ Position <= Len(text)
      /\ Len(text) \in Nat /\ Position \in Nat
      /\ end \in (start + 1)..(Len(text) + 1)
      /\ \A k \in (start + 1)..Position : Whole!CharAt(k) = text[k]
  BY RunningCall DEF WhileReturns
<1>2. /\ NextChar \notin call.tokens /\ buffer_pos' = buffer_pos
      /\ cursor' = IF NextChar = EOF THEN cursor ELSE Rewound(CursorAfter, NextChar)
      /\ buffer_consumed' = buffer_pos /\ Answer(NextChar, Slice)
  BY DEF WhileReturns
<1>3. TypeOK /\ Seen
  BY DEF IInv
<1>4. Slice \in Seq(Char) /\ Slice = SubSeq(text, Base + buffer_consumed + 1, Position)
  BY SliceOfText
<1>5. buffer_pos \in Nat /\ buffer_pos <= buffer_pos /\ Position = Base + buffer_pos
  BY <1>1, PosAfterBounds
<1>6. cursor' \in Cursor
  BY <1>2, <1>3, CursorTypes DEF TypeOK
<1>7. IInv' /\ Base' = Base /\ Position' = Base + buffer_pos'
  BY <1>1, <1>2, <1>4, <1>5, <1>6, ReturnInv
<1>8. NextChar = Whole!CharAt(end)
  BY <1>1, NextCharOfText
<1>9. Position' = Position /\ end - 1 = Position
  BY <1>1, <1>2, <1>5, <1>7
<1>10. call' = Idle /\ text' = text /\ result' = [char |-> NextChar, slice |-> Slice]
  BY <1>2 DEF Answer, history
<1>11. CallerPosition' = Position' /\ Base' + buffer_consumed' = Position'
  BY <1>2, <1>5, <1>7, <1>9, <1>10 DEF CallerPosition
<1>12. Whole!IsFirstNotIn(end, start + 1, call.tokens)
  <2>1. \A k \in (start + 1)..Position : text[k] \in call.tokens
    BY <1>1, <1>3 DEF Seen
  <2> QED
    BY <2>1, <1>1, <1>2, <1>8, <1>9 DEF Whole!IsFirstNotIn
<1>13. Whole!Slice(end) = Slice
  BY <1>4, <1>9 DEF Whole!Slice
<1>14. Whole!Answer(Whole!CharAt(end), Whole!Slice(end))
  BY <1>8, <1>10, <1>13 DEF Whole!Answer, Whole!Idle, Idle
<1> HIDE DEF end
<1>15. Whole!While
  BY <1>1, <1>9, <1>11, <1>12, <1>14 DEF Whole!While, CallerPosition
<1> QED
  BY <1>7, <1>15

LEMMA OneOfImplements ==
  ASSUME IInv, OneOfReturns
  PROVE  IInv' /\ Whole!OneOf
<1>1. /\ Ready /\ call.op = "one_of" /\ call # Idle /\ CallerPosition = start
  BY RunningCall DEF OneOfReturns
<1>2. /\ buffer_pos' = PosAfter /\ cursor' = CursorAfter
      /\ buffer_consumed' = IF NextChar \in call.tokens THEN buffer_consumed + 1
                            ELSE buffer_consumed
      /\ Answer(NextChar, << >>)
  BY DEF OneOfReturns
<1>3. TypeOK /\ Seen
  BY DEF IInv
<1>4. start = Position
  BY <1>1, <1>3 DEF Seen
<1>5. /\ PosAfter \in Nat /\ buffer_pos <= PosAfter /\ buffer_pos \in Nat
      /\ buffer_consumed \in Nat /\ buffer_consumed <= buffer_pos
      /\ Position = Base + buffer_pos /\ Base \in Nat
  BY <1>1, PosAfterBounds
<1>6. CursorAfter \in Cursor
  BY <1>3, CursorTypes
<1>7. /\ NextChar = Whole!CharAt(Position + 1)
      /\ NextChar = EOF => PosAfter = buffer_pos
      /\ NextChar # EOF => PosAfter = buffer_pos + 1
  BY <1>1, NextCharOfText
<1>8. NextChar \in call.tokens => NextChar # EOF
  <2>1. call.tokens \subseteq Char
    BY <1>1, <1>3, CallTypes DEF TypeOK
  <2> QED
    BY <2>1, CharAssumption
<1>9. buffer_consumed' \in Nat /\ buffer_consumed' <= PosAfter
  <2>1. CASE NextChar \in call.tokens
    BY <2>1, <1>2, <1>5, <1>7, <1>8
  <2>2. CASE NextChar \notin call.tokens
    BY <2>2, <1>2, <1>5
  <2> QED
    BY <2>1, <2>2
<1>10. << >> \in Seq(Char)
  BY EmptySeq
<1>11. IInv' /\ Base' = Base /\ Position' = Base + PosAfter
  BY <1>1, <1>2, <1>5, <1>6, <1>9, <1>10, ReturnInv
<1>12. Position' = IF NextChar = EOF THEN Position ELSE Position + 1
  BY <1>5, <1>7, <1>11
<1>13. call' = Idle /\ text' = text /\ result' = [char |-> NextChar, slice |-> << >>]
  BY <1>2 DEF Answer, history
<1>14. CallerPosition' = Position' /\ CallerPosition = Position
  BY <1>1, <1>4, <1>13 DEF CallerPosition
<1>15. Base' + buffer_consumed' = IF NextChar \in call.tokens THEN Base + buffer_consumed + 1
                                  ELSE Base + buffer_consumed
  BY <1>2, <1>5, <1>11
<1>16. Whole!Answer(NextChar, << >>)
  BY <1>13 DEF Whole!Answer, Whole!Idle, Idle
<1>17. Whole!OneOf
  BY <1>1, <1>7, <1>12, <1>14, <1>15, <1>16 DEF Whole!OneOf, CallerPosition
<1> QED
  BY <1>11, <1>17

LEMMA PeekImplements ==
  ASSUME IInv, PeekReturns
  PROVE  IInv' /\ Whole!Peek
<1>1. Ready /\ call.op = "peek" /\ call # Idle /\ CallerPosition = start
  BY RunningCall DEF PeekReturns
<1>2. /\ buffer_pos' = buffer_pos /\ cursor' = cursor /\ buffer_consumed' = buffer_consumed
      /\ Answer(NextChar, << >>)
  BY DEF PeekReturns
<1>3. start = Position
  BY <1>1 DEF IInv, Seen
<1>4. buffer_consumed \in Nat /\ buffer_consumed <= buffer_pos /\ Position = Base + buffer_pos
  BY <1>1, PosAfterBounds
<1>5. << >> \in Seq(Char) /\ cursor' \in Cursor
  BY <1>2, EmptySeq, NothingStored
<1>6. IInv' /\ Base' = Base /\ Position' = Base + buffer_pos'
  BY <1>1, <1>2, <1>4, <1>5, ReturnInv
<1>7. call' = Idle /\ text' = text /\ result' = [char |-> NextChar, slice |-> << >>]
  BY <1>2 DEF Answer, history
<1>8. CallerPosition' = CallerPosition /\ CallerPosition = Position
  BY <1>1, <1>2, <1>3, <1>4, <1>6, <1>7 DEF CallerPosition
<1>9. NextChar = Whole!CharAt(Position + 1)
  BY <1>1, NextCharOfText
<1>10. Whole!Answer(NextChar, << >>)
  BY <1>7 DEF Whole!Answer, Whole!Idle, Idle
<1>11. Whole!Peek
  BY <1>1, <1>2, <1>6, <1>8, <1>9, <1>10 DEF Whole!Peek, CallerPosition
<1> QED
  BY <1>6, <1>11

-----------------------------------------------------------------------------
(* The theorems.                                                           *)

\* What TextScanner sees does not change while the call goes on.
LEMMA Unseen ==
  ASSUME call # Idle, call' = call, start' = start, text' = text, result' = result,
         Base' + buffer_consumed' = Base + buffer_consumed
  PROVE  UNCHANGED <<text, CallerPosition, Base + buffer_consumed, call, result>>
BY DEF CallerPosition

LEMMA BeginImplements ==
  ASSUME IInv, NEW c \in Call, Begin(c)
  PROVE  IInv' /\ Whole!Next
<1>1. IInv' /\ Position' = Position /\ Base' = Base /\ start' = Position
  BY BeginInv
<1>2. /\ call = Idle /\ call' = c /\ buffer_consumed' = buffer_consumed
      /\ text' = text /\ result' = result
  BY DEF Begin, bufferVars
<1>3. CallerPosition' = CallerPosition /\ CallerPosition = Position
  BY <1>1, <1>2 DEF CallerPosition
<1>4. Whole!Begin(c)
  BY <1>1, <1>2, <1>3 DEF Whole!Begin, Whole!Idle, Idle, CallerPosition
<1>5. c \in Whole!Call
  BY TokenAssumption, CharAssumption DEF Call, Whole!Call
<1> QED
  BY <1>1, <1>4, <1>5 DEF Whole!Next

LEMMA StepImplements ==
  ASSUME IInv, [Next]_vars
  PROVE  /\ IInv'
         /\ [Whole!Next]_<<text, CallerPosition, Base + buffer_consumed, call, result>>
<1>1. CASE Refill
  <2>1. IInv' /\ Base' + buffer_consumed' = Base + buffer_consumed
    BY <1>1, RefillInv
  <2>2. call # Idle /\ call' = call /\ start' = start /\ text' = text /\ result' = result
    BY <1>1 DEF Refill, NeedsInput, history
  <2> QED
    BY <2>1, <2>2, Unseen
<1>2. CASE EndOfString
  <2>1. IInv' /\ Base' = Base
    BY <1>2, EndOfStringInv
  <2>2. call # Idle /\ call' = call /\ start' = start /\ text' = text /\ result' = result
        /\ buffer_consumed' = buffer_consumed
    BY <1>2 DEF EndOfString, NeedsInput, history, bufferVars
  <2> QED
    BY <2>1, <2>2, Unseen
<1>3. CASE UntilContinues \/ WhileContinues
  <2>1. /\ Ready /\ call.op \in {"until", "while"} /\ Continue
        /\ call.op = "until" => NextChar \notin call.tokens
        /\ call.op = "while" => NextChar \in call.tokens
    BY <1>3 DEF UntilContinues, WhileContinues, Running
  <2>2. IInv' /\ Base' = Base
    BY <2>1, ContinueInv
  <2>3. call # Idle /\ call' = call /\ start' = start /\ text' = text /\ result' = result
        /\ buffer_consumed' = buffer_consumed
    BY <2>1 DEF Continue, history, Idle
  <2> QED
    BY <2>2, <2>3, Unseen
<1>4. CASE UntilReturns
  BY <1>4, UntilImplements DEF Whole!Next, Whole!Return
<1>5. CASE WhileReturns
  BY <1>5, WhileImplements DEF Whole!Next, Whole!Return
<1>6. CASE OneOfReturns
  BY <1>6, OneOfImplements DEF Whole!Next, Whole!Return
<1>7. CASE PeekReturns
  BY <1>7, PeekImplements DEF Whole!Next, Whole!Return
<1>8. CASE \E c \in Call : Begin(c)
  BY <1>8, BeginImplements
<1>9. CASE UNCHANGED vars
  <2>1. IInv'
    BY <1>9 DEF vars, bufferVars, history, IInv, TypeOK, Window, EndKnown, Seen, Base, Position
  <2>2. UNCHANGED <<text, CallerPosition, Base + buffer_consumed, call, result>>
    BY <1>9 DEF vars, bufferVars, history, CallerPosition, Position, Base
  <2> QED
    BY <2>1, <2>2
<1> QED
  BY <1>1, <1>2, <1>3, <1>4, <1>5, <1>6, <1>7, <1>8, <1>9 DEF Next, Step

LEMMA Inductive == Spec => []IInv
<1>1. Init => IInv
  BY InitIInv
<1>2. IInv /\ [Next]_vars => IInv'
  BY StepImplements
<1> QED
  BY <1>1, <1>2, PTL DEF Spec

\* Position and consumed part stay inside of the filled part of the buffer,
\* for every size of the buffer and of what read() delivers.
THEOREM ScannerTypeCorrect == Spec => []TypeOK
<1>1. IInv => TypeOK
  BY DEF IInv
<1> QED
  BY <1>1, Inductive, PTL

LEMMA InitImplements == Init => Whole!Init
<1> SUFFICES ASSUME Init
             PROVE  Whole!Init
  OBVIOUS
<1>1. IInv /\ call = Idle /\ buffer_pos = 0 /\ buffer_consumed = 0
  BY InitIInv DEF Init
<1>2. Base = 0
  <2>1. text \in Seq(Char) /\ Len(text) \in Nat
    BY CharAssumption, LenProperties DEF Init
  <2>2. Len(<< >>) = 0
    BY EmptySeq
  <2> QED
    BY <2>1, <2>2 DEF Init, Base
<1>3. CallerPosition = 0 /\ Base + buffer_consumed = 0
  BY <1>1, <1>2 DEF CallerPosition, Position
<1>4. text \in Text /\ result = [char |-> EOF, slice |-> << >>]
  BY DEF Init
<1> QED
  BY <1>1, <1>3, <1>4 DEF Whole!Init, Whole!Idle, Idle, CallerPosition

\* The scanner's functions answer as if all of the text lay in memory: moving
\* and expanding the buffer while a token is being read changes no token.
THEOREM BufferImplementsText == Spec => ImplementsTextScanner
<1>1. Init => Whole!Init
  BY InitImplements
<1>2. IInv /\ [Next]_vars
        => [Whole!Next]_<<text, CallerPosition, Base + buffer_consumed, call, result>>
  BY StepImplements
<1>3. Spec => /\ Whole!Init
              /\ [][Whole!Next]_<<text, CallerPosition, Base + buffer_consumed, call, result>>
  BY <1>1, <1>2, Inductive, PTL DEF Spec
<1> QED
  BY <1>3 DEF ImplementsTextScanner, Whole!Spec, Whole!textVars, CallerPosition

-----------------------------------------------------------------------------
(* Line and column.                                                        *)

LineBreaks(n) == {i \in 1..n : text[i] = Newline}

LEMMA CountLineBreaks ==
  ASSUME NEW n \in Nat
  PROVE  /\ Cardinality(LineBreaks(n)) \in Nat
         /\ text[n + 1] = Newline
              => Cardinality(LineBreaks(n + 1)) = Cardinality(LineBreaks(n)) + 1
         /\ text[n + 1] # Newline
              => Cardinality(LineBreaks(n + 1)) = Cardinality(LineBreaks(n))
<1>1. IsFiniteSet(LineBreaks(n))
  <2>1. IsFiniteSet(1..n)
    BY FS_Interval
  <2> QED
    BY <2>1, FS_Subset DEF LineBreaks
<1>2. Cardinality(LineBreaks(n)) \in Nat
  BY <1>1, FS_CardinalityType
<1>3. ASSUME text[n + 1] = Newline
      PROVE  Cardinality(LineBreaks(n + 1)) = Cardinality(LineBreaks(n)) + 1
  <2>1. LineBreaks(n + 1) = LineBreaks(n) \cup {n + 1}
    BY <1>3 DEF LineBreaks
  <2>2. n + 1 \notin LineBreaks(n)
    BY DEF LineBreaks
  <2> QED
    BY <1>1, <2>1, <2>2, FS_AddElement
<1>4. ASSUME text[n + 1] # Newline
      PROVE  LineBreaks(n + 1) = LineBreaks(n)
  BY <1>4 DEF LineBreaks
<1> QED
  BY <1>2, <1>3, <1>4

\* LineAndColumn for a cursor at a position.
CursorAt(n, line, col) ==
  /\ line = 1 + Cardinality(LineBreaks(n))
  /\ n + 1 - col \in 0..n
  /\ n + 1 - col > 0 => text[n + 1 - col] = Newline
  /\ \A i \in (n + 1 - col + 1)..n : text[i] # Newline

LEMMA LineAndColumnIsCursorAt ==
  LineAndColumn <=> CursorAt(Position, cursor.line, cursor.col)
BY DEF LineAndColumn, CursorAt, LineBreaks

\* A line break begins a line, any other character a column.
LEMMA CursorMoves ==
  ASSUME NEW n \in Nat, NEW line \in Int, NEW col \in Int, CursorAt(n, line, col)
  PROVE  /\ text[n + 1] = Newline => CursorAt(n + 1, line + 1, 1)
         /\ text[n + 1] # Newline => CursorAt(n + 1, line, col + 1)
<1> DEFINE m == n + 1 - col
<1>1. /\ line = 1 + Cardinality(LineBreaks(n)) /\ m \in 0..n
      /\ m > 0 => text[m] = Newline
      /\ \A i \in (m + 1)..n : text[i] # Newline
  BY DEF CursorAt
<1>2. ASSUME text[n + 1] = Newline
      PROVE  CursorAt(n + 1, line + 1, 1)
  <2>1. line + 1 = 1 + Cardinality(LineBreaks(n + 1))
    BY <1>1, <1>2, CountLineBreaks
  <2>2. n + 1 + 1 - 1 = n + 1
    OBVIOUS
  <2> QED
    BY <1>2, <2>1, <2>2 DEF CursorAt
<1>3. ASSUME text[n + 1] # Newline
      PROVE  CursorAt(n + 1, line, col + 1)
  <2>1. line = 1 + Cardinality(LineBreaks(n + 1))
    BY <1>1, <1>3, CountLineBreaks
  <2>2. n + 1 + 1 - (col + 1) = m /\ m \in 0..(n + 1)
    BY <1>1
  <2>3. \A i \in (m + 1)..(n + 1) : text[i] # Newline
    <3>1. \A i \in (m + 1)..(n + 1) : i \in (m + 1)..n \/ i = n + 1
      BY <1>1
    <3> QED
      BY <3>1, <1>1, <1>3
  <2> QED
    BY <1>1, <2>1, <2>2, <2>3 DEF CursorAt
<1> QED
  BY <1>2, <1>3

LEMMA InitLine == Init => LineAndColumn
<1> SUFFICES ASSUME Init
             PROVE  LineAndColumn
  OBVIOUS
<1>1. Position = 0
  BY InitImplements, InitIInv DEF Init, Whole!Init
<1>2. cursor.line = 1 /\ cursor.col = 1
  BY DEF Init
<1>3. LineBreaks(0) = {} /\ Cardinality({}) = 0
  BY FS_EmptySet DEF LineBreaks
<1>4. CursorAt(0, 1, 1)
  BY <1>3 DEF CursorAt
<1> QED
  BY <1>1, <1>2, <1>4, LineAndColumnIsCursorAt

LEMMA OtherColumn ==
  ASSUME IInv, NextChar # EOF, NextChar # Newline
  PROVE  /\ CursorAfter \in Cursor
         /\ CursorAfter.line = cursor.line
         /\ CursorAfter.col = cursor.col + 1
<1>1. cursor \in Cursor
  BY DEF IInv, TypeOK
<1>2. CursorAfter = [cursor EXCEPT !.col = cursor.col + 1]
  BY DEF CursorAfter
<1> QED
  BY <1>1, <1>2 DEF Cursor

\* Reading a character moves the position and the cursor together.
LEMMA ReadLine ==
  ASSUME IInv, LineAndColumn, Ready, text' = text,
         Base' = Base, buffer_pos' = PosAfter, cursor' = CursorAfter
  PROVE  LineAndColumn'
<1>1. TypeOK
  BY DEF IInv
<1>2. /\ PosAfter \in Nat /\ Base \in Nat /\ buffer_pos \in Nat
      /\ Position \in Nat /\ Position = Base + buffer_pos
  BY PosAfterBounds
<1>3. cursor.line \in Int /\ cursor.col \in Int
  BY <1>1 DEF TypeOK, Cursor
<1>4. CursorAt(Position, cursor.line, cursor.col)
  BY LineAndColumnIsCursorAt
<1>5. Position' = Base + PosAfter
  BY DEF Position
<1>6. CASE NextChar = EOF
  <2>1. cursor' = cursor
    BY <1>6, CharAssumption DEF CursorAfter
  <2>2. Position' = Position
    BY <1>2, <1>5, <1>6, NextCharOfText
  <2> QED
    BY <2>1, <2>2 DEF LineAndColumn
<1>7. CASE NextChar # EOF
  <2>1. Position' = Position + 1 /\ NextChar = text[Position + 1]
    BY <1>2, <1>5, <1>7, NextCharOfText
  <2>2. CASE NextChar = Newline
    <3>1. cursor'.line = cursor.line + 1 /\ cursor'.col = 1
      BY <1>7, <2>2 DEF CursorAfter
    <3>2. CursorAt(Position + 1, cursor.line + 1, 1)
      BY <1>2, <1>3, <1>4, <2>1, <2>2, CursorMoves
    <3> QED
      BY <2>1, <3>1, <3>2 DEF LineAndColumn, CursorAt, LineBreaks
  <2>3. CASE NextChar # Newline
    <3>1. cursor'.line = cursor.line /\ cursor'.col = cursor.col + 1
      BY <1>7, <2>3, OtherColumn
    <3>2. CursorAt(Position + 1, cursor.line, cursor.col + 1)
      BY <1>2, <1>3, <1>4, <2>1, <2>3, CursorMoves
    <3> QED
      BY <2>1, <3>1, <3>2 DEF LineAndColumn, CursorAt, LineBreaks
  <2> QED
    BY <2>2, <2>3
<1> QED
  BY <1>6, <1>7

\* Where neither the position nor line and column change.
LEMMA SameLine ==
  ASSUME LineAndColumn, text' = text, Position' = Position,
         cursor'.line = cursor.line, cursor'.col = cursor.col
  PROVE  LineAndColumn'
BY DEF LineAndColumn

LEMMA LineStep ==
  ASSUME IInv, LineAndColumn, [Next]_vars
  PROVE  LineAndColumn'
<1>1. CASE Refill
  BY <1>1, RefillInv, SameLine DEF Refill, history
<1>2. CASE EndOfString
  BY <1>2, EndOfStringInv, SameLine DEF EndOfString, history
<1>3. CASE UntilContinues \/ WhileContinues
  <2>1. /\ Ready /\ call.op \in {"until", "while"} /\ Continue
        /\ call.op = "until" => NextChar \notin call.tokens
        /\ call.op = "while" => NextChar \in call.tokens
    BY <1>3 DEF UntilContinues, WhileContinues, Running
  <2>2. Base' = Base
    BY <2>1, ContinueInv
  <2> QED
    BY <2>1, <2>2, ReadLine DEF Continue, history
<1>4. CASE UntilReturns \/ OneOfReturns
  <2>1. Ready /\ buffer_pos' = PosAfter /\ cursor' = CursorAfter
    BY <1>4 DEF UntilReturns, OneOfReturns, Running
  <2>2. text' = text /\ unread' = unread /\ buffer' = buffer
    BY <1>4 DEF UntilReturns, OneOfReturns, Answer, history
  <2>3. Base' = Base
    BY <2>2 DEF Base
  <2> QED
    BY <2>1, <2>2, <2>3, ReadLine
<1>5. CASE WhileReturns
  <2>1. text' = text /\ unread' = unread /\ buffer' = buffer /\ buffer_pos' = buffer_pos
    BY <1>5 DEF WhileReturns, Answer, history
  <2>2. Position' = Position
    BY <2>1 DEF Position, Base
  <2>3. cursor.line \in Int /\ cursor.col \in Int /\ cursor \in Cursor
    BY DEF IInv, TypeOK, Cursor
  <2>4. CASE NextChar = EOF
    BY <1>5, <2>1, <2>2, <2>4, SameLine DEF WhileReturns
  <2>5. CASE NextChar # EOF
    <3>1. cursor' = Rewound(CursorAfter, NextChar)
      BY <1>5, <2>5 DEF WhileReturns
    <3>2. cursor'.line = cursor.line /\ cursor'.col = cursor.col
      <4>1. CASE NextChar = Newline
        <5>1. CursorAfter = [line |-> cursor.line + 1, col |-> 1, prev_col |-> cursor.col]
          BY <2>5, <4>1 DEF CursorAfter
        <5>2. CursorAfter.line = cursor.line + 1 /\ CursorAfter.prev_col = cursor.col
          BY <5>1
        <5>3. cursor' = [line |-> CursorAfter.line - 1, col |-> CursorAfter.prev_col,
                         prev_col |-> 1]
          BY <3>1, <4>1 DEF Rewound
        <5>4. cursor'.line = CursorAfter.line - 1 /\ cursor'.col = CursorAfter.prev_col
          BY <5>3
        <5> QED
          BY <5>2, <5>4, <2>3
      <4>2. CASE NextChar # Newline
        <5>1. CursorAfter = [cursor EXCEPT !.col = cursor.col + 1]
          BY <2>5, <4>2 DEF CursorAfter
        <5>2. CursorAfter \in Cursor /\ CursorAfter.line = cursor.line
              /\ CursorAfter.col = cursor.col + 1
          BY <2>3, <5>1, OtherColumn, <2>5, <4>2
        <5>3. cursor' = [CursorAfter EXCEPT !.col = CursorAfter.col - 1]
          BY <3>1, <4>2 DEF Rewound
        <5>4. cursor'.line = CursorAfter.line /\ cursor'.col = CursorAfter.col - 1
          BY <5>2, <5>3 DEF Cursor
        <5> QED
          BY <5>2, <5>4, <2>3
      <4> QED
        BY <4>1, <4>2
    <3> QED
      BY <2>1, <2>2, <3>2, SameLine
  <2> QED
    BY <2>4, <2>5
<1>6. CASE PeekReturns \/ \E c \in Call : Begin(c)
  <2>1. text' = text /\ unread' = unread /\ buffer' = buffer /\ buffer_pos' = buffer_pos
        /\ cursor' = cursor
    BY <1>6 DEF PeekReturns, Answer, Begin, bufferVars, history
  <2>2. Position' = Position
    BY <2>1 DEF Position, Base
  <2> QED
    BY <2>1, <2>2, SameLine
<1>7. CASE UNCHANGED vars
  BY <1>7 DEF vars, bufferVars, history, LineAndColumn, Position, Base
<1> QED
  BY <1>1, <1>2, <1>3, <1>4, <1>5, <1>6, <1>7 DEF Next, Step

\* The line and column that the prompt prints are those of the next character.
THEOREM LineAndColumnCorrect == Spec => []LineAndColumn
<1>1. Init => LineAndColumn
  BY InitLine
<1>2. IInv /\ LineAndColumn /\ [Next]_vars => LineAndColumn'
  BY LineStep
<1> QED
  BY <1>1, <1>2, Inductive, PTL DEF Spec
=============================================================================
