------------------------- MODULE OutputStreamProofs -------------------------
(***************************************************************************)
(* Theorems about the output stream and the log over it, for every size of *)
(* the block and all texts: what has been captured is a prefix of what has *)
(* been printed, and a stream is a sink of texts.                          *)
(***************************************************************************)
EXTENDS Logger, SequenceTheorems, TLAPS

Block(n) == [1..n -> Byte]

OutputStreams(n) ==
  [stream : BOOLEAN, file : Seq(Char), buffer_ptr : Block(n), buffer_size : Nat,
   buffer_filled : Nat]

\* A stream s with a block of n bytes after p has been printed into it.
Streams(s, p, n) ==
  /\ s \in OutputStreams(n)
  /\ s.stream => s.buffer_size = 0 /\ s.buffer_filled = 0 /\ s.file = p
  /\ s.buffer_size \in {0, n}
  /\ s.buffer_filled = IF s.stream THEN 0 ELSE Smaller(Len(p), s.buffer_size)

\* What strcmp compares.
Captures(s, p) == s.buffer_size > 0 => Shows(s.buffer_ptr, Kept(s.buffer_size, p))

IInv ==
  /\ printed \in Seq(Char)
  /\ touched \in BOOLEAN
  /\ freed \in BOOLEAN
  /\ \E n \in Nat : /\ Streams(os, printed, n)
                    /\ ~freed /\ ~os.stream => os.buffer_size = n
                    /\ ~freed /\ os.stream => n = 0
  /\ freed => os.buffer_size = 0
  /\ touched => Captures(os, printed)
  /\ ~touched => printed = << >>
  /\ log_level \in {0} \cup Level
  /\ log_os \in {"NULL", "os"}
  /\ stderr \in Seq(Char)

-----------------------------------------------------------------------------
(* Sequences.                                                              *)

LEMMA ConcatChars ==
  ASSUME NEW S, NEW p \in Seq(S), NEW t \in Seq(S)
  PROVE  /\ p \o t \in Seq(S)
         /\ Len(p \o t) = Len(p) + Len(t)
         /\ \A i \in 1..Len(p) : (p \o t)[i] = p[i]
         /\ \A i \in (Len(p) + 1)..(Len(p) + Len(t)) : (p \o t)[i] = t[i - Len(p)]
OBVIOUS

LEMMA EqualSeqs ==
  ASSUME NEW S, NEW s \in Seq(S), NEW t \in Seq(S), Len(s) = Len(t),
         \A i \in 1..Len(s) : s[i] = t[i]
  PROVE  s = t
OBVIOUS

LEMMA FirstPart ==
  ASSUME NEW S, NEW p \in Seq(S), NEW m \in Nat, m <= Len(p)
  PROVE  /\ SubSeq(p, 1, m) \in Seq(S)
         /\ Len(SubSeq(p, 1, m)) = m
         /\ \A i \in 1..m : SubSeq(p, 1, m)[i] = p[i]
OBVIOUS

\* What a block of a certain size keeps of a text.
LEMMA KeptIs ==
  ASSUME NEW S, NEW p \in Seq(S), NEW size \in Nat
  PROVE  /\ Kept(size, p) \in Seq(S)
         /\ size = 0 => Kept(size, p) = << >>
         /\ size > 0 => Len(Kept(size, p)) = Smaller(Len(p), size - 1)
         /\ \A i \in 1..Len(Kept(size, p)) : Kept(size, p)[i] = p[i]
<1>1. CASE size = 0
  BY <1>1 DEF Kept
<1>2. CASE size > 0
  <2> DEFINE m == Smaller(Len(p), size - 1)
  <2>1. m \in Nat /\ m <= Len(p)
    BY <1>2 DEF Smaller
  <2>2. Kept(size, p) = SubSeq(p, 1, m)
    <3>1. size # 0
      BY <1>2
    <3> QED
      BY <3>1, Zenon DEF Kept
  <2> HIDE DEF m
  <2>3. /\ Kept(size, p) \in Seq(S)
        /\ Len(Kept(size, p)) = m
        /\ \A i \in 1..m : Kept(size, p)[i] = p[i]
    BY <2>1, <2>2, FirstPart
  <2> QED
    BY <2>3, <1>2 DEF m
<1> QED
  BY <1>1, <1>2

-----------------------------------------------------------------------------
(* One print.                                                              *)

\* What vsnprintf leaves in a block that has room for it.
LEMMA Formatted ==
  ASSUME NEW n \in Nat, NEW block \in Block(n), NEW at \in 0..n, NEW text \in Seq(Char)
  PROVE  /\ vsnprintf(block, at, n - at, text) \in Block(n)
         /\ \A i \in 1..at : vsnprintf(block, at, n - at, text)[i] = block[i]
         /\ at < n =>
              /\ \A i \in (at + 1)..(at + Smaller(Len(text), n - at - 1)) :
                   vsnprintf(block, at, n - at, text)[i] = text[i - at]
              /\ vsnprintf(block, at, n - at, text)[at + Smaller(Len(text), n - at - 1) + 1] = NUL
         /\ vsnprintf(block, at, 0, text) = block
<1> DEFINE k == Smaller(Len(text), n - at - 1)
           written == vsnprintf(block, at, n - at, text)
<1>1. vsnprintf(block, at, 0, text) = block
  BY DEF vsnprintf
<1>2. CASE at = n
  <2>1. n - at = 0
    BY <1>2
  <2>2. written = block
    BY <2>1 DEF vsnprintf
  <2> QED
    BY <1>1, <1>2, <2>2
<1>3. CASE at < n
  <2>1. k \in Nat /\ k <= Len(text) /\ at + k + 1 <= n
    BY <1>3 DEF Smaller
  <2>2. DOMAIN block \cup (at + 1)..(at + k + 1) = 1..n
    BY <2>1, <1>3 DEF Block
  <2>3. written = [i \in 1..n |-> IF i \in (at + 1)..(at + k) THEN text[i - at]
                                  ELSE IF i = at + k + 1 THEN NUL ELSE block[i]]
    <3>1. n - at # 0
      BY <1>3
    <3> QED
      BY <3>1, <2>2 DEF vsnprintf
  <2> HIDE DEF k
  <2>4. \A i \in 1..n : (IF i \in (at + 1)..(at + k) THEN text[i - at]
                         ELSE IF i = at + k + 1 THEN NUL ELSE block[i]) \in Byte
    BY <2>1 DEF Block, Byte
  <2>5. written \in Block(n)
    BY <2>3, <2>4 DEF Block
  <2>6. \A i \in 1..at : written[i] = block[i]
    BY <2>1, <2>3
  <2>7. \A i \in (at + 1)..(at + k) : written[i] = text[i - at]
    BY <2>1, <2>3
  <2>8. written[at + k + 1] = NUL
    BY <2>1, <2>3
  <2> HIDE DEF written
  <2> QED
    BY <1>1, <2>5, <2>6, <2>7, <2>8 DEF written, k
<1> QED
  BY <1>2, <1>3

LEMMA PrintKeepsStream ==
  ASSUME NEW s, NEW n \in Nat, NEW p \in Seq(Char), NEW text \in Seq(Char),
         Streams(s, p, n), Captures(s, p) \/ p = << >>
  PROVE  /\ Streams(os_vprintf(s, text), p \o text, n)
         /\ Captures(os_vprintf(s, text), p \o text)
         /\ os_vprintf(s, text).stream = s.stream
         /\ os_vprintf(s, text).buffer_size = s.buffer_size
         /\ s.buffer_size = 0 => os_vprintf(s, text).buffer_ptr = s.buffer_ptr
<1> DEFINE q == p \o text
           r == os_vprintf(s, text)
<1>1. q \in Seq(Char) /\ Len(q) = Len(p) + Len(text) /\ Len(p) \in Nat /\ Len(text) \in Nat
  BY ConcatChars
<1>2. s \in OutputStreams(n)
  BY DEF Streams
<1>3. CASE s.stream
  <2>1. r = [s EXCEPT !.file = s.file \o text]
    BY <1>3 DEF os_vprintf
  <2>2. s.buffer_size = 0 /\ s.buffer_filled = 0 /\ s.file = p
    BY <1>3 DEF Streams
  <2>3. r \in OutputStreams(n)
    BY <1>1, <1>2, <2>1, <2>2 DEF OutputStreams
  <2>4. r.stream = s.stream /\ r.file = q /\ r.buffer_size = 0 /\ r.buffer_filled = 0
        /\ r.buffer_ptr = s.buffer_ptr
    BY <1>2, <2>1, <2>2 DEF OutputStreams
  <2> HIDE DEF r, q
  <2>5. Streams(r, q, n) /\ Captures(r, q)
    BY <2>3, <2>4, <1>3 DEF Streams, Captures
  <2> QED
    BY <2>2, <2>4, <2>5 DEF r, q
<1>4. CASE ~s.stream
  <2> DEFINE size == s.buffer_size
             f == s.buffer_filled
             k == Smaller(Len(text), size - f)
             block == vsnprintf(s.buffer_ptr, f, size - f, text)
  <2>1. size \in {0, n} /\ size \in Nat /\ f = Smaller(Len(p), size) /\ s.stream \in BOOLEAN
        /\ s.buffer_ptr \in Block(n) /\ f \in 0..size /\ s.file \in Seq(Char)
    <3>1. size \in {0, n} /\ f = Smaller(Len(p), size)
      BY <1>4 DEF Streams
    <3>2. size \in Nat /\ s.buffer_ptr \in Block(n) /\ s.stream \in BOOLEAN /\ s.file \in Seq(Char)
      BY <1>2 DEF OutputStreams
    <3> QED
      BY <3>1, <3>2, <1>1 DEF Smaller
  <2>2. r = [s EXCEPT !.buffer_ptr = block, !.buffer_filled = f + k]
    BY <1>4 DEF os_vprintf, Result, FreeSpace
  <2>3. f + k = Smaller(Len(q), size) /\ f + k \in Nat
    BY <1>1, <2>1 DEF Smaller
  <2>4. block \in Block(n) /\ (size = 0 => block = s.buffer_ptr)
    <3>1. CASE size = 0
      <4>1. 0 - f = 0 - 0 /\ f = 0
        BY <2>1, <3>1
      <4>2. block = s.buffer_ptr
        BY <3>1, <4>1 DEF vsnprintf
      <4> QED
        BY <2>1, <4>2
    <3>2. CASE size = n
      <4>1. block = vsnprintf(s.buffer_ptr, f, n - f, text)
        BY <3>2
      <4>2. s.buffer_ptr \in Block(n) /\ f \in 0..n
        BY <2>1, <3>2
      <4>3. size = 0 => f = n
        BY <2>1, <3>2
      <4> HIDE DEF block, f
      <4>4. block \in Block(n)
        BY <4>1, <4>2, Formatted
      <4>5. f = n => block = s.buffer_ptr
        <5>1. f = n => n - f = 0
          BY <4>2
        <5> QED
          BY <4>1, <5>1 DEF vsnprintf
      <4> QED
        BY <4>3, <4>4, <4>5
    <3> QED
      BY <3>1, <3>2, <2>1
  <2>5. /\ r.stream = s.stream /\ r.buffer_size = size /\ r.buffer_ptr = block
        /\ r.buffer_filled = f + k /\ r \in OutputStreams(n)
    <3> HIDE DEF block, k, f, size
    <3> QED
      BY <1>2, <2>1, <2>2, <2>3, <2>4 DEF OutputStreams, size
  <2>6. Streams(r, q, n)
    <3> HIDE DEF r, q, block, k, f
    <3> QED
      BY <2>1, <2>3, <2>5, <1>4 DEF Streams
  <2>7. ASSUME size > 0
        PROVE  Shows(block, Kept(size, q))
    <3> DEFINE kept == Kept(size, q)
               m == Smaller(Len(q), size - 1)
    <3>1. size = n /\ n > 0 /\ f \in 0..n
      BY <2>1, <2>7
    <3>2. kept \in Seq(Char) /\ Len(kept) = m /\ \A i \in 1..m : kept[i] = q[i]
      <4>1. q \in Seq(Char) /\ size \in Nat /\ size > 0
        BY <1>1, <2>1, <2>7
      <4> HIDE DEF q, size
      <4>2. kept \in Seq(Char) /\ Len(kept) = m /\ \A i \in 1..Len(kept) : kept[i] = q[i]
        BY <4>1, KeptIs
      <4> QED
        BY <4>2
    <3>3. m \in Nat /\ m < n
      BY <1>1, <3>1 DEF Smaller
    <3>4. CASE f = n
      <4>1. Len(p) >= n
        BY <1>1, <2>1, <3>1, <3>4 DEF Smaller
      <4>2. p # << >>
        BY <4>1, <3>1
      <4>3. Shows(s.buffer_ptr, Kept(size, p))
        BY <4>2, <2>7 DEF Captures
      <4>4. /\ Kept(size, p) \in Seq(Char) /\ Len(Kept(size, p)) = n - 1
            /\ \A i \in 1..(n - 1) : Kept(size, p)[i] = p[i]
        <5>1. Smaller(Len(p), n - 1) = n - 1
          BY <1>1, <4>1, <3>1 DEF Smaller
        <5> QED
          BY <5>1, <3>1, KeptIs
      <4>5. m = n - 1 /\ m <= Len(p)
        BY <1>1, <3>1, <4>1 DEF Smaller
      <4>6. kept = Kept(size, p)
        <5>1. \A i \in 1..m : kept[i] = Kept(size, p)[i]
          BY <3>2, <4>4, <4>5, ConcatChars
        <5> HIDE DEF kept, m
        <5> QED
          BY <5>1, <3>2, <4>4, <4>5, EqualSeqs
      <4>7. block = s.buffer_ptr
        <5>1. size - f = 0
          BY <3>1, <3>4
        <5> QED
          BY <5>1, <2>1, <3>1, Formatted
      <4> QED
        BY <4>3, <4>6, <4>7
    <3>5. CASE f < n
      <4> DEFINE j == Smaller(Len(text), n - f - 1)
      <4>1. f = Len(p) /\ m = f + j /\ j \in Nat /\ j <= Len(text)
        <5>1. f = Len(p)
          BY <1>1, <2>1, <3>1, <3>5 DEF Smaller
        <5>2. Len(q) = f + Len(text) /\ f \in Nat /\ f < n /\ Len(text) \in Nat
          BY <1>1, <3>1, <3>5, <5>1
        <5> HIDE DEF q, f
        <5>3. m = f + j /\ j \in Nat /\ j <= Len(text)
          BY <5>2, <3>1 DEF Smaller
        <5> QED
          BY <5>1, <5>3
      <4>2. /\ \A i \in 1..f : block[i] = s.buffer_ptr[i]
            /\ \A i \in (f + 1)..(f + j) : block[i] = text[i - f]
            /\ block[f + j + 1] = NUL
        <5>1. block = vsnprintf(s.buffer_ptr, f, n - f, text)
          BY <3>1
        <5>2. s.buffer_ptr \in Block(n) /\ f \in 0..n /\ f < n
          BY <2>1, <3>1, <3>5
        <5> HIDE DEF f, block
        <5> DEFINE w == vsnprintf(s.buffer_ptr, f, n - f, text)
        <5>3. /\ \A i \in 1..f : w[i] = s.buffer_ptr[i]
              /\ \A i \in (f + 1)..(f + Smaller(Len(text), n - f - 1)) : w[i] = text[i - f]
              /\ w[f + Smaller(Len(text), n - f - 1) + 1] = NUL
          BY <5>2, Formatted, ZenonT(30)
        <5> QED
          BY <5>1, <5>3
      <4>3. \A i \in 1..f : s.buffer_ptr[i] = p[i]
        <5>1. CASE p = << >>
          BY <5>1, <4>1
        <5>2. CASE p # << >>
          <6>1. Shows(s.buffer_ptr, Kept(size, p))
            BY <5>2, <2>7 DEF Captures
          <6>2. /\ Len(Kept(size, p)) = f
                /\ \A i \in 1..f : Kept(size, p)[i] = p[i]
            <7>1. Smaller(Len(p), size - 1) = f
              BY <1>1, <4>1, <3>1, <3>5 DEF Smaller
            <7> QED
              BY <7>1, <2>1, <2>7, KeptIs
          <6> QED
            BY <6>1, <6>2 DEF Shows
        <5> QED
          BY <5>1, <5>2
      <4>4. /\ \A i \in 1..f : q[i] = p[i]
            /\ \A i \in (f + 1)..(f + j) : q[i] = text[i - f]
        BY <4>1, <1>1, ConcatChars
      <4>5. \A i \in 1..m : block[i] = kept[i]
        <5> SUFFICES ASSUME NEW i \in 1..m
                     PROVE  block[i] = q[i]
          BY <3>2
        <5> HIDE DEF block, q, f, j, m
        <5>1. CASE i <= f
          BY <5>1, <4>2, <4>3, <4>4, <4>1
        <5>2. CASE i > f
          <6>1. i \in (f + 1)..(f + j)
            BY <5>2, <4>1
          <6> QED
            BY <6>1, <4>2, <4>4
        <5> QED
          BY <5>1, <5>2, <4>1, <1>1
      <4>6. block[m + 1] = NUL
        BY <4>1, <4>2
      <4>7. Shows(block, kept)
        <5> HIDE DEF block, kept, m
        <5> QED
          BY <4>5, <4>6, <3>2 DEF Shows
      <4> QED
        BY <4>7
    <3> QED
      BY <3>1, <3>4, <3>5
  <2>8. Captures(r, q)
    <3> HIDE DEF r, q, block
    <3> QED
      BY <2>5, <2>7 DEF Captures
  <2> HIDE DEF r, q
  <2> QED
    BY <2>4, <2>5, <2>6, <2>8 DEF r, q
<1> QED
  BY <1>3, <1>4

-----------------------------------------------------------------------------
(* The actions.                                                            *)

LEMMA EmptyText == << >> \in Seq(Char)
OBVIOUS

LEMMA InitInv == Init => IInv
<1> SUFFICES ASSUME Init
             PROVE  IInv
  OBVIOUS
<1>1. printed = << >> /\ touched = FALSE /\ freed = FALSE
  BY DEF Init, StreamInit
<1>2. Smaller(Len(printed), 0) = 0 /\ \A size \in Nat : Smaller(Len(printed), size) = 0
  BY <1>1 DEF Smaller
<1>3. CASE os = os_new
  <2>1. os \in OutputStreams(0)
    BY <1>3 DEF os_new, OutputStreams, Block
  <2>2. Streams(os, printed, 0) /\ os.stream
    BY <1>1, <1>2, <1>3, <2>1 DEF Streams, os_new
  <2>3. \E n \in Nat : /\ Streams(os, printed, n)
                       /\ ~freed /\ ~os.stream => os.buffer_size = n
                       /\ ~freed /\ os.stream => n = 0
    BY <2>2
  <2> QED
    BY <1>1, <2>3, EmptyText DEF IInv, Init
<1>4. CASE \E size \in Sizes : \E block \in [1..size -> Byte] : os = os_new_capture(size, block)
  <2>1. PICK size \in Nat : \E block \in [1..size -> Byte] : os = os_new_capture(size, block)
    BY <1>4, SizesAssumption
  <2>2. PICK block \in [1..size -> Byte] : os = os_new_capture(size, block)
    BY <2>1
  <2>3. os \in OutputStreams(size)
    BY <2>2 DEF os_new_capture, OutputStreams, Block
  <2>4. Streams(os, printed, size) /\ ~os.stream /\ os.buffer_size = size
    BY <1>1, <1>2, <2>2, <2>3 DEF Streams, os_new_capture
  <2>5. \E n \in Nat : /\ Streams(os, printed, n)
                       /\ ~freed /\ ~os.stream => os.buffer_size = n
                       /\ ~freed /\ os.stream => n = 0
    BY <2>4
  <2> QED
    BY <1>1, <2>5, EmptyText DEF IInv, Init
<1> QED
  BY <1>3, <1>4 DEF Init, StreamInit

\* What the invariant says of the stream, for a print that comes next.
LEMMA Before ==
  ASSUME IInv
  PROVE  Captures(os, printed) \/ printed = << >>
BY DEF IInv

LEMMA PrintInv ==
  ASSUME IInv, NEW text \in Seq(Char), os_printf(text), UNCHANGED logVars
  PROVE  IInv'
<1>1. PICK n \in Nat : /\ Streams(os, printed, n)
                       /\ ~freed /\ ~os.stream => os.buffer_size = n
                       /\ ~freed /\ os.stream => n = 0
  BY DEF IInv
<1>2. /\ Streams(os', printed', n)
      /\ Captures(os', printed')
      /\ os'.stream = os.stream
      /\ os'.buffer_size = os.buffer_size
  BY <1>1, Before, PrintKeepsStream DEF IInv, os_printf
<1>3. printed' \in Seq(Char)
  BY ConcatChars DEF IInv, os_printf
<1>4. touched' = TRUE /\ freed' = freed
  BY DEF os_printf
<1> QED
  BY <1>1, <1>2, <1>3, <1>4 DEF IInv, logVars

LEMMA LogInv ==
  ASSUME IInv, NEW level \in Level, NEW message \in Seq(Char), log_printf(level, message)
  PROVE  IInv'
<1> DEFINE line == Line(level, message)
<1>1. /\ Place[level] \in Seq(Char) /\ Newline \in Seq(Char)
      /\ line = Place[level] \o message \o Newline /\ line \in Seq(Char)
  BY LogAssumption, ConcatChars DEF Line
<1>2. CASE log_os = "NULL"
  <2>1. UNCHANGED <<streamVars, log_level, log_os>> /\ stderr' = stderr \o line
    BY <1>2 DEF log_printf
  <2>2. stderr' \in Seq(Char)
    BY <1>1, <2>1, ConcatChars DEF IInv
  <2> HIDE DEF line
  <2> QED
    BY <2>1, <2>2 DEF IInv, streamVars
<1>3. CASE log_os = "os"
  <2>1. /\ os' = Printed(os, level, message) /\ printed' = printed \o line /\ touched' = TRUE
        /\ UNCHANGED <<stderr, freed, log_level, log_os>>
    BY <1>3 DEF log_printf
  <2>2. PICK n \in Nat : /\ Streams(os, printed, n)
                         /\ ~freed /\ ~os.stream => os.buffer_size = n
                         /\ ~freed /\ os.stream => n = 0
    BY DEF IInv
  <2> DEFINE s1 == os_vprintf(os, Place[level])
             p1 == printed \o Place[level]
             s2 == os_vprintf(s1, message)
             p2 == p1 \o message
             s3 == os_vprintf(s2, Newline)
             p3 == p2 \o Newline
  <2>3. printed \in Seq(Char)
    BY DEF IInv
  <2>4. /\ p1 \in Seq(Char) /\ Streams(s1, p1, n) /\ Captures(s1, p1)
        /\ s1.stream = os.stream /\ s1.buffer_size = os.buffer_size
    BY <1>1, <2>2, <2>3, Before, PrintKeepsStream, ConcatChars
  <2> HIDE DEF s1, p1
  <2>5. /\ p2 \in Seq(Char) /\ Streams(s2, p2, n) /\ Captures(s2, p2)
        /\ s2.stream = os.stream /\ s2.buffer_size = os.buffer_size
    BY <2>4, PrintKeepsStream, ConcatChars
  <2> HIDE DEF s2, p2
  <2>6. /\ p3 \in Seq(Char) /\ Streams(s3, p3, n) /\ Captures(s3, p3)
        /\ s3.stream = os.stream /\ s3.buffer_size = os.buffer_size
    BY <1>1, <2>5, PrintKeepsStream, ConcatChars
  <2>7. printed' = p3
    <3>1. printed \o line = ((printed \o Place[level]) \o message) \o Newline
      <4> DEFINE place == Place[level]
      <4>1. place \in Seq(Char) /\ Newline \in Seq(Char)
        BY <1>1
      <4>2. line = (place \o message) \o Newline
        BY <1>1
      <4> HIDE DEF place, line
      <4>3. printed \o ((place \o message) \o Newline) = ((printed \o place) \o message) \o Newline
        BY <4>1, <2>3
      <4> QED
        BY <4>2, <4>3 DEF place
    <3> QED
      BY <2>1, <3>1 DEF p1, p2
  <2>8. os' = s3
    BY <2>1 DEF Printed, s1, s2
  <2> HIDE DEF s3, p3
  <2> QED
    BY <2>1, <2>2, <2>6, <2>7, <2>8 DEF IInv
<1> QED
  BY <1>2, <1>3 DEF IInv

LEMMA ClearInv ==
  ASSUME IInv, os_clear, UNCHANGED logVars
  PROVE  IInv'
<1>1. PICK n \in Nat : /\ Streams(os, printed, n)
                       /\ ~freed /\ ~os.stream => os.buffer_size = n
                       /\ ~freed /\ os.stream => n = 0
  BY DEF IInv
<1>2. /\ os \in OutputStreams(n) /\ os.buffer_size \in {0, n} /\ os.buffer_size \in Nat
      /\ os.buffer_ptr \in Block(n)
  BY <1>1 DEF Streams, OutputStreams
<1>3. /\ os'.stream = os.stream /\ os'.file = os.file /\ os'.buffer_size = os.buffer_size
      /\ os'.buffer_filled = 0 /\ os' \in OutputStreams(n)
      /\ os.buffer_size > 0 => os'.buffer_ptr[1] = NUL
  <2> DEFINE block == IF os.buffer_size > 0 THEN [os.buffer_ptr EXCEPT ![1] = NUL]
                      ELSE os.buffer_ptr
  <2>1. os' = [os EXCEPT !.buffer_filled = 0, !.buffer_ptr = block]
    BY DEF os_clear, Cleared
  <2>2. block \in Block(n) /\ (os.buffer_size > 0 => block[1] = NUL)
    BY <1>2 DEF Block, Byte
  <2> HIDE DEF block
  <2> QED
    BY <1>2, <2>1, <2>2 DEF OutputStreams
<1>4. printed' = IF os.stream THEN printed ELSE << >>
  BY DEF os_clear
<1>5. Smaller(Len(<< >>), os.buffer_size) = 0
  BY <1>2 DEF Smaller
<1>6. Streams(os', printed', n)
  BY <1>1, <1>3, <1>4, <1>5 DEF Streams
<1>7. Captures(os', printed')
  <2>1. CASE os.stream
    BY <2>1, <1>1, <1>3 DEF Streams, Captures
  <2>2. CASE ~os.stream /\ os.buffer_size > 0
    <3>1. printed' = << >> /\ printed' \in Seq(Char)
      BY <2>2, <1>4
    <3>2. Kept(os.buffer_size, << >>) \in Seq(Char) /\ Len(Kept(os.buffer_size, << >>)) = 0
      <4>1. Smaller(Len(<< >>), os.buffer_size - 1) = 0
        BY <1>2, <2>2 DEF Smaller
      <4> QED
        BY <4>1, <1>2, <2>2, <3>1, KeptIs
    <3> QED
      BY <3>1, <3>2, <1>3, <2>2 DEF Captures, Shows
  <2> QED
    BY <2>1, <2>2, <1>3 DEF Captures
<1>8. touched' = TRUE /\ freed' = freed
  BY DEF os_clear
<1>9. printed' \in Seq(Char)
  BY <1>4 DEF IInv
<1> QED
  BY <1>1, <1>3, <1>6, <1>7, <1>8, <1>9 DEF IInv, logVars

LEMMA DestroyInv ==
  ASSUME IInv, os_destroy, UNCHANGED logVars
  PROVE  IInv'
<1>1. PICK n \in Nat : Streams(os, printed, n)
  BY DEF IInv
<1>2. os \in OutputStreams(n)
  BY <1>1 DEF Streams
<1>3. /\ os'.stream = os.stream /\ os'.file = os.file /\ os'.buffer_size = 0
      /\ os'.buffer_filled = 0 /\ os' \in OutputStreams(n)
  BY <1>2 DEF os_destroy, Destroyed, OutputStreams
<1>4. printed' = (IF os.stream THEN printed ELSE << >>) /\ freed' = TRUE /\ touched' = touched
  BY DEF os_destroy
<1>5. Smaller(Len(printed'), 0) = 0 /\ printed' \in Seq(Char)
  BY <1>4 DEF Smaller, IInv
<1>6. Streams(os', printed', n)
  BY <1>1, <1>3, <1>4, <1>5 DEF Streams
<1>7. Captures(os', printed')
  BY <1>3 DEF Captures
<1>8. ~touched' => printed' = << >>
  BY <1>4 DEF IInv
<1> QED
  BY <1>3, <1>4, <1>5, <1>6, <1>7, <1>8 DEF IInv, logVars

LEMMA StepInv == IInv /\ [Next]_vars => IInv'
<1> SUFFICES ASSUME IInv, [Next]_vars
             PROVE  IInv'
  OBVIOUS
<1>1. ASSUME NEW text \in Text, os_printf(text), UNCHANGED logVars
      PROVE  IInv'
  BY <1>1, PrintInv, TextAssumption
<1>2. CASE os_clear /\ UNCHANGED logVars
  BY <1>2, ClearInv
<1>3. CASE os_destroy /\ UNCHANGED logVars
  BY <1>3, DestroyInv
<1>4. ASSUME NEW level \in Level, NEW stream \in {"NULL", "os"}, log_setup(level, stream)
      PROVE  IInv'
  BY <1>4 DEF log_setup, IInv, streamVars
<1>5. ASSUME NEW level \in Level, NEW message \in Text, log_printf(level, message)
      PROVE  IInv'
  BY <1>5, LogInv, TextAssumption
<1>6. CASE UNCHANGED vars
  BY <1>6 DEF vars, streamVars, logVars, IInv
<1> QED
  BY <1>1, <1>2, <1>3, <1>4, <1>5, <1>6 DEF Next, StreamNext

LEMMA Inductive == Spec => []IInv
BY InitInv, StepInv, PTL DEF Spec

LEMMA InvTypes == IInv => TypeOK
<1> SUFFICES ASSUME IInv
             PROVE  TypeOK
  OBVIOUS
<1>1. PICK n \in Nat : /\ Streams(os, printed, n)
                       /\ ~freed /\ ~os.stream => os.buffer_size = n
                       /\ ~freed /\ os.stream => n = 0
  BY DEF IInv
<1>2. os \in OutputStreams(n)
  BY <1>1 DEF Streams
<1>3. /\ os.stream \in BOOLEAN /\ os.file \in Seq(Char) /\ os.buffer_size \in Nat
      /\ os.buffer_ptr \in [1..n -> Byte]
  BY <1>2 DEF OutputStreams, Block
<1>4. DOMAIN os.buffer_ptr = 1..n
  BY <1>3
<1>5. os.buffer_filled \in 0..os.buffer_size
  BY <1>1, <1>3 DEF Streams, Smaller, IInv
<1>6. ~freed => 1..n = 1..os.buffer_size
  BY <1>1, <1>3 DEF Streams
<1> QED
  BY <1>3, <1>4, <1>5, <1>6 DEF TypeOK, StreamTypeOK, IInv

\* The counters stay within the block, and nothing is written behind it.
THEOREM OutputTypeCorrect == Spec => []TypeOK
BY Inductive, InvTypes, PTL

\* What a test compares is a prefix of what was printed, of every length.
THEOREM CaptureIsPrefix == Spec => []CapturesPrefix
<1>1. IInv => CapturesPrefix
  BY DEF IInv, Captures, CapturesPrefix
<1> QED
  BY <1>1, Inductive, PTL

-----------------------------------------------------------------------------
(* A destroyed stream.                                                     *)

LEMMA FreedStep == IInv /\ [Next]_vars => [freed => os'.buffer_ptr = os.buffer_ptr]_streamVars
<1> SUFFICES ASSUME IInv, Next, freed
             PROVE  os'.buffer_ptr = os.buffer_ptr
  BY DEF vars
<1>1. PICK n \in Nat : Streams(os, printed, n)
  BY DEF IInv
<1>2. os \in OutputStreams(n) /\ os.buffer_size = 0
  BY <1>1 DEF Streams, IInv
<1>3. ASSUME NEW s, NEW p \in Seq(Char), NEW text \in Seq(Char), Streams(s, p, n),
             s.buffer_size = 0
      PROVE  /\ p \o text \in Seq(Char)
             /\ Streams(os_vprintf(s, text), p \o text, n)
             /\ os_vprintf(s, text).buffer_size = 0
             /\ os_vprintf(s, text).buffer_ptr = s.buffer_ptr
  <2>1. Captures(s, p)
    BY <1>3 DEF Captures
  <2> QED
    BY <1>3, <2>1, PrintKeepsStream, ConcatChars
<1>4. ASSUME NEW text \in Text, os_printf(text)
      PROVE  os'.buffer_ptr = os.buffer_ptr
  BY <1>1, <1>2, <1>3, <1>4, TextAssumption DEF os_printf, IInv
<1>5. CASE os_clear
  BY <1>2, <1>5 DEF os_clear, Cleared, OutputStreams
<1>6. ASSUME NEW level \in Level, NEW message \in Text, log_printf(level, message)
      PROVE  os'.buffer_ptr = os.buffer_ptr
  <2>1. CASE log_os = "NULL"
    BY <1>6, <2>1 DEF log_printf, streamVars
  <2>2. CASE log_os = "os"
    <3> DEFINE s1 == os_vprintf(os, Place[level])
               s2 == os_vprintf(s1, message)
               s3 == os_vprintf(s2, Newline)
               p1 == printed \o Place[level]
               p2 == p1 \o message
    <3>1. os' = s3
      BY <1>6, <2>2 DEF log_printf, Printed
    <3>2. Place[level] \in Seq(Char) /\ message \in Seq(Char) /\ Newline \in Seq(Char)
          /\ printed \in Seq(Char)
      BY LogAssumption, TextAssumption DEF IInv
    <3>3. /\ p1 \in Seq(Char) /\ Streams(s1, p1, n)
          /\ s1.buffer_size = 0 /\ s1.buffer_ptr = os.buffer_ptr
      BY <1>1, <1>2, <1>3, <3>2
    <3> HIDE DEF s1, p1
    <3>4. /\ p2 \in Seq(Char) /\ Streams(s2, p2, n)
          /\ s2.buffer_size = 0 /\ s2.buffer_ptr = s1.buffer_ptr
      BY <1>3, <3>2, <3>3
    <3> HIDE DEF s2, p2
    <3>5. s3.buffer_ptr = s2.buffer_ptr
      BY <1>3, <3>2, <3>4
    <3> HIDE DEF s3
    <3> QED
      BY <3>1, <3>3, <3>4, <3>5
  <2> QED
    BY <2>1, <2>2 DEF IInv
<1>7. ASSUME NEW level \in Level, NEW stream \in {"NULL", "os"}, log_setup(level, stream)
      PROVE  os'.buffer_ptr = os.buffer_ptr
  BY <1>7 DEF log_setup, streamVars
<1>8. ~os_destroy
  BY DEF os_destroy
<1> QED
  BY <1>4, <1>5, <1>6, <1>7, <1>8 DEF Next, StreamNext

\* Whatever is called after os_destroy, the block that was freed stays as it
\* was (os_printf, os_clear and the log).
THEOREM DestroyedStaysUntouched == Spec => FreedBlockUntouched
BY Inductive, FreedStep, PTL DEF Spec, FreedBlockUntouched

-----------------------------------------------------------------------------
(* Refinement.                                                             *)

SinkText ==
  IF os.stream THEN os.file
  ELSE Kept(os.buffer_size, SubSeq(os.buffer_ptr, 1, os.buffer_filled))

SinkLimit ==
  CASE os.stream -> -1
    [] os.buffer_size > 0 -> os.buffer_size - 1
    [] OTHER -> 0

\* What UpTo keeps.
LEMMA UpToIs ==
  ASSUME NEW s \in Seq(Byte), NEW limit \in Nat \cup {-1}
  PROVE  /\ Sink!UpTo(s, limit) \in Seq(Byte)
         /\ Len(Sink!UpTo(s, limit)) = IF limit = -1 THEN Len(s) ELSE Smaller(Len(s), limit)
         /\ \A i \in 1..Len(Sink!UpTo(s, limit)) : Sink!UpTo(s, limit)[i] = s[i]
<1>1. CASE limit = -1 \/ Len(s) <= limit
  BY <1>1 DEF Sink!UpTo, Smaller
<1>2. CASE limit \in Nat /\ limit < Len(s)
  <2>1. Sink!UpTo(s, limit) = SubSeq(s, 1, limit)
    BY <1>2 DEF Sink!UpTo
  <2>2. Smaller(Len(s), limit) = limit /\ limit # -1
    BY <1>2 DEF Smaller
  <2> QED
    BY <1>2, <2>1, <2>2, FirstPart
<1> QED
  BY <1>1, <1>2

\* Cutting off before and after a print is cutting off after it.
LEMMA UpToConcat ==
  ASSUME NEW p \in Seq(Byte), NEW text \in Seq(Byte), NEW limit \in Nat \cup {-1}
  PROVE  Sink!UpTo(Sink!UpTo(p, limit) \o text, limit) = Sink!UpTo(p \o text, limit)
<1> DEFINE q == Sink!UpTo(p, limit)
           l == Sink!UpTo(q \o text, limit)
           r == Sink!UpTo(p \o text, limit)
<1>1. /\ q \in Seq(Byte)
      /\ Len(q) = IF limit = -1 THEN Len(p) ELSE Smaller(Len(p), limit)
      /\ \A i \in 1..Len(q) : q[i] = p[i]
  BY UpToIs
<1> HIDE DEF q
<1>2. /\ q \o text \in Seq(Byte) /\ Len(q \o text) = Len(q) + Len(text)
      /\ \A i \in 1..Len(q) : (q \o text)[i] = q[i]
      /\ \A i \in (Len(q) + 1)..(Len(q) + Len(text)) : (q \o text)[i] = text[i - Len(q)]
  <2>1. q \in Seq(Byte)
    BY <1>1
  <2> QED
    BY <2>1
<1>3. /\ p \o text \in Seq(Byte) /\ Len(p \o text) = Len(p) + Len(text)
      /\ \A i \in 1..Len(p) : (p \o text)[i] = p[i]
      /\ \A i \in (Len(p) + 1)..(Len(p) + Len(text)) : (p \o text)[i] = text[i - Len(p)]
  BY ConcatChars
<1>4. /\ l \in Seq(Byte)
      /\ Len(l) = IF limit = -1 THEN Len(q \o text) ELSE Smaller(Len(q \o text), limit)
      /\ \A i \in 1..Len(l) : l[i] = (q \o text)[i]
  BY <1>2, UpToIs
<1>5. /\ r \in Seq(Byte)
      /\ Len(r) = IF limit = -1 THEN Len(p \o text) ELSE Smaller(Len(p \o text), limit)
      /\ \A i \in 1..Len(r) : r[i] = (p \o text)[i]
  BY <1>3, UpToIs
<1> HIDE DEF l, r
<1>6. CASE Len(q) = Len(p)
  <2>1. q = p
    BY <1>1, <1>6, EqualSeqs
  <2>2. l = r
    BY <2>1 DEF l, r
  <2> QED
    BY <2>2 DEF l, r, q
<1>7. CASE Len(q) # Len(p)
  <2>1. limit \in Nat /\ Len(q) = limit /\ limit < Len(p) /\ Len(text) \in Nat
    BY <1>1, <1>7 DEF Smaller
  <2>2. Len(l) = limit /\ Len(r) = limit
    BY <1>2, <1>3, <1>4, <1>5, <2>1 DEF Smaller
  <2>3. \A i \in 1..limit : l[i] = r[i]
    <3> SUFFICES ASSUME NEW i \in 1..limit
                 PROVE  l[i] = r[i]
      OBVIOUS
    <3>1. i \in 1..Len(q) /\ i \in 1..Len(p) /\ i \in 1..Len(l) /\ i \in 1..Len(r)
      BY <2>1, <2>2
    <3>2. l[i] = q[i] /\ q[i] = p[i]
      BY <3>1, <1>1, <1>2, <1>4
    <3>3. r[i] = p[i]
      BY <3>1, <1>3, <1>5
    <3> QED
      BY <3>2, <3>3
  <2>4. l = r
    BY <1>4, <1>5, <2>2, <2>3, EqualSeqs
  <2> QED
    BY <2>4 DEF l, r, q
<1> QED
  BY <1>6, <1>7

LEMMA CharsAreBytes == \A s \in Seq(Char) : s \in Seq(Byte)
BY DEF Byte

\* What has arrived in the sink, in terms of what has been printed.
SinkIs ==
  /\ SinkLimit \in Nat \cup {-1}
  /\ SinkText = Sink!UpTo(printed, SinkLimit)

LEMMA SinkHolds == IInv => SinkIs
<1> SUFFICES ASSUME IInv
             PROVE  /\ SinkLimit \in Nat \cup {-1}
                    /\ SinkText = Sink!UpTo(printed, SinkLimit)
  BY DEF SinkIs
<1>1. PICK n \in Nat : Streams(os, printed, n)
  BY DEF IInv
<1>2. /\ os \in OutputStreams(n) /\ os.buffer_size \in Nat /\ os.buffer_ptr \in Block(n)
      /\ os.buffer_size \in {0, n} /\ os.stream \in BOOLEAN
  BY <1>1 DEF Streams, OutputStreams
<1>3. SinkLimit \in Nat \cup {-1}
  BY <1>2 DEF SinkLimit
<1>4. printed \in Seq(Byte) /\ printed \in Seq(Char) /\ Len(printed) \in Nat
  BY CharsAreBytes DEF IInv
<1>5. CASE os.stream
  <2>1. SinkLimit = -1 /\ SinkText = printed
    BY <1>1, <1>5 DEF SinkLimit, SinkText, Streams
  <2> QED
    BY <1>3, <2>1 DEF Sink!UpTo
<1>6. CASE ~os.stream /\ os.buffer_size = 0
  <2>1. SinkLimit = 0 /\ SinkText = << >>
    BY <1>6 DEF SinkLimit, SinkText, Kept
  <2>2. Sink!UpTo(printed, 0) = << >>
    <3>1. Sink!UpTo(printed, 0) \in Seq(Byte) /\ Len(Sink!UpTo(printed, 0)) = 0
      BY <1>4, UpToIs DEF Smaller
    <3> QED
      BY <3>1
  <2> QED
    BY <1>3, <2>1, <2>2
<1>7. CASE ~os.stream /\ os.buffer_size > 0
  <2> DEFINE f == os.buffer_filled
             prefix == SubSeq(os.buffer_ptr, 1, f)
             left == Kept(n, prefix)
             right == Sink!UpTo(printed, n - 1)
  <2>1. os.buffer_size = n /\ n > 0 /\ f = Smaller(Len(printed), n) /\ f \in 0..n
    BY <1>1, <1>2, <1>4, <1>7 DEF Streams, Smaller
  <2>2. SinkLimit = n - 1 /\ SinkText = left
    BY <1>7, <2>1 DEF SinkLimit, SinkText
  <2>3. os.buffer_ptr \in Seq(Byte) /\ Len(os.buffer_ptr) = n
    BY <1>2 DEF Block
  <2>4. /\ prefix \in Seq(Byte) /\ Len(prefix) = f
        /\ \A i \in 1..f : prefix[i] = os.buffer_ptr[i]
    <3> HIDE DEF f
    <3> QED
      BY <2>1, <2>3, FirstPart
  <2> HIDE DEF prefix, f
  <2>5. /\ left \in Seq(Byte) /\ Len(left) = Smaller(f, n - 1)
        /\ \A i \in 1..Len(left) : left[i] = prefix[i]
    BY <2>1, <2>4, KeptIs
  <2>6. /\ right \in Seq(Byte) /\ Len(right) = Smaller(Len(printed), n - 1)
        /\ \A i \in 1..Len(right) : right[i] = printed[i]
    <3>1. n - 1 \in Nat /\ n - 1 # -1
      BY <2>1
    <3> QED
      BY <1>4, <3>1, UpToIs
  <2>7. Len(left) = Len(right) /\ Len(left) \in Nat /\ Len(left) <= f
    BY <1>4, <2>1, <2>5, <2>6 DEF Smaller
  <2>8. \A i \in 1..Len(left) : os.buffer_ptr[i] = printed[i]
    <3>1. CASE printed = << >>
      <4>1. f = 0
        BY <3>1, <2>1 DEF Smaller
      <4> QED
        BY <4>1, <2>7
    <3>2. CASE printed # << >>
      <4>1. Shows(os.buffer_ptr, Kept(n, printed))
        BY <3>2, <1>7, <2>1, Before DEF Captures
      <4>2. /\ Len(Kept(n, printed)) = Smaller(Len(printed), n - 1)
            /\ \A i \in 1..Len(Kept(n, printed)) : Kept(n, printed)[i] = printed[i]
        BY <1>4, <2>1, KeptIs
      <4> QED
        BY <4>1, <4>2, <2>6, <2>7 DEF Shows
    <3> QED
      BY <3>1, <3>2
  <2> HIDE DEF left, right
  <2>9. \A i \in 1..Len(left) : left[i] = right[i]
    BY <2>4, <2>5, <2>6, <2>7, <2>8, <2>1
  <2>10. left = right
    BY <2>5, <2>6, <2>7, <2>9, EqualSeqs
  <2> QED
    BY <1>3, <2>2, <2>10 DEF right
<1> QED
  BY <1>2, <1>5, <1>6, <1>7

LEMMA SinkHoldsNext == IInv' => SinkIs'
<1>1. IInv => SinkIs
  BY SinkHolds
<1> QED
  BY <1>1, PTL

\* A print into the stream, in however many parts, is a print into the sink.
LEMMA PrintsIntoSink ==
  ASSUME IInv, IInv', NEW text \in Seq(Char), printed' = printed \o text,
         SinkLimit' = SinkLimit
  PROVE  SinkText' = Sink!UpTo(SinkText \o text, SinkLimit)
<1>1. /\ SinkLimit \in Nat \cup {-1}
      /\ SinkText = Sink!UpTo(printed, SinkLimit)
  BY SinkHolds DEF SinkIs
<1>2. SinkText' = Sink!UpTo(printed', SinkLimit')
  BY SinkHoldsNext DEF SinkIs
<1>3. printed \in Seq(Byte) /\ text \in Seq(Byte)
  BY CharsAreBytes DEF IInv
<1>4. Sink!UpTo(Sink!UpTo(printed, SinkLimit) \o text, SinkLimit)
        = Sink!UpTo(printed \o text, SinkLimit)
  BY <1>1, <1>3, UpToConcat
<1> QED
  BY <1>1, <1>2, <1>4

LEMMA InitSink == Init => Sink!Init
<1> SUFFICES ASSUME Init
             PROVE  Sink!Init
  OBVIOUS
<1>1. IInv
  BY InitInv
<1>2. printed = << >>
  BY DEF Init, StreamInit
<1>3. /\ SinkLimit \in Nat \cup {-1}
      /\ SinkText = Sink!UpTo(<< >>, SinkLimit)
  BY <1>1, <1>2, SinkHolds DEF SinkIs
<1>4. SinkText = << >>
  BY <1>3 DEF Sink!UpTo
<1> QED
  BY <1>3, <1>4 DEF Sink!Init, SinkText, SinkLimit

LEMMA StepSink ==
  ASSUME IInv, IInv', [Next]_vars
  PROVE  [Sink!Next]_<<SinkText, SinkLimit>>
<1>1. PICK n \in Nat : Streams(os, printed, n)
  BY DEF IInv
<1>2. os \in OutputStreams(n) /\ (os.stream => os.buffer_size = 0) /\ printed \in Seq(Char)
      /\ os.buffer_size \in Nat /\ os.stream \in BOOLEAN
  BY <1>1 DEF Streams, IInv, OutputStreams
<1>3. SinkIs /\ SinkIs'
  BY SinkHolds, SinkHoldsNext
<1>4. os' = os => SinkText' = SinkText /\ SinkLimit' = SinkLimit
  BY DEF SinkText, SinkLimit
<1>5. os'.stream = os.stream /\ os'.buffer_size = os.buffer_size => SinkLimit' = SinkLimit
  BY DEF SinkLimit
<1>6. ASSUME NEW text \in Text, os_printf(text)
      PROVE  Sink!Arrive(text)
  <2>1. printed' = printed \o text /\ os' = os_vprintf(os, text) /\ text \in Seq(Char)
    BY <1>6, TextAssumption DEF os_printf
  <2>2. SinkLimit' = SinkLimit
    <3>1. os'.stream = os.stream /\ os'.buffer_size = os.buffer_size
      BY <1>1, <1>2, <2>1, Before, PrintKeepsStream
    <3> QED
      BY <3>1, <1>5
  <2>3. SinkText' = Sink!UpTo(SinkText \o text, SinkLimit)
    BY <2>1, <2>2, PrintsIntoSink
  <2> QED
    BY <2>2, <2>3 DEF Sink!Arrive, SinkText, SinkLimit
<1>7. ASSUME NEW level \in Level, NEW message \in Text, log_printf(level, message)
      PROVE  Sink!Arrive(Line(level, message)) \/ UNCHANGED <<SinkText, SinkLimit>>
  <2>1. CASE log_os = "NULL"
    BY <1>4, <1>7, <2>1 DEF log_printf, streamVars
  <2>2. CASE log_os = "os"
    <3> DEFINE line == Line(level, message)
    <3>1. printed' = printed \o line /\ os' = Printed(os, level, message)
      BY <1>7, <2>2 DEF log_printf
    <3>2. Place[level] \in Seq(Char) /\ Newline \in Seq(Char) /\ message \in Seq(Char)
      BY LogAssumption, TextAssumption
    <3>3. line \in Seq(Char)
      BY <3>2 DEF Line
    <3>4. os'.stream = os.stream /\ os'.buffer_size = os.buffer_size
      <4> DEFINE s1 == os_vprintf(os, Place[level])
                 s2 == os_vprintf(s1, message)
                 s3 == os_vprintf(s2, Newline)
      <4>1. Captures(os, printed) \/ printed = << >>
        BY Before
      <4>2. /\ Streams(s1, printed \o Place[level], n) /\ Captures(s1, printed \o Place[level])
            /\ s1.stream = os.stream /\ s1.buffer_size = os.buffer_size
            /\ printed \o Place[level] \in Seq(Char)
        BY <1>1, <1>2, <3>2, <4>1, PrintKeepsStream, ConcatChars
      <4> HIDE DEF s1
      <4>3. /\ Streams(s2, (printed \o Place[level]) \o message, n)
            /\ Captures(s2, (printed \o Place[level]) \o message)
            /\ s2.stream = s1.stream /\ s2.buffer_size = s1.buffer_size
            /\ (printed \o Place[level]) \o message \in Seq(Char)
        <5> DEFINE p1 == printed \o Place[level]
        <5> HIDE DEF p1
        <5>1. p1 \in Seq(Char) /\ Streams(s1, p1, n) /\ Captures(s1, p1)
          BY <4>2 DEF p1
        <5>2. /\ Streams(s2, p1 \o message, n) /\ Captures(s2, p1 \o message)
              /\ s2.stream = s1.stream /\ s2.buffer_size = s1.buffer_size
              /\ p1 \o message \in Seq(Char)
          BY <3>2, <5>1, PrintKeepsStream, ConcatChars
        <5> QED
          BY <5>2 DEF p1
      <4> HIDE DEF s2
      <4>4. s3.stream = s2.stream /\ s3.buffer_size = s2.buffer_size
        <5> DEFINE p2 == (printed \o Place[level]) \o message
        <5> HIDE DEF p2
        <5>1. p2 \in Seq(Char) /\ Streams(s2, p2, n) /\ Captures(s2, p2)
          BY <4>3 DEF p2
        <5> QED
          BY <3>2, <5>1, PrintKeepsStream
      <4>5. os' = s3
        BY <3>1 DEF Printed, s1, s2
      <4> HIDE DEF s3
      <4> QED
        BY <4>2, <4>3, <4>4, <4>5
    <3> HIDE DEF line
    <3>5. SinkLimit' = SinkLimit
      BY <1>5, <3>4
    <3>6. SinkText' = Sink!UpTo(SinkText \o line, SinkLimit)
      BY <3>1, <3>3, <3>5, PrintsIntoSink
    <3>7. Sink!Arrive(line)
      BY <3>5, <3>6 DEF Sink!Arrive, SinkText, SinkLimit
    <3> QED
      BY <3>7 DEF line
  <2> QED
    BY <2>1, <2>2 DEF IInv
<1>8. CASE os_clear
  <2>1. /\ os'.stream = os.stream /\ os'.file = os.file /\ os'.buffer_size = os.buffer_size
    <3>1. os' = [os EXCEPT !.buffer_filled = 0,
                           !.buffer_ptr = IF os.buffer_size > 0 THEN [os.buffer_ptr EXCEPT ![1] = NUL]
                                          ELSE os.buffer_ptr]
      BY <1>8 DEF os_clear, Cleared
    <3> QED
      BY <1>2, <3>1 DEF OutputStreams
  <2>2. SinkLimit' = SinkLimit
    BY <1>5, <2>1
  <2>3. CASE os.stream
    <3>1. SinkText' = SinkText
      BY <2>1, <2>3 DEF SinkText
    <3> QED
      BY <2>2, <3>1
  <2>4. CASE ~os.stream
    <3>1. printed' = << >>
      BY <1>8, <2>4 DEF os_clear
    <3>2. SinkText' = << >>
      BY <1>3, <3>1 DEF SinkIs, Sink!UpTo
    <3>3. SinkLimit # -1
      BY <1>2, <2>4 DEF SinkLimit
    <3>4. Sink!Clear
      BY <2>2, <3>2, <3>3 DEF Sink!Clear, SinkText, SinkLimit
    <3> QED
      BY <3>4 DEF Sink!Next, SinkText, SinkLimit
  <2> QED
    BY <2>3, <2>4
<1>9. CASE os_destroy
  <2>1. os'.stream = os.stream /\ os'.file = os.file /\ os'.buffer_size = 0
    BY <1>2, <1>9 DEF os_destroy, Destroyed, OutputStreams
  <2>2. CASE os.stream
    <3>1. SinkText' = SinkText /\ SinkLimit' = SinkLimit
      BY <2>1, <2>2 DEF SinkText, SinkLimit
    <3> QED
      BY <3>1
  <2>3. CASE ~os.stream
    <3>1. printed' = << >>
      BY <1>9, <2>3 DEF os_destroy
    <3>2. SinkText' = << >> /\ SinkLimit' = 0
      BY <1>3, <2>1, <2>3, <3>1 DEF SinkIs, Sink!UpTo, SinkLimit
    <3>3. SinkLimit # -1
      BY <1>2, <2>3 DEF SinkLimit
    <3>4. Sink!Close
      BY <3>2, <3>3 DEF Sink!Close, SinkText, SinkLimit
    <3> QED
      BY <3>4 DEF Sink!Next, SinkText, SinkLimit
  <2> QED
    BY <2>2, <2>3
<1>10. ASSUME NEW level \in Level, NEW stream \in {"NULL", "os"}, log_setup(level, stream)
       PROVE  UNCHANGED <<SinkText, SinkLimit>>
  BY <1>4, <1>10 DEF log_setup, streamVars
<1>11. CASE UNCHANGED vars
  BY <1>4, <1>11 DEF vars, streamVars
<1>12. ASSUME NEW text \in Text, Sink!Arrive(text)
       PROVE  Sink!Next
  BY <1>12 DEF Sink!Next
<1>13. ASSUME NEW level \in Level, NEW message \in Text, Sink!Arrive(Line(level, message))
       PROVE  Sink!Next
  BY <1>13 DEF Sink!Next
<1> QED
  BY <1>6, <1>7, <1>8, <1>9, <1>10, <1>11, <1>12, <1>13 DEF Next, StreamNext

\* Whoever prints, in parts or at once, into a stream of either kind: the
\* texts arrive in order up to the length that the block has room for.
THEOREM StreamImplementsTextSink == Spec => ImplementsTextSink
<1>1. Init => Sink!Init
  BY InitSink
<1>2. IInv /\ IInv' /\ [Next]_vars => [Sink!Next]_<<SinkText, SinkLimit>>
  BY StepSink
<1>3. Spec => Sink!Init /\ [][Sink!Next]_<<SinkText, SinkLimit>>
  BY <1>1, <1>2, Inductive, PTL DEF Spec
<1> QED
  BY <1>3 DEF ImplementsTextSink, Sink!Spec, SinkText, SinkLimit
=============================================================================
