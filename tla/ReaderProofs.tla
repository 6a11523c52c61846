---------------------------- MODULE ReaderProofs ----------------------------
(***************************************************************************)
(* For every text and every set of characters: the tokens that the reader  *)
(* gets are clean, its activations follow the parentheses, and it only     *)
(* gets to the end of a text that closes what it opens.                    *)
(***************************************************************************)
EXTENDS Reader, SequenceTheorems, FiniteSetTheorems, WellFoundedInduction, TLAPS

-----------------------------------------------------------------------------
(* Characters.                                                             *)

LEMMA DigitsAre == Digits = {"0", "1", "2", "3", "4", "5", "6", "7", "8", "9"}
<1>1. DOMAIN Digit = 1..10
  BY DEF Digit
<1>2. Digits = {Digit[i] : i \in 1..10}
  BY <1>1 DEF Digits, ToSet
<1>3. 1..10 = {1, 2, 3, 4, 5, 6, 7, 8, 9, 10}
  OBVIOUS
<1>4. Digits = {Digit[i] : i \in {1, 2, 3, 4, 5, 6, 7, 8, 9, 10}}
  BY <1>2, <1>3
<1> QED
  BY <1>4 DEF Digit

LEMMA CharactersDiffer ==
  /\ Blank \notin {"\n", "(", ")", "'", ".", "#", Semicolon, Quotation} \cup Digits
  /\ Semicolon \notin {"\n", "(", ")", "'", ".", "#", Quotation} \cup Digits
  /\ Quotation \notin {"\n", "(", ")", "'", ".", "#"} \cup Digits
<1> DEFINE digits == {"0", "1", "2", "3", "4", "5", "6", "7", "8", "9"}
<1>1. Blank \notin {"\n", "(", ")", "'", ".", "#", Semicolon, Quotation} \cup digits
  BY Zenon DEF Blank, Semicolon, Quotation
<1>2. Semicolon \notin {"\n", "(", ")", "'", ".", "#", Quotation} \cup digits
  BY Zenon DEF Semicolon, Quotation
<1>3. Quotation \notin {"\n", "(", ")", "'", ".", "#"} \cup digits
  BY Zenon DEF Quotation
<1> QED
  BY <1>1, <1>2, <1>3, DigitsAre

LEMMA LexedDiffer ==
  /\ Semicolon # Quotation /\ Semicolon # "(" /\ Semicolon # ")" /\ Semicolon # "\n"
  /\ Quotation # "(" /\ Quotation # ")" /\ Quotation # "\n"
BY CharactersDiffer

\* The end of the text is no character.
LEMMA CharAtType ==
  ASSUME text \in Seq(Char), NEW i \in Nat \ {0}
  PROVE  /\ CharAt(i) \in Char \cup {EOF}
         /\ CharAt(i) # EOF => i \in 1..Len(text) /\ CharAt(i) = text[i]
  BY CharAssumption DEF CharAt

LEMMA LeastElement ==
  ASSUME NEW S, S \subseteq Nat, S # {}
  PROVE  \E i \in S : \A j \in S : i <= j
<1>1. IsWellFoundedOn(OpToRel(<, Nat), Nat)
  BY NatLessThanWellFounded
<1>2. PICK x \in S : \A y \in S : ~ (<<y, x>> \in OpToRel(<, Nat))
  BY <1>1, WFMin
<1>3. \A y \in S : ~ (y < x)
  BY <1>2 DEF OpToRel
<1> QED
  BY <1>3

-----------------------------------------------------------------------------
(* The lexer.  Lexed is a recursive function, which has to be shown to     *)
(* exist first.                                                            *)

LexState == [mode : {"code", "string", "comment"}, depth : Int, closable : BOOLEAN]

LEMMA LexType ==
  ASSUME NEW state \in LexState, NEW c
  PROVE  Lex(state, c) \in LexState
<1>1. ASSUME NEW m \in {"code", "string", "comment"}
      PROVE  [state EXCEPT !.mode = m] \in LexState
  BY DEF LexState
<1>2. [state EXCEPT !.depth = @ + 1] \in LexState
  BY DEF LexState
<1> DEFINE closed == [state EXCEPT !.depth = @ - 1, !.closable = @ /\ state.depth > 0]
<1>3. closed \in LexState
  <2>1. ASSUME NEW d \in Int, NEW b \in BOOLEAN
        PROVE  [state EXCEPT !.depth = d, !.closable = b] \in LexState
    BY DEF LexState
  <2>2. (state.closable /\ state.depth > 0) \in BOOLEAN /\ state.depth - 1 \in Int
    BY DEF LexState
  <2> QED
    BY <2>1, <2>2
<1>4. Lex(state, c) = closed \/ state.mode # "code" \/ c # ")"
  <2>1. CASE state.mode = "code" /\ c = ")"
    BY <2>1, LexedDiffer, Zenon DEF Lex
  <2> QED
    BY <2>1
<1>5. CASE state.mode = "comment" /\ c = "\n"
  <2>1. Lex(state, c) = [state EXCEPT !.mode = "code"]
    BY <1>5, LexedDiffer, Zenon DEF Lex
  <2> QED
    BY <1>1, <2>1
<1>6. CASE state.mode = "string" /\ c = Quotation
  <2>1. Lex(state, c) = [state EXCEPT !.mode = "code"]
    BY <1>6, LexedDiffer, Zenon DEF Lex
  <2> QED
    BY <1>1, <2>1
<1>7. CASE state.mode = "code" /\ c = Semicolon
  <2>1. Lex(state, c) = [state EXCEPT !.mode = "comment"]
    BY <1>7, LexedDiffer, Zenon DEF Lex
  <2> QED
    BY <1>1, <2>1
<1>8. CASE state.mode = "code" /\ c = Quotation
  <2>1. Lex(state, c) = [state EXCEPT !.mode = "string"]
    BY <1>8, LexedDiffer, Zenon DEF Lex
  <2> QED
    BY <1>1, <2>1
<1>9. CASE state.mode = "code" /\ c = "("
  <2>1. Lex(state, c) = [state EXCEPT !.depth = @ + 1]
    BY <1>9, LexedDiffer, Zenon DEF Lex
  <2> QED
    BY <1>2, <2>1
<1>10. ASSUME ~(state.mode = "comment" /\ c = "\n"), ~(state.mode = "string" /\ c = Quotation),
              state.mode = "code" => c \notin {Semicolon, Quotation, "(", ")"}
       PROVE  Lex(state, c) = state
  BY <1>10 DEF Lex
<1> HIDE DEF closed
<1> QED
  BY <1>3, <1>4, <1>5, <1>6, <1>7, <1>8, <1>9, <1>10

LEMMA LexedExists ==
  ASSUME NEW t, NEW m \in Nat
  PROVE  \E f : f = [n \in 0..m |-> IF n = 0 THEN LexStart ELSE Lex(f[n - 1], t[n])]
<1> DEFINE Def(f, n) == IF n = 0 THEN LexStart ELSE Lex(f[n - 1], t[n])
           Defines(f, k) == f = [n \in 0..k |-> Def(f, n)]
           Bad == {k \in Nat : ~ \E f : Defines(f, k)}
<1> SUFFICES ASSUME Bad # {}
             PROVE  FALSE
  OBVIOUS
<1>1. Bad \subseteq Nat
  OBVIOUS
<1>2. PICK k \in Bad : \A j \in Bad : k <= j
  <2> HIDE DEF Bad
  <2> QED
    BY <1>1, LeastElement
<1>3. k # 0
  <2> DEFINE start == [n \in 0..0 |-> LexStart]
  <2>1. Defines(start, 0)
    OBVIOUS
  <2> HIDE DEF Defines, start
  <2> QED
    BY <2>1
<1>4. k - 1 \in Nat /\ k - 1 \notin Bad
  <2>1. k \in Nat
    BY <1>1
  <2> HIDE DEF Bad
  <2> QED
    BY <2>1, <1>2, <1>3
<1>5. PICK f : Defines(f, k - 1)
  BY <1>4
<1> DEFINE g == [n \in 0..k |-> Def(f, n)]
<1>6. ASSUME NEW n \in 0..k
      PROVE  Def(f, n) = Def(g, n)
  <2>1. CASE n = 0
    BY <2>1
  <2>2. CASE n > 0
    <3>1. n - 1 \in 0..(k - 1)
      BY <2>2
    <3>2. f[n - 1] = Def(f, n - 1)
      BY <3>1, <1>5
    <3>3. g[n - 1] = Def(f, n - 1)
      BY <3>1
    <3> QED
      BY <3>2, <3>3, <2>2
  <2> QED
    BY <2>1, <2>2
<1>7. Defines(g, k)
  <2> HIDE DEF Def
  <2> QED
    BY <1>6
<1> QED
  <2>1. k \notin Bad
    <3> HIDE DEF Defines, g
    <3> QED
      BY <1>7
  <2> QED
    BY <2>1

LEMMA LexedSteps ==
  ASSUME NEW t \in Seq(Char)
  PROVE  /\ Lexed(t)[0] = LexStart
         /\ \A n \in 1..Len(t) : Lexed(t)[n] = Lex(Lexed(t)[n - 1], t[n])
<1> DEFINE Def(f, n) == IF n = 0 THEN LexStart ELSE Lex(f[n - 1], t[n])
           lexed == CHOOSE f : f = [n \in 0..Len(t) |-> Def(f, n)]
<1>1. Lexed(t) = lexed
  BY DEF Lexed
<1>2. \E f : f = [n \in 0..Len(t) |-> Def(f, n)]
  <2>1. Len(t) \in Nat
    OBVIOUS
  <2> QED
    BY <2>1, LexedExists, Zenon
<1>4. lexed = [n \in 0..Len(t) |-> Def(lexed, n)]
  <2> HIDE DEF Def
  <2> QED
    BY <1>2, Zenon
<1> HIDE DEF lexed
<1>3. \A n \in 0..Len(t) : lexed[n] = Def(lexed, n)
  BY <1>4
<1> QED
  BY <1>1, <1>3

LEMMA LexedType ==
  ASSUME NEW t \in Seq(Char), NEW n \in 0..Len(t)
  PROVE  Lexed(t)[n] \in LexState
<1> DEFINE Bad == {k \in 0..Len(t) : Lexed(t)[k] \notin LexState}
<1> SUFFICES ASSUME Bad # {}
             PROVE  FALSE
  OBVIOUS
<1>1. PICK k \in Bad : \A j \in Bad : k <= j
  <2>1. Bad \subseteq Nat
    OBVIOUS
  <2> HIDE DEF Bad
  <2> QED
    BY <2>1, LeastElement
<1>2. k # 0
  <2>1. LexStart \in LexState
    BY DEF LexStart, LexState
  <2> QED
    BY <2>1, LexedSteps
<1>3. k - 1 \in 0..Len(t) /\ k \in 1..Len(t)
  BY <1>2
<1>4. k - 1 \notin Bad
  <2> HIDE DEF Bad
  <2> QED
    BY <1>1, <1>3
<1>5. Lexed(t)[k] \in LexState
  BY <1>3, <1>4, LexedSteps, LexType
<1> QED
  BY <1>5

\* Over characters that mean nothing where they are, the lexer stays as it is.
Keeps(mode, chars) ==
  \A state \in LexState, c \in chars :
    state.mode = mode =>
      /\ Lex(state, c).mode = mode /\ Lex(state, c).depth = state.depth
      /\ state.closable => Lex(state, c).closable

IsRun(t, p, q, chars) == \A i \in (p + 1)..q : t[i] \in chars

LEMMA LexedOver ==
  ASSUME NEW t \in Seq(Char), NEW p \in 0..Len(t), NEW q \in p..Len(t), NEW Plain, NEW mode,
         Lexed(t)[p].mode = mode,
         IsRun(t, p, q, Plain),
         Keeps(mode, Plain)
  PROVE  /\ Lexed(t)[q].mode = mode /\ Lexed(t)[q].depth = Lexed(t)[p].depth
         /\ Lexed(t)[p].closable => Lexed(t)[q].closable
<1> DEFINE Same(n) == /\ Lexed(t)[n].mode = mode /\ Lexed(t)[n].depth = Lexed(t)[p].depth
                      /\ Lexed(t)[p].closable => Lexed(t)[n].closable
           Bad == {n \in p..q : ~Same(n)}
<1> SUFFICES ASSUME Bad # {}
             PROVE  FALSE
  OBVIOUS
<1>1. PICK n \in Bad : \A j \in Bad : n <= j
  <2>1. Bad \subseteq Nat
    OBVIOUS
  <2> HIDE DEF Bad
  <2> QED
    BY <2>1, LeastElement
<1>2. n # p
  OBVIOUS
<1>3. n - 1 \in p..q /\ n - 1 \in 0..Len(t) /\ n \in 1..Len(t) /\ n \in (p + 1)..q
  BY <1>2
<1>4. Same(n - 1)
  <2>1. n - 1 \notin Bad
    <3> HIDE DEF Bad
    <3> QED
      BY <1>1, <1>3
  <2> QED
    BY <1>3, <2>1
<1>5. Lexed(t)[n] = Lex(Lexed(t)[n - 1], t[n])
  BY <1>3, LexedSteps
<1>6. Lexed(t)[n - 1] \in LexState
  BY <1>3, LexedType
<1>7. Same(n)
  <2>1. t[n] \in Plain
    BY <1>3 DEF IsRun
  <2> QED
    BY <1>4, <1>5, <1>6, <2>1 DEF Keeps
<1> QED
  BY <1>7

-----------------------------------------------------------------------------
(* The C stack.                                                            *)

\* The loops of the main program, and the places where a function waits for
\* read_atom to return.
MainPlace == {"prompt", "file", "first_char", "loop", "peeked", "got"}
WaitPlace == {"got", "quoted", "element", "tail"}

\* Where read_list goes on behind a dot.
DotPlace == {"dot", "tail", "tail_space", "tail_closed"}

Place ==
  MainPlace \cup WaitPlace \cup DotPlace \cup OpenListPlace \cup
    {"read_atom", "dispatch", "comment", "quote", "string", "string_end", "number", "symbol",
     "empty", "closed"}

FrameOver(I) == [at : Place, items : I]

\* The place of the function that runs.
Here(f) == IF f = << >> THEN "done" ELSE Last(f).at

\* The main program at the bottom, functions that wait for read_atom above it.
StackOK(f) ==
  /\ \E I : f \in Seq(FrameOver(I))
  /\ \A i \in 1..(Len(f) - 1) : f[i].at \in WaitPlace
  /\ \A i \in 1..Len(f) : f[i].at \in MainPlace <=> i = 1

Dotless(f) == \A i \in 1..Len(f) : f[i].at \notin DotPlace

Opens(f) == Cardinality({i \in DOMAIN f : f[i].at \in OpenListPlace})
Weight(at) == IF at \in OpenListPlace THEN 1 ELSE 0

LEMMA WiderSeq ==
  ASSUME NEW S, NEW T, S \subseteq T, NEW f \in Seq(S)
  PROVE  f \in Seq(T)
<1>1. Len(f) \in Nat /\ \A i \in 1..Len(f) : f[i] \in T
  OBVIOUS
<1>2. f = [i \in 1..Len(f) |-> f[i]]
  OBVIOUS
<1> QED
  BY <1>1, <1>2, IsASeq

LEMMA FrontLast ==
  ASSUME NEW S, NEW f \in Seq(S), f # << >>
  PROVE  /\ Front(f) \in Seq(S) /\ Last(f) \in S
         /\ Len(f) \in Nat \ {0} /\ Len(Front(f)) = Len(f) - 1
         /\ \A i \in 1..(Len(f) - 1) : Front(f)[i] = f[i]
         /\ Last(f) = f[Len(f)]
         /\ f = Append(Front(f), Last(f))
<1>1. Len(f) \in Nat \ {0} /\ Last(f) = f[Len(f)] /\ Last(f) \in S
  BY DEF Last
<1>2. /\ Front(f) \in Seq(S) /\ Len(Front(f)) = Len(f) - 1
      /\ \A i \in 1..(Len(f) - 1) : Front(f)[i] = f[i]
  <2>1. Len(f) - 1 \in Nat /\ \A i \in 1..(Len(f) - 1) : f[i] \in S
    BY <1>1
  <2> DEFINE n == Len(f) - 1
             front == SubSeq(f, 1, n)
  <2>2. /\ front \in Seq(S) /\ Len(front) = IF 1 <= n THEN n - 1 + 1 ELSE 0
        /\ \A i \in 1..(n - 1 + 1) : front[i] = f[1 + i - 1]
    <3> HIDE DEF n
    <3> QED
      BY <2>1, SubSeqProperties DEF n
  <2>3. Front(f) = front
    BY DEF Front
  <2> HIDE DEF front
  <2> QED
    BY <1>1, <2>2, <2>3
<1>3. f = Append(Front(f), Last(f))
  <2>1. Append(Front(f), Last(f)) \in Seq(S) /\ Len(Append(Front(f), Last(f))) = Len(f)
    BY <1>1, <1>2
  <2>2. ASSUME NEW i \in 1..Len(f)
        PROVE  Append(Front(f), Last(f))[i] = f[i]
    BY <1>1, <1>2
  <2> QED
    BY <2>1, <2>2, SeqEqual
<1> QED
  BY <1>1, <1>2, <1>3

LEMMA OpensAppend ==
  ASSUME NEW S, NEW f \in Seq(S), NEW x \in S
  PROVE  Opens(Append(f, x)) = Opens(f) + Weight(x.at) /\ Opens(f) \in Nat
<1> DEFINE open == {i \in DOMAIN f : f[i].at \in OpenListPlace}
           g == Append(f, x)
           openG == {i \in DOMAIN g : g[i].at \in OpenListPlace}
<1>1. Len(f) \in Nat /\ DOMAIN f = 1..Len(f) /\ DOMAIN g = 1..(Len(f) + 1)
  OBVIOUS
<1>2. IsFiniteSet(open)
  <2>1. open \subseteq 1..Len(f) /\ IsFiniteSet(1..Len(f))
    BY <1>1, FS_Interval
  <2> QED
    BY <2>1, FS_Subset
<1>3. Cardinality(open) \in Nat /\ Len(f) + 1 \notin open
  BY <1>1, <1>2, FS_CardinalityType
<1>4. /\ \A i \in 1..Len(f) : g[i] = f[i]
      /\ g[Len(f) + 1] = x
  OBVIOUS
<1>5. CASE x.at \in OpenListPlace
  <2>1. openG = open \cup {Len(f) + 1}
    <3> HIDE DEF g
    <3> QED
      BY <1>1, <1>4, <1>5
  <2>2. Cardinality(openG) = Cardinality(open) + 1
    <3> HIDE DEF open, openG
    <3> QED
      BY <1>2, <1>3, <2>1, FS_AddElement
  <2> QED
    BY <1>3, <1>5, <2>2 DEF Opens, Weight
<1>6. CASE x.at \notin OpenListPlace
  <2>1. openG = open
    <3> HIDE DEF g
    <3> QED
      BY <1>1, <1>4, <1>6
  <2>2. Opens(g) = Cardinality(openG) /\ Opens(f) = Cardinality(open)
    BY DEF Opens
  <2> HIDE DEF open, openG
  <2> QED
    BY <1>3, <1>6, <2>1, <2>2 DEF Weight
<1> QED
  BY <1>5, <1>6

LEMMA OpensFront ==
  ASSUME NEW S, NEW f \in Seq(S), f # << >>
  PROVE  Opens(f) = Opens(Front(f)) + Weight(Last(f).at) /\ Opens(Front(f)) \in Nat
<1>1. Front(f) \in Seq(S) /\ Last(f) \in S /\ f = Append(Front(f), Last(f))
  BY FrontLast
<1>2. Opens(Append(Front(f), Last(f))) = Opens(Front(f)) + Weight(Last(f).at) /\ Opens(Front(f)) \in Nat
  BY <1>1, OpensAppend
<1> QED
  BY <1>1, <1>2

\* A function goes on at another place.
LEMMA MovesOn ==
  ASSUME StackOK(frames), frames # << >>, NEW at \in Place, NEW items,
         at \in MainPlace <=> Top.at \in MainPlace
  PROVE  LET g == Append(Front(frames), [at |-> at, items |-> items])
         IN  /\ StackOK(g) /\ g # << >> /\ Here(g) = at
             /\ Opens(g) = Opens(frames) - Weight(Top.at) + Weight(at)
             /\ Dotless(frames) /\ at \notin DotPlace => Dotless(g)
<1> DEFINE x == [at |-> at, items |-> items]
           g == Append(Front(frames), x)
<1>1. PICK I : frames \in Seq(FrameOver(I))
  BY DEF StackOK
<1> DEFINE J == I \cup {items}
<1>2. x \in FrameOver(J) /\ x.at = at
  BY DEF FrameOver
<1>3. FrameOver(I) \subseteq FrameOver(J)
  BY DEF FrameOver
<1>4. frames \in Seq(FrameOver(J))
  BY <1>1, <1>3, WiderSeq
<1> HIDE DEF J, x
<1>5. /\ Front(frames) \in Seq(FrameOver(J)) /\ Last(frames) \in FrameOver(J)
      /\ Len(frames) \in Nat \ {0} /\ Len(Front(frames)) = Len(frames) - 1
      /\ \A i \in 1..(Len(frames) - 1) : Front(frames)[i] = frames[i]
      /\ Last(frames) = frames[Len(frames)]
  BY <1>4, FrontLast
<1>6. /\ g \in Seq(FrameOver(J)) /\ Len(g) = Len(frames)
      /\ \A i \in 1..(Len(frames) - 1) : g[i] = frames[i]
      /\ g[Len(frames)] = x
  BY <1>2, <1>5
<1> HIDE DEF g
<1>7. StackOK(g)
  <2>1. \A i \in 1..(Len(g) - 1) : g[i].at \in WaitPlace
    BY <1>6 DEF StackOK
  <2>2. ASSUME NEW i \in 1..Len(g)
        PROVE  g[i].at \in MainPlace <=> i = 1
    <3>1. CASE i = Len(frames)
      <4>1. Top.at \in MainPlace <=> i = 1
        BY <1>5, <3>1 DEF StackOK, Top
      <4> QED
        BY <1>2, <1>6, <3>1, <4>1
    <3>2. CASE i # Len(frames)
      <4>1. i \in 1..(Len(frames) - 1)
        BY <1>5, <1>6, <3>2
      <4> QED
        BY <1>5, <1>6, <4>1 DEF StackOK
    <3> QED
      BY <3>1, <3>2
  <2> QED
    BY <1>6, <2>1, <2>2 DEF StackOK
<1>8. g # << >> /\ Here(g) = at
  BY <1>2, <1>5, <1>6 DEF Here, Last
<1>9. Opens(g) = Opens(frames) - Weight(Top.at) + Weight(at)
  <2>1. Opens(frames) = Opens(Front(frames)) + Weight(Top.at) /\ Opens(Front(frames)) \in Nat
    BY <1>4, OpensFront DEF Top
  <2>2. Opens(g) = Opens(Front(frames)) + Weight(at)
    BY <1>2, <1>5, OpensAppend DEF g
  <2> QED
    BY <2>1, <2>2 DEF Weight
<1>10. Dotless(frames) /\ at \notin DotPlace => Dotless(g)
  BY <1>2, <1>5, <1>6 DEF Dotless
<1> QED
  BY <1>7, <1>8, <1>9, <1>10 DEF g, x

\* A function calls read_atom.
LEMMA CallsReadAtom ==
  ASSUME StackOK(frames), frames # << >>, NEW at \in WaitPlace,
         at \in MainPlace <=> Top.at \in MainPlace
  PROVE  LET g == Append(Continued(at), Frame("read_atom"))
         IN  /\ StackOK(g) /\ g # << >> /\ Here(g) = "read_atom"
             /\ Opens(g) = Opens(frames) - Weight(Top.at) + Weight(at)
             /\ Dotless(frames) /\ at \notin DotPlace => Dotless(g)
<1> DEFINE f == Continued(at)
           x == Frame("read_atom")
           g == Append(f, x)
<1>1. PICK I : frames \in Seq(FrameOver(I))
  BY DEF StackOK
<1>2. Top \in FrameOver(I) /\ Top = Last(frames)
  BY <1>1, FrontLast DEF Top
<1>3. f = Append(Front(frames), [at |-> at, items |-> Top.items])
  BY <1>2 DEF Continued, FrameOver
<1>4. /\ StackOK(f) /\ f # << >> /\ Here(f) = at
      /\ Opens(f) = Opens(frames) - Weight(Top.at) + Weight(at)
      /\ Dotless(frames) /\ at \notin DotPlace => Dotless(f)
  <2>1. at \in Place
    BY DEF Place
  <2> QED
    BY <1>3, <2>1, MovesOn
<1> HIDE DEF f
<1>5. PICK K : f \in Seq(FrameOver(K))
  BY <1>4 DEF StackOK
<1> DEFINE J == K \cup {<< >>}
<1>6. x \in FrameOver(J) /\ x.at = "read_atom" /\ "read_atom" \notin MainPlace \cup DotPlace \cup OpenListPlace
  BY DEF FrameOver, Frame, Place, MainPlace, DotPlace, OpenListPlace
<1>7. FrameOver(K) \subseteq FrameOver(J)
  BY DEF FrameOver
<1>8. f \in Seq(FrameOver(J))
  BY <1>5, <1>7, WiderSeq
<1> HIDE DEF J, x
<1>9. /\ g \in Seq(FrameOver(J)) /\ Len(g) = Len(f) + 1 /\ Len(f) \in Nat \ {0}
      /\ \A i \in 1..Len(f) : g[i] = f[i]
      /\ g[Len(f) + 1] = x
  BY <1>4, <1>6, <1>8
<1>10. f[Len(f)].at = at
  BY <1>4 DEF Here, Last
<1>11. Opens(g) = Opens(f)
  <2>1. Opens(g) = Opens(f) + Weight(x.at) /\ Opens(f) \in Nat
    BY <1>6, <1>8, OpensAppend
  <2> QED
    BY <1>6, <2>1 DEF Weight
<1> HIDE DEF g
<1>12. StackOK(g)
  <2>1. \A i \in 1..Len(f) : g[i].at \in WaitPlace
    BY <1>4, <1>9, <1>10 DEF StackOK
  <2>2. \A i \in 1..Len(g) : g[i].at \in MainPlace <=> i = 1
    BY <1>4, <1>6, <1>9 DEF StackOK
  <2> QED
    BY <1>9, <2>1, <2>2 DEF StackOK
<1>13. g # << >> /\ Here(g) = "read_atom"
  BY <1>6, <1>9 DEF Here, Last
<1>14. Dotless(f) => Dotless(g)
  BY <1>6, <1>9 DEF Dotless
<1> QED
  BY <1>4, <1>11, <1>12, <1>13, <1>14 DEF g, f, x

\* A function of the reader returns.
LEMMA ReturnsAtom ==
  ASSUME StackOK(frames), frames # << >>, Top.at \notin MainPlace
  PROVE  LET g == Front(frames)
         IN  /\ StackOK(g) /\ g # << >> /\ Here(g) \in WaitPlace
             /\ Opens(g) = Opens(frames) - Weight(Top.at)
             /\ Dotless(frames) => Dotless(g)
<1>1. PICK I : frames \in Seq(FrameOver(I))
  BY DEF StackOK
<1> DEFINE g == Front(frames)
<1>2. /\ g \in Seq(FrameOver(I)) /\ Last(frames) \in FrameOver(I)
      /\ Len(frames) \in Nat \ {0} /\ Len(g) = Len(frames) - 1
      /\ \A i \in 1..(Len(frames) - 1) : g[i] = frames[i]
      /\ Last(frames) = frames[Len(frames)]
  BY <1>1, FrontLast
<1>3. Opens(frames) = Opens(g) + Weight(Top.at) /\ Opens(g) \in Nat
  BY <1>1, OpensFront DEF Top
<1> HIDE DEF g
<1>4. Len(frames) # 1
  BY <1>2 DEF StackOK, Top
<1>5. StackOK(g)
  BY <1>2 DEF StackOK
<1>6. g # << >> /\ Here(g) \in WaitPlace
  BY <1>2, <1>4 DEF StackOK, Here, Last
<1>7. Dotless(frames) => Dotless(g)
  BY <1>2 DEF Dotless
<1>8. Opens(g) = Opens(frames) - Weight(Top.at)
  BY <1>3 DEF Weight
<1> QED
  BY <1>5, <1>6, <1>7, <1>8 DEF g

-----------------------------------------------------------------------------
(* The invariant.                                                          *)

Called(op, tokens) == [op |-> op, tokens |-> tokens]

\* The call that a function at the place `at` waits for.
CallsAt(at, c) ==
  \/ at \in {"first_char", "peeked"} /\ c = Called("peek", {})
  \/ at = "dispatch" /\ c \in {Called("while", Space), Called("peek", {})}
  \/ at \in {"loop", "comment"} /\ c = Called("until", {"\n"})
  \/ at = "string_end" /\ c = Called("until", {Quotation})
  \/ at \in {"first", "next", "tail_space"} /\ c = Called("while", Space)
  \/ at = "number" /\ c = Called("while", Digits)
  \/ at = "symbol" /\ c = Called("while", SymbolChar)
  \/ at = "open" /\ c = Called("one_of", {"("})
  \/ at = "quote" /\ c = Called("one_of", {"'"})
  \/ at = "string" /\ c = Called("one_of", {Quotation})
  \/ at \in {"empty", "closed", "tail_closed"} /\ c = Called("one_of", {")"})
  \/ at = "dot" /\ c = Called("one_of", {"."})

ReaderTypeOK ==
  /\ text \in Seq(Char)
  /\ position \in 0..Len(text)
  /\ consumed \in 0..position
  /\ call # Idle => call \in Call /\ CallsAt(Here(frames), call)
  /\ StackOK(frames)

NextChar == CharAt(position + 1)

\* What is known about the next character at the place `at`: it has been peeked
\* at and has led there.
NextKnown(at) ==
  /\ call = Idle /\ at \in {"first_char", "peeked", "dispatch", "first", "next"} =>
       result.char = NextChar
  /\ call # Idle =>
       /\ at \in {"open", "quote", "string", "empty", "closed", "dot"} => NextChar \in call.tokens
       /\ at = "number" => NextChar \in Digits
       /\ at = "comment" => NextChar = Semicolon

\* Where a token starts, nothing is left over from before.
TokenStarts(at) ==
  /\ call = Idle /\ at \in {"dispatch", "comment", "string"} => consumed = position
  /\ call # Idle /\ at \in {"string", "string_end", "number", "symbol"} => consumed = position
  /\ call = Called("peek", {}) /\ at = "dispatch" => consumed = position

\* In a string the lexer is where the reader is.
Mode(at) ==
  IF at = (IF call = Idle THEN "string" ELSE "string_end") THEN "string" ELSE "code"

\* Parentheses that the reader has seen, but is still about to consume.
Ahead(at) ==
  IF call = Idle THEN 0
  ELSE IF at = "open" THEN 1
  ELSE IF at \in {"empty", "closed"} THEN -1
  ELSE 0

Follows(open) == open = Depth \/ (position = Len(text) /\ open < Depth)

FollowsText(at) ==
  /\ Dotless(frames)
  /\ Lexed(text)[position].mode = Mode(at)
  /\ Lexed(text)[position].closable
  /\ Follows(Opens(frames) - Ahead(at))
  /\ at \in {"file", "first_char"} => position = 0
  /\ at = "loop" => call = Idle

ReaderInv ==
  /\ ReaderTypeOK
  /\ NextKnown(Here(frames))
  /\ TokenStarts(Here(frames))
  /\ TokensClean
  /\ IsPlain => FollowsText(Here(frames))

-----------------------------------------------------------------------------
(* Steps of the reader.                                                    *)

\* The call that starts at `at` is about a parenthesis, or opens and closes no
\* list.
Balances(from, at) ==
  Weight(at) - (IF at = "open" THEN 1 ELSE IF at \in {"empty", "closed"} THEN -1 ELSE 0)
    = Weight(from)

\* What a call of the scanner must find where it starts, besides being the one
\* that belongs to the place.
CallFits(from, at, c) ==
  /\ at \in Place /\ (at \in MainPlace <=> from \in MainPlace)
  /\ c \in Call /\ CallsAt(at, c)
  /\ at \in {"open", "quote", "string", "empty", "closed", "dot"} => NextChar \in c.tokens
  /\ at = "number" => NextChar \in Digits
  /\ at = "comment" => NextChar = Semicolon
  /\ at \in {"string", "string_end", "number", "symbol"} => consumed = position
  /\ at = "dispatch" /\ c = Called("peek", {}) => consumed = position
  /\ IsPlain =>
       /\ at \notin DotPlace
       /\ from = "string" <=> at = "string_end"
       /\ Balances(from, at)
       /\ at \in {"file", "first_char"} => position = 0
       /\ at # "loop"

LEMMA CallStarts ==
  ASSUME ReaderInv, NEW from, At(from), NEW at, NEW op, NEW tokens,
         CallFits(from, at, Called(op, tokens)), Begin(Called(op, tokens)),
         NEW items, frames' = Append(Front(frames), [at |-> at, items |-> items])
  PROVE  ReaderInv'
<1> DEFINE c == Called(op, tokens)
<1>1. call = Idle /\ frames # << >> /\ Top.at = from /\ Here(frames) = from
  BY DEF At, Here, Top
<1>2. /\ StackOK(frames') /\ frames' # << >> /\ Here(frames') = at
      /\ Opens(frames') = Opens(frames) - Weight(from) + Weight(at)
      /\ Dotless(frames) /\ at \notin DotPlace => Dotless(frames')
  <2>1. StackOK(frames) /\ at \in Place /\ (at \in MainPlace <=> Top.at \in MainPlace)
    BY <1>1 DEF ReaderInv, ReaderTypeOK, CallFits
  <2> QED
    BY <1>1, <2>1, MovesOn
<1>3. call' = c /\ c # Idle /\ c \in Call /\ CallsAt(at, c)
  <2>1. c \in Call /\ CallsAt(at, c) /\ call' = c
    BY DEF CallFits, Begin
  <2>2. c.op # "idle"
    BY <2>1 DEF Call
  <2> QED
    BY <2>1, <2>2 DEF Idle
<1>4. UNCHANGED <<text, position, consumed, result>>
  BY DEF Begin
<1> HIDE DEF c
<1>5. ReaderTypeOK'
  BY <1>2, <1>3, <1>4 DEF ReaderInv, ReaderTypeOK
<1>6. NextChar' = NextChar
  BY <1>4 DEF NextChar, CharAt
<1>7. NextKnown(Here(frames))'
  BY <1>2, <1>3, <1>6 DEF NextKnown, CallFits, c
<1>8. TokenStarts(Here(frames))'
  BY <1>2, <1>3, <1>4 DEF TokenStarts, CallFits, c
<1>9. TokensClean'
  BY <1>3 DEF TokensClean
<1>10. ASSUME IsPlain'
       PROVE  FollowsText(Here(frames))'
  <2>1. IsPlain
    BY <1>4, <1>10 DEF IsPlain
  <2>2. FollowsText(from)
    BY <1>1, <2>1 DEF ReaderInv
  <2>3. Opens(frames') - Ahead(at)' = Opens(frames) - Ahead(from)
    <3>1. Ahead(from) = 0
      BY <1>1 DEF Ahead
    <3>2. Weight(at) - Ahead(at)' = Weight(from)
      BY <1>3, <2>1 DEF Ahead, CallFits, Balances
    <3>3. Opens(frames) \in Nat
      <4>1. PICK I : frames \in Seq(FrameOver(I))
        BY DEF ReaderInv, ReaderTypeOK, StackOK
      <4> QED
        BY <1>1, <4>1, OpensFront DEF Weight
    <3> QED
      BY <1>2, <3>1, <3>2, <3>3 DEF Ahead, Weight
  <2>4. Mode(at)' = Mode(from)
    BY <1>1, <1>3, <2>1 DEF Mode, CallFits
  <2>5. Depth' = Depth /\ Lexed(text)' = Lexed(text)
    BY <1>4 DEF Depth
  <2>6. Follows(Opens(frames) - Ahead(at))'
    BY <1>4, <2>2, <2>3, <2>5 DEF FollowsText, Follows
  <2> QED
    BY <1>2, <1>3, <1>4, <2>1, <2>2, <2>4, <2>5, <2>6 DEF FollowsText, CallFits
<1> QED
  BY <1>5, <1>7, <1>8, <1>9, <1>10 DEF ReaderInv

LEMMA ReadStarts ==
  ASSUME ReaderInv, NEW from, At(from), NEW at \in WaitPlace, Read(at),
         at \in MainPlace <=> from \in MainPlace,
         IsPlain => at \notin DotPlace /\ from # "string" /\ Weight(at) = Weight(from)
  PROVE  ReaderInv'
<1>1. call = Idle /\ frames # << >> /\ Top.at = from /\ Here(frames) = from
  BY DEF At, Here, Top
<1>2. /\ StackOK(frames') /\ frames' # << >> /\ Here(frames') = "read_atom"
      /\ Opens(frames') = Opens(frames) - Weight(from) + Weight(at)
      /\ Dotless(frames) /\ at \notin DotPlace => Dotless(frames')
  <2>1. StackOK(frames) /\ (at \in MainPlace <=> Top.at \in MainPlace)
    BY <1>1 DEF ReaderInv, ReaderTypeOK
  <2> QED
    BY <1>1, <2>1, CallsReadAtom DEF Read
<1>3. UNCHANGED <<text, position, consumed, call, result>>
  BY DEF Read, textVars
<1>4. ReaderTypeOK'
  BY <1>1, <1>2, <1>3 DEF ReaderInv, ReaderTypeOK
<1>5. NextKnown(Here(frames))' /\ TokenStarts(Here(frames))'
  BY <1>1, <1>2, <1>3 DEF NextKnown, TokenStarts, Called, Idle
<1>6. TokensClean'
  <2>1. Top'.at = "read_atom"
    BY <1>2 DEF Top, Here
  <2> QED
    BY <2>1 DEF TokensClean
<1>7. ASSUME IsPlain'
      PROVE  FollowsText(Here(frames))'
  <2>1. IsPlain
    BY <1>3, <1>7 DEF IsPlain
  <2>2. FollowsText(from)
    BY <1>1, <2>1 DEF ReaderInv
  <2>3. Opens(frames') = Opens(frames) /\ Opens(frames) \in Nat
    <3>1. PICK I : frames \in Seq(FrameOver(I))
      BY DEF ReaderInv, ReaderTypeOK, StackOK
    <3>2. Opens(frames) \in Nat
      BY <1>1, <3>1, OpensFront DEF Weight
    <3> QED
      BY <1>2, <2>1, <3>2 DEF Weight
  <2>4. Mode("read_atom")' = Mode(from) /\ Ahead("read_atom")' = 0 /\ Ahead(from) = 0
    BY <1>1, <1>3, <2>1 DEF Mode, Ahead
  <2>5. Depth' = Depth /\ Lexed(text)' = Lexed(text)
    BY <1>3 DEF Depth
  <2>6. Follows(Opens(frames) - Ahead("read_atom"))'
    BY <1>3, <2>2, <2>3, <2>4, <2>5 DEF FollowsText, Follows
  <2> QED
    BY <1>2, <1>3, <2>1, <2>2, <2>4, <2>5, <2>6 DEF FollowsText
<1> QED
  BY <1>4, <1>5, <1>6, <1>7 DEF ReaderInv

\* A list that is not closed returns at the end of the text only.
LEMMA AtomReturns ==
  ASSUME ReaderInv, NEW from, At(from), from \notin MainPlace \cup {"string"},
         NEW atom, ReturnAtom(atom),
         IsPlain /\ from \in OpenListPlace => position = Len(text)
  PROVE  ReaderInv'
<1>1. call = Idle /\ frames # << >> /\ Top.at = from /\ Here(frames) = from
  BY DEF At, Here, Top
<1>2. /\ StackOK(frames') /\ frames' # << >> /\ Here(frames') \in WaitPlace
      /\ Opens(frames') = Opens(frames) - Weight(from)
      /\ Dotless(frames) => Dotless(frames')
  <2>1. StackOK(frames) /\ Top.at \notin MainPlace
    BY <1>1 DEF ReaderInv, ReaderTypeOK
  <2> QED
    BY <1>1, <2>1, ReturnsAtom DEF ReturnAtom
<1>3. UNCHANGED <<text, position, consumed, call, result>>
  BY DEF ReturnAtom, textVars
<1>4. ReaderTypeOK'
  BY <1>1, <1>2, <1>3 DEF ReaderInv, ReaderTypeOK
<1>5. NextKnown(Here(frames))' /\ TokenStarts(Here(frames))'
  BY <1>1, <1>2, <1>3 DEF NextKnown, TokenStarts, Called, Idle, WaitPlace
<1>6. TokensClean'
  <2>1. Top'.at \in WaitPlace
    BY <1>2 DEF Top, Here
  <2> QED
    BY <2>1 DEF TokensClean, WaitPlace
<1>7. ASSUME IsPlain'
      PROVE  FollowsText(Here(frames))'
  <2>0. PICK at \in WaitPlace : at = Here(frames')
    BY <1>2
  <2>1. IsPlain
    BY <1>3, <1>7 DEF IsPlain
  <2>2. FollowsText(from)
    BY <1>1, <2>1 DEF ReaderInv
  <2>3. Opens(frames) \in Nat
    <3>1. PICK I : frames \in Seq(FrameOver(I))
      BY DEF ReaderInv, ReaderTypeOK, StackOK
    <3> QED
      BY <1>1, <3>1, OpensFront DEF Weight
  <2>4. Mode(at)' = Mode(from) /\ Ahead(at)' = 0 /\ Ahead(from) = 0
    BY <1>1, <1>3 DEF Mode, Ahead, WaitPlace
  <2>5. Depth' = Depth /\ Lexed(text)' = Lexed(text)
    BY <1>3 DEF Depth
  <2>6. Follows(Opens(frames)) /\ Depth \in Int
    <3>1. Lexed(text)[position] \in LexState
      BY LexedType DEF ReaderInv, ReaderTypeOK
    <3> QED
      BY <2>2, <2>3, <2>4, <3>1 DEF FollowsText, Depth, LexState
  <2>7. Follows(Opens(frames) - Ahead(at))'
    <3>1. CASE from \in OpenListPlace
      <4>1. position = Len(text) /\ Opens(frames') < Depth
        BY <1>2, <2>1, <2>3, <2>6, <3>1 DEF Weight, Follows
      <4> QED
        BY <1>2, <1>3, <2>3, <2>4, <2>5, <4>1 DEF Follows, Weight
    <3>2. CASE from \notin OpenListPlace
      BY <1>2, <1>3, <2>3, <2>4, <2>5, <2>6, <3>2 DEF Follows, Weight
    <3> QED
      BY <3>1, <3>2
  <2>8. at \notin {"file", "first_char", "loop"}
    BY DEF WaitPlace
  <2> QED
    BY <1>2, <1>3, <2>0, <2>2, <2>4, <2>5, <2>7, <2>8 DEF FollowsText
<1> QED
  BY <1>4, <1>5, <1>6, <1>7 DEF ReaderInv

LEMMA CallsOfScanner ==
  /\ \A op, tokens : Called(op, tokens).op = op /\ Called(op, tokens).tokens = tokens
  /\ Called("peek", {}) \in Call
  /\ \A tokens \in {Space, Digits, SymbolChar} : Called("while", tokens) \in Call
  /\ \A char \in {"\n", Quotation} : Called("until", {char}) \in Call
  /\ \A char \in {"(", ")", "'", Quotation, "."} : Called("one_of", {char}) \in Call
<1>1. Space \subseteq Char /\ Digits \subseteq Char /\ SymbolChar \subseteq Char
  BY CharactersAssumption DEF SymbolChar
<1>2. {"\n", "(", ")", "'", Quotation, "."} \subseteq Char
  BY CharactersAssumption DEF Space
<1> QED
  BY <1>1, <1>2 DEF Call, Called

LEMMA PlacesOfCalls ==
  /\ \A at \in {"first_char", "peeked", "dispatch"} : CallsAt(at, Called("peek", {}))
  /\ \A at \in {"loop", "comment"} : CallsAt(at, Called("until", {"\n"}))
  /\ CallsAt("string_end", Called("until", {Quotation}))
  /\ \A at \in {"dispatch", "first", "next", "tail_space"} : CallsAt(at, Called("while", Space))
  /\ CallsAt("number", Called("while", Digits))
  /\ CallsAt("symbol", Called("while", SymbolChar))
  /\ CallsAt("open", Called("one_of", {"("}))
  /\ CallsAt("quote", Called("one_of", {"'"}))
  /\ CallsAt("string", Called("one_of", {Quotation}))
  /\ \A at \in {"empty", "closed", "tail_closed"} : CallsAt(at, Called("one_of", {")"}))
  /\ CallsAt("dot", Called("one_of", {"."}))
BY DEF CallsAt

LEMMA BalanceOfCalls ==
  /\ Balances("file", "first_char") /\ Balances("first_char", "peeked")
  /\ Balances("loop", "peeked")
  /\ Balances("read_atom", "dispatch") /\ Balances("comment", "dispatch")
  /\ Balances("string", "string_end")
  /\ \A at \in {"comment", "open", "quote", "string", "number", "symbol"} : Balances("dispatch", at)
  /\ Balances("open", "first") /\ Balances("element", "next")
  /\ Balances("first", "empty") /\ Balances("next", "closed")
BY DEF Balances, Weight, OpenListPlace

\* Every place but those of the main program is one of the reader.
LEMMA PlacesOfReader ==
  /\ {"first_char", "loop", "peeked"} \subseteq MainPlace
  /\ {"read_atom", "dispatch", "comment", "quote", "string", "string_end", "number", "symbol",
      "open", "first", "empty", "element", "next", "closed", "dot", "tail", "tail_space",
      "tail_closed", "quoted"} \subseteq Place \ MainPlace
  /\ MainPlace \subseteq Place
  /\ "file" \in MainPlace /\ "first_char" \in MainPlace
  /\ \A at \in Place : at \notin {"dot", "tail", "tail_space", "tail_closed"} => at \notin DotPlace
BY DEF Place, MainPlace, WaitPlace, DotPlace, OpenListPlace

LEMMA ScanStarts ==
  ASSUME ReaderInv, NEW from, At(from), NEW at, NEW op, NEW tokens,
         Scan(op, tokens, at), CallFits(from, at, Called(op, tokens))
  PROVE  ReaderInv'
<1>1. Begin(Called(op, tokens))
  BY DEF Scan, Called
<1>2. frames' = Append(Front(frames), [at |-> at, items |-> Top.items])
  <2>1. PICK I : frames \in Seq(FrameOver(I))
    BY DEF ReaderInv, ReaderTypeOK, StackOK
  <2>2. Top \in FrameOver(I)
    BY <2>1, FrontLast DEF Top, At
  <2> QED
    BY <2>2 DEF Scan, Continued, FrameOver
<1> QED
  BY <1>1, <1>2, CallStarts

\* What the places and the next character tell.
LEMMA PeekedAt ==
  ASSUME ReaderInv, NEW from, At(from)
  PROVE  /\ call = Idle /\ frames # << >> /\ Top.at = from /\ Here(frames) = from
         /\ NextKnown(from) /\ TokenStarts(from) /\ (IsPlain => FollowsText(from))
  BY DEF At, Here, Top, ReaderInv

LEMMA AtEnd ==
  ASSUME ReaderInv, NextChar = EOF
  PROVE  position = Len(text)
<1>1. text \in Seq(Char) /\ position \in 0..Len(text)
  BY DEF ReaderInv, ReaderTypeOK
<1>2. CASE position < Len(text)
  <2>1. position + 1 \in 1..Len(text) /\ text[position + 1] \in Char
    BY <1>1, <1>2
  <2> QED
    BY <1>1, <2>1, CharAssumption DEF NextChar, CharAt
<1> QED
  BY <1>1, <1>2

LEMMA MainLoopInv ==
  ASSUME ReaderInv,
         Prompt \/ File \/ FirstChar \/ Loop \/ Peeked \/ Finish \/ Got
  PROVE  ReaderInv'
<1>0. /\ {"prompt", "peeked", "got"} \subseteq MainPlace /\ "got" \in WaitPlace \ DotPlace
      /\ \A at \in MainPlace : Weight(at) = 0
  BY DEF MainPlace, WaitPlace, DotPlace, Weight, OpenListPlace
<1>1. CASE Prompt
  BY <1>0, <1>1, ReadStarts DEF Prompt
<1>2. CASE File
  <2>1. CallFits("file", "first_char", Called("peek", {}))
    <3>1. IsPlain => position = 0
      BY <1>2, PeekedAt DEF File, FollowsText
    <3> QED
      BY <3>1, CallsOfScanner, PlacesOfCalls, BalanceOfCalls, PlacesOfReader DEF CallFits
  <2> QED
    BY <1>2, <2>1, ScanStarts DEF File
<1>3. CASE FirstChar
  <2>1. At("first_char") /\ result.char = NextChar
    BY <1>3, PeekedAt DEF FirstChar, NextKnown
  <2>2. CASE NextIs({"#"})
    <3>1. Scan("until", {"\n"}, "loop")
      BY <1>3, <2>2 DEF FirstChar
    <3>2. ~IsPlain
      <4>1. ASSUME IsPlain
            PROVE  FALSE
        <5>1. position = 0 /\ text \in Seq(Char)
          BY <2>1, <4>1, PeekedAt DEF FollowsText, ReaderInv, ReaderTypeOK
        <5>2. CharAt(1) = "#" /\ "#" # EOF
          <6>1. position + 1 = 1 /\ result.char = "#"
            BY <2>2, <5>1 DEF NextIs
          <6>2. "#" \in Char
            BY CharactersAssumption
          <6> QED
            BY <2>1, <6>1, <6>2, CharAssumption DEF NextChar
        <5>3. text # << >> /\ Head(text) = "#"
          BY <5>1, <5>2 DEF CharAt
        <5> QED
          BY <4>1, <5>3 DEF IsPlain
      <4> QED
        BY <4>1
    <3>3. CallFits("first_char", "loop", Called("until", {"\n"}))
      BY <3>2, CallsOfScanner, PlacesOfCalls, PlacesOfReader DEF CallFits
    <3> QED
      BY <2>1, <3>1, <3>3, ScanStarts
  <2>3. CASE ~NextIs({"#"})
    <3>1. Scan("peek", {}, "peeked")
      BY <1>3, <2>3 DEF FirstChar
    <3>2. CallFits("first_char", "peeked", Called("peek", {}))
      BY CallsOfScanner, PlacesOfCalls, BalanceOfCalls, PlacesOfReader DEF CallFits
    <3> QED
      BY <2>1, <3>1, <3>2, ScanStarts
  <2> QED
    BY <2>2, <2>3
<1>4. CASE Loop
  <2>1. CallFits("loop", "peeked", Called("peek", {}))
    BY CallsOfScanner, PlacesOfCalls, BalanceOfCalls, PlacesOfReader DEF CallFits
  <2> QED
    BY <1>4, <2>1, ScanStarts DEF Loop
<1>5. CASE Peeked
  BY <1>0, <1>5, ReadStarts DEF Peeked
<1>6. CASE Finish
  <2>1. At("peeked") /\ frames' = << >> /\ UNCHANGED textVars
    BY <1>6 DEF Finish
  <2>2. /\ call = Idle /\ frames # << >> /\ Top.at = "peeked" /\ Here(frames) = "peeked"
        /\ (IsPlain => FollowsText("peeked"))
    BY <2>1, PeekedAt
  <2>3. StackOK(frames') /\ Opens(frames') = 0 /\ Here(frames') = "done" /\ Dotless(frames')
    <3>1. << >> \in Seq(FrameOver({})) /\ Len(<< >>) = 0
      OBVIOUS
    <3>2. {i \in DOMAIN << >> : << >>[i].at \in OpenListPlace} = {}
      OBVIOUS
    <3> QED
      BY <2>1, <3>1, <3>2, FS_EmptySet DEF StackOK, Opens, Here, Dotless
  <2>4. Opens(frames) = 0
    <3>1. PICK I : frames \in Seq(FrameOver(I))
      BY DEF ReaderInv, ReaderTypeOK, StackOK
    <3>2. /\ Front(frames) \in Seq(FrameOver(I)) /\ Len(frames) \in Nat \ {0}
          /\ Last(frames) = frames[Len(frames)] /\ Len(Front(frames)) = Len(frames) - 1
      BY <2>2, <3>1, FrontLast
    <3>3. Len(frames) = 1
      BY <1>0, <2>2, <3>2 DEF ReaderInv, ReaderTypeOK, StackOK, Top
    <3>4. Front(frames) = << >>
      BY <3>2, <3>3
    <3>5. Opens(frames) = Opens(Front(frames)) + Weight(Top.at)
      BY <2>2, <3>1, OpensFront DEF Top
    <3> QED
      BY <1>0, <2>1, <2>2, <2>3, <3>4, <3>5
  <2>5. UNCHANGED <<text, position, consumed, call, result>>
    BY <2>1 DEF textVars
  <2>6. ReaderTypeOK'
    BY <2>2, <2>3, <2>5 DEF ReaderInv, ReaderTypeOK
  <2>7. NextKnown(Here(frames))' /\ TokenStarts(Here(frames))'
    BY <2>2, <2>3, <2>5 DEF NextKnown, TokenStarts, Called, Idle
  <2>8. TokensClean'
    BY <2>1 DEF TokensClean
  <2>9. ASSUME IsPlain'
        PROVE  FollowsText(Here(frames))'
    <3>1. FollowsText("peeked") /\ Depth' = Depth
      BY <2>2, <2>5, <2>9 DEF IsPlain, Depth
    <3> QED
      BY <2>2, <2>3, <2>4, <2>5, <3>1 DEF FollowsText, Follows, Mode, Ahead
  <2> QED
    BY <2>6, <2>7, <2>8, <2>9 DEF ReaderInv
<1>7. CASE Got
  <2>1. At("got") /\ frames' = Continued("loop") /\ UNCHANGED textVars
    BY <1>7 DEF Got
  <2>2. /\ call = Idle /\ frames # << >> /\ Top.at = "got" /\ Here(frames) = "got"
        /\ (IsPlain => FollowsText("got"))
    BY <2>1, PeekedAt
  <2>3. PICK I : frames \in Seq(FrameOver(I))
    BY DEF ReaderInv, ReaderTypeOK, StackOK
  <2>4. Continued("loop") = Append(Front(frames), [at |-> "loop", items |-> Top.items])
    <3>1. Top \in FrameOver(I)
      BY <2>2, <2>3, FrontLast DEF Top
    <3> QED
      BY <3>1 DEF Continued, FrameOver
  <2>5. /\ StackOK(frames') /\ Here(frames') = "loop" /\ Opens(frames') = Opens(frames)
        /\ Top'.at = "loop"
        /\ Dotless(frames) => Dotless(frames')
    <3>1. StackOK(frames) /\ "loop" \in Place \ DotPlace /\ "loop" \in MainPlace
      BY PlacesOfReader DEF ReaderInv, ReaderTypeOK
    <3>2. Opens(frames) \in Nat
      BY <2>2, <2>3, OpensFront DEF Weight
    <3>3. frames' = Append(Front(frames), [at |-> "loop", items |-> Top.items])
      BY <2>1, <2>4
    <3>4. /\ StackOK(frames') /\ frames' # << >> /\ Here(frames') = "loop"
          /\ Opens(frames') = Opens(frames) - Weight("got") + Weight("loop")
          /\ Dotless(frames) => Dotless(frames')
      BY <1>0, <2>2, <3>1, <3>3, MovesOn
    <3>5. Weight("got") = 0 /\ Weight("loop") = 0
      BY <1>0, <3>1
    <3>6. Top'.at = "loop"
      BY <3>4 DEF Top, Here
    <3> QED
      BY <3>2, <3>4, <3>5, <3>6
  <2>6. UNCHANGED <<text, position, consumed, call, result>>
    BY <2>1 DEF textVars
  <2>7. ReaderTypeOK'
    BY <2>2, <2>5, <2>6 DEF ReaderInv, ReaderTypeOK
  <2>8. NextKnown(Here(frames))' /\ TokenStarts(Here(frames))'
    BY <2>2, <2>5, <2>6 DEF NextKnown, TokenStarts, Called, Idle
  <2>9. TokensClean'
    BY <2>5 DEF TokensClean
  <2>10. ASSUME IsPlain'
        PROVE  FollowsText(Here(frames))'
    <3>1. FollowsText("got") /\ Depth' = Depth
      BY <2>2, <2>6, <2>10 DEF IsPlain, Depth
    <3> QED
      BY <2>2, <2>5, <2>6, <3>1 DEF FollowsText, Follows, Mode, Ahead
  <2> QED
    BY <2>7, <2>8, <2>9, <2>10 DEF ReaderInv
<1> QED
  BY <1>1, <1>2, <1>3, <1>4, <1>5, <1>6, <1>7

LEMMA ReadAtomInv ==
  ASSUME ReaderInv,
         SkipSpace \/ Dispatch \/ Comment \/ Quote \/ Quoted
           \/ String \/ StringEnd \/ Number \/ Symbol
  PROVE  ReaderInv'
<1>0. /\ \A at \in {"dispatch", "quoted", "string_end", "number", "symbol"} :
           at \notin MainPlace \cup {"string"} /\ at \notin OpenListPlace
      /\ "quoted" \in WaitPlace \ DotPlace
      /\ Weight("quote") = 0 /\ Weight("quoted") = 0
      /\ "quoted" \notin MainPlace /\ "quote" \notin MainPlace
  BY DEF MainPlace, WaitPlace, DotPlace, OpenListPlace, Weight
<1>1. CASE SkipSpace
  <2>1. Called("while", Space) # Called("peek", {})
    <3>1. Called("while", Space).op = "while" /\ Called("peek", {}).op = "peek"
      BY DEF Called
    <3> QED
      BY <3>1
  <2>2. CallFits("read_atom", "dispatch", Called("while", Space))
    BY <2>1, CallsOfScanner, PlacesOfCalls, BalanceOfCalls, PlacesOfReader DEF CallFits
  <2> QED
    BY <1>1, <2>2, ScanStarts DEF SkipSpace
<1>2. CASE Dispatch
  <2>1. At("dispatch") /\ result.char = NextChar /\ consumed = position
    BY <1>2, PeekedAt DEF Dispatch, NextKnown, TokenStarts
  <2>2. CASE ReturnAtom(Nil)
    BY <1>0, <2>1, <2>2, AtomReturns
  <2>3. CASE NextIs({Semicolon}) /\ Scan("until", {"\n"}, "comment")
    <3>1. CallFits("dispatch", "comment", Called("until", {"\n"}))
      BY <2>1, <2>3, CallsOfScanner, PlacesOfCalls, BalanceOfCalls, PlacesOfReader
      DEF CallFits, NextIs
    <3> QED
      BY <2>1, <2>3, <3>1, ScanStarts
  <2>4. CASE NextIs({"("}) /\ Scan("one_of", {"("}, "open")
    <3>1. CallFits("dispatch", "open", Called("one_of", {"("}))
      BY <2>1, <2>4, CallsOfScanner, PlacesOfCalls, BalanceOfCalls, PlacesOfReader
      DEF CallFits, NextIs
    <3> QED
      BY <2>1, <2>4, <3>1, ScanStarts
  <2>5. CASE NextIs({"'"}) /\ Scan("one_of", {"'"}, "quote")
    <3>1. CallFits("dispatch", "quote", Called("one_of", {"'"}))
      BY <2>1, <2>5, CallsOfScanner, PlacesOfCalls, BalanceOfCalls, PlacesOfReader
      DEF CallFits, NextIs
    <3> QED
      BY <2>1, <2>5, <3>1, ScanStarts
  <2>6. CASE NextIs({Quotation}) /\ Scan("one_of", {Quotation}, "string")
    <3>1. CallFits("dispatch", "string", Called("one_of", {Quotation}))
      BY <2>1, <2>6, CallsOfScanner, PlacesOfCalls, BalanceOfCalls, PlacesOfReader
      DEF CallFits, NextIs
    <3> QED
      BY <2>1, <2>6, <3>1, ScanStarts
  <2>7. CASE NextIs(Digits) /\ Scan("while", Digits, "number")
    <3>1. CallFits("dispatch", "number", Called("while", Digits))
      BY <2>1, <2>7, CallsOfScanner, PlacesOfCalls, BalanceOfCalls, PlacesOfReader
      DEF CallFits, NextIs
    <3> QED
      BY <2>1, <2>7, <3>1, ScanStarts
  <2>8. CASE Scan("while", SymbolChar, "symbol")
    <3>1. CallFits("dispatch", "symbol", Called("while", SymbolChar))
      BY <2>1, CallsOfScanner, PlacesOfCalls, BalanceOfCalls, PlacesOfReader DEF CallFits
    <3> QED
      BY <2>1, <2>8, <3>1, ScanStarts
  <2> QED
    BY <1>2, <2>2, <2>3, <2>4, <2>5, <2>6, <2>7, <2>8 DEF Dispatch
<1>3. CASE Comment
  <2>1. CallFits("comment", "dispatch", Called("peek", {}))
    BY <1>3, PeekedAt, CallsOfScanner, PlacesOfCalls, BalanceOfCalls, PlacesOfReader
    DEF Comment, CallFits, TokenStarts
  <2> QED
    BY <1>3, <2>1, ScanStarts DEF Comment
<1>4. CASE Quote
  BY <1>0, <1>4, ReadStarts DEF Quote
<1>5. CASE Quoted
  BY <1>0, <1>5, AtomReturns DEF Quoted
<1>6. CASE String
  <2>1. CallFits("string", "string_end", Called("until", {Quotation}))
    BY <1>6, PeekedAt, CallsOfScanner, PlacesOfCalls, BalanceOfCalls, PlacesOfReader
    DEF String, CallFits, TokenStarts
  <2> QED
    BY <1>6, <2>1, ScanStarts DEF String
<1>7. CASE StringEnd
  BY <1>0, <1>7, AtomReturns DEF StringEnd
<1>8. CASE Number
  BY <1>0, <1>8, AtomReturns DEF Number
<1>9. CASE Symbol
  BY <1>0, <1>9, AtomReturns DEF Symbol
<1> QED
  BY <1>1, <1>2, <1>3, <1>4, <1>5, <1>6, <1>7, <1>8, <1>9

LEMMA ReadListInv ==
  ASSUME ReaderInv,
         Open \/ First \/ Empty \/ Element \/ NextElement \/ Closed
           \/ Dot \/ DottedEnd \/ TailSpace \/ TailClosed
  PROVE  ReaderInv'
<1>0. /\ \A at \in {"empty", "closed", "tail_closed", "next"} : at \notin MainPlace \cup {"string"}
      /\ \A at \in {"empty", "closed", "tail_closed"} : at \notin OpenListPlace
      /\ "element" \in WaitPlace \ DotPlace /\ "tail" \in WaitPlace
      /\ \A at \in {"first", "next", "element"} : Weight(at) = 1
      /\ \A at \in {"first", "next", "element", "tail", "dot"} : at \notin MainPlace
  BY DEF MainPlace, WaitPlace, DotPlace, OpenListPlace, Weight
<1>1. CASE Open
  <2>1. CallFits("open", "first", Called("while", Space))
    BY <1>1, PeekedAt, CallsOfScanner, PlacesOfCalls, BalanceOfCalls, PlacesOfReader
    DEF Open, CallFits
  <2> QED
    BY <1>1, <2>1, ScanStarts DEF Open
<1>2. CASE First
  <2>1. At("first") /\ result.char = NextChar
    BY <1>2, PeekedAt DEF First, NextKnown
  <2>2. CASE NextIs({")"})
    <3>1. CallFits("first", "empty", Called("one_of", {")"}))
      BY <2>1, <2>2, CallsOfScanner, PlacesOfCalls, BalanceOfCalls, PlacesOfReader
      DEF CallFits, NextIs
    <3> QED
      BY <1>2, <2>1, <2>2, <3>1, ScanStarts DEF First
  <2>3. CASE ~NextIs({")"})
    BY <1>0, <1>2, <2>1, <2>3, ReadStarts DEF First
  <2> QED
    BY <2>2, <2>3
<1>3. CASE Empty
  BY <1>0, <1>3, AtomReturns DEF Empty
<1>4. CASE Element
  <2>1. CallFits("element", "next", Called("while", Space))
    BY CallsOfScanner, PlacesOfCalls, BalanceOfCalls, PlacesOfReader DEF CallFits
  <2>2. /\ At("element") /\ Begin(Called("while", Space))
        /\ frames' = Append(Front(frames), [at |-> "next", items |-> Append(Top.items, value)])
    BY <1>4 DEF Element, Called
  <2> QED
    BY <2>1, <2>2, CallStarts
<1>5. CASE NextElement
  <2>1. At("next") /\ result.char = NextChar
    BY <1>5, PeekedAt DEF NextElement, NextKnown
  <2>2. CASE NextIs({")"}) /\ Scan("one_of", {")"}, "closed")
    <3>1. CallFits("next", "closed", Called("one_of", {")"}))
      BY <2>1, <2>2, CallsOfScanner, PlacesOfCalls, BalanceOfCalls, PlacesOfReader
      DEF CallFits, NextIs
    <3> QED
      BY <2>1, <2>2, <3>1, ScanStarts
  <2>3. CASE NextIs({"."}) /\ Scan("one_of", {"."}, "dot")
    <3>1. NextChar = "."
      BY <2>1, <2>3 DEF NextIs
    <3>2. ~IsPlain
      <4>1. text \in Seq(Char) /\ position \in Nat /\ "." # EOF
        <5>1. "." \in Char
          BY CharactersAssumption
        <5> QED
          BY <5>1, CharAssumption DEF ReaderInv, ReaderTypeOK
      <4>2. position + 1 \in 1..Len(text) /\ text[position + 1] = "."
        BY <3>1, <4>1 DEF NextChar, CharAt
      <4>3. "." \in ToSet(text)
        BY <4>1, <4>2 DEF ToSet
      <4> QED
        BY <4>3 DEF IsPlain
    <3>3. CallFits("next", "dot", Called("one_of", {"."}))
      <4>1. Called("one_of", {"."}) \in Call /\ Called("one_of", {"."}).tokens = {"."}
        BY CallsOfScanner
      <4> QED
        BY <3>1, <3>2, <4>1, PlacesOfCalls, PlacesOfReader DEF CallFits
    <3> QED
      BY <2>1, <2>3, <3>3, ScanStarts
  <2>4. CASE NextIs({EOF}) /\ ReturnAtom(Nil)
    <3>1. position = Len(text)
      BY <2>1, <2>4, AtEnd DEF NextIs
    <3> QED
      BY <1>0, <2>1, <2>4, <3>1, AtomReturns
  <2>5. CASE Read("element")
    BY <1>0, <2>1, <2>5, ReadStarts
  <2> QED
    BY <1>5, <2>2, <2>3, <2>4, <2>5 DEF NextElement
<1>6. CASE Closed
  BY <1>0, <1>6, AtomReturns DEF Closed
\* Without dots, the reader does not get to the other places.
<1>7. ASSUME NEW from \in DotPlace, At(from)
      PROVE  ~IsPlain
  <2>1. call = Idle /\ frames # << >> /\ Top.at = from /\ (IsPlain => Dotless(frames))
    BY <1>7, PeekedAt DEF FollowsText
  <2>2. PICK I : frames \in Seq(FrameOver(I))
    BY DEF ReaderInv, ReaderTypeOK, StackOK
  <2>3. Len(frames) \in Nat \ {0} /\ Last(frames) = frames[Len(frames)]
    BY <2>1, <2>2, FrontLast
  <2> QED
    BY <2>1, <2>3 DEF Dotless, Top
<1>8. CASE Dot
  <2>1. At("dot") /\ "dot" \in DotPlace
    BY <1>8 DEF Dot, DotPlace
  <2> QED
    BY <1>0, <1>7, <1>8, <2>1, ReadStarts DEF Dot
<1>9. CASE DottedEnd
  <2>1. At("tail") /\ "tail" \in DotPlace
    BY <1>9 DEF DottedEnd, DotPlace
  <2>2. CallFits("tail", "tail_space", Called("while", Space))
    BY <1>7, <2>1, CallsOfScanner, PlacesOfCalls, PlacesOfReader DEF CallFits
  <2> QED
    BY <1>9, <2>1, <2>2, ScanStarts DEF DottedEnd
<1>10. CASE TailSpace
  <2>1. At("tail_space") /\ "tail_space" \in DotPlace
    BY <1>10 DEF TailSpace, DotPlace
  <2>2. CallFits("tail_space", "tail_closed", Called("one_of", {")"}))
    BY <1>7, <2>1, CallsOfScanner, PlacesOfCalls, PlacesOfReader DEF CallFits
  <2> QED
    BY <1>10, <2>1, <2>2, ScanStarts DEF TailSpace
<1>11. CASE TailClosed
  BY <1>0, <1>11, AtomReturns DEF TailClosed
<1> QED
  BY <1>1, <1>2, <1>3, <1>4, <1>5, <1>6, <1>8, <1>9, <1>10, <1>11

-----------------------------------------------------------------------------
(* The scanner answers.                                                    *)

LEMMA CallKinds ==
  ASSUME NEW at, NEW c, CallsAt(at, c)
  PROVE  /\ c.op = "while" =>
              \/ at \in {"dispatch", "first", "next", "tail_space"} /\ c.tokens = Space
              \/ at = "number" /\ c.tokens = Digits
              \/ at = "symbol" /\ c.tokens = SymbolChar
         /\ c.op = "until" =>
              \/ at \in {"loop", "comment"} /\ c.tokens = {"\n"}
              \/ at = "string_end" /\ c.tokens = {Quotation}
         /\ c.op = "one_of" =>
              \/ at = "open" /\ c.tokens = {"("}
              \/ at = "quote" /\ c.tokens = {"'"}
              \/ at = "string" /\ c.tokens = {Quotation}
              \/ at \in {"empty", "closed", "tail_closed"} /\ c.tokens = {")"}
              \/ at = "dot" /\ c.tokens = {"."}
         /\ c.op = "peek" => at \in {"first_char", "peeked", "dispatch"} /\ c = Called("peek", {})
<1>1. /\ Called("peek", {}).op = "peek"
      /\ \A tokens \in {Space, Digits, SymbolChar} :
           Called("while", tokens).op = "while" /\ Called("while", tokens).tokens = tokens
      /\ \A char \in {"\n", Quotation} :
           Called("until", {char}).op = "until" /\ Called("until", {char}).tokens = {char}
      /\ \A char \in {"(", ")", "'", Quotation, "."} :
           Called("one_of", {char}).op = "one_of" /\ Called("one_of", {char}).tokens = {char}
  BY DEF Called
<1>2. ASSUME c.op = "while"
      PROVE  \/ at \in {"dispatch", "first", "next", "tail_space"} /\ c.tokens = Space
             \/ at = "number" /\ c.tokens = Digits
             \/ at = "symbol" /\ c.tokens = SymbolChar
  BY <1>1, <1>2 DEF CallsAt
<1>3. ASSUME c.op = "until"
      PROVE  \/ at \in {"loop", "comment"} /\ c.tokens = {"\n"}
             \/ at = "string_end" /\ c.tokens = {Quotation}
  BY <1>1, <1>3 DEF CallsAt
<1>4. ASSUME c.op = "one_of"
      PROVE  \/ at = "open" /\ c.tokens = {"("}
             \/ at = "quote" /\ c.tokens = {"'"}
             \/ at = "string" /\ c.tokens = {Quotation}
             \/ at \in {"empty", "closed", "tail_closed"} /\ c.tokens = {")"}
             \/ at = "dot" /\ c.tokens = {"."}
  BY <1>1, <1>4 DEF CallsAt
<1>5. ASSUME c.op = "peek"
      PROVE  at \in {"first_char", "peeked", "dispatch"} /\ c = Called("peek", {})
  BY <1>1, <1>5 DEF CallsAt
<1> QED
  BY <1>2, <1>3, <1>4, <1>5

\* What the lexer does in code.
LEMMA LexCode ==
  ASSUME NEW state \in LexState, state.mode = "code", NEW c
  PROVE  /\ Lex(state, c) \in LexState
         /\ c \notin {Semicolon, Quotation, "(", ")"} => Lex(state, c) = state
         /\ c = Semicolon => Lex(state, c).mode = "comment" /\ Lex(state, c).depth = state.depth
         /\ c = Quotation => Lex(state, c).mode = "string" /\ Lex(state, c).depth = state.depth
         /\ c = "(" => Lex(state, c).mode = "code" /\ Lex(state, c).depth = state.depth + 1
         /\ c = ")" => Lex(state, c).mode = "code" /\ Lex(state, c).depth = state.depth - 1
         /\ state.closable /\ (c = ")" => state.depth > 0) => Lex(state, c).closable
<1>1. Lex(state, c) \in LexState
  BY LexType
<1>2. CASE c \notin {Semicolon, Quotation, "(", ")"}
  <2>1. Lex(state, c) = state
    BY <1>2 DEF Lex
  <2> QED
    BY <1>1, <1>2, <2>1
<1>3. CASE c = Semicolon
  <2>1. Lex(state, c) = [state EXCEPT !.mode = "comment"]
    BY <1>3, LexedDiffer DEF Lex
  <2> QED
    BY <1>1, <1>3, <2>1, LexedDiffer DEF LexState
<1>4. CASE c = Quotation
  <2>1. Lex(state, c) = [state EXCEPT !.mode = "string"]
    BY <1>4, LexedDiffer DEF Lex
  <2> QED
    BY <1>1, <1>4, <2>1, LexedDiffer DEF LexState
<1>5. CASE c = "("
  <2>1. Lex(state, c) = [state EXCEPT !.depth = @ + 1]
    BY <1>5, LexedDiffer DEF Lex
  <2> QED
    BY <1>1, <1>5, <2>1, LexedDiffer DEF LexState
<1>6. CASE c = ")"
  <2> DEFINE closable == state.closable /\ state.depth > 0
  <2>1. Lex(state, c) = [state EXCEPT !.depth = @ - 1, !.closable = closable]
    BY <1>6, LexedDiffer, Zenon DEF Lex
  <2>2. state.closable /\ state.depth > 0 => closable
    OBVIOUS
  <2> HIDE DEF closable
  <2>3. "closable" \in DOMAIN state
    BY DEF LexState
  <2>4. Lex(state, c).closable = closable
    BY <2>1, <2>3
  <2>5. Lex(state, c).mode = "code" /\ Lex(state, c).depth = state.depth - 1
    BY <2>1 DEF LexState
  <2>6. state.closable /\ (c = ")" => state.depth > 0) => Lex(state, c).closable
    BY <1>6, <2>2, <2>4
  <2> QED
    BY <1>1, <1>6, <2>5, <2>6, LexedDiffer
<1> QED
  BY <1>1, <1>2, <1>3, <1>4, <1>5, <1>6

LEMMA LexedNext ==
  ASSUME NEW t \in Seq(Char), NEW n \in 0..(Len(t) - 1)
  PROVE  /\ Lexed(t)[n + 1] = Lex(Lexed(t)[n], t[n + 1])
         /\ Lexed(t)[n] \in LexState
<1> DEFINE m == n + 1
<1>1. m \in 1..Len(t) /\ m - 1 = n /\ n \in 0..Len(t)
  OBVIOUS
<1>2. Lexed(t)[m] = Lex(Lexed(t)[m - 1], t[m])
  <2> HIDE DEF m
  <2> QED
    BY <1>1, LexedSteps
<1> QED
  BY <1>1, <1>2, LexedType

\* A comment or a string is over behind its terminator.
LEMMA LexedUntil ==
  ASSUME NEW t \in Seq(Char), NEW p \in 0..Len(t), NEW end \in (p + 1)..Len(t),
         NEW mode, NEW stop,
         (mode = "comment" /\ stop = "\n") \/ (mode = "string" /\ stop = Quotation),
         Lexed(t)[p].mode = mode,
         \A i \in (p + 1)..(end - 1) : t[i] \in Char \ {stop}, t[end] = stop
  PROVE  /\ Lexed(t)[end].mode = "code" /\ Lexed(t)[end].depth = Lexed(t)[p].depth
         /\ Lexed(t)[p].closable => Lexed(t)[end].closable
<1> DEFINE last == end - 1
           Plain == Char \ {stop}
<1>1. last \in p..Len(t) /\ last \in 0..(Len(t) - 1) /\ last + 1 = end
  <2>1. Len(t) \in Nat
    OBVIOUS
  <2>2. p \in Nat /\ end \in Nat /\ p + 1 <= end /\ end <= Len(t)
    BY <2>1
  <2> QED
    BY <2>1, <2>2
<1>2. Keeps(mode, Plain)
  BY DEF Lex, Keeps
<1>3. IsRun(t, p, last, Plain)
  BY DEF IsRun
<1>4. /\ Lexed(t)[last].mode = mode /\ Lexed(t)[last].depth = Lexed(t)[p].depth
      /\ Lexed(t)[p].closable => Lexed(t)[last].closable
  <2> HIDE DEF last, Plain
  <2> QED
    BY <1>1, <1>2, <1>3, LexedOver
<1>5. Lexed(t)[end] = Lex(Lexed(t)[last], stop) /\ Lexed(t)[last] \in LexState
  <2> HIDE DEF last
  <2> QED
    BY <1>1, LexedNext
<1>6. Lex(Lexed(t)[last], stop) = [Lexed(t)[last] EXCEPT !.mode = "code"]
  <2> HIDE DEF last
  <2> QED
    BY <1>4 DEF Lex
<1> QED
  <2> HIDE DEF last
  <2> QED
    BY <1>4, <1>5, <1>6 DEF LexState

\* A slice of characters of one kind.
LEMMA SliceOver ==
  ASSUME ReaderTypeOK, NEW S, NEW end \in (position + 1)..(Len(text) + 1), consumed = position,
         \A k \in (position + 1)..(end - 1) : CharAt(k) \in S
  PROVE  Slice(end) \in Seq(S) /\ Len(Slice(end)) = end - 1 - position
<1>1. position \in Nat /\ Len(text) \in Nat /\ text \in Seq(Char) /\ position <= Len(text)
  BY DEF ReaderTypeOK
<1>2. \A k \in (position + 1)..(end - 1) : text[k] \in S
  BY <1>1 DEF CharAt
<1> DEFINE from == position + 1
           to == end - 1
<1>3. from \in Int /\ to \in Int /\ \A k \in from..to : text[k] \in S
  BY <1>1, <1>2
<1>4. SubSeq(text, from, to) \in Seq(S)
      /\ Len(SubSeq(text, from, to)) = IF from <= to THEN to - from + 1 ELSE 0
  <2> HIDE DEF from, to
  <2> QED
    BY <1>3, SubSeqProperties
<1>5. Slice(end) = SubSeq(text, from, to)
  BY DEF Slice
<1> QED
  BY <1>1, <1>4, <1>5

LEMMA ScanInv ==
  ASSUME ReaderInv, ScanStep
  PROVE  ReaderInv'
<1>1. PICK at : at = Here(frames)
  OBVIOUS
<1>2. /\ text \in Seq(Char) /\ Len(text) \in Nat /\ position \in 0..Len(text) /\ consumed \in 0..position
      /\ StackOK(frames) /\ (call # Idle => call \in Call /\ CallsAt(at, call))
      /\ NextKnown(at) /\ TokenStarts(at) /\ (IsPlain => FollowsText(at))
  BY <1>1 DEF ReaderInv, ReaderTypeOK
<1>3. call # Idle /\ call' = Idle /\ UNCHANGED <<text, frames>>
  BY DEF ScanStep, Return, Until, While, OneOf, Peek, Answer, Idle, readerVars
<1>4. at = Here(frames') /\ IsPlain' = IsPlain /\ Lexed(text') = Lexed(text)
  BY <1>1, <1>3 DEF IsPlain
<1>5. (Top.at # at => frames = << >>) /\ Top' = Top
  BY <1>1, <1>3 DEF Here, Top
<1>6. /\ Lexed(text)[position] \in LexState /\ Depth = Lexed(text)[position].depth
      /\ Depth' = Lexed(text)[position'].depth
  BY <1>2, <1>3, LexedType DEF Depth
<1>7. frames # << >> => Opens(frames) \in Nat
  <2>1. PICK I : frames \in Seq(FrameOver(I))
    BY <1>2 DEF StackOK
  <2> QED
    BY <2>1, OpensFront DEF Weight
<1>8. frames # << >> /\ Top.at = at
  <2>1. at # "done"
    BY <1>2, <1>3 DEF CallsAt
  <2> QED
    BY <1>1, <1>5, <2>1 DEF Here
\* What is left to show for each function.
<1>9. ASSUME position' \in position..Len(text), consumed' \in 0..position',
             NextKnown(at)', TokenStarts(at)', TokensClean',
             IsPlain => /\ Lexed(text)[position'].mode = Mode(at)' /\ Lexed(text)[position'].closable
                        /\ Follows(Opens(frames))'
                        /\ at \in {"file", "first_char"} => position' = 0
      PROVE  ReaderInv'
  <2>1. ReaderTypeOK'
    BY <1>2, <1>3, <1>9 DEF ReaderTypeOK
  <2>2. ASSUME IsPlain
        PROVE  FollowsText(at)'
    <3>1. Dotless(frames') /\ Ahead(at)' = 0
      BY <1>2, <1>3, <2>2 DEF FollowsText, Ahead
    <3>2. Follows(Opens(frames) - Ahead(at))'
      BY <1>3, <1>7, <1>8, <1>9, <2>2, <3>1
    <3> QED
      BY <1>3, <1>4, <1>9, <2>2, <3>1, <3>2 DEF FollowsText
  <2> QED
    BY <1>4, <1>9, <2>1, <2>2 DEF ReaderInv
<1>10. CASE While
  <2>1. PICK end \in (position + 1)..(Len(text) + 1) :
          /\ call.op = "while" /\ IsFirstNotIn(end, position + 1, call.tokens)
          /\ position' = end - 1 /\ consumed' = position'
          /\ result' = [char |-> CharAt(end), slice |-> Slice(end)]
    BY <1>10 DEF While, Answer
  <2>2. position' \in position..Len(text) /\ consumed' \in 0..position'
    BY <1>2, <2>1
  <2>3. \/ at \in {"dispatch", "first", "next", "tail_space"} /\ call.tokens = Space
        \/ at = "number" /\ call.tokens = Digits
        \/ at = "symbol" /\ call.tokens = SymbolChar
    BY <1>2, <1>3, <2>1, CallKinds
  <2>4. NextKnown(at)'
    <3>1. NextChar' = CharAt(end)
      BY <1>2, <1>3, <2>1 DEF NextChar, CharAt
    <3> QED
      BY <1>3, <2>1, <3>1 DEF NextKnown
  <2>5. TokenStarts(at)'
    BY <1>3, <2>1 DEF TokenStarts, Called, Idle
  <2>6. TokensClean'
    <3>1. ASSUME at \in {"number", "symbol"}
          PROVE  Slice(end) \in Seq(call.tokens) /\ Len(Slice(end)) = end - 1 - position
      <4>1. consumed = position
        BY <1>2, <1>3, <3>1 DEF TokenStarts
      <4> QED
        BY <2>1, <4>1, SliceOver DEF ReaderInv, IsFirstNotIn
    <3>2. ASSUME at = "number"
          PROVE  Slice(end) # << >>
      <4>1. NextChar \in Digits
        BY <1>2, <1>3, <3>2 DEF NextKnown
      <4>2. end # position + 1
        BY <2>1, <2>3, <3>2, <4>1 DEF IsFirstNotIn, NextChar
      <4> QED
        BY <1>2, <2>1, <3>1, <3>2, <4>2
    <3>3. at # "string_end"
      BY <2>3
    <3> QED
      BY <1>5, <1>8, <2>1, <2>3, <3>1, <3>2, <3>3 DEF TokensClean
  <2>7. ASSUME IsPlain
        PROVE  /\ Lexed(text)[position'].mode = Mode(at)' /\ Lexed(text)[position'].closable
               /\ Follows(Opens(frames))'
               /\ at \in {"file", "first_char"} => position' = 0
    <3>1. Mode(at) = "code" /\ Mode(at)' = "code" /\ Ahead(at) = 0
      BY <1>3, <2>3 DEF Mode, Ahead
    <3>2. Lexed(text)[position].mode = "code" /\ Follows(Opens(frames)) /\ Lexed(text)[position].closable
      BY <1>2, <1>7, <1>8, <2>7, <3>1 DEF FollowsText
    <3>3. \A c \in call.tokens : c \notin {Semicolon, Quotation, "(", ")"}
      <4>1. \A c \in Space : c \notin {Semicolon, Quotation, "(", ")"}
        BY CharactersDiffer DEF Space
      <4>2. \A c \in Digits : c \notin {Semicolon, Quotation, "(", ")"}
        BY CharactersDiffer, DigitsAre
      <4>3. \A c \in SymbolChar : c \notin {Semicolon, Quotation, "(", ")"}
        BY DEF SymbolChar
      <4> QED
        BY <2>3, <4>1, <4>2, <4>3
    <3>4. Keeps("code", call.tokens)
      BY <3>3, LexCode DEF Keeps
    <3>5. IsRun(text, position, end - 1, call.tokens)
      BY <1>2, <2>1 DEF IsFirstNotIn, CharAt, IsRun
    <3>6. /\ Lexed(text)[end - 1].mode = "code" /\ Lexed(text)[end - 1].depth = Lexed(text)[position].depth
          /\ Lexed(text)[end - 1].closable
      <4>1. end - 1 \in position..Len(text)
        BY <1>2, <2>1
      <4> QED
        BY <1>2, <3>2, <3>4, <3>5, <4>1, LexedOver
    <3>7. Depth' = Depth
      BY <1>6, <2>1, <3>6
    <3>8. Follows(Opens(frames))'
      BY <1>2, <1>3, <2>2, <3>2, <3>7 DEF Follows
    <3> QED
      BY <2>1, <2>3, <3>1, <3>6, <3>8
  <2> QED
    BY <1>9, <2>2, <2>4, <2>5, <2>6, <2>7
<1>11. CASE Peek
  <2>1. /\ call.op = "peek" /\ UNCHANGED <<position, consumed>>
        /\ result' = [char |-> CharAt(position + 1), slice |-> << >>]
    BY <1>11 DEF Peek, Answer
  <2>2. at \in {"first_char", "peeked", "dispatch"} /\ call = Called("peek", {})
    BY <1>2, <1>3, <2>1, CallKinds
  <2>3. NextKnown(at)'
    BY <1>3, <2>1 DEF NextKnown, NextChar, CharAt
  <2>4. TokenStarts(at)'
    BY <1>2, <1>3, <2>1, <2>2 DEF TokenStarts, Called, Idle
  <2>5. TokensClean'
    BY <1>5, <1>8, <2>2 DEF TokensClean
  <2>6. ASSUME IsPlain
        PROVE  /\ Lexed(text)[position'].mode = Mode(at)' /\ Lexed(text)[position'].closable
               /\ Follows(Opens(frames))'
               /\ at \in {"file", "first_char"} => position' = 0
    <3>1. Mode(at)' = Mode(at) /\ Ahead(at) = 0
      BY <1>3, <2>2 DEF Mode, Ahead
    <3>2. Depth' = Depth
      BY <1>6, <2>1
    <3>3. Follows(Opens(frames))
      BY <1>2, <1>7, <1>8, <2>6, <3>1 DEF FollowsText
    <3>4. Follows(Opens(frames))'
      BY <1>3, <2>1, <3>2, <3>3 DEF Follows
    <3> QED
      BY <1>2, <2>1, <2>6, <3>1, <3>4 DEF FollowsText
  <2> QED
    BY <1>2, <1>9, <2>1, <2>3, <2>4, <2>5, <2>6
<1>12. CASE Until
  <2>1. PICK end \in (position + 1)..(Len(text) + 1) :
          /\ call.op = "until" /\ IsFirstIn(end, position + 1, call.tokens)
          /\ position' = (IF end <= Len(text) THEN end ELSE Len(text)) /\ consumed' = position'
          /\ result' = [char |-> CharAt(end), slice |-> Slice(end)]
    BY <1>12 DEF Until, Answer
  <2>2. \/ at \in {"loop", "comment"} /\ call.tokens = {"\n"}
        \/ at = "string_end" /\ call.tokens = {Quotation}
    BY <1>2, <1>3, <2>1, CallKinds
  <2>3. /\ end <= Len(text) /\ CharAt(end) = text[end] /\ position' = end
        /\ \A k \in (position + 1)..(end - 1) : text[k] \in Char \ call.tokens
    <3>1. "\n" \in Char /\ Quotation \in Char
      BY CharactersAssumption DEF Space
    <3>2. CharAt(end) # EOF
      BY <2>1, <2>2, <3>1, CharAssumption DEF IsFirstIn
    <3> QED
      BY <1>2, <2>1, <3>2 DEF IsFirstIn, CharAt
  <2>4. position' \in position..Len(text) /\ consumed' \in 0..position'
    BY <1>2, <2>1, <2>3
  <2>5. NextKnown(at)'
    BY <1>3, <2>2 DEF NextKnown
  <2>6. TokenStarts(at)'
    BY <1>3, <2>1 DEF TokenStarts, Called, Idle
  <2>7. TokensClean'
    <3>1. ASSUME at = "string_end"
          PROVE  Quotation \notin ToSet(Slice(end))
      <4>1. consumed = position
        BY <1>2, <1>3, <3>1 DEF TokenStarts
      <4>2. \A k \in (position + 1)..(end - 1) : CharAt(k) \in Char \ {Quotation}
        BY <1>2, <2>1, <2>2, <2>3, <3>1 DEF CharAt
      <4>3. Slice(end) \in Seq(Char \ {Quotation})
        BY <4>1, <4>2, SliceOver DEF ReaderInv
      <4>4. \A k \in DOMAIN Slice(end) : Slice(end)[k] # Quotation
        BY <4>3
      <4> QED
        BY <4>4 DEF ToSet
    <3> QED
      BY <1>5, <1>8, <2>1, <2>2, <3>1 DEF TokensClean
  <2>8. ASSUME IsPlain
        PROVE  /\ Lexed(text)[position'].mode = Mode(at)' /\ Lexed(text)[position'].closable
               /\ Follows(Opens(frames))'
               /\ at \in {"file", "first_char"} => position' = 0
    <3>1. at # "loop" /\ at \in {"comment", "string_end"}
      BY <1>2, <1>3, <2>2, <2>8 DEF FollowsText
    <3>2. Mode(at)' = "code" /\ Ahead(at) = 0
      BY <1>3, <3>1 DEF Mode, Ahead
    <3>3. Lexed(text)[position].mode = Mode(at) /\ Follows(Opens(frames)) /\ Lexed(text)[position].closable
      BY <1>2, <1>7, <1>8, <2>8, <3>2 DEF FollowsText
    <3>4. /\ Lexed(text)[end].mode = "code" /\ Lexed(text)[end].depth = Lexed(text)[position].depth
          /\ Lexed(text)[end].closable
      <4>1. end \in (position + 1)..Len(text) /\ text[end] \in call.tokens
        BY <2>1, <2>3 DEF IsFirstIn
      <4>2. CASE at = "comment"
        <5>1. NextChar = Semicolon /\ text[end] = "\n"
          BY <1>2, <1>3, <2>2, <4>1, <4>2 DEF NextKnown
        <5>2. end # position + 1
          <6>1. CASE end = position + 1
            <7>1. CharAt(end) = NextChar
              BY <6>1 DEF NextChar
            <7> QED
              BY <2>3, <5>1, <7>1, LexedDiffer
          <6> QED
            BY <6>1
        <5>3. position + 1 \in 0..Len(text) /\ position \in 0..(Len(text) - 1)
              /\ end \in (position + 1 + 1)..Len(text)
          BY <1>2, <4>1, <5>2
        <5>4. text[position + 1] = Semicolon
          BY <1>2, <5>1, <5>3 DEF NextChar, CharAt
        <5>5. Lexed(text)[position + 1] = Lex(Lexed(text)[position], Semicolon)
          BY <1>2, <5>3, <5>4, LexedNext
        <5>6. Lexed(text)[position].mode = "code"
          BY <3>3, <4>2 DEF Mode
        <5>7. Lexed(text)[position + 1].mode = "comment"
              /\ Lexed(text)[position + 1].depth = Lexed(text)[position].depth
              /\ Lexed(text)[position + 1].closable
          BY <1>6, <3>3, <5>5, <5>6, LexCode, LexedDiffer
        <5>8. \A i \in (position + 1 + 1)..(end - 1) : text[i] \in Char \ {"\n"}
          BY <1>2, <2>2, <2>3, <4>2
        <5>9. /\ Lexed(text)[end].mode = "code" /\ Lexed(text)[end].depth = Lexed(text)[position + 1].depth
              /\ Lexed(text)[end].closable
          BY <1>2, <5>1, <5>3, <5>7, <5>8, LexedUntil
        <5> QED
          BY <5>7, <5>9
      <4>3. CASE at = "string_end"
        <5>1. text[end] = Quotation
          BY <2>2, <4>1, <4>3
        <5>2. Lexed(text)[position].mode = "string"
          BY <1>3, <3>3, <4>3 DEF Mode
        <5>3. \A i \in (position + 1)..(end - 1) : text[i] \in Char \ {Quotation}
          BY <2>2, <2>3, <4>3
        <5> QED
          BY <1>2, <3>3, <4>1, <5>1, <5>2, <5>3, LexedUntil
      <4> QED
        BY <3>1, <4>2, <4>3
    <3>5. Depth' = Depth
      BY <1>6, <2>3, <3>4
    <3>6. Follows(Opens(frames))'
      BY <1>2, <1>3, <2>4, <3>3, <3>5 DEF Follows
    <3> QED
      BY <2>3, <3>1, <3>2, <3>4, <3>6
  <2> QED
    BY <1>9, <2>4, <2>5, <2>6, <2>7, <2>8
<1>13. CASE OneOf
  <2>1. /\ call.op = "one_of"
        /\ position' = (IF NextChar = EOF THEN position ELSE position + 1)
        /\ consumed' = (IF NextChar \in call.tokens THEN consumed + 1 ELSE consumed)
        /\ result' = [char |-> NextChar, slice |-> << >>]
    BY <1>13 DEF OneOf, Answer, NextChar
  <2>2. \/ at = "open" /\ call.tokens = {"("}
        \/ at = "quote" /\ call.tokens = {"'"}
        \/ at = "string" /\ call.tokens = {Quotation}
        \/ at \in {"empty", "closed", "tail_closed"} /\ call.tokens = {")"}
        \/ at = "dot" /\ call.tokens = {"."}
    BY <1>2, <1>3, <2>1, CallKinds
  <2>3. NextChar \in call.tokens => NextChar # EOF
    <3>1. {"(", "'", Quotation, ")", "."} \subseteq Char
      BY CharactersAssumption
    <3> QED
      BY <2>2, <3>1, CharAssumption
  <2>4. NextChar # EOF => position + 1 <= Len(text) /\ NextChar = text[position + 1]
    BY <1>2, CharAtType DEF NextChar
  <2>5. position' \in position..Len(text) /\ consumed' \in 0..position'
    BY <1>2, <2>1, <2>3, <2>4
  <2>6. NextKnown(at)'
    BY <1>3, <2>2 DEF NextKnown
  <2>7. at # "tail_closed" => NextChar \in call.tokens
    BY <1>2, <1>3, <2>2 DEF NextKnown
  <2>8. TokenStarts(at)'
    <3>1. ASSUME at = "string"
          PROVE  consumed' = position'
      BY <1>2, <1>3, <2>1, <2>3, <2>7, <3>1 DEF TokenStarts
    <3>2. call' = Idle /\ Idle # Called("peek", {}) /\ at \notin {"dispatch", "comment"}
      BY <1>3, <2>2 DEF Idle, Called
    <3> QED
      BY <3>1, <3>2 DEF TokenStarts
  <2>9. TokensClean'
    BY <1>5, <1>8, <2>2 DEF TokensClean
  <2>10. ASSUME IsPlain
         PROVE  /\ Lexed(text)[position'].mode = Mode(at)' /\ Lexed(text)[position'].closable
                /\ Follows(Opens(frames))'
                /\ at \in {"file", "first_char"} => position' = 0
    <3>1. at \notin DotPlace
      <4>1. Dotless(frames)
        BY <1>2, <2>10 DEF FollowsText
      <4>2. PICK I : frames \in Seq(FrameOver(I))
        BY <1>2 DEF StackOK
      <4>3. Len(frames) \in Nat \ {0} /\ Last(frames) = frames[Len(frames)]
        BY <1>8, <4>2, FrontLast
      <4> QED
        BY <1>8, <4>1, <4>3 DEF Dotless, Top
    <3>2. at # "tail_closed" /\ at # "dot"
      BY <3>1 DEF DotPlace
    <3>3. /\ position \in 0..(Len(text) - 1) /\ position' = position + 1
          /\ NextChar = text[position + 1] /\ NextChar \in call.tokens
      BY <1>2, <2>1, <2>3, <2>4, <2>7, <3>2
    <3>4. Mode(at) = "code" /\ (Mode(at)' = IF at = "string" THEN "string" ELSE "code")
      BY <1>3, <2>2 DEF Mode
    <3>5. Lexed(text)[position].mode = "code"
      BY <1>2, <2>10, <3>4 DEF FollowsText
    <3>6. Opens(frames) - Ahead(at) = Depth
      BY <1>2, <2>10, <3>3 DEF FollowsText, Follows
    <3>7. Lexed(text)[position + 1] = Lex(Lexed(text)[position], NextChar)
      BY <1>2, <3>3, LexedNext
    <3> DEFINE state == Lexed(text)[position]
               next == Lex(state, NextChar)
    <3>8. state \in LexState /\ state.mode = "code" /\ Depth = state.depth /\ Depth' = next.depth
          /\ Lexed(text)[position'] = next
      BY <1>6, <3>3, <3>5, <3>7
    <3>9. next.mode = Mode(at)' /\ next.depth = state.depth + Ahead(at)
      <4> HIDE DEF state, next
      <4>1. CASE at = "open"
        <5>1. NextChar = "(" /\ Ahead(at) = 1
          BY <1>3, <2>2, <3>3, <4>1 DEF Ahead
        <5>2. next.mode = "code" /\ next.depth = state.depth + 1
          BY <3>8, <5>1, LexCode DEF next
        <5> QED
          BY <3>4, <4>1, <5>1, <5>2
      <4>2. CASE at \in {"empty", "closed"}
        <5>1. NextChar = ")" /\ Ahead(at) = -1
          BY <1>3, <2>2, <3>3, <4>2 DEF Ahead
        <5>2. next.mode = "code" /\ next.depth = state.depth - 1
          BY <3>8, <5>1, LexCode DEF next
        <5>3. state.depth \in Int
          BY <3>8 DEF LexState
        <5> QED
          BY <3>4, <4>2, <5>1, <5>2, <5>3
      <4>3. CASE at = "string"
        <5>1. NextChar = Quotation /\ Ahead(at) = 0
          BY <1>3, <2>2, <3>3, <4>3 DEF Ahead
        <5>2. next.mode = "string" /\ next.depth = state.depth
          BY <3>8, <5>1, LexCode DEF next
        <5>3. state.depth \in Int
          BY <3>8 DEF LexState
        <5> QED
          BY <3>4, <4>3, <5>1, <5>2, <5>3
      <4>4. CASE at = "quote"
        <5>1. NextChar = "'" /\ Ahead(at) = 0
          BY <1>3, <2>2, <3>3, <4>4 DEF Ahead
        <5>2. "'" \notin {Semicolon, Quotation, "(", ")"}
          BY CharactersDiffer
        <5>3. next = state
          BY <3>8, <5>1, <5>2, LexCode DEF next
        <5>4. state.depth \in Int
          BY <3>8 DEF LexState
        <5> QED
          BY <3>4, <3>8, <4>4, <5>1, <5>3, <5>4
      <4> QED
        BY <2>2, <3>2, <4>1, <4>2, <4>3, <4>4
    <3>11. next.closable
      <4>1. state.closable
        BY <1>2, <2>10 DEF FollowsText
      <4>2. NextChar = ")" => state.depth > 0
        <5>1. ASSUME NextChar = ")"
              PROVE  at \in {"empty", "closed"}
          BY <2>2, <3>2, <3>3, <5>1, LexedDiffer
        <5>2. at \in {"empty", "closed"} => Ahead(at) = -1
          BY <1>3 DEF Ahead
        <5>3. Opens(frames) \in Nat
          BY <1>7, <1>8
        <5> QED
          BY <3>6, <3>8, <5>1, <5>2, <5>3
      <4> HIDE DEF state, next
      <4> QED
        BY <3>8, <4>1, <4>2, LexCode DEF next
    <3>10. Opens(frames)' = Depth'
      <4>1. Opens(frames) \in Nat /\ Ahead(at) \in Int /\ state.depth \in Int
        BY <1>7, <1>8, <3>8 DEF LexState, Ahead
      <4> HIDE DEF state, next
      <4> QED
        BY <1>3, <3>6, <3>8, <3>9, <4>1
    <3> QED
      BY <2>2, <3>8, <3>9, <3>10, <3>11 DEF Follows
  <2> QED
    BY <1>9, <2>5, <2>6, <2>8, <2>9, <2>10
<1> QED
  BY <1>10, <1>11, <1>12, <1>13 DEF ScanStep, Return

-----------------------------------------------------------------------------
(* The theorems.                                                           *)

LEMMA InitInv ==
  ASSUME ReaderInit
  PROVE  ReaderInv
<1>1. PICK place \in {"prompt", "file"} : frames = <<Frame(place)>>
  BY DEF ReaderInit
<1>2. /\ text \in Seq(Char) /\ Len(text) \in Nat /\ position = 0 /\ consumed = 0 /\ call = Idle
  BY CharAssumption DEF ReaderInit, Init
<1>3. /\ Len(frames) = 1 /\ frames[1].at = place /\ Frame(place) = [at |-> place, items |-> << >>]
      /\ frames # << >> /\ Last(frames) = Frame(place)
  BY <1>1 DEF Frame, Last
<1>4. Here(frames) = place /\ Top.at = place
  BY <1>1, <1>3 DEF Here, Top
<1>5. StackOK(frames)
  <2>1. frames \in Seq(FrameOver({<< >>}))
    BY <1>1, <1>3 DEF FrameOver, Place, MainPlace
  <2> QED
    BY <1>3, <2>1 DEF StackOK, MainPlace
<1>6. Opens(frames) = 0
  <2>1. DOMAIN frames = 1..1
    BY <1>1
  <2>2. {i \in DOMAIN frames : frames[i].at \in OpenListPlace} = {}
    BY <1>3, <2>1 DEF OpenListPlace
  <2> QED
    BY <2>2, FS_EmptySet DEF Opens
<1>7. Lexed(text)[position] = LexStart
  BY <1>2, LexedSteps
<1>8. FollowsText(place)
  <2>1. Mode(place) = "code" /\ Ahead(place) = 0
    BY <1>2 DEF Mode, Ahead
  <2>2. Depth = 0 /\ Lexed(text)[position].mode = "code" /\ Lexed(text)[position].closable
    BY <1>7 DEF Depth, LexStart
  <2>3. Dotless(frames)
    BY <1>3 DEF Dotless, DotPlace
  <2>4. Follows(Opens(frames) - Ahead(place))
    BY <1>6, <2>1, <2>2 DEF Follows
  <2> QED
    BY <1>2, <2>1, <2>2, <2>3, <2>4 DEF FollowsText
<1>9. ReaderTypeOK
  BY <1>2, <1>5 DEF ReaderTypeOK
<1>10. NextKnown(place) /\ TokenStarts(place) /\ TokensClean
  BY <1>2, <1>4 DEF NextKnown, TokenStarts, TokensClean
<1> QED
  BY <1>4, <1>8, <1>9, <1>10 DEF ReaderInv

LEMMA StutterInv ==
  ASSUME ReaderInv, UNCHANGED vars
  PROVE  ReaderInv'
BY DEF ReaderInv, ReaderTypeOK, NextKnown, TokenStarts, TokensClean, FollowsText, Follows, Mode,
       Ahead, Depth, NextChar, CharAt, IsPlain, Top, vars, textVars, readerVars

LEMMA StepInv ==
  ASSUME ReaderInv, [ReaderNext]_vars
  PROVE  ReaderInv'
<1>1. CASE ReadStep
  BY <1>1, MainLoopInv, ReadAtomInv, ReadListInv DEF ReadStep
<1>2. CASE ScanStep
  BY <1>2, ScanInv
<1>3. CASE UNCHANGED vars
  BY <1>3, StutterInv
<1> QED
  BY <1>1, <1>2, <1>3 DEF ReaderNext

\* The reader is at one of its places, each of its calls is one that belongs to
\* the place, and the lexer is where the reader is (reader.c, lisp.c).
THEOREM ReaderInvariant == ReaderSpec => []ReaderInv
<1>1. ReaderInit => ReaderInv
  BY InitInv
<1>2. ReaderInv /\ [ReaderNext]_vars => ReaderInv'
  BY StepInv
<1> QED
  BY <1>1, <1>2, PTL DEF ReaderSpec

\* A token consists of characters of its kind, whatever has been left
\* unconsumed before it (read_int, read_string and read_sym, which take what
\* scan_while and scan_until collected).
THEOREM TokensAreClean == ReaderSpec => []TokensClean
<1>1. ReaderInv => TokensClean
  BY DEF ReaderInv
<1> QED
  BY <1>1, ReaderInvariant, PTL

\* The activations of read_list are the lists that are open in the text
\* before the position (read_list and read_atom, without dotted lists).
THEOREM NestingIsThatOfText == ReaderSpec => []NestingFollowsText
<1>1. ReaderInv => NestingFollowsText
  <2> SUFFICES ASSUME ReaderInv, call = Idle, IsPlain
               PROVE  OpenLists = Depth \/ (position = Len(text) /\ OpenLists < Depth)
    BY DEF NestingFollowsText
  <2>1. OpenLists = Opens(frames)
    BY DEF OpenLists, Opens
  <2>2. PICK at : at = Here(frames)
    OBVIOUS
  <2>3. Ahead(at) = 0 /\ Follows(Opens(frames) - Ahead(at))
    BY <2>2 DEF ReaderInv, FollowsText, Ahead
  <2>4. Opens(frames) \in Nat
    <3>1. PICK I : frames \in Seq(FrameOver(I))
      BY DEF ReaderInv, ReaderTypeOK, StackOK
    <3>2. IsFiniteSet({i \in DOMAIN frames : frames[i].at \in OpenListPlace})
      <4>1. DOMAIN frames = 1..Len(frames) /\ Len(frames) \in Nat
        BY <3>1
      <4>2. {i \in DOMAIN frames : frames[i].at \in OpenListPlace} \subseteq 1..Len(frames)
        BY <4>1
      <4>3. IsFiniteSet(1..Len(frames))
        BY <4>1, FS_Interval
      <4> QED
        BY <4>2, <4>3, FS_Subset
    <3> QED
      BY <3>2, FS_CardinalityType DEF Opens
  <2> QED
    BY <2>1, <2>3, <2>4 DEF Follows
<1> QED
  BY <1>1, ReaderInvariant, PTL

-----------------------------------------------------------------------------
(* The end.                                                                *)

EndInv == Done => call = Idle /\ position = Len(text)

LEMMA AppendNotEmpty ==
  ASSUME NEW S, NEW f \in Seq(S), NEW x
  PROVE  Append(f, x) # << >>
<1> DEFINE T == S \cup {x}
<1>1. f \in Seq(T) /\ x \in T
  BY WiderSeq
<1> HIDE DEF T
<1>2. Len(Append(f, x)) = Len(f) + 1 /\ Len(f) \in Nat
  BY <1>1
<1>3. Len(<< >>) = 0
  OBVIOUS
<1> QED
  BY <1>2, <1>3

\* A step either goes on in a function, or returns from one to another, or ends
\* the program at the end of the text.
LEMMA KindsOfSteps ==
  ASSUME ReadStep
  PROVE  /\ frames # << >> /\ call = Idle
         /\ \/ Finish
            \/ \E x : frames' = Append(Front(frames), x)
            \/ \E x, y : frames' = Append(Append(Front(frames), x), y)
            \/ Top.at \notin MainPlace /\ frames' = Front(frames)
<1>1. frames # << >> /\ call = Idle
  BY DEF ReadStep, Prompt, File, FirstChar, Loop, Peeked, Finish, Got, SkipSpace, Dispatch, Comment,
         Quote, Quoted, String, StringEnd, Number, Symbol, Open, First, Empty, Element, NextElement,
         Closed, Dot, DottedEnd, TailSpace, TailClosed, At
<1>2. ASSUME NEW at, Read(at)
      PROVE  \E x, y : frames' = Append(Append(Front(frames), x), y)
  BY <1>2 DEF Read, Continued
<1>3. ASSUME NEW op, NEW tokens, NEW at, Scan(op, tokens, at)
      PROVE  \E x : frames' = Append(Front(frames), x)
  BY <1>3 DEF Scan, Continued
<1>4. CASE Prompt \/ Peeked \/ Quote \/ Dot
  BY <1>1, <1>2, <1>4 DEF Prompt, Peeked, Quote, Dot
<1>5. CASE File \/ FirstChar \/ Loop \/ SkipSpace \/ Comment \/ String \/ Open \/ DottedEnd \/ TailSpace
  BY <1>1, <1>3, <1>5
     DEF File, FirstChar, Loop, SkipSpace, Comment, String, Open, DottedEnd, TailSpace
<1>6. CASE Got \/ Element
  BY <1>1, <1>6 DEF Got, Element, Continued
<1>7. CASE Quoted \/ StringEnd \/ Number \/ Symbol \/ Empty \/ Closed \/ TailClosed
  BY <1>1, <1>7 DEF Quoted, StringEnd, Number, Symbol, Empty, Closed, TailClosed, ReturnAtom, At, MainPlace
<1>8. CASE Dispatch
  <2>1. Top.at \notin MainPlace
    BY <1>8 DEF Dispatch, At, MainPlace
  <2> QED
    BY <1>1, <1>3, <1>8, <2>1 DEF Dispatch, ReturnAtom
<1>9. CASE First
  BY <1>1, <1>2, <1>3, <1>9 DEF First
<1>10. CASE NextElement
  <2>1. Top.at \notin MainPlace
    BY <1>10 DEF NextElement, At, MainPlace
  <2> QED
    BY <1>1, <1>2, <1>3, <1>10, <2>1 DEF NextElement, ReturnAtom
<1> QED
  BY <1>1, <1>4, <1>5, <1>6, <1>7, <1>8, <1>9, <1>10 DEF ReadStep

LEMMA EndInvStep ==
  ASSUME ReaderInv, EndInv, [ReaderNext]_vars
  PROVE  EndInv'
<1> SUFFICES ASSUME frames' = << >>
             PROVE  call' = Idle /\ position' = Len(text)'
  BY DEF EndInv, Done
<1>1. CASE ReadStep
  <2>1. frames # << >> /\ call = Idle
    BY <1>1, KindsOfSteps
  <2>2. PICK I : frames \in Seq(FrameOver(I))
    BY DEF ReaderInv, ReaderTypeOK, StackOK
  <2>3. Front(frames) \in Seq(FrameOver(I))
    BY <2>1, <2>2, FrontLast
  <2>4. \A x : Append(Front(frames), x) # << >>
    BY <2>3, AppendNotEmpty
  <2>5. \A x, y : Append(Append(Front(frames), x), y) # << >>
    <3> SUFFICES ASSUME NEW x, NEW y
                 PROVE  Append(Append(Front(frames), x), y) # << >>
      OBVIOUS
    <3> DEFINE T == FrameOver(I) \cup {x}
    <3>1. Front(frames) \in Seq(T) /\ x \in T
      BY <2>3, WiderSeq
    <3> HIDE DEF T
    <3>2. Append(Front(frames), x) \in Seq(T)
      BY <3>1
    <3> QED
      BY <3>2, AppendNotEmpty
  <2>6. Top.at \notin MainPlace => Front(frames) # << >>
    BY <2>1, ReturnsAtom DEF ReaderInv, ReaderTypeOK
  <2>7. Finish
    BY <1>1, <2>4, <2>5, <2>6, KindsOfSteps
  <2>8. At("peeked") /\ result.char = EOF /\ UNCHANGED textVars
    BY <2>7 DEF Finish, NextIs
  <2>9. NextChar = EOF
    BY <2>8, PeekedAt DEF NextKnown
  <2> QED
    BY <2>1, <2>8, <2>9, AtEnd DEF textVars
<1>2. CASE ScanStep
  <2>1. frames = << >> /\ call # Idle
    BY <1>2 DEF ScanStep, Return, Until, While, OneOf, Peek, Answer, Idle, readerVars
  <2> QED
    BY <2>1 DEF EndInv, Done
<1>3. CASE UNCHANGED vars
  BY <1>3 DEF EndInv, Done, vars, textVars, readerVars
<1> QED
  BY <1>1, <1>2, <1>3 DEF ReaderNext

\* The program only gets to the end of a text that opens what it closes and
\* closes its strings and comments: there is no other way to the end of the
\* loop of main() (lisp.c), whatever the scanner collects on the way.
THEOREM EndsOfRegularTexts == ReaderSpec => []OnlyRegularTextsEnd
<1>1. ReaderInit => EndInv
  BY DEF ReaderInit, EndInv, Done
<1>2. ReaderInv /\ EndInv /\ [ReaderNext]_vars => EndInv'
  BY EndInvStep
<1>3. ReaderInv /\ EndInv => OnlyRegularTextsEnd
  <2> SUFFICES ASSUME ReaderInv, EndInv, Done, IsPlain
               PROVE  IsRegular
    BY DEF OnlyRegularTextsEnd
  <2>1. call = Idle /\ position = Len(text) /\ Here(frames) = "done"
    BY DEF EndInv, Done, Here
  <2>2. FollowsText("done")
    BY <2>1 DEF ReaderInv
  <2>3. Mode("done") = "code"
    BY <2>1 DEF Mode
  <2> QED
    BY <2>1, <2>2, <2>3 DEF FollowsText, IsRegular
<1> QED
  BY <1>1, <1>2, <1>3, ReaderInvariant, PTL DEF ReaderSpec
=============================================================================
