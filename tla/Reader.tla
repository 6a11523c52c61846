------------------------------- MODULE Reader -------------------------------
(***************************************************************************)
(* The reader (reader.c) and the loops of the main program that call it    *)
(* (lisp.c), on a scanner that behaves as TextScanner says.                *)
(*                                                                         *)
(* The functions call each other recursively: `frames` is the C stack, one *)
(* frame per activation of read_atom with the read_list that it ends in,   *)
(* below them the loop of the main program.  A frame is at the place after *)
(* the call that it waits for.                                             *)
(***************************************************************************)
EXTENDS TextScanner, AtomTrees, SequencesExt

CONSTANT MaxProgram  \* bounds the atoms that the main program gets

VARIABLES
  frames,
  value,    \* what the last function that returned has read
  program   \* the atoms that the main program got

readerVars == <<frames, value, program>>
vars == <<textVars, readerVars>>

Digits == ToSet(Digit)

\* Characters that the provers only take by name.
Blank == " "
Semicolon == ";"
Quotation == "\""

\* isspace
Space == {Blank, "\n"}

\* slip: a symbol that extends over the closing parenthesis of a list
SymbolCharOrParenthesis == Char \ (Space \cup {"(", Semicolon, "'", Quotation})

\* is_extra_sym_char
SymbolChar == Char \ (Space \cup {"(", ")", Semicolon, "'", Quotation})

ASSUME CharactersAssumption ==
  Space \cup Digits \cup {"(", ")", Semicolon, "'", Quotation, ".", "#"} \subseteq Char

\* strtoll, on digits
NumberOf(slice) ==
  FoldLeft(LAMBDA num, c : num * 10 + (CHOOSE d \in 0..9 : Digit[d + 1] = c), 0, slice)

\* read_sym, after the scan
SymbolOf(slice) ==
  CASE slice = NilText -> Nil
    [] slice = TrueText -> True
    [] slice = FalseText -> False
    [] OTHER -> Sym(slice)

\* slip: the atom behind the dot is forgotten
ListLosingTail(items, tail) == FoldRight(Pair, items, Nil)

\* The pairs that read_list links, the last of them to `tail`.
ListOf(items, tail) == FoldRight(Pair, items, tail)

-----------------------------------------------------------------------------
(* Steps of the C stack.                                                   *)

Frame(at) == [at |-> at, items |-> << >>]
Top == Last(frames)
Continued(at) == Append(Front(frames), [Top EXCEPT !.at = at])

\* The reader goes on when the scanner has answered.
At(place) ==
  /\ call = Idle
  /\ frames # << >>
  /\ Top.at = place

NextIs(chars) == result.char \in chars

\* Call a function of the scanner, and continue at `at`.
Scan(op, tokens, at) ==
  /\ Begin([op |-> op, tokens |-> tokens])
  /\ frames' = Continued(at)
  /\ UNCHANGED <<value, program>>

\* Call read_atom, and continue at `at`.
Read(at) ==
  /\ frames' = Append(Continued(at), Frame("read_atom"))
  /\ UNCHANGED <<textVars, value, program>>

ReturnAtom(atom) ==
  /\ frames' = Front(frames)
  /\ value' = atom
  /\ UNCHANGED <<textVars, program>>

-----------------------------------------------------------------------------
(* repl and interprete_files.                                              *)

\* The prompt reads at first; a file may begin with a line for the shell.
Prompt == At("prompt") /\ Read("got")

File == At("file") /\ Scan("peek", {}, "first_char")

FirstChar ==
  /\ At("first_char")
  /\ IF NextIs({"#"}) THEN Scan("until", {"\n"}, "loop") ELSE Scan("peek", {}, "peeked")

Loop == At("loop") /\ Scan("peek", {}, "peeked")

Peeked ==
  /\ At("peeked")
  /\ ~NextIs({EOF})
  /\ Read("got")

Finish ==
  /\ At("peeked")
  /\ NextIs({EOF})
  /\ frames' = << >>
  /\ UNCHANGED <<textVars, value, program>>

Got ==
  /\ At("got")
  /\ Len(program) < MaxProgram
  /\ program' = Append(program, value)
  /\ frames' = Continued("loop")
  /\ UNCHANGED <<textVars, value>>

-----------------------------------------------------------------------------
(* read_atom and read_sym.                                                 *)

SkipSpace == At("read_atom") /\ Scan("while", Space, "dispatch")

\* What the next character tells about the atom; comments come first.
Dispatch ==
  /\ At("dispatch")
  /\ \/ NextIs({Semicolon}) /\ Scan("until", {"\n"}, "comment")
     \/ NextIs({EOF}) /\ ReturnAtom(Nil)
     \/ NextIs({"("}) /\ Scan("one_of", {"("}, "open")
     \/ NextIs({"'"}) /\ Scan("one_of", {"'"}, "quote")
     \/ NextIs({Quotation}) /\ Scan("one_of", {Quotation}, "string")
     \/ NextIs(Digits) /\ Scan("while", Digits, "number")
     \/ ~NextIs({Semicolon, EOF, "(", "'", Quotation} \cup Digits) /\ Scan("while", SymbolChar, "symbol")

Comment == At("comment") /\ Scan("peek", {}, "dispatch")

Quote == At("quote") /\ Read("quoted")

Quoted == At("quoted") /\ ReturnAtom(Pair(Sym(QuoteText), Pair(value, Nil)))

String == At("string") /\ Scan("until", {Quotation}, "string_end")

StringEnd == At("string_end") /\ ReturnAtom(Str(result.slice))

Number == At("number") /\ ReturnAtom(Num(NumberOf(result.slice)))

Symbol == At("symbol") /\ ReturnAtom(SymbolOf(result.slice))

-----------------------------------------------------------------------------
(* read_list.                                                              *)

Open == At("open") /\ Scan("while", Space, "first")

\* slip: the parenthesis that closes an empty list is left unread
FirstLeavingParenthesis ==
  /\ At("first")
  /\ IF NextIs({")"}) THEN ReturnAtom(Nil) ELSE Read("element")

First ==
  /\ At("first")
  /\ IF NextIs({")"}) THEN Scan("one_of", {")"}, "empty") ELSE Read("element")

Empty == At("empty") /\ ReturnAtom(Nil)

\* The atom becomes the `first` of a new pair.
Element ==
  /\ At("element")
  /\ Begin([op |-> "while", tokens |-> Space])
  /\ frames' = Append(Front(frames), [at |-> "next", items |-> Append(Top.items, value)])
  /\ UNCHANGED <<value, program>>

NextElement ==
  /\ At("next")
  /\ \/ NextIs({")"}) /\ Scan("one_of", {")"}, "closed")
     \/ NextIs({"."}) /\ Scan("one_of", {"."}, "dot")
     \/ NextIs({EOF}) /\ ReturnAtom(Nil)
     \/ ~NextIs({")", ".", EOF}) /\ Read("element")

Closed == At("closed") /\ ReturnAtom(ListOf(Top.items, Nil))

Dot == At("dot") /\ Read("tail")

DottedEnd == At("tail") /\ Scan("while", Space, "tail_space")

TailSpace == At("tail_space") /\ Scan("one_of", {")"}, "tail_closed")

TailClosed == At("tail_closed") /\ ReturnAtom(ListOf(Top.items, value))
-----------------------------------------------------------------------------
ReadStep ==
  \/ Prompt \/ File \/ FirstChar \/ Loop \/ Peeked \/ Finish \/ Got
  \/ SkipSpace \/ Dispatch \/ Comment \/ Quote \/ Quoted
  \/ String \/ StringEnd \/ Number \/ Symbol
  \/ Open \/ First \/ Empty \/ Element \/ NextElement \/ Closed
  \/ Dot \/ DottedEnd \/ TailSpace \/ TailClosed

ScanStep == Return /\ UNCHANGED readerVars

Done == frames = << >>

ReaderInit ==
  /\ Init
  /\ \E place \in {"prompt", "file"} : frames = <<Frame(place)>>
  /\ value = Nil
  /\ program = << >>

ReaderNext == ReadStep \/ ScanStep

ReaderSpec == ReaderInit /\ [][ReaderNext]_vars /\ WF_vars(ReaderNext)

-----------------------------------------------------------------------------
(* Parentheses, strings and comments, told apart one character at a time.  *)

LexStart == [mode |-> "code", depth |-> 0, closable |-> TRUE]

Lex(state, c) ==
  CASE state.mode = "comment" /\ c = "\n" -> [state EXCEPT !.mode = "code"]
    [] state.mode = "string" /\ c = Quotation -> [state EXCEPT !.mode = "code"]
    [] state.mode = "code" /\ c = Semicolon -> [state EXCEPT !.mode = "comment"]
    [] state.mode = "code" /\ c = Quotation -> [state EXCEPT !.mode = "string"]
    [] state.mode = "code" /\ c = "(" -> [state EXCEPT !.depth = @ + 1]
    [] state.mode = "code" /\ c = ")" ->
         [state EXCEPT !.depth = @ - 1, !.closable = @ /\ state.depth > 0]
    [] OTHER -> state

\* The state after the first n characters.
Lexed(t) ==
  LET lexed[n \in 0..Len(t)] == IF n = 0 THEN LexStart ELSE Lex(lexed[n - 1], t[n])
  IN  lexed

Depth == Lexed(text)[position].depth

\* No list has a dot, and the text does not begin with a line for the shell.
IsPlain == "." \notin ToSet(text) /\ (text # << >> => Head(text) # "#")

\* And no list is closed that is not open, no string or comment left open.
IsRegular ==
  /\ IsPlain
  /\ Lexed(text)[Len(text)].closable
  /\ Lexed(text)[Len(text)].mode = "code"

\* Reading ends, at the end of the file, however deep the lists are and
\* however many of them are left open there (read_list returns at EOF).
ReadingEnds == IsRegular => <>Done

\* And it ends for no other text: a string or a comment that does not end is
\* searched for its end for ever (scan_until does not look for EOF), and a
\* parenthesis too many is never passed over or taken for a part of an atom
\* (read_sym reads an empty symbol before it, again and again).
OnlyRegularTextsEnd == Done /\ IsPlain => IsRegular

\* As long as there is text left, the activations of read_list are the lists
\* that are open at the position, whatever comments, strings, quotes and
\* parentheses too many there are in between; at the end they only return.
OpenListPlace == {"open", "first", "element", "next"}
OpenLists == Cardinality({i \in DOMAIN frames : frames[i].at \in OpenListPlace})

NestingFollowsText ==
  call = Idle /\ IsPlain =>
    \/ OpenLists = Depth
    \/ position = Len(text) /\ OpenLists < Depth

\* A token consists of characters of its kind and is not empty if it is a
\* number, even behind a dotted list that goes on where it should be closed,
\* where scan_one_of leaves characters read but not consumed.
TokensClean ==
  call = Idle /\ frames # << >> =>
    /\ Top.at = "number" => result.slice \in Seq(Digits) \ {<< >>}
    /\ Top.at = "symbol" => result.slice \in Seq(SymbolChar)
    /\ Top.at = "string_end" => Quotation \notin ToSet(result.slice)
=============================================================================
