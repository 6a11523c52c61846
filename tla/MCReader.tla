------------------------------ MODULE MCReader ------------------------------
(***************************************************************************)
(* Reader on all short texts of the characters that it treats in different *)
(* ways, and on what the printer writes for atoms of every kind.           *)
(***************************************************************************)
EXTENDS Reader, Printer

Letters == {"a", "x"} \cup ToSet(NilText \o TrueText \o FalseText \o QuoteText)
Characters == Space \cup {"(", ")", ";", "'", "\"", ".", "#", "-"} \cup Digits \cup Letters

MaxText == 4

ShortTexts == BoundedSeq({"(", ")", ";", "'", "\"", "\n", "1", "a"}, MaxText)

\* Dots at every place, and a line for the shell.
DottedTexts ==
  {<<"(", "a">> \o middle \o end : middle \in BoundedSeq({".", " ", "1", ")", "("}, 4),
                                  end \in {<< >>, <<"1", ")">>}}
    \cup {<<"#", "a", "\n", "1">>, <<"#", "\n">>}

Leaf == {Nil, True, Num(0), Num(42), Num(-7), Sym(<<"a">>), Sym(QuoteText), Str(<<"(", " ">>)}
Short == {Pair(first, rest) : first, rest \in Leaf}
Long == {Pair(Num(1), pair) : pair \in Short} \cup {Pair(pair, False) : pair \in Short}
          \cup {Pair(pair, Pair(pair, Nil)) : pair \in Short}
          \cup {Pair(Sym(QuoteText), Pair(pair, Nil)) : pair \in Short}

\* (quote a), (quote a . b) and (quote a b), as elements and as ends of lists
Quotes == {Pair(Sym(QuoteText), pair) : pair \in Short}
            \cup {Pair(Sym(QuoteText), Pair(leaf, Pair(Num(-7), Nil))) : leaf \in Leaf}
Sample == Leaf \cup Short \cup Long \cup Quotes
            \cup {Pair(list, Nil) : list \in Quotes} \cup {Pair(Num(1), list) : list \in Quotes}

\* What is read back for an atom is the atom itself but for two losses: of a
\* list that starts with quote only the second element is printed, and a
\* negative number is printed as a text that reads as a symbol.
RECURSIVE ReadBack(_), ItemsBack(_)
ItemsBack(list) ==
  IF list.type = "pair" THEN Pair(ReadBack(list.first), ItemsBack(list.rest)) ELSE ReadBack(list)
ReadBack(atom) ==
  CASE IsQuoted(atom) -> Pair(Sym(QuoteText), Pair(ReadBack(atom.rest.first), Nil))
    [] atom.type = "pair" /\ ~IsQuoted(atom) -> ItemsBack(atom)
    [] atom.type = "num" /\ atom.num < 0 -> Sym(NumText(atom.num))
    [] OTHER -> atom

\* A comment before an atom, as long as no space follows the comment.
Commented(atom) == <<";", "(", "\n">> \o PrintAtom(atom)

Texts ==
  ShortTexts \cup DottedTexts
    \cup UNION {{PrintAtom(atom), Commented(atom)} : atom \in Sample}

\* What the printer writes for an atom is one text that reads as that atom,
\* with a comment before it too, and nothing else is lost than ReadBack says
\* (test_printer in printer_test.c tries four lists, in the other direction).
ReadsWhatIsPrinted ==
  Done => \A atom \in Sample :
    text \in {PrintAtom(atom), Commented(atom)} => program = <<ReadBack(atom)>>
=============================================================================
