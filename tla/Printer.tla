------------------------------ MODULE Printer ------------------------------
(***************************************************************************)
(* What print_atom (printer.c) writes for atoms that the reader can build. *)
(***************************************************************************)
EXTENDS AtomTrees

\* "%ld": the decimal digits of a number, behind its sign.
RECURSIVE NumText(_)
NumText(num) ==
  IF num < 0
  THEN <<"-">> \o NumText(-num)
  ELSE (IF num < 10 THEN << >> ELSE NumText(num \div 10)) \o <<Digit[(num % 10) + 1]>>

IsQuoted(atom) ==
  /\ atom.type = "pair"
  /\ atom.first = Sym(QuoteText)
  /\ atom.rest.type = "pair"

Separator(atom) == IF atom.type = "pair" THEN <<" ">> ELSE << >>

\* print_atom, and print_list with its loop over the pairs of a list
RECURSIVE PrintAtom(_), PrintItems(_)

\* slip: no dot before the end of a list that is not nil
PrintItemsUndotted(list) ==
  CASE list.type = "pair" ->
         PrintAtom(list.first) \o Separator(list.rest) \o PrintItems(list.rest)
    [] list.type = "nil" -> << >>
    [] OTHER -> <<" ">> \o PrintAtom(list)

PrintItems(list) ==
  CASE list.type = "pair" ->
         PrintAtom(list.first) \o Separator(list.rest) \o PrintItems(list.rest)
    [] list.type = "nil" -> << >>
    [] OTHER -> <<" ", ".", " ">> \o PrintAtom(list)

PrintAtom(atom) ==
  CASE atom.type = "nil" -> NilText
    [] atom.type = "true" -> TrueText
    [] atom.type = "false" -> FalseText
    [] atom.type = "num" -> NumText(atom.num)
    [] atom.type = "sym" -> atom.sym
    [] atom.type = "str" -> <<"\"">> \o atom.str \o <<"\"">>
    [] IsQuoted(atom) -> <<"'">> \o PrintAtom(atom.rest.first)
    [] OTHER -> <<"(">> \o PrintItems(atom) \o <<")">>
=============================================================================
