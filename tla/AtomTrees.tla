----------------------------- MODULE AtomTrees -----------------------------
(***************************************************************************)
(* Atoms as the reader builds them and the printer writes them, as trees,  *)
(* and the texts that both know.  A text is a sequence of characters.      *)
(***************************************************************************)
EXTENDS Integers, Sequences

Nil == [type |-> "nil"]
True == [type |-> "true"]
False == [type |-> "false"]
Num(num) == [type |-> "num", num |-> num]
Sym(sym) == [type |-> "sym", sym |-> sym]
Str(str) == [type |-> "str", str |-> str]
Pair(first, rest) == [type |-> "pair", first |-> first, rest |-> rest]

\* The names that the reader turns into atoms of their own.
NilText == <<"n", "i", "l">>
TrueText == <<"t", "r", "u", "e">>
FalseText == <<"f", "a", "l", "s", "e">>
QuoteText == <<"q", "u", "o", "t", "e">>

Digit == <<"0", "1", "2", "3", "4", "5", "6", "7", "8", "9">>
=============================================================================
