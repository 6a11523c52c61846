------------------------------ MODULE MCScanner -----------------------------
(* Scanner on every text of up to four characters of three kinds, read     *)
(* with a buffer of two characters at first.                               *)
EXTENDS Scanner, SequencesExt

Letters == {"a", "b"}
Newlines == "\n"
Characters == Letters \cup {Newlines}
MaxText == 4

ShortTexts == BoundedSeq(Characters, MaxText)

\* Terminators that occur, that do not, the end of the file, and a run of
\* several characters.
Sets == {{"a"}, {"a", Newlines}, {Newlines}, {EOF}}
=============================================================================
