SPECIFICATION Spec
CONSTANTS
  a = a
  nl = nl
  NUL = NUL
  Char = {a, nl}
  Text <- Texts
  Sizes <- SmallSizes
  MaxPrinted = 5
  MaxLogged = 3
  Place <- Places
  Newline <- NewlineText
INVARIANTS TypeOK CapturesPrefix
PROPERTIES FreedBlockUntouched ImplementsTextSink
