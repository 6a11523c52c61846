SPECIFICATION Spec
CONSTANTS
  Char <- Characters
  Newline <- Newlines
  EOF = EOF
  Text <- ShortTexts
  BlockSize = 2
  TokenSet <- Sets
INVARIANTS TypeOK LineAndColumn
PROPERTIES ImplementsTextScanner CallsReturn
