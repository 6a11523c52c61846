SPECIFICATION ReaderSpec
CONSTANTS
  Char <- Characters
  EOF = EOF
  Text <- Texts
  MaxProgram = 6
INVARIANTS ReadsWhatIsPrinted NestingFollowsText TokensClean OnlyRegularTextsEnd
PROPERTIES ReadingEnds
CHECK_DEADLOCK FALSE
