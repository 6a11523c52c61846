SPECIFICATION SessionSpec
CONSTANTS
  Symbol <- Symbols
  Buildin <- AllBuildins
  MinNum <- MinByte
  MaxNum <- MaxByte
  MinInt16 <- MinByte
  MaxInt16 <- MaxSmall
  CompiledLambda <- AgreementCode
  Form <- FileForms
  MaxForms = 20
  Global <- Globals
  QuotedPair <- NoPairs
  HeapSize <- NoNumbers
  BuildinFor <- Buildins
  ConsFromRight = TRUE
  Source <- AgreementSource
  Script <- AgreementScripts
INVARIANTS
  RunsBalancedCode
  RunsScopedCode
  FindsNamedLambda
  FrameLayout
  OuterFrameAlive
  EscapesSeen
  ScopesStayOnTheirStack
  Agreement
PROPERTIES
  EveryFormIsAnswered
