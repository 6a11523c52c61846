SPECIFICATION SessionSpec
CONSTANTS
  Symbol <- Symbols
  Buildin <- AllBuildins
  MinNum <- MinByte
  MaxNum <- MaxByte
  MinInt16 <- MinByte
  MaxInt16 <- MaxSmall
  CompiledLambda <- NamedCode
  Form <- FileForms
  MaxForms = 20
  Global <- Globals
  QuotedPair <- NoPairs
  HeapSize <- NoNumbers
  BuildinFor <- Buildins
  ConsFromRight = FALSE
  Source <- NamedSource
  Script <- CapturingScripts
INVARIANTS
  Agreement
