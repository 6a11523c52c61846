SPECIFICATION Spec
CONSTANTS
  Symbol <- InstructionSymbols
  Buildin = {"plus"}
  MinNum <- MinTiny
  MaxNum <- MaxTiny
  CompiledLambda <- InstructionCode
  Form <- InstructionForms
  MaxForms = 2
  Global <- TinyGlobals
  QuotedPair <- TinyList
  HeapSize = {0}
INVARIANTS
  FaultsExplained
  DivisionLaw
