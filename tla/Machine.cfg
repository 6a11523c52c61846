SPECIFICATION Spec
CONSTANTS
  Symbol <- MachineSymbols
  Buildin = {"print", "gc_heap_size", "plus"}
  MinNum <- MinByte
  MaxNum <- MaxByte
  CompiledLambda <- MachineCode
  Form <- MachineForms
  MaxForms = 3
  Global <- Globals
  QuotedPair <- OnePair
  HeapSize = {0, 64}
INVARIANTS
  TypeOK
  FrameLayout
  NoDanglingScope
  EscapesSeen
  SavedStateHidden
  StackReleased
  ResultAsTested
PROPERTIES
  EvaluationEnds
