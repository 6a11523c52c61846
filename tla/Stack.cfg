SPECIFICATION Spec
CONSTANTS
  Atom = {a, b}
  NULL = NULL
  Preallocated <- SmallBlocks
  MaxLength = 9
  MaxN = 4
INVARIANTS TypeOK OnlyLiveAtoms
PROPERTIES ImplementsAtomStack NoThrashing
