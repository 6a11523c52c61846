--------------------------- MODULE ExecutionStack ---------------------------
(***************************************************************************)
(* The execution stack of the virtual machine (bytecode_interpreter.c): a  *)
(* block of memory that is reallocated when it gets too small or far too   *)
(* large.  Slots count from 1.                                             *)
(*                                                                         *)
(* stack_pop, stack_peek and stack_pop_n do not check the length; that     *)
(* there is enough to pop is what FrameLayout says of the machine.         *)
(***************************************************************************)
EXTENDS Integers, Sequences

CONSTANTS
  Atom,          \* what the machine pushes
  NULL,          \* an empty slot
  Preallocated,  \* the sizes stack_new may be asked for
  MaxLength,     \* bound: atoms on the stack
  MaxN           \* bound: atoms pushed or popped at once

ASSUME NullAssumption == NULL \notin Atom
ASSUME SizeAssumption == Preallocated \subseteq Nat /\ MaxLength \in Nat /\ MaxN \in Nat

VARIABLES length, allocated, atoms,
          answer  \* what the last stack_pop or stack_peek returned

vars == <<length, allocated, atoms, answer>>

-----------------------------------------------------------------------------
\* slip: halves the block as soon as half of it is free
CapacityShrunkAtHalf(len) ==
  CASE len > allocated -> len * 2
    [] len < allocated \div 2 -> allocated \div 2
    [] OTHER -> allocated

\* slip: the threshold and the new size swapped
CapacityShrunkToThird(len) ==
  CASE len > allocated -> len * 2
    [] len < allocated \div 2 -> allocated \div 3
    [] OTHER -> allocated

Capacity(len) ==
  CASE len > allocated -> len * 2
    [] len < allocated \div 3 -> allocated \div 2
    [] OTHER -> allocated

\* The collector's realloc keeps what fits and clears the rest.
Realloc(block, size) ==
  [i \in 1..size |-> IF i \in DOMAIN block THEN block[i] ELSE NULL]

\* slip: popped atoms stay where they are
SlotsNotCleared(from, to) == atoms

\* The block with the slots from..to set to NULL.
Cleared(from, to) == [i \in 1..allocated |-> IF i \in from..to THEN NULL ELSE atoms[i]]

Resize(len, block) ==
  /\ length' = len
  /\ allocated' = Capacity(len)
  /\ atoms' = Realloc(block, Capacity(len))

\* slip: counts down from the slot below the last one
FilledOneTooLow(len, n) == (len - n)..(len - 1)

\* The slots that pushing n atoms up to `len` of them fills.
Filled(len, n) == (len + 1 - n)..len

Grow(atom, n) ==
  LET len == length + n
      block == Realloc(atoms, Capacity(len))
  IN  /\ len <= MaxLength
      /\ length' = len
      /\ allocated' = Capacity(len)
      /\ atoms' = [i \in 1..Capacity(len) |-> IF i \in Filled(len, n) THEN atom ELSE block[i]]
      /\ UNCHANGED answer

stack_push(atom) == Grow(atom, 1)

stack_push_n(atom, n) == Grow(atom, n)

stack_pop ==
  /\ length > 0
  /\ answer' = atoms[length]
  /\ Resize(length - 1, Cleared(length, length))

stack_pop_n(n) ==
  /\ n <= length
  /\ Resize(length - n, Cleared(length - n + 1, length))
  /\ UNCHANGED answer

stack_peek ==
  /\ length > 0
  /\ answer' = atoms[length]
  /\ UNCHANGED <<length, allocated, atoms>>

\* bci_eval reads and writes slots of a frame through frame_pointer.
LoadSlot(i) ==
  /\ answer' = atoms[i]
  /\ UNCHANGED <<length, allocated, atoms>>

StoreSlot(i, atom) ==
  /\ atoms' = [atoms EXCEPT ![i] = atom]
  /\ UNCHANGED <<length, allocated, answer>>

Init ==
  /\ length = 0
  /\ allocated \in Preallocated
  /\ atoms = [i \in 1..allocated |-> NULL]
  /\ answer \in Atom

Next ==
  \/ \E atom \in Atom : stack_push(atom) \/ \E n \in 0..MaxN : stack_push_n(atom, n)
  \/ stack_pop
  \/ \E n \in 0..MaxN : stack_pop_n(n)
  \/ stack_peek
  \/ \E i \in 1..length : LoadSlot(i) \/ \E atom \in Atom : StoreSlot(i, atom)

Spec == Init /\ [][Next]_vars

-----------------------------------------------------------------------------
\* Types, and the assertions of stack_reallocate_if_neccessary: what is on the
\* stack fits into the block.
TypeOK ==
  /\ length \in Nat
  /\ allocated \in Nat
  /\ atoms \in [1..allocated -> Atom \cup {NULL}]
  /\ answer \in Atom
  /\ length <= allocated

\* A slot holds an atom if and only if it is on the stack: no operation reads
\* an empty slot, and the collector does not find popped atoms in the block.
OnlyLiveAtoms == \A i \in 1..allocated : atoms[i] \in Atom <=> i <= length

\* Moving the block neither loses, reorders nor revives an atom: the block
\* behaves as the sequence of atoms in its used part (the push, pop and peek
\* functions with stack_reallocate_if_neccessary under them).
Implemented == INSTANCE AtomStack WITH slots <- SubSeq(atoms, 1, length)
ImplementsAtomStack == Implemented!Spec

\* After a reallocation a third of the block has to be pushed, or a third of
\* the atoms popped, before the block is reallocated in the other direction:
\* a function that pushes and pops at one place does not copy the stack in
\* every instruction.
NoThrashing ==
  [][/\ allocated' < allocated => length' + allocated' \div 3 <= allocated'
     /\ allocated' > allocated => length' - length' \div 3 >= allocated' \div 3]_vars
=============================================================================
