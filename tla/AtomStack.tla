----------------------------- MODULE AtomStack -----------------------------
(***************************************************************************)
(* What the execution stack of the virtual machine promises: a sequence of *)
(* atoms that grows and shrinks at its end.  BytecodeInterpreter computes  *)
(* with such a sequence; ExecutionStack implements it.                     *)
(***************************************************************************)
EXTENDS Integers, Sequences

CONSTANTS
  Atom,       \* what the stack holds
  MaxLength,  \* bound: atoms on the stack
  MaxN        \* bound: atoms pushed or popped at once

VARIABLES
  slots,      \* the atoms on the stack
  answer      \* what the last pop or peek returned

Init ==
  /\ slots = << >>
  /\ answer \in Atom

Push(atom) ==
  /\ Len(slots) < MaxLength
  /\ slots' = Append(slots, atom)
  /\ UNCHANGED answer

PushN(atom, n) ==
  /\ Len(slots) + n <= MaxLength
  /\ slots' = slots \o [i \in 1..n |-> atom]
  /\ UNCHANGED answer

Pop ==
  /\ slots # << >>
  /\ answer' = slots[Len(slots)]
  /\ slots' = SubSeq(slots, 1, Len(slots) - 1)

PopN(n) ==
  /\ n <= Len(slots)
  /\ slots' = SubSeq(slots, 1, Len(slots) - n)
  /\ UNCHANGED answer

Peek ==
  /\ slots # << >>
  /\ answer' = slots[Len(slots)]
  /\ UNCHANGED slots

\* Through a frame pointer.
Load(i) ==
  /\ answer' = slots[i]
  /\ UNCHANGED slots

Store(i, atom) ==
  /\ slots' = [slots EXCEPT ![i] = atom]
  /\ UNCHANGED answer

Next ==
  \/ \E atom \in Atom : Push(atom) \/ \E n \in 0..MaxN : PushN(atom, n)
  \/ Pop
  \/ \E n \in 0..MaxN : PopN(n)
  \/ Peek
  \/ \E i \in 1..Len(slots) : Load(i) \/ \E atom \in Atom : Store(i, atom)

Spec == Init /\ [][Next]_<<slots, answer>>
=============================================================================
