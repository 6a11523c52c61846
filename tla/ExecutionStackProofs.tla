------------------------ MODULE ExecutionStackProofs ------------------------
(***************************************************************************)
(* Theorems about ExecutionStack: the assertions of the reallocation hold, *)
(* popped atoms are cleared, and the block implements a sequence of atoms. *)
(***************************************************************************)
EXTENDS ExecutionStack, SequenceTheorems, TLAPS

IInv == TypeOK /\ OnlyLiveAtoms

-----------------------------------------------------------------------------
(* Reallocation.                                                           *)

LEMMA CapacityFits ==
  ASSUME NEW len \in Nat, allocated \in Nat
  PROVE  Capacity(len) \in Nat /\ len <= Capacity(len)
BY DEF Capacity

\* What is kept by a reallocation to a size that has room for `len` atoms.
LEMMA ReallocKeeps ==
  ASSUME NEW len \in Nat, NEW block, allocated \in Nat, DOMAIN block = 1..allocated,
         len <= allocated
  PROVE  \A i \in 1..len : Realloc(block, Capacity(len))[i] = block[i]
BY CapacityFits DEF Realloc, Capacity

-----------------------------------------------------------------------------
(* One lemma for each way to change the block.                             *)

LEMMA GrowInv ==
  ASSUME IInv, NEW atom \in Atom, NEW n \in Nat, Grow(atom, n)
  PROVE  /\ IInv'
         /\ \A i \in 1..length : atoms'[i] = atoms[i]
         /\ \A i \in (length + 1)..length' : atoms'[i] = atom
         /\ length' = length + n
<1> DEFINE len == length + n
           size == Capacity(len)
<1>1. len \in Nat /\ size \in Nat /\ len <= size
  <2>1. len \in Nat /\ allocated \in Nat
    BY DEF IInv, TypeOK
  <2> HIDE DEF len
  <2> QED
    BY <2>1, CapacityFits
<1>2. length' = len /\ allocated' = size /\ answer' = answer
  BY DEF Grow
<1>3. atoms' = [i \in 1..size |-> IF i \in (len + 1 - n)..len THEN atom
                                  ELSE IF i \in 1..allocated THEN atoms[i] ELSE NULL]
  <2>1. DOMAIN atoms = 1..allocated
    BY DEF IInv, TypeOK
  <2> QED
    BY <2>1 DEF Grow, Filled, Realloc
<1>4. length \in Nat /\ allocated \in Nat /\ n \in Nat /\ length <= allocated
  BY DEF IInv, TypeOK
<1>5. atoms \in [1..allocated -> Atom \cup {NULL}]
  BY DEF IInv, TypeOK
<1>6. \A i \in 1..allocated : atoms[i] \in Atom <=> i <= length
  BY DEF IInv, OnlyLiveAtoms
<1> HIDE DEF size
<1>7. \A i \in 1..length : atoms'[i] = atoms[i]
  BY <1>1, <1>3, <1>4
<1>8. \A i \in (length + 1)..length' : atoms'[i] = atom
  BY <1>1, <1>2, <1>3, <1>4
<1>9. \A i \in 1..size : i > len => atoms'[i] = NULL
  BY <1>1, <1>3, <1>4, <1>5, <1>6
<1>10. \A i \in 1..len : atoms'[i] \in Atom
  <2> SUFFICES ASSUME NEW i \in 1..len
               PROVE  atoms'[i] \in Atom
    OBVIOUS
  <2>1. CASE i <= length
    BY <2>1, <1>7, <1>6, <1>4
  <2>2. CASE i > length
    BY <2>2, <1>8, <1>4, <1>2
  <2> QED
    BY <2>1, <2>2, <1>4
<1>11. TypeOK'
  <2>1. DOMAIN atoms' = 1..size
    BY <1>3
  <2>2. \A i \in 1..size : atoms'[i] \in Atom \cup {NULL}
    BY <1>9, <1>10, <1>1
  <2>3. atoms' \in [1..size -> Atom \cup {NULL}]
    BY <2>1, <2>2, <1>3
  <2>4. answer' \in Atom
    BY <1>2 DEF IInv, TypeOK
  <2> QED
    BY <2>3, <2>4, <1>1, <1>2 DEF TypeOK
<1>12. OnlyLiveAtoms'
  BY <1>1, <1>2, <1>9, <1>10, NullAssumption DEF OnlyLiveAtoms
<1> QED
  BY <1>2, <1>7, <1>8, <1>11, <1>12 DEF IInv

\* Shrink(n): what stack_pop and stack_pop_n do to the block.
LEMMA ResizeInv ==
  ASSUME IInv, NEW n \in Nat, n <= length,
         Resize(length - n, Cleared(length - n + 1, length)), answer' \in Atom
  PROVE  /\ IInv'
         /\ length' = length - n
         /\ \A i \in 1..length' : atoms'[i] = atoms[i]
<1> DEFINE len == length - n
           size == Capacity(len)
<1>1. length \in Nat /\ allocated \in Nat /\ length <= allocated /\ len \in Nat
  BY DEF IInv, TypeOK
<1>2. size \in Nat /\ len <= size /\ size <= allocated
  <2>1. size \in Nat /\ len <= size
    BY <1>1, CapacityFits
  <2> QED
    BY <1>1, <2>1 DEF Capacity
<1>3. length' = len /\ allocated' = size
  BY DEF Resize
<1>4. atoms' = [i \in 1..size |-> IF i \in (len + 1)..length THEN NULL ELSE atoms[i]]
  <2>1. atoms' = [i \in 1..size |-> IF i \in DOMAIN Cleared(len + 1, length)
                                    THEN Cleared(len + 1, length)[i] ELSE NULL]
    BY DEF Resize, Realloc
  <2>2. DOMAIN Cleared(len + 1, length) = 1..allocated
    BY DEF Cleared
  <2>3. \A i \in 1..size : i \in 1..allocated
    BY <1>1, <1>2
  <2>4. \A i \in 1..size : Cleared(len + 1, length)[i]
                             = IF i \in (len + 1)..length THEN NULL ELSE atoms[i]
    BY <2>3 DEF Cleared
  <2> HIDE DEF size, len
  <2> QED
    BY <2>1, <2>2, <2>3, <2>4
<1>5. atoms \in [1..allocated -> Atom \cup {NULL}]
  BY DEF IInv, TypeOK
<1>6. \A i \in 1..allocated : atoms[i] \in Atom <=> i <= length
  BY DEF IInv, OnlyLiveAtoms
<1> HIDE DEF size
<1>7. \A i \in 1..len : atoms'[i] = atoms[i] /\ atoms'[i] \in Atom
  BY <1>1, <1>2, <1>4, <1>6
<1>8. \A i \in 1..size : i > len => atoms'[i] = NULL
  BY <1>1, <1>2, <1>4, <1>5, <1>6
<1>9. TypeOK'
  <2>1. \A i \in 1..size : atoms'[i] \in Atom \cup {NULL}
    BY <1>7, <1>8, <1>1, <1>2
  <2>2. atoms' \in [1..size -> Atom \cup {NULL}]
    BY <2>1, <1>4
  <2> QED
    BY <2>2, <1>1, <1>2, <1>3 DEF TypeOK
<1>10. OnlyLiveAtoms'
  BY <1>1, <1>2, <1>3, <1>7, <1>8, NullAssumption DEF OnlyLiveAtoms
<1> QED
  BY <1>3, <1>7, <1>9, <1>10 DEF IInv

\* The atoms on the stack are atoms.
LEMMA LiveAtom ==
  ASSUME IInv, NEW i \in 1..length
  PROVE  i \in 1..allocated /\ atoms[i] \in Atom
BY DEF IInv, TypeOK, OnlyLiveAtoms

LEMMA StoreInv ==
  ASSUME IInv, NEW i \in 1..length, NEW atom \in Atom, StoreSlot(i, atom)
  PROVE  /\ IInv'
         /\ length' = length
         /\ \A j \in 1..length : atoms'[j] = IF j = i THEN atom ELSE atoms[j]
<1>1. length' = length /\ allocated' = allocated /\ answer' = answer
      /\ atoms' = [atoms EXCEPT ![i] = atom]
  BY DEF StoreSlot
<1>2. length \in Nat /\ allocated \in Nat /\ length <= allocated
      /\ atoms \in [1..allocated -> Atom \cup {NULL}]
  BY DEF IInv, TypeOK
<1>3. \A j \in 1..allocated : atoms'[j] = IF j = i THEN atom ELSE atoms[j]
  BY <1>1, <1>2
<1>4. TypeOK'
  BY <1>1, <1>2 DEF IInv, TypeOK
<1>5. OnlyLiveAtoms'
  <2>1. \A j \in 1..allocated : atoms[j] \in Atom <=> j <= length
    BY DEF IInv, OnlyLiveAtoms
  <2> QED
    BY <2>1, <1>1, <1>2, <1>3 DEF OnlyLiveAtoms
<1> QED
  BY <1>1, <1>2, <1>3, <1>4, <1>5 DEF IInv

-----------------------------------------------------------------------------
(* The invariant.                                                          *)

LEMMA IInvInit == Init => IInv
BY NullAssumption, SizeAssumption DEF Init, IInv, TypeOK, OnlyLiveAtoms

LEMMA IInvStep ==
  ASSUME IInv, [Next]_vars
  PROVE  IInv'
<1>1. CASE \E atom \in Atom : stack_push(atom)
  BY <1>1, GrowInv DEF stack_push
<1>2. CASE \E atom \in Atom : \E n \in 0..MaxN : stack_push_n(atom, n)
  BY <1>2, GrowInv, SizeAssumption DEF stack_push_n
<1>3. CASE stack_pop
  <2>1. length \in Nat /\ length > 0 /\ answer' = atoms[length]
        /\ Resize(length - 1, Cleared(length, length))
    BY <1>3 DEF stack_pop, IInv, TypeOK
  <2>2. answer' \in Atom
    BY <2>1, LiveAtom
  <2>3. length - 1 + 1 = length
    BY <2>1
  <2> QED
    BY <2>1, <2>2, <2>3, ResizeInv
<1>4. CASE \E n \in 0..MaxN : stack_pop_n(n)
  <2>1. PICK n \in 0..MaxN : stack_pop_n(n)
    BY <1>4
  <2>2. n \in Nat /\ n <= length /\ answer' \in Atom
        /\ Resize(length - n, Cleared(length - n + 1, length))
    BY <2>1, SizeAssumption DEF stack_pop_n, IInv, TypeOK
  <2> QED
    BY <2>2, ResizeInv
<1>5. CASE stack_peek \/ \E i \in 1..length : LoadSlot(i)
  <2>1. PICK i \in 1..length : answer' = atoms[i]
    BY <1>5 DEF stack_peek, LoadSlot, IInv, TypeOK
  <2>2. answer' \in Atom
    BY <2>1, LiveAtom
  <2>3. UNCHANGED <<length, allocated, atoms>>
    BY <1>5 DEF stack_peek, LoadSlot
  <2> QED
    BY <2>2, <2>3 DEF IInv, TypeOK, OnlyLiveAtoms
<1>6. CASE \E i \in 1..length : \E atom \in Atom : StoreSlot(i, atom)
  BY <1>6, StoreInv
<1>7. CASE UNCHANGED vars
  BY <1>7 DEF vars, IInv, TypeOK, OnlyLiveAtoms
<1> QED
  BY <1>1, <1>2, <1>3, <1>4, <1>5, <1>6, <1>7 DEF Next

LEMMA Inductive == Spec => []IInv
<1>1. Init => IInv
  BY IInvInit
<1>2. IInv /\ [Next]_vars => IInv'
  BY IInvStep
<1> QED
  BY <1>1, <1>2, PTL DEF Spec

\* The assertions of stack_reallocate_if_neccessary hold, for every size that
\* stack_new may be asked for.
THEOREM StackTypeCorrect == Spec => []TypeOK
<1>1. IInv => TypeOK
  BY DEF IInv
<1> QED
  BY <1>1, Inductive, PTL

\* stack_pop and stack_pop_n clear every slot they give up, and no
\* reallocation brings an atom back: the collector finds the live ones only.
THEOREM PoppedAtomsCleared == Spec => []OnlyLiveAtoms
<1>1. IInv => OnlyLiveAtoms
  BY DEF IInv
<1> QED
  BY <1>1, Inductive, PTL

\* A block that has just been reallocated is neither nearly full nor nearly
\* down to the size at which it shrinks.
THEOREM StackDoesNotThrash == Spec => NoThrashing
<1> DEFINE A == /\ allocated' < allocated => length' + allocated' \div 3 <= allocated'
                /\ allocated' > allocated => length' - length' \div 3 >= allocated' \div 3
<1>1. ASSUME IInv, IInv', [Next]_vars
      PROVE  [A]_vars
  <2>1. allocated' = allocated \/ allocated' = Capacity(length')
    BY <1>1 DEF Next, vars, stack_push, stack_push_n, Grow, stack_pop, stack_pop_n, Resize,
                stack_peek, LoadSlot, StoreSlot
  <2>2. allocated \in Nat /\ allocated' \in Nat /\ length' \in Nat
    BY <1>1 DEF IInv, TypeOK
  <2> QED
    BY <2>1, <2>2 DEF Capacity
<1>2. IInv /\ IInv' /\ [Next]_vars => [A]_vars
  BY <1>1
<1>3. Spec => [][A]_vars
  BY <1>2, Inductive, PTL DEF Spec
<1> QED
  BY <1>3 DEF NoThrashing

-----------------------------------------------------------------------------
(* The block implements a sequence.                                        *)

Used == SubSeq(atoms, 1, length)

\* The used part of any block.
LEMMA UsedPart ==
  ASSUME NEW block, NEW len \in Nat, \A i \in 1..len : block[i] \in Atom
  PROVE  /\ SubSeq(block, 1, len) \in Seq(Atom)
         /\ Len(SubSeq(block, 1, len)) = len
         /\ \A i \in 1..len : SubSeq(block, 1, len)[i] = block[i]
<1>1. /\ SubSeq(block, 1, len) \in Seq(Atom)
      /\ Len(SubSeq(block, 1, len)) = IF 1 <= len THEN len - 1 + 1 ELSE 0
      /\ \A i \in 1..(len - 1 + 1) : SubSeq(block, 1, len)[i] = block[1 + i - 1]
  BY SubSeqProperties
<1> QED
  BY <1>1

LEMMA UsedProperties ==
  ASSUME IInv
  PROVE  /\ Used \in Seq(Atom)
         /\ length \in Nat
         /\ Len(Used) = length
         /\ \A i \in 1..length : Used[i] = atoms[i]
<1>1. length \in Nat /\ \A i \in 1..length : atoms[i] \in Atom
  BY LiveAtom DEF IInv, TypeOK
<1> QED
  BY <1>1, UsedPart DEF Used

LEMMA UsedPropertiesNext ==
  ASSUME IInv'
  PROVE  /\ Used' \in Seq(Atom)
         /\ length' \in Nat
         /\ Len(Used') = length'
         /\ \A i \in 1..length' : Used'[i] = atoms'[i]
<1>1. length' \in Nat /\ \A i \in 1..length' : atoms'[i] \in Atom
  BY DEF IInv, TypeOK, OnlyLiveAtoms
<1> QED
  BY <1>1, UsedPart DEF Used

LEMMA GrowImplements ==
  ASSUME IInv, NEW atom \in Atom, NEW n \in Nat, Grow(atom, n)
  PROVE  Used' = Used \o [i \in 1..n |-> atom]
<1> DEFINE pushed == [i \in 1..n |-> atom]
<1>1. /\ IInv'
      /\ \A i \in 1..length : atoms'[i] = atoms[i]
      /\ \A i \in (length + 1)..length' : atoms'[i] = atom
      /\ length' = length + n
  BY GrowInv
<1>2. /\ Used \in Seq(Atom) /\ length \in Nat /\ Len(Used) = length
      /\ \A i \in 1..length : Used[i] = atoms[i]
  BY UsedProperties
<1>3. /\ Used' \in Seq(Atom) /\ Len(Used') = length'
      /\ \A i \in 1..length' : Used'[i] = atoms'[i]
  BY <1>1, UsedPropertiesNext
<1>4. pushed \in Seq(Atom) /\ Len(pushed) = n /\ \A i \in 1..n : pushed[i] = atom
  OBVIOUS
<1> HIDE DEF pushed
<1>5. /\ Used \o pushed \in Seq(Atom)
      /\ Len(Used \o pushed) = Len(Used) + Len(pushed)
      /\ \A i \in 1..(Len(Used) + Len(pushed)) :
           (Used \o pushed)[i] = IF i <= Len(Used) THEN Used[i] ELSE pushed[i - Len(Used)]
  BY <1>2, <1>4, ConcatProperties
<1>6. \A i \in 1..(length + n) : Used'[i] = (Used \o pushed)[i]
  <2> SUFFICES ASSUME NEW i \in 1..(length + n)
               PROVE  Used'[i] = (Used \o pushed)[i]
    OBVIOUS
  <2>1. Used'[i] = atoms'[i]
    BY <1>1, <1>3
  <2>2. (Used \o pushed)[i] = IF i <= length THEN Used[i] ELSE pushed[i - length]
    BY <1>2, <1>4, <1>5
  <2>3. CASE i <= length
    <3>1. i \in 1..length
      BY <1>2, <2>3
    <3> QED
      BY <2>1, <2>2, <2>3, <3>1, <1>1, <1>2
  <2>4. CASE ~(i <= length)
    <3>1. i - length \in 1..n /\ i \in (length + 1)..length'
      BY <1>1, <1>2, <2>4
    <3>2. atoms'[i] = atom /\ pushed[i - length] = atom
      BY <3>1, <1>1, <1>4
    <3> QED
      BY <2>1, <2>2, <2>4, <3>2
  <2> QED
    BY <2>3, <2>4
<1>7. Used' = Used \o pushed
  <2>1. Len(Used') = length + n /\ Len(Used \o pushed) = length + n
    BY <1>1, <1>2, <1>3, <1>4, <1>5
  <2> QED
    BY <1>3, <1>5, <1>6, <2>1, SeqEqual
<1> QED
  BY <1>7 DEF pushed

LEMMA ResizeImplements ==
  ASSUME IInv, NEW n \in Nat, n <= length,
         Resize(length - n, Cleared(length - n + 1, length)), answer' \in Atom
  PROVE  Used' = SubSeq(Used, 1, Len(Used) - n)
<1>1. /\ IInv'
      /\ length' = length - n
      /\ \A i \in 1..length' : atoms'[i] = atoms[i]
  BY ResizeInv
<1>2. /\ Used \in Seq(Atom) /\ length \in Nat /\ Len(Used) = length
      /\ \A i \in 1..length : Used[i] = atoms[i]
  BY UsedProperties
<1>3. /\ Used' \in Seq(Atom) /\ Len(Used') = length' /\ length' \in Nat
      /\ \A i \in 1..length' : Used'[i] = atoms'[i]
  BY <1>1, UsedPropertiesNext
<1>4. \A i \in 1..length' : Used[i] \in Atom
  BY <1>1, <1>2, ElementOfSeq
<1>5. /\ SubSeq(Used, 1, length') \in Seq(Atom)
      /\ Len(SubSeq(Used, 1, length')) = length'
      /\ \A i \in 1..length' : SubSeq(Used, 1, length')[i] = Used[i]
  BY <1>3, <1>4, UsedPart
<1>6. \A i \in 1..length' : Used'[i] = SubSeq(Used, 1, length')[i]
  BY <1>1, <1>2, <1>3, <1>5
<1>7. Used' = SubSeq(Used, 1, length')
  BY <1>3, <1>5, <1>6, SeqEqual
<1> QED
  BY <1>1, <1>2, <1>7

LEMMA StoreImplements ==
  ASSUME IInv, NEW i \in 1..length, NEW atom \in Atom, StoreSlot(i, atom)
  PROVE  Used' = [Used EXCEPT ![i] = atom]
<1>1. /\ IInv'
      /\ length' = length
      /\ \A j \in 1..length : atoms'[j] = IF j = i THEN atom ELSE atoms[j]
  BY StoreInv
<1>2. /\ Used \in Seq(Atom) /\ length \in Nat /\ Len(Used) = length
      /\ \A j \in 1..length : Used[j] = atoms[j]
  BY UsedProperties
<1>3. /\ Used' \in Seq(Atom) /\ Len(Used') = length
      /\ \A j \in 1..length : Used'[j] = atoms'[j]
  BY <1>1, UsedPropertiesNext
<1>4. /\ [Used EXCEPT ![i] = atom] \in Seq(Atom)
      /\ Len([Used EXCEPT ![i] = atom]) = length
      /\ \A j \in 1..length : [Used EXCEPT ![i] = atom][j] = IF j = i THEN atom ELSE Used[j]
  BY <1>2, ExceptSeq
<1>5. \A j \in 1..length : Used'[j] = [Used EXCEPT ![i] = atom][j]
  BY <1>1, <1>2, <1>3, <1>4
<1> QED
  BY <1>3, <1>4, <1>5, SeqEqual

LEMMA InitImplements == Init => Implemented!Init
<1> SUFFICES ASSUME Init
             PROVE  Implemented!Init
  OBVIOUS
<1>1. IInv /\ length = 0
  BY IInvInit DEF Init
<1>2. Used = << >>
  BY <1>1, UsedProperties, EmptySeq
<1> QED
  BY <1>2 DEF Init, Implemented!Init, Used

LEMMA StepImplements ==
  ASSUME IInv, IInv', [Next]_vars
  PROVE  [Implemented!Next]_<<Used, answer>>
<1>0. Used \in Seq(Atom) /\ length \in Nat /\ Len(Used) = length
      /\ \A i \in 1..length : Used[i] = atoms[i]
  BY UsedProperties
<1>1. ASSUME NEW atom \in Atom, stack_push(atom)
      PROVE  Implemented!Push(atom)
  <2>1. Used' = Used \o [i \in 1..1 |-> atom]
    BY <1>1, GrowImplements DEF stack_push
  <2>2. Used \o [i \in 1..1 |-> atom] = Append(Used, atom)
    <3>1. [i \in 1..1 |-> atom] = <<atom>>
      OBVIOUS
    <3> QED
      BY <1>0, <3>1, AppendIsConcat
  <2>3. length + 1 <= MaxLength /\ answer' = answer
    BY <1>1 DEF stack_push, Grow
  <2>4. Used' = Append(Used, atom) /\ Len(Used) < MaxLength
    BY <2>1, <2>2, <2>3, <1>0, SizeAssumption
  <2> QED
    BY <2>3, <2>4 DEF Implemented!Push, Used
<1>2. ASSUME NEW atom \in Atom, NEW n \in 0..MaxN, stack_push_n(atom, n)
      PROVE  Implemented!PushN(atom, n)
  <2>1. Used' = Used \o [i \in 1..n |-> atom]
    BY <1>2, GrowImplements, SizeAssumption DEF stack_push_n
  <2>2. length + n <= MaxLength /\ answer' = answer
    BY <1>2 DEF stack_push_n, Grow
  <2> QED
    BY <2>1, <2>2, <1>0 DEF Implemented!PushN, Used
<1>3. ASSUME stack_pop
      PROVE  Implemented!Pop
  <2>1. length > 0 /\ answer' = atoms[length] /\ Resize(length - 1, Cleared(length, length))
    BY <1>3 DEF stack_pop
  <2>2. answer' \in Atom /\ answer' = Used[Len(Used)] /\ Used # << >>
    BY <2>1, <1>0, LiveAtom
  <2>3. length - 1 + 1 = length /\ 1 \in Nat /\ 1 <= length
    BY <2>1, <1>0
  <2>4. Used' = SubSeq(Used, 1, Len(Used) - 1)
    BY <2>1, <2>2, <2>3, ResizeImplements
  <2> QED
    BY <2>2, <2>4 DEF Implemented!Pop, Used
<1>4. ASSUME NEW n \in 0..MaxN, stack_pop_n(n)
      PROVE  Implemented!PopN(n)
  <2>1. n \in Nat /\ n <= length /\ answer' = answer /\ answer' \in Atom
        /\ Resize(length - n, Cleared(length - n + 1, length))
    BY <1>4, SizeAssumption DEF stack_pop_n, IInv, TypeOK
  <2>2. Used' = SubSeq(Used, 1, Len(Used) - n)
    BY <2>1, ResizeImplements
  <2> QED
    BY <2>1, <2>2, <1>0 DEF Implemented!PopN, Used
<1>5. ASSUME stack_peek
      PROVE  Implemented!Peek
  <2>1. length > 0 /\ answer' = atoms[length] /\ Used' = Used
    BY <1>5 DEF stack_peek, Used
  <2>2. Used # << >> /\ answer' = Used[Len(Used)]
    BY <2>1, <1>0
  <2> QED
    BY <2>1, <2>2 DEF Implemented!Peek, Used
<1>6. ASSUME NEW i \in 1..length, LoadSlot(i)
      PROVE  Implemented!Load(i)
  <2>1. answer' = atoms[i] /\ Used' = Used
    BY <1>6 DEF LoadSlot, Used
  <2> QED
    BY <2>1, <1>0 DEF Implemented!Load, Used
<1>7. ASSUME NEW i \in 1..length, NEW atom \in Atom, StoreSlot(i, atom)
      PROVE  Implemented!Store(i, atom)
  <2>1. Used' = [Used EXCEPT ![i] = atom] /\ answer' = answer
    BY <1>7, StoreImplements DEF StoreSlot
  <2> QED
    BY <2>1 DEF Implemented!Store, Used
<1>8. CASE UNCHANGED vars
  BY <1>8 DEF vars, Used
<1>9. CASE Next
  <2>1. Implemented!Next
    BY <1>0, <1>1, <1>2, <1>3, <1>4, <1>5, <1>6, <1>7, <1>9 DEF Next, Implemented!Next, Used
  <2> QED
    BY <2>1
<1> QED
  BY <1>8, <1>9

\* However often the block moves, the machine sees a sequence of atoms: what
\* was pushed last is popped first, and frames keep their slots.
THEOREM BlockImplementsAtomStack == Spec => ImplementsAtomStack
<1>1. Init => Implemented!Init
  BY InitImplements
<1>2. IInv /\ IInv' /\ [Next]_vars => [Implemented!Next]_<<Used, answer>>
  BY StepImplements
<1>3. Spec => Implemented!Init /\ [][Implemented!Next]_<<Used, answer>>
  BY <1>1, <1>2, Inductive, PTL DEF Spec
<1> QED
  BY <1>3 DEF ImplementsAtomStack, Implemented!Spec, Used
=============================================================================
