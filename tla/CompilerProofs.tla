---------------------------- MODULE CompilerProofs ----------------------------
(***************************************************************************)
(* What the compiler writes is balanced and names only what exists, for    *)
(* every program: BalancedCode and ScopedCode hold of the table that       *)
(* compiling leaves, however many expressions the program has and however  *)
(* deep they are nested.                                                   *)
(*                                                                         *)
(* A run of the compiler is a chain of unfinished lambdas, each with the   *)
(* code written so far and the C calls it has still to return to (`todo`). *)
(* The proof says of each of them                                          *)
(*   - with how many operands each of its instructions finds the frame,    *)
(*     counted so that what is left to do brings the last one to 1         *)
(*     (Plan, Produce, Working, Built), jumps that wait for their target   *)
(*     included;                                                           *)
(*   - that it lies in the text where its number says, in the lambda       *)
(*     before it in the chain (Compiling, Nesting);                        *)
(*   - that all that an instruction names is there: an own literal, a      *)
(*     slot of the lambda `offset` further out, a lambda that is finished  *)
(*     or next in the chain (Lies, Names, Textual).                        *)
(* What a lambda names stays true because the lambdas around it only grow  *)
(* (Continues); a task keeps all of this (Advances), so does finishing a   *)
(* lambda, and so does the run (RunSound).  A run that has ended leaves a  *)
(* table that is Complete.  The operands that an instruction finds are     *)
(* unique (DepthsOf), therefore those of the proof are those that         *)
(* BalancedCode is about.                                                  *)
(***************************************************************************)
EXTENDS CompiledPrograms, SequenceTheorems, WellFoundedInduction, TLAPS

-----------------------------------------------------------------------------
(* Numbers.                                                                *)

\* A set of natural numbers has a least one: what proofs by induction on the
\* length of a code, of a list of tasks or of a run rest on.
LEMMA LeastNumber ==
  ASSUME NEW S, S \subseteq Nat, S # {}
  PROVE  \E i \in S : \A j \in S : i <= j
<1>1. IsWellFoundedOn(OpToRel(<, Nat), Nat)
  BY NatLessThanWellFounded
<1>2. PICK x \in S : \A y \in S : ~ (<<y, x>> \in OpToRel(<, Nat))
  BY <1>1, WFMin
<1>3. \A y \in S : ~ (y < x)
  BY <1>2 DEF OpToRel
<1> QED
  BY <1>3

-----------------------------------------------------------------------------
(* What is left to do, counted from its end.                               *)

JumpOp == {"JUMP", "JUMP_IF_FALSE"}

\* The task that has r - 1 tasks after it.
TaskAt(todo, r) == todo[Len(todo) + 1 - r]

IsJumpTask(task) == task.do \in {"else", "join"}

\* The jumps that still get their target.
Awaiting(todo) ==
  {TaskAt(todo, r).at : r \in {q \in 1..Len(todo) : IsJumpTask(TaskAt(todo, q))}}

GeneratedOp == ArithmeticOp \cup CompareOp \cup PartOp \cup {"CONS", "DROP", "CALL"}

Task(E) ==
  [do : {"compile"}, expr : E] \cup [do : {"generate"}, op : GeneratedOp, arg : Nat]
    \cup [do : {"store"}, sym : STRING] \cup [do : {"store_newest"}]
    \cup [do : {"branch"}, true_case : E, false_case : E]
    \cup [do : {"else"}, at : Nat, false_case : E] \cup [do : {"join"}, at : Nat]

Todo(E) == Seq(Task(E))

\* Dropping the first task leaves the others at their place, counted from the
\* end.
LEMMA TaskOfTail ==
  ASSUME NEW S, NEW todo \in Seq(S), todo # << >>
  PROVE  /\ Tail(todo) \in Seq(S) /\ Len(Tail(todo)) = Len(todo) - 1
         /\ TaskAt(todo, Len(todo)) = Head(todo)
         /\ \A r \in 1..(Len(todo) - 1) : TaskAt(Tail(todo), r) = TaskAt(todo, r)
<1>1. Tail(todo) \in Seq(S) /\ Len(Tail(todo)) = Len(todo) - 1 /\ Len(todo) \in Nat \ {0}
  BY EmptySeq, LenProperties, HeadTailProperties
<1>2. \A k \in 1..(Len(todo) - 1) : Tail(todo)[k] = todo[k + 1]
  BY HeadTailProperties
<1>3. ASSUME NEW r \in 1..(Len(todo) - 1) PROVE TaskAt(Tail(todo), r) = TaskAt(todo, r)
  <2>1. Len(todo) - r \in 1..(Len(todo) - 1)
    BY <1>1
  <2>2. Tail(todo)[Len(todo) - r] = todo[Len(todo) - r + 1]
    BY <1>2, <2>1
  <2>3. (Len(todo) - 1) + 1 - r = Len(todo) - r /\ Len(todo) - r + 1 = Len(todo) + 1 - r
    BY <1>1
  <2> QED
    BY <1>1, <2>2, <2>3 DEF TaskAt
<1>4. Len(todo) + 1 - Len(todo) = 1
  BY <1>1
<1> QED
  BY <1>1, <1>3, <1>4 DEF TaskAt

\* Tasks put in front leave the others at their place, counted from the end.
LEMMA TaskOfConcat ==
  ASSUME NEW S, NEW todo \in Seq(S), NEW tasks \in Seq(S)
  PROVE  /\ tasks \o todo \in Seq(S) /\ Len(tasks \o todo) = Len(tasks) + Len(todo)
         /\ \A r \in 1..Len(todo) : TaskAt(tasks \o todo, r) = TaskAt(todo, r)
         /\ \A k \in 1..Len(tasks) :
              TaskAt(tasks \o todo, Len(todo) + Len(tasks) + 1 - k) = tasks[k]
<1>1. /\ tasks \o todo \in Seq(S) /\ Len(tasks \o todo) = Len(tasks) + Len(todo)
      /\ Len(todo) \in Nat /\ Len(tasks) \in Nat
  BY ConcatProperties, LenProperties
<1>2. ASSUME NEW r \in 1..Len(todo) PROVE TaskAt(tasks \o todo, r) = TaskAt(todo, r)
  <2> DEFINE k == Len(tasks) + Len(todo) + 1 - r
  <2>1. /\ k \in 1..(Len(tasks) + Len(todo)) /\ k > Len(tasks) /\ k - Len(tasks) = Len(todo) + 1 - r
        /\ k = Len(tasks \o todo) + 1 - r
    BY <1>1
  <2> HIDE DEF k
  <2>2. (tasks \o todo)[k] = todo[k - Len(tasks)]
    BY <1>1, <2>1, ConcatProperties
  <2> QED
    BY <2>1, <2>2 DEF TaskAt
<1>3. ASSUME NEW k \in 1..Len(tasks)
      PROVE  TaskAt(tasks \o todo, Len(todo) + Len(tasks) + 1 - k) = tasks[k]
  <2>1. Len(tasks) + Len(todo) + 1 - (Len(todo) + Len(tasks) + 1 - k) = k
    BY <1>1
  <2>2. (tasks \o todo)[k] = tasks[k]
    BY <1>1, ConcatProperties
  <2> QED
    BY <1>1, <2>1, <2>2 DEF TaskAt
<1> QED
  BY <1>1, <1>2, <1>3

\* TaskOfConcat for lists of tasks.
LEMMA TodoConcat ==
  ASSUME NEW E, NEW todo \in Todo(E), NEW tasks \in Todo(E)
  PROVE  /\ tasks \o todo \in Todo(E) /\ Len(tasks \o todo) = Len(tasks) + Len(todo)
         /\ \A r \in 1..Len(todo) : TaskAt(tasks \o todo, r) = TaskAt(todo, r)
         /\ \A k \in 1..Len(tasks) :
              TaskAt(tasks \o todo, Len(todo) + Len(tasks) + 1 - k) = tasks[k]
  BY TaskOfConcat DEF Todo

\* TaskOfConcat for two tasks.
LEMMA TwoTasks ==
  ASSUME NEW E, NEW todo \in Todo(E), NEW a \in Task(E), NEW b \in Task(E),
         NEW R \in Nat, R = Len(todo)
  PROVE  /\ <<a, b>> \o todo \in Todo(E) /\ Len(<<a, b>> \o todo) = R + 2
         /\ \A r \in 1..R : TaskAt(<<a, b>> \o todo, r) = TaskAt(todo, r)
         /\ TaskAt(<<a, b>> \o todo, R + 1) = b
         /\ TaskAt(<<a, b>> \o todo, R + 2) = a
<1>1. <<a, b>> \in Todo(E) /\ Len(<<a, b>>) = 2 /\ <<a, b>>[1] = a /\ <<a, b>>[2] = b
  <2> DEFINE S == Task(E)
  <2>1. a \in S /\ b \in S
    OBVIOUS
  <2> HIDE DEF S
  <2>2. <<a, b>> \in Seq(S)
    BY <2>1
  <2> QED
    BY <2>2 DEF Todo, S
<1>2. PICK tasks \in Todo(E) : tasks = <<a, b>> /\ Len(tasks) = 2 /\ tasks[1] = a /\ tasks[2] = b
  BY <1>1
<1>3. tasks \o todo \in Todo(E) /\ Len(tasks \o todo) = Len(tasks) + Len(todo)
  BY <1>2, TodoConcat
<1>4. \A r \in 1..Len(todo) : TaskAt(tasks \o todo, r) = TaskAt(todo, r)
  BY <1>2, TodoConcat
<1>5. \A k \in 1..Len(tasks) :
        TaskAt(tasks \o todo, Len(todo) + Len(tasks) + 1 - k) = tasks[k]
  BY TodoConcat
<1>6. \A k \in 1..2 : TaskAt(tasks \o todo, R + 2 + 1 - k) = tasks[k]
  BY <1>2, <1>5
<1>7. R + 2 + 1 - 1 = R + 2 /\ R + 2 + 1 - 2 = R + 1 /\ 1 \in 1..2 /\ 2 \in 1..2 /\ 2 + R = R + 2
  OBVIOUS
<1>8. TaskAt(tasks \o todo, R + 1) = b /\ TaskAt(tasks \o todo, R + 2) = a
  BY <1>2, <1>6, <1>7
<1>9. Len(tasks \o todo) = R + 2
  BY <1>2, <1>3, <1>7
<1> QED
  BY <1>2, <1>3, <1>4, <1>8, <1>9

-----------------------------------------------------------------------------
(* How many operands the code of a lambda and the rest of its tasks leave. *)

Takes(task) ==
  CASE task.do = "compile" -> 0
    [] task.do = "generate" -> Operands([op |-> task.op, offset |-> 0, arg |-> task.arg])
    [] OTHER -> 1

Leaves(task) == IF task.do = "generate" /\ task.op = "DROP" THEN 0 ELSE 1

Balances(task, before, after) == Takes(task) <= before /\ after = before - Takes(task) + Leaves(task)

\* Where a jump leads, and with how many operands.
Lands(code, depths, i) ==
  LET target == i + 1 + code[i].arg
  IN  target \in (i + 1)..(Len(code) + 1) /\ depths[target] = DepthAfter(code, i, depths[i])

InstructionFits(code, todo, depths, i) ==
  /\ code[i].op # "RETURN"
  /\ Operands(code[i]) \in 0..depths[i]
  /\ code[i].op # "JUMP" => depths[i + 1] = DepthAfter(code, i, depths[i])
  /\ code[i].op \in JumpOp /\ i \notin Awaiting(todo) => Lands(code, depths, i)

\* A jump that gets its target when the task is done.
JumpTaskFits(code, depths, task, before) ==
  /\ task.at \in 1..Len(code)
  /\ task.do = "else" =>
       code[task.at].op = "JUMP_IF_FALSE" /\ DepthAfter(code, task.at, depths[task.at]) = before - 1
  /\ task.do = "join" =>
       code[task.at].op = "JUMP" /\ DepthAfter(code, task.at, depths[task.at]) = before

Reached(code, todo, j) ==
  \/ code[j - 1].op # "JUMP"
  \/ \E i \in 1..(j - 1) :
       code[i].op = "JUMP_IF_FALSE" /\ i \notin Awaiting(todo) /\ j = i + 1 + code[i].arg

\* Numbers of operands.
Heights == [Nat -> Nat]

\* depths[i] operands lie in a frame before instruction i, and want[r] before the
\* task that has r - 1 tasks after it.
Plan(code, todo, depths, want) ==
  /\ code \in Seq(Instruction) /\ depths \in Heights /\ want \in Heights
  /\ depths[1] = 0 /\ want[0] = 1
  /\ \A r \in 1..Len(todo) : Balances(TaskAt(todo, r), want[r], want[r - 1])
  /\ \A i \in 1..Len(code) : InstructionFits(code, todo, depths, i)
  /\ \A r \in 1..Len(todo) : IsJumpTask(TaskAt(todo, r)) =>
       /\ JumpTaskFits(code, depths, TaskAt(todo, r), want[r])
       /\ \A q \in 1..Len(todo) :
            IsJumpTask(TaskAt(todo, q)) /\ TaskAt(todo, q).at = TaskAt(todo, r).at => q = r
  /\ \A j \in 2..(Len(code) + 1) : Reached(code, todo, j)

\* A height is a number.
LEMMA HeightIsNumber ==
  ASSUME NEW h \in Heights, NEW n \in Nat
  PROVE  h[n] \in Nat
  BY DEF Heights

Put(h, n, d) == [h EXCEPT ![n] = d]

\* Setting one height changes no other.
LEMMA PutHeight ==
  ASSUME NEW h \in Heights, NEW n \in Nat, NEW d \in Nat
  PROVE  /\ Put(h, n, d) \in Heights
         /\ Put(h, n, d)[n] = d
         /\ \A i \in Nat : i # n => Put(h, n, d)[i] = h[i]
  BY DEF Heights, Put

\* A height is added on top of those up to L + 1.
LEMMA PutNext ==
  ASSUME NEW h \in Heights, NEW L \in Nat, NEW d \in Nat
  PROVE  /\ Put(h, L + 2, d) \in Heights /\ Put(h, L + 2, d)[L + 2] = d
         /\ \A i \in 0..(L + 1) : Put(h, L + 2, d)[i] = h[i]
  BY DEF Put, Heights

\* Two heights are added on top of those up to R.
LEMMA PutTwo ==
  ASSUME NEW h \in Heights, NEW R \in Nat, NEW c \in Nat, NEW d \in Nat
  PROVE  \E heights \in Heights :
           /\ heights[R + 1] = c /\ heights[R + 2] = d
           /\ \A r \in 0..R : heights[r] = h[r]
<1> DEFINE first == Put(h, R + 1, c)
           heights == Put(first, R + 2, d)
<1>1. R + 1 \in Nat /\ \A r \in 0..R : r \in Nat /\ r # R + 1 /\ r \in 0..(R + 1)
  OBVIOUS
<1>4. first \in Heights /\ first[R + 1] = c /\ \A r \in 0..R : first[r] = h[r]
  BY DEF Put, Heights
<1> HIDE DEF first
<1>5. /\ heights \in Heights /\ heights[R + 2] = d
      /\ \A r \in 0..(R + 1) : heights[r] = first[r]
  BY <1>4, PutNext
<1> HIDE DEF heights
<1>6. R + 1 \in 0..(R + 1)
  OBVIOUS
<1> QED
  BY <1>1, <1>4, <1>5, <1>6

\* A plan holds on without its first task, unless a jump waits for that task.
LEMMA DoneTask ==
  ASSUME NEW E, NEW code, NEW todo \in Todo(E), todo # << >>,
         NEW depths, NEW want, Plan(code, todo, depths, want), ~IsJumpTask(Head(todo))
  PROVE  Plan(code, Tail(todo), depths, want)
<1>1. /\ Len(Tail(todo)) = Len(todo) - 1
      /\ TaskAt(todo, Len(todo)) = Head(todo)
      /\ \A r \in 1..(Len(todo) - 1) : TaskAt(Tail(todo), r) = TaskAt(todo, r)
      /\ Len(todo) \in Nat
  BY TaskOfTail, LenProperties DEF Todo
<1>2. Awaiting(Tail(todo)) = Awaiting(todo)
  BY <1>1 DEF Awaiting
<1>3. \A r \in 1..Len(Tail(todo)) : r \in 1..Len(todo) /\ TaskAt(Tail(todo), r) = TaskAt(todo, r)
  BY <1>1
<1>4. \A i \in 1..Len(code) : InstructionFits(code, Tail(todo), depths, i)
  BY <1>2 DEF Plan, InstructionFits
<1>5. \A j \in 2..(Len(code) + 1) : Reached(code, Tail(todo), j)
  BY <1>2 DEF Plan, Reached
<1> QED
  BY <1>3, <1>4, <1>5 DEF Plan

-----------------------------------------------------------------------------
(* Generating an instruction, and adding tasks.                            *)

\* The number of operands that an instruction leaves is a number.
LEMMA LeavesOperands ==
  ASSUME NEW instr \in Instruction, NEW d \in Nat, Operands(instr) \in 0..d
  PROVE  d - Operands(instr) + Pushes(instr) \in Nat
<1>1. Pushes(instr) \in Nat
  BY DEF Pushes
<1>2. PICK k \in 0..d : k = Operands(instr)
  OBVIOUS
<1> QED
  BY <1>1, <1>2

\* An instruction that can follow: one that goes on to the next one, and finds
\* its operands.
Follows(instr, code, depths) ==
  /\ instr \in Instruction
  /\ instr.op \notin {"JUMP", "RETURN"}
  /\ instr.op = "JUMP_IF_FALSE" => instr.arg = 0
  /\ Operands(instr) \in 0..depths[Len(code) + 1]

\* An instruction that finds its operands extends a plan, by the operands it
\* takes and leaves.
LEMMA AddInstruction ==
  ASSUME NEW code, NEW todo, NEW depths, NEW want,
         Plan(code, todo, depths, want), NEW instr, Follows(instr, code, depths)
  PROVE  \E after \in Heights :
           /\ Plan(Append(code, instr), todo, after, want)
           /\ \A i \in 1..(Len(code) + 1) : after[i] = depths[i]
           /\ after[Len(code) + 2] = depths[Len(code) + 1] - Operands(instr) + Pushes(instr)
<1> DEFINE L == Len(code)
           longer == Append(code, instr)
           d == depths[L + 1] - Operands(instr) + Pushes(instr)
<1>1. L \in Nat /\ depths \in Heights
  BY LenProperties DEF Plan
<1>2. /\ longer \in Seq(Instruction) /\ Len(longer) = L + 1
      /\ \A i \in 1..L : longer[i] = code[i]
      /\ longer[L + 1] = instr
  BY AppendProperties DEF Follows, Plan
<1>3. d \in Nat
  BY <1>1, HeightIsNumber, LeavesOperands DEF Follows
<1>0. d = depths[L + 1] - Operands(instr) + Pushes(instr) /\ Len(code) = L
  OBVIOUS
<1> HIDE DEF d, L, longer
<1> DEFINE after == Put(depths, L + 2, d)
<1>4. /\ after \in Heights /\ after[L + 2] = d
      /\ \A i \in 1..(L + 1) : after[i] = depths[i]
  <2>1. L + 2 \in Nat /\ \A i \in 1..(L + 1) : i \in Nat /\ i # L + 2
    BY <1>1
  <2> QED
    BY <1>1, <1>3, <2>1, PutHeight
<1> HIDE DEF after
<1>14. depths[1] = 0 /\ after[1] = 0 /\ want \in Heights /\ want[0] = 1
  <2>1. 1 \in 1..(L + 1)
    BY <1>1
  <2> QED
    BY <1>4, <2>1 DEF Plan
<1>5. \A i \in 1..L : DepthAfter(longer, i, after[i]) = DepthAfter(code, i, depths[i])
  BY <1>1, <1>2, <1>4 DEF DepthAfter
<1>6. ASSUME NEW i \in 1..L PROVE InstructionFits(longer, todo, after, i)
  <2>1. InstructionFits(code, todo, depths, i)
    BY <1>0 DEF Plan
  <2>2. code[i].op \in JumpOp /\ i \notin Awaiting(todo) => Lands(longer, after, i)
    <3>1. SUFFICES ASSUME Lands(code, depths, i) PROVE Lands(longer, after, i)
      BY <2>1 DEF InstructionFits
    <3>2. PICK target \in (i + 1)..(L + 1) : target = i + 1 + code[i].arg
      BY <1>0, <3>1 DEF Lands
    <3>3. target \in 1..(L + 1) /\ target \in (i + 1)..(Len(longer) + 1)
      BY <1>1, <1>2, <3>2
    <3> QED
      BY <1>2, <1>4, <1>5, <3>1, <3>2, <3>3 DEF Lands
  <2>3. i \in 1..(L + 1) /\ i + 1 \in 1..(L + 1) /\ longer[i] = code[i]
    BY <1>1, <1>2
  <2> QED
    BY <1>4, <1>5, <2>1, <2>2, <2>3 DEF InstructionFits
<1>7. InstructionFits(longer, todo, after, L + 1)
  <2>0. L + 1 \in 1..(L + 1) /\ L + 1 + 1 = L + 2
    BY <1>1
  <2>1. DepthAfter(longer, L + 1, after[L + 1]) = after[L + 1 + 1]
    BY <1>0, <1>2, <1>4, <2>0 DEF DepthAfter
  <2>2. instr.op \in JumpOp => instr.arg = 0
    BY DEF JumpOp, Follows
  <2>3. instr.op \in JumpOp => Lands(longer, after, L + 1)
    BY <1>0, <1>1, <1>2, <1>4, <2>1, <2>2 DEF Lands
  <2>4. instr.op # "RETURN" /\ Operands(instr) \in 0..depths[L + 1]
    BY <1>0 DEF Follows
  <2> QED
    BY <1>2, <1>4, <2>0, <2>1, <2>3, <2>4 DEF InstructionFits
<1>8. \A i \in 1..Len(longer) : InstructionFits(longer, todo, after, i)
  BY <1>1, <1>2, <1>6, <1>7
<1>9. ASSUME NEW r \in 1..Len(todo), IsJumpTask(TaskAt(todo, r))
      PROVE  JumpTaskFits(longer, after, TaskAt(todo, r), want[r])
  <2>1. JumpTaskFits(code, depths, TaskAt(todo, r), want[r])
    BY <1>9 DEF Plan
  <2> QED
    BY <1>0, <1>1, <1>2, <1>5, <2>1 DEF JumpTaskFits
<1>10. ASSUME NEW j \in 2..(L + 1) PROVE Reached(longer, todo, j)
  <2>1. Reached(code, todo, j)
    BY <1>0 DEF Plan
  <2>2. j - 1 \in 1..L /\ 1..(j - 1) \subseteq 1..L
    BY <1>1
  <2> QED
    BY <1>2, <2>1, <2>2 DEF Reached
<1>11. Reached(longer, todo, L + 2)
  <2> DEFINE j == L + 2
  <2>1. j - 1 = L + 1
    BY <1>1
  <2>2. instr.op # "JUMP"
    BY DEF Follows
  <2>3. longer[L + 1] = instr
    BY <1>2
  <2> HIDE DEF j
  <2>4. longer[j - 1].op # "JUMP"
    BY <2>1, <2>2, <2>3
  <2>5. Reached(longer, todo, j)
    BY <2>4 DEF Reached
  <2> QED
    BY <2>5 DEF j
<1>12. \A j \in 2..(Len(longer) + 1) : Reached(longer, todo, j)
  <2>1. Len(longer) = L + 1
    BY <1>2
  <2>3. Len(longer) + 1 = L + 2
    BY <1>1, <2>1
  <2>2. \A j \in 2..(L + 2) : j \in 2..(L + 1) \/ j = L + 2
    BY <1>1
  <2> QED
    BY <1>10, <1>11, <2>3, <2>2
<1>13. Plan(longer, todo, after, want)
  <2>1. \A r \in 1..Len(todo) : IsJumpTask(TaskAt(todo, r)) =>
          \A q \in 1..Len(todo) :
            IsJumpTask(TaskAt(todo, q)) /\ TaskAt(todo, q).at = TaskAt(todo, r).at => q = r
    BY DEF Plan
  <2>2. \A r \in 1..Len(todo) : Balances(TaskAt(todo, r), want[r], want[r - 1])
    BY DEF Plan
  <2> QED
    BY <1>2, <1>4, <1>8, <1>9, <1>12, <1>14, <2>1, <2>2 DEF Plan
<1> QED
  BY <1>0, <1>4, <1>13 DEF longer

\* Tasks are put before the others, with at most one among them that waits to
\* give a jump its target: the last one.
TasksFit(tasks, todo, want, heights) ==
  /\ heights \in Heights
  /\ \A r \in 0..Len(todo) : heights[r] = want[r]
  /\ \A k \in 1..Len(tasks) :
       Balances(tasks[k], heights[Len(todo) + Len(tasks) + 1 - k], heights[Len(todo) + Len(tasks) - k])

LastMayJump(tasks, code, todo, depths, height) ==
  \A k \in 1..Len(tasks) : IsJumpTask(tasks[k]) =>
    /\ k = Len(tasks)
    /\ JumpTaskFits(code, depths, tasks[k], height)
    /\ tasks[k].at \notin Awaiting(todo)
    /\ code[tasks[k].at].op = "JUMP_IF_FALSE"
    /\ code[tasks[k].at].arg = 0

\* Tasks that fit between the code and the tasks still to do extend a plan.
LEMMA AddTasks ==
  ASSUME NEW E, NEW code, NEW todo \in Todo(E), NEW tasks \in Todo(E),
         NEW depths, NEW want, NEW heights, Plan(code, todo, depths, want),
         TasksFit(tasks, todo, want, heights),
         LastMayJump(tasks, code, todo, depths, heights[Len(todo) + 1])
  PROVE  Plan(code, tasks \o todo, depths, heights)
<1> DEFINE R == Len(todo)
           T == Len(tasks)
           more == tasks \o todo
<1>1. /\ Len(more) = T + R
      /\ \A r \in 1..R : TaskAt(more, r) = TaskAt(todo, r)
      /\ \A k \in 1..T : TaskAt(more, R + T + 1 - k) = tasks[k]
  BY TaskOfConcat DEF Todo
<1>13. R \in Nat /\ T \in Nat
  BY LenProperties DEF Todo
<1>14. /\ heights \in Heights
       /\ \A r \in 0..R : heights[r] = want[r]
       /\ \A k \in 1..T : Balances(tasks[k], heights[R + T + 1 - k], heights[R + T - k])
  BY DEF TasksFit
<1>15. LastMayJump(tasks, code, todo, depths, heights[R + 1]) /\ R = Len(todo) /\ T = Len(tasks)
  OBVIOUS
<1> HIDE DEF more, R, T
<1>2. ASSUME NEW r \in (R + 1)..(R + T)
      PROVE  \E k \in 1..T : /\ r = R + T + 1 - k /\ r - 1 = R + T - k
                             /\ TaskAt(more, r) = tasks[k]
  <2> DEFINE k == R + T + 1 - r
  <2>1. k \in 1..T /\ r = R + T + 1 - k /\ r - 1 = R + T - k
    BY <1>13
  <2> HIDE DEF k
  <2> QED
    BY <1>1, <2>1
<1>3. ASSUME NEW r \in 1..(R + T)
      PROVE  Balances(TaskAt(more, r), heights[r], heights[r - 1])
  <2>1. CASE r <= R
    <3>1. r \in 1..R /\ r \in 0..R /\ r - 1 \in 0..R
      BY <1>13, <2>1
    <3>2. Balances(TaskAt(todo, r), want[r], want[r - 1])
      BY <1>15, <3>1 DEF Plan
    <3> QED
      BY <1>1, <1>14, <3>1, <3>2
  <2>2. CASE r > R
    <3>1. r \in (R + 1)..(R + T)
      BY <1>13, <2>2
    <3>2. PICK k \in 1..T : /\ r = R + T + 1 - k /\ r - 1 = R + T - k
                            /\ TaskAt(more, r) = tasks[k]
      BY <1>2, <3>1
    <3>3. Balances(tasks[k], heights[R + T + 1 - k], heights[R + T - k])
      BY <1>14
    <3> QED
      BY <3>2, <3>3
  <2> QED
    BY <1>13, <2>1, <2>2
<1>4. ASSUME NEW r \in (R + 1)..(R + T), IsJumpTask(TaskAt(more, r))
      PROVE  /\ r = R + 1
             /\ JumpTaskFits(code, depths, TaskAt(more, r), heights[R + 1])
             /\ TaskAt(more, r).at \notin Awaiting(todo)
             /\ code[TaskAt(more, r).at].op = "JUMP_IF_FALSE"
             /\ code[TaskAt(more, r).at].arg = 0
  <2>1. PICK k \in 1..T : r = R + T + 1 - k /\ TaskAt(more, r) = tasks[k]
    BY <1>2
  <2>2. k = T /\ JumpTaskFits(code, depths, tasks[k], heights[R + 1])
        /\ tasks[k].at \notin Awaiting(todo)
        /\ code[tasks[k].at].op = "JUMP_IF_FALSE" /\ code[tasks[k].at].arg = 0
    BY <1>4, <1>15, <2>1 DEF LastMayJump
  <2>3. r = R + 1
    BY <1>13, <2>1, <2>2
  <2> QED
    BY <2>1, <2>2, <2>3
<1>16. ASSUME NEW r \in 1..(R + T), r \notin 1..R PROVE r \in (R + 1)..(R + T)
  BY <1>13, <1>16
<1>5. Awaiting(todo) \subseteq Awaiting(more)
  <2>1. 1..R \subseteq 1..Len(more)
    BY <1>1, <1>13
  <2> QED
    BY <1>1, <1>15, <2>1 DEF Awaiting
<1>6. \A i \in Awaiting(more) \ Awaiting(todo) : code[i].op = "JUMP_IF_FALSE" /\ code[i].arg = 0
  <2>1. SUFFICES ASSUME NEW r \in 1..(R + T), IsJumpTask(TaskAt(more, r)),
                        TaskAt(more, r).at \notin Awaiting(todo)
                 PROVE  code[TaskAt(more, r).at].op = "JUMP_IF_FALSE" /\ code[TaskAt(more, r).at].arg = 0
    <3>1. 1..Len(more) = 1..(R + T)
      BY <1>1, <1>13
    <3> QED
      BY <3>1 DEF Awaiting
  <2>2. r \notin 1..R
    BY <1>1, <1>15, <2>1 DEF Awaiting
  <2> QED
    BY <1>4, <1>16, <2>1, <2>2
<1>7. \A i \in 1..Len(code) : InstructionFits(code, more, depths, i)
  BY <1>5 DEF Plan, InstructionFits
<1>8. ASSUME NEW j \in 2..(Len(code) + 1) PROVE Reached(code, more, j)
  <2>1. Reached(code, todo, j)
    BY DEF Plan
  <2>2. CASE code[j - 1].op # "JUMP"
    BY <2>2 DEF Reached
  <2>3. CASE code[j - 1].op = "JUMP"
    <3>1. PICK i \in 1..(j - 1) :
            code[i].op = "JUMP_IF_FALSE" /\ i \notin Awaiting(todo) /\ j = i + 1 + code[i].arg
      BY <2>1, <2>3 DEF Reached
    <3>2. code[i].arg # 0
      <4>1. SUFFICES ASSUME code[i].arg = 0 PROVE FALSE
        OBVIOUS
      <4>2. j - 1 = i
        BY <3>1, <4>1
      <4> QED
        BY <2>3, <3>1, <4>2
    <3> QED
      BY <1>6, <3>1, <3>2 DEF Reached
  <2> QED
    BY <2>2, <2>3
<1>9. ASSUME NEW r \in 1..(R + T), IsJumpTask(TaskAt(more, r))
      PROVE  JumpTaskFits(code, depths, TaskAt(more, r), heights[r])
  <2>1. CASE r \in 1..R
    <3>1. JumpTaskFits(code, depths, TaskAt(todo, r), want[r])
      BY <1>1, <1>9, <1>15, <2>1 DEF Plan
    <3>2. r \in 0..R
      BY <1>13, <2>1
    <3> QED
      BY <1>1, <1>14, <2>1, <3>1, <3>2
  <2>2. CASE r \notin 1..R
    <3>1. r = R + 1 /\ JumpTaskFits(code, depths, TaskAt(more, r), heights[R + 1])
      BY <1>4, <1>9, <1>16, <2>2
    <3> QED
      BY <3>1
  <2> QED
    BY <2>1, <2>2
<1>17. ASSUME NEW r \in 1..R, IsJumpTask(TaskAt(more, r))
       PROVE  TaskAt(more, r).at \in Awaiting(todo)
  BY <1>1, <1>15, <1>17 DEF Awaiting
<1>10. ASSUME NEW r \in 1..(R + T), NEW q \in 1..(R + T),
              IsJumpTask(TaskAt(more, r)), IsJumpTask(TaskAt(more, q)),
              TaskAt(more, q).at = TaskAt(more, r).at
       PROVE  q = r
  <2>1. CASE r \in 1..R /\ q \in 1..R
    BY <1>1, <1>10, <1>15, <2>1 DEF Plan
  <2>2. CASE r \in 1..R /\ q \notin 1..R
    BY <1>4, <1>10, <1>16, <1>17, <2>2
  <2>3. CASE r \notin 1..R /\ q \in 1..R
    BY <1>4, <1>10, <1>16, <1>17, <2>3
  <2>4. CASE r \notin 1..R /\ q \notin 1..R
    BY <1>4, <1>10, <1>16, <2>4
  <2> QED
    BY <2>1, <2>2, <2>3, <2>4
<1>11. heights[0] = 1 /\ depths[1] = 0 /\ depths \in Heights /\ code \in Seq(Instruction)
  <2>1. 0 \in 0..R
    BY <1>13
  <2> QED
    BY <1>14, <2>1 DEF Plan
<1>18. 1..Len(more) = 1..(R + T)
  BY <1>1, <1>13
<1>12. Plan(code, more, depths, heights)
  BY <1>3, <1>7, <1>8, <1>9, <1>10, <1>11, <1>14, <1>18 DEF Plan
<1> QED
  BY <1>12 DEF more

-----------------------------------------------------------------------------
(* A lambda under construction whose code and tasks fit each other.  Of a   *)
(* lambda that waits for a nested one, the value is missing that loads it. *)

Working(code, todo, missing) ==
  \E depths, want :
    /\ Plan(code, todo, depths, want)
    /\ want[Len(todo)] = depths[Len(code) + 1] + missing

\* An instruction that takes as many operands as are known to be there.
LEMMA Generated ==
  ASSUME NEW code, NEW todo, NEW depths, NEW want, Plan(code, todo, depths, want),
         NEW missing \in Nat, NEW R \in Nat, Len(todo) = R, NEW instr, Follows(instr, code, depths),
         want[R] = depths[Len(code) + 1] - Operands(instr) + Pushes(instr) + missing
  PROVE  Working(Append(code, instr), todo, missing)
<1>1. PICK after \in Heights :
        /\ Plan(Append(code, instr), todo, after, want)
        /\ after[Len(code) + 2] = depths[Len(code) + 1] - Operands(instr) + Pushes(instr)
  BY AddInstruction
<1>2. Len(Append(code, instr)) + 1 = Len(code) + 2
  <2>1. Len(Append(code, instr)) = Len(code) + 1 /\ Len(code) \in Nat
    BY AppendProperties, LenProperties DEF Plan, Follows
  <2> QED
    BY <2>1
<1>3. want[Len(todo)] = after[Len(Append(code, instr)) + 1] + missing
  BY <1>1, <1>2
<1> QED
  BY <1>1, <1>3 DEF Working

\* A task that balances still does so with more operands below it.
LEMMA FitsHigher ==
  ASSUME NEW task, NEW a \in Nat, NEW b \in Nat, NEW base \in Nat, NEW t \in Nat, Takes(task) = t,
         Balances(task, a, b)
  PROVE  Balances(task, base + a, base + b)
<1>1. PICK s \in Nat : s = Leaves(task)
  BY DEF Leaves
<1>2. t <= a /\ b = a - t + s
  BY <1>1 DEF Balances
<1>3. t <= base + a /\ base + b = base + a - t + s
  BY <1>2
<1> QED
  BY <1>1, <1>3 DEF Balances

\* Tasks that leave one value, with the operands above those that were there
\* before each of them.  The last one may wait to give the jump a target that
\* was generated just now.
Produce(tasks, code, todo, above) ==
  /\ above \in Heights /\ above[1] = 0 /\ above[Len(tasks) + 1] = 1
  /\ \A k \in 1..Len(tasks) :
       Takes(tasks[k]) \in Nat /\ Balances(tasks[k], above[k], above[k + 1])
  /\ \A k \in 1..Len(tasks) : IsJumpTask(tasks[k]) =>
       /\ k = Len(tasks) /\ above[k] = 1
       /\ tasks[k].do = "else"
       /\ tasks[k].at = Len(code)
       /\ Len(code) \in 1..Len(code) /\ Len(code) \notin Awaiting(todo)
       /\ code[Len(code)].op = "JUMP_IF_FALSE" /\ code[Len(code)].arg = 0

\* Tasks that produce the missing value turn code that lacks one into code
\* that lacks none.
LEMMA Expanded ==
  ASSUME NEW E, NEW code, NEW todo \in Todo(E), NEW tasks \in Todo(E), NEW above,
         Working(code, todo, 1), Produce(tasks, code, todo, above)
  PROVE  Working(code, tasks \o todo, 0)
<1>1. PICK depths, want : Plan(code, todo, depths, want)
                          /\ want[Len(todo)] = depths[Len(code) + 1] + 1
  BY DEF Working
<1> DEFINE R == Len(todo)
           T == Len(tasks)
           L == Len(code)
           base == depths[L + 1]
<1>2. R \in Nat /\ T \in Nat /\ L \in Nat
  BY <1>1, LenProperties DEF Todo, Plan
<1>3. base \in Nat /\ depths \in Heights /\ want \in Heights /\ above \in Heights
  BY <1>1, <1>2, HeightIsNumber DEF Plan, Produce
<1>4. want[R] = base + 1 /\ R = Len(todo) /\ T = Len(tasks) /\ L = Len(code) /\ base = depths[L + 1]
  BY <1>1
<1> HIDE DEF R, T, L, base
<1>14. T > 0
  <2>1. above[1] = 0 /\ above[T + 1] = 1
    BY <1>4 DEF Produce
  <2>2. T # 0
    BY <2>1
  <2> QED
    BY <1>2, <2>2
<1> DEFINE heights == [r \in Nat |-> IF r <= R THEN want[r]
                                     ELSE IF r <= R + T THEN base + above[R + T + 1 - r] ELSE 0]
<1>5. \A r \in Nat : /\ r <= R => heights[r] = want[r]
                     /\ r > R /\ r <= R + T => heights[r] = base + above[R + T + 1 - r]
  BY <1>2
<1>6. heights \in Heights
  <2>1. ASSUME NEW r \in Nat PROVE heights[r] \in Nat
    <3>1. CASE r <= R
      BY <1>3, <3>1, HeightIsNumber
    <3>2. CASE ~(r <= R) /\ r <= R + T
      <4>1. R + T + 1 - r \in Nat
        BY <1>2, <3>2
      <4>2. above[R + T + 1 - r] \in Nat
        BY <1>3, <4>1, HeightIsNumber
      <4> QED
        BY <1>3, <3>2, <4>2
    <3>3. CASE ~(r <= R) /\ ~(r <= R + T)
      BY <3>3
    <3> QED
      BY <3>1, <3>2, <3>3
  <2> QED
    BY <2>1 DEF Heights
<1> HIDE DEF heights
<1>7. TasksFit(tasks, todo, want, heights)
  <2>1. ASSUME NEW r \in 0..R PROVE heights[r] = want[r]
    BY <1>2, <1>5
  <2>2. ASSUME NEW k \in 1..T
        PROVE  Balances(tasks[k], heights[R + T + 1 - k], heights[R + T - k])
    <3>1. Takes(tasks[k]) \in Nat /\ Balances(tasks[k], above[k], above[k + 1])
      BY <1>4 DEF Produce
    <3>2. above[k] \in Nat /\ above[k + 1] \in Nat
      BY <1>3, HeightIsNumber
    <3>3. Balances(tasks[k], base + above[k], base + above[k + 1])
      BY <1>3, <3>1, <3>2, FitsHigher
    <3>4. heights[R + T + 1 - k] = base + above[k]
      <4>1. /\ R + T + 1 - k \in Nat /\ R + T + 1 - k > R /\ R + T + 1 - k <= R + T
            /\ R + T + 1 - (R + T + 1 - k) = k
        BY <1>2
      <4> QED
        BY <1>5, <4>1
    <3>5. heights[R + T - k] = base + above[k + 1]
      <4>1. CASE k = T
        <5>1. R + T - k = R /\ R <= R
          BY <1>2, <4>1
        <5>2. above[k + 1] = 1
          BY <1>4, <4>1 DEF Produce
        <5> QED
          BY <1>2, <1>4, <1>5, <5>1, <5>2
      <4>2. CASE k # T
        <5>1. /\ R + T - k \in Nat /\ R + T - k > R /\ R + T - k <= R + T
              /\ R + T + 1 - (R + T - k) = k + 1
          BY <1>2, <4>2
        <5> QED
          BY <1>5, <5>1
      <4> QED
        BY <4>1, <4>2
    <3> QED
      BY <3>3, <3>4, <3>5
  <2> QED
    BY <1>4, <1>6, <2>1, <2>2 DEF TasksFit
<1>8. LastMayJump(tasks, code, todo, depths, heights[R + 1])
  <2>1. SUFFICES ASSUME NEW k \in 1..T, IsJumpTask(tasks[k])
                 PROVE  /\ k = T
                        /\ JumpTaskFits(code, depths, tasks[k], heights[R + 1])
                        /\ tasks[k].at \notin Awaiting(todo)
                        /\ code[tasks[k].at].op = "JUMP_IF_FALSE"
                        /\ code[tasks[k].at].arg = 0
    BY <1>4 DEF LastMayJump
  <2>2. /\ k = T /\ above[k] = 1 /\ tasks[k].do = "else" /\ tasks[k].at = L
        /\ L \in 1..L /\ L \notin Awaiting(todo)
        /\ code[L].op = "JUMP_IF_FALSE" /\ code[L].arg = 0
    BY <1>4, <2>1 DEF Produce
  <2>3. heights[R + 1] = base + 1
    <3>1. /\ R + 1 \in Nat /\ R + 1 > R /\ R + 1 <= R + T
          /\ R + T + 1 - (R + 1) = T
      BY <1>2, <1>14
    <3> QED
      BY <1>5, <2>2, <3>1
  <2>4. DepthAfter(code, L, depths[L]) = base
    <3>1. InstructionFits(code, todo, depths, L)
      BY <1>1, <1>4, <2>2 DEF Plan
    <3> QED
      BY <1>4, <2>2, <3>1 DEF InstructionFits
  <2>5. DepthAfter(code, L, depths[L]) = heights[R + 1] - 1
    BY <1>3, <2>3, <2>4
  <2>6. JumpTaskFits(code, depths, tasks[k], heights[R + 1])
    BY <1>4, <2>2, <2>5 DEF JumpTaskFits
  <2> QED
    BY <2>2, <2>6
<1>9. Plan(code, tasks \o todo, depths, heights)
  BY <1>1, <1>4, <1>7, <1>8, AddTasks
<1>10. heights[Len(tasks \o todo)] = depths[Len(code) + 1] + 0
  <2>1. Len(tasks \o todo) = R + T
    BY <1>2, <1>4, ConcatProperties DEF Todo
  <2>2. above[1] = 0
    BY DEF Produce
  <2>3. /\ R + T \in Nat /\ R + T > R /\ R + T <= R + T
        /\ R + T + 1 - (R + T) = 1
    BY <1>2, <1>14
  <2>4. heights[R + T] = base + 0
    BY <1>5, <2>2, <2>3
  <2> QED
    BY <1>4, <2>1, <2>4
<1> QED
  BY <1>9, <1>10 DEF Working

-----------------------------------------------------------------------------
(* Doing the first task.                                                   *)

\* The first task balances at the operands the code leaves.
LEMMA FirstTask ==
  ASSUME NEW E, NEW code, NEW todo \in Todo(E), todo # << >>, Working(code, todo, 0)
  PROVE  \E depths, want :
           /\ Plan(code, todo, depths, want)
           /\ want[Len(todo)] = depths[Len(code) + 1]
           /\ depths[Len(code) + 1] \in Nat
           /\ Balances(Head(todo), depths[Len(code) + 1], want[Len(Tail(todo))])
           /\ ~IsJumpTask(Head(todo)) => Plan(code, Tail(todo), depths, want)
<1>1. PICK depths, want : Plan(code, todo, depths, want)
                          /\ want[Len(todo)] = depths[Len(code) + 1] + 0
  BY DEF Working
<1>2. depths[Len(code) + 1] \in Nat
  <2>1. Len(code) + 1 \in Nat /\ depths \in Heights
    BY <1>1, LenProperties DEF Plan
  <2> QED
    BY <2>1, HeightIsNumber
<1>3. want[Len(todo)] = depths[Len(code) + 1]
  BY <1>1, <1>2
<1>4. Balances(Head(todo), want[Len(todo)], want[Len(Tail(todo))])
  <2>1. /\ Len(Tail(todo)) = Len(todo) - 1 /\ TaskAt(todo, Len(todo)) = Head(todo)
        /\ Len(todo) \in 1..Len(todo)
    <3>1. Len(todo) \in Nat \ {0}
      BY EmptySeq DEF Todo
    <3> QED
      BY <3>1, TaskOfTail DEF Todo
  <2>2. Balances(TaskAt(todo, Len(todo)), want[Len(todo)], want[Len(todo) - 1])
    BY <1>1, <2>1 DEF Plan
  <2> QED
    BY <2>1, <2>2
<1>5. ~IsJumpTask(Head(todo)) => Plan(code, Tail(todo), depths, want)
  BY <1>1, DoneTask
<1> QED
  BY <1>1, <1>2, <1>3, <1>4, <1>5

\* The value of an expression is missing once its task is gone.
LEMMA FirstCompile ==
  ASSUME NEW E, NEW code, NEW todo \in Todo(E), todo # << >>, Working(code, todo, 0),
         Head(todo).do = "compile"
  PROVE  Working(code, Tail(todo), 1)
<1>1. PICK depths, want :
        /\ depths[Len(code) + 1] \in Nat
        /\ Balances(Head(todo), depths[Len(code) + 1], want[Len(Tail(todo))])
        /\ ~IsJumpTask(Head(todo)) => Plan(code, Tail(todo), depths, want)
  BY FirstTask
<1>2. Plan(code, Tail(todo), depths, want)
  BY <1>1 DEF IsJumpTask
<1>3. want[Len(Tail(todo))] = depths[Len(code) + 1] + 1
  <2>1. Takes(Head(todo)) = 0 /\ Leaves(Head(todo)) = 1
    BY DEF Takes, Leaves
  <2>2. want[Len(Tail(todo))] = depths[Len(code) + 1] - 0 + 1
    BY <1>1, <2>1 DEF Balances
  <2> QED
    BY <1>1, <2>2
<1> QED
  BY <1>2, <1>3 DEF Working

\* A generated instruction does its task.
LEMMA FirstGenerate ==
  ASSUME NEW E, NEW code, NEW todo \in Todo(E), todo # << >>, Working(code, todo, 0),
         NEW op \in GeneratedOp, NEW arg \in Nat, Head(todo) = ToGenerate(op, arg)
  PROVE  Working(Append(code, [op |-> op, offset |-> 0, arg |-> arg]), Tail(todo), 0)
<1> DEFINE instr == [op |-> op, offset |-> 0, arg |-> arg]
<1>1. PICK depths, want :
        /\ depths[Len(code) + 1] \in Nat
        /\ Balances(Head(todo), depths[Len(code) + 1], want[Len(Tail(todo))])
        /\ ~IsJumpTask(Head(todo)) => Plan(code, Tail(todo), depths, want)
  BY FirstTask
<1>2. Plan(code, Tail(todo), depths, want)
  BY <1>1 DEF IsJumpTask, ToGenerate
<1>3. Takes(Head(todo)) = Operands(instr) /\ Leaves(Head(todo)) = Pushes(instr)
  BY DEF Takes, Leaves, ToGenerate, Pushes, GeneratedOp, ArithmeticOp, CompareOp, PartOp
<1>4. instr \in Instruction /\ op \notin {"JUMP", "RETURN", "JUMP_IF_FALSE"}
  BY DEF Instruction, Op, GeneratedOp, ArithmeticOp, CompareOp, PartOp
<1>5. Operands(instr) \in Nat /\ Pushes(instr) \in Nat
  BY DEF Operands, Pushes
<1> HIDE DEF instr
<1>6. Operands(instr) <= depths[Len(code) + 1]
      /\ want[Len(Tail(todo))] = depths[Len(code) + 1] - Operands(instr) + Pushes(instr)
  BY <1>1, <1>3 DEF Balances
<1>7. Follows(instr, code, depths)
  <2>1. instr.op \notin {"JUMP", "RETURN", "JUMP_IF_FALSE"}
    BY <1>4 DEF instr
  <2>2. Operands(instr) \in 0..depths[Len(code) + 1]
    BY <1>1, <1>5, <1>6
  <2> QED
    BY <1>4, <2>1, <2>2 DEF Follows
<1>8. Len(Tail(todo)) \in Nat
  BY TaskOfTail, LenProperties DEF Todo
<1>9. want[Len(Tail(todo))] = depths[Len(code) + 1] - Operands(instr) + Pushes(instr) + 0
  BY <1>1, <1>5, <1>6
<1>10. Working(Append(code, instr), Tail(todo), 0)
  BY <1>2, <1>7, <1>8, <1>9, Generated
<1> QED
  BY <1>10 DEF instr

\* A value is stored, or left where it is.
LEMMA FirstStore ==
  ASSUME NEW E, NEW code, NEW todo \in Todo(E), todo # << >>, Working(code, todo, 0),
         Head(todo).do \in {"store", "store_newest"}
  PROVE  /\ Working(code, Tail(todo), 0)
         /\ \A instr \in Instruction :
              instr.op = "STORE_LOCAL" => Working(Append(code, instr), Tail(todo), 0)
<1>1. PICK depths, want :
        /\ depths[Len(code) + 1] \in Nat
        /\ Balances(Head(todo), depths[Len(code) + 1], want[Len(Tail(todo))])
        /\ ~IsJumpTask(Head(todo)) => Plan(code, Tail(todo), depths, want)
  BY FirstTask
<1>2. Plan(code, Tail(todo), depths, want)
  BY <1>1 DEF IsJumpTask
<1>3. 1 <= depths[Len(code) + 1] /\ want[Len(Tail(todo))] = depths[Len(code) + 1] - 1 + 1
  <2>1. Takes(Head(todo)) = 1 /\ Leaves(Head(todo)) = 1
    BY DEF Takes, Leaves
  <2> QED
    BY <1>1, <2>1 DEF Balances
<1>4. want[Len(Tail(todo))] = depths[Len(code) + 1] + 0
  BY <1>1, <1>3
<1>5. ASSUME NEW instr \in Instruction, instr.op = "STORE_LOCAL"
      PROVE  Working(Append(code, instr), Tail(todo), 0)
  <2>1. Operands(instr) = 1 /\ Pushes(instr) = 1
    BY <1>5 DEF Operands, Pushes, ArithmeticOp, CompareOp, PartOp
  <2>2. Operands(instr) \in 0..depths[Len(code) + 1]
    BY <1>1, <1>3, <2>1
  <2>3. Follows(instr, code, depths)
    BY <1>5, <2>2 DEF Follows
  <2>4. Len(Tail(todo)) \in Nat
    BY TaskOfTail, LenProperties DEF Todo
  <2>5. want[Len(Tail(todo))] = depths[Len(code) + 1] - Operands(instr) + Pushes(instr) + 0
    BY <1>1, <1>3, <2>1
  <2> QED
    BY <1>2, <2>3, <2>4, <2>5, Generated
<1> QED
  BY <1>2, <1>4, <1>5 DEF Working

\* The jump over the true case takes the condition.
LEMMA FirstBranch ==
  ASSUME NEW E, NEW code, NEW todo \in Todo(E), todo # << >>, Working(code, todo, 0),
         NEW instr, instr = [op |-> "JUMP_IF_FALSE", offset |-> 0, arg |-> 0],
         Head(todo).do = "branch"
  PROVE  Working(Append(code, instr), Tail(todo), 1)
<1>1. PICK depths, want :
        /\ depths[Len(code) + 1] \in Nat
        /\ Balances(Head(todo), depths[Len(code) + 1], want[Len(Tail(todo))])
        /\ ~IsJumpTask(Head(todo)) => Plan(code, Tail(todo), depths, want)
  BY FirstTask
<1>2. Plan(code, Tail(todo), depths, want)
  BY <1>1 DEF IsJumpTask
<1>3. 1 <= depths[Len(code) + 1] /\ want[Len(Tail(todo))] = depths[Len(code) + 1] - 1 + 1
  <2>1. Takes(Head(todo)) = 1 /\ Leaves(Head(todo)) = 1
    BY DEF Takes, Leaves
  <2> QED
    BY <1>1, <2>1 DEF Balances
<1>4. Operands(instr) = 1 /\ Pushes(instr) = 0
  BY DEF Operands, Pushes, ArithmeticOp, CompareOp, PartOp
<1>5. Operands(instr) \in 0..depths[Len(code) + 1]
  BY <1>1, <1>3, <1>4
<1>6. Follows(instr, code, depths)
  BY <1>5 DEF Follows, Instruction, Op
<1>7. Len(Tail(todo)) \in Nat
  BY TaskOfTail, LenProperties DEF Todo
<1>8. want[Len(Tail(todo))] = depths[Len(code) + 1] - Operands(instr) + Pushes(instr) + 1
  BY <1>1, <1>3, <1>4
<1> QED
  BY <1>2, <1>6, <1>7, <1>8, Generated

Patch(code, at, arg) == [code EXCEPT ![at].arg = arg]

\* Backpatching changes the argument of one instruction and nothing else.
LEMMA PatchedCode ==
  ASSUME NEW code \in Seq(Instruction), NEW at \in 1..Len(code), NEW arg \in Int
  PROVE  /\ Patch(code, at, arg) \in Seq(Instruction)
         /\ Len(Patch(code, at, arg)) = Len(code)
         /\ \A i \in 1..Len(code) : i # at => Patch(code, at, arg)[i] = code[i]
         /\ Patch(code, at, arg)[at].op = code[at].op
         /\ Patch(code, at, arg)[at].offset = code[at].offset
         /\ Patch(code, at, arg)[at].arg = arg
<1>1. code[at] \in Instruction
  BY ElementOfSeq
<1>2. [code[at] EXCEPT !.arg = arg] \in Instruction
  BY <1>1 DEF Instruction
<1>3. /\ [code[at] EXCEPT !.arg = arg].op = code[at].op
      /\ [code[at] EXCEPT !.arg = arg].offset = code[at].offset
      /\ [code[at] EXCEPT !.arg = arg].arg = arg
  BY <1>1 DEF Instruction
<1>4. Patch(code, at, arg) = [code EXCEPT ![at] = [code[at] EXCEPT !.arg = arg]]
  BY DEF Patch
<1> DEFINE e == [code[at] EXCEPT !.arg = arg]
<1> HIDE DEF e
<1>5. e \in Instruction /\ e.op = code[at].op /\ e.offset = code[at].offset /\ e.arg = arg
  BY <1>2, <1>3 DEF e
<1>6. /\ [code EXCEPT ![at] = e] \in Seq(Instruction) /\ Len([code EXCEPT ![at] = e]) = Len(code)
      /\ \A i \in 1..Len(code) : [code EXCEPT ![at] = e][i] = IF i = at THEN e ELSE code[i]
  BY <1>5, ExceptSeq
<1>7. Patch(code, at, arg) = [code EXCEPT ![at] = e]
  BY <1>4 DEF e
<1> QED
  BY <1>5, <1>6, <1>7

\* The first task gives a jump its target.
LEMMA FirstJump ==
  ASSUME NEW E, NEW code, NEW todo \in Todo(E), todo # << >>, NEW depths, NEW want,
         Plan(code, todo, depths, want), want[Len(todo)] = depths[Len(code) + 1],
         IsJumpTask(Head(todo)), NEW at, at = Head(todo).at
  PROVE  /\ JumpTaskFits(code, depths, Head(todo), depths[Len(code) + 1])
         /\ at \in 1..Len(code)
         /\ Awaiting(Tail(todo)) = Awaiting(todo) \ {at}
         /\ \A r \in 1..Len(Tail(todo)) :
              /\ Balances(TaskAt(Tail(todo), r), want[r], want[r - 1])
              /\ IsJumpTask(TaskAt(Tail(todo), r)) =>
                   /\ JumpTaskFits(code, depths, TaskAt(Tail(todo), r), want[r])
                   /\ TaskAt(Tail(todo), r).at # at
                   /\ \A q \in 1..Len(Tail(todo)) :
                        IsJumpTask(TaskAt(Tail(todo), q))
                          /\ TaskAt(Tail(todo), q).at = TaskAt(Tail(todo), r).at => q = r
<1> DEFINE tail == Tail(todo)
           n == Len(todo)
<1>1. /\ Len(tail) = n - 1 /\ n \in Nat \ {0}
      /\ TaskAt(todo, n) = Head(todo)
      /\ \A r \in 1..(n - 1) : TaskAt(tail, r) = TaskAt(todo, r)
  BY TaskOfTail, EmptySeq DEF Todo
<1>2. want[n] = depths[Len(code) + 1] /\ n = Len(todo)
  OBVIOUS
<1> HIDE DEF tail, n
<1>3. n \in 1..n /\ 1..Len(tail) = 1..(n - 1) /\ \A r \in 1..(n - 1) : r \in 1..n /\ r # n
  BY <1>1
<1>4. JumpTaskFits(code, depths, Head(todo), depths[Len(code) + 1])
  <2>1. JumpTaskFits(code, depths, TaskAt(todo, n), want[n])
    BY <1>1, <1>2, <1>3 DEF Plan
  <2> QED
    BY <1>1, <1>2, <2>1
<1>5. at \in 1..Len(code)
  BY <1>4 DEF JumpTaskFits
<1>6. ASSUME NEW r \in 1..(n - 1)
      PROVE  /\ Balances(TaskAt(tail, r), want[r], want[r - 1])
             /\ IsJumpTask(TaskAt(tail, r)) =>
                  /\ JumpTaskFits(code, depths, TaskAt(tail, r), want[r])
                  /\ TaskAt(tail, r).at # at
                  /\ \A q \in 1..(n - 1) :
                       IsJumpTask(TaskAt(tail, q)) /\ TaskAt(tail, q).at = TaskAt(tail, r).at => q = r
  <2>1. TaskAt(tail, r) = TaskAt(todo, r) /\ r \in 1..n /\ r # n
    BY <1>1, <1>3
  <2>2. Balances(TaskAt(todo, r), want[r], want[r - 1])
    BY <1>2, <2>1 DEF Plan
  <2>3. IsJumpTask(TaskAt(todo, r)) =>
          /\ JumpTaskFits(code, depths, TaskAt(todo, r), want[r])
          /\ \A q \in 1..n :
               IsJumpTask(TaskAt(todo, q)) /\ TaskAt(todo, q).at = TaskAt(todo, r).at => q = r
    BY <1>2, <2>1 DEF Plan
  <2> QED
    BY <1>1, <1>3, <2>1, <2>2, <2>3
<1>7. Awaiting(tail) = Awaiting(todo) \ {at}
  <2>1. \A a : a \in Awaiting(tail) <=> \E r \in 1..(n - 1) : IsJumpTask(TaskAt(tail, r)) /\ a = TaskAt(tail, r).at
    BY <1>3 DEF Awaiting
  <2>2. \A a : a \in Awaiting(todo) <=> \E r \in 1..n : IsJumpTask(TaskAt(todo, r)) /\ a = TaskAt(todo, r).at
    BY <1>2 DEF Awaiting
  <2>3. \A r \in 1..n : r \in 1..(n - 1) \/ r = n
    BY <1>1
  <2> QED
    BY <1>1, <1>3, <1>6, <2>1, <2>2, <2>3
<1> QED
  BY <1>3, <1>4, <1>5, <1>6, <1>7 DEF tail

\* Backpatching the jump over the else branch does the task that waits for it.
LEMMA FirstJoin ==
  ASSUME NEW E, NEW code, NEW todo \in Todo(E), todo # << >>, Working(code, todo, 0),
         Head(todo).do = "join", NEW at, at = Head(todo).at
  PROVE  Working(Patch(code, at, Len(code) - at), Tail(todo), 0)
<1>1. PICK depths, want :
        /\ Plan(code, todo, depths, want)
        /\ want[Len(todo)] = depths[Len(code) + 1]
        /\ depths[Len(code) + 1] \in Nat
        /\ Balances(Head(todo), depths[Len(code) + 1], want[Len(Tail(todo))])
  BY FirstTask
<1> DEFINE L == Len(code)
           tail == Tail(todo)
           patched == Patch(code, at, L - at)
<1>2. IsJumpTask(Head(todo))
  BY DEF IsJumpTask
<1>3. /\ JumpTaskFits(code, depths, Head(todo), depths[L + 1])
      /\ at \in 1..L /\ Awaiting(tail) = Awaiting(todo) \ {at}
      /\ \A r \in 1..Len(tail) :
           /\ Balances(TaskAt(tail, r), want[r], want[r - 1])
           /\ IsJumpTask(TaskAt(tail, r)) =>
                /\ JumpTaskFits(code, depths, TaskAt(tail, r), want[r])
                /\ TaskAt(tail, r).at # at
                /\ \A q \in 1..Len(tail) :
                     IsJumpTask(TaskAt(tail, q)) /\ TaskAt(tail, q).at = TaskAt(tail, r).at => q = r
  BY <1>1, <1>2, FirstJump
<1>4. L \in Nat /\ L - at \in Int
  <2>1. L \in Nat
    BY <1>1, LenProperties DEF Plan
  <2> QED
    BY <1>3, <2>1
<1>5. /\ patched \in Seq(Instruction) /\ Len(patched) = L
      /\ \A i \in 1..L : i # at => patched[i] = code[i]
      /\ patched[at].op = code[at].op /\ patched[at].arg = L - at
  <2>1. code \in Seq(Instruction) /\ at \in 1..Len(code)
    BY <1>1, <1>3 DEF Plan
  <2>2. PICK arg \in Int : arg = L - at
    BY <1>4
  <2> QED
    BY <2>1, <2>2, PatchedCode
<1>6. code[at].op = "JUMP" /\ DepthAfter(code, at, depths[at]) = depths[L + 1]
  BY <1>3 DEF JumpTaskFits
<1>7. L = Len(code)
  OBVIOUS
<1> HIDE DEF L, tail, patched
<1>8. \A i \in 1..L : \A d : patched[i].op = code[i].op /\ DepthAfter(patched, i, d) = DepthAfter(code, i, d)
                        /\ Operands(patched[i]) = Operands(code[i])
  <2>1. ASSUME NEW d
        PROVE  Operands(patched[at]) = Operands(code[at]) /\ Pushes(patched[at]) = Pushes(code[at])
    BY <1>5, <1>6 DEF Operands, Pushes, ArithmeticOp, CompareOp, PartOp
  <2> QED
    BY <1>5, <2>1 DEF DepthAfter
<1>9. ASSUME NEW i \in 1..L PROVE InstructionFits(patched, tail, depths, i)
  <2>1. InstructionFits(code, todo, depths, i)
    BY <1>1, <1>7 DEF Plan
  <2>2. CASE i # at
    <3>1. i \notin Awaiting(tail) => i \notin Awaiting(todo)
      BY <1>3, <2>2
    <3>2. Lands(code, depths, i) => Lands(patched, depths, i)
      BY <1>5, <1>7, <1>8, <2>2 DEF Lands
    <3> QED
      BY <1>8, <2>1, <3>1, <3>2 DEF InstructionFits
  <2>3. CASE i = at
    <3>1. at + 1 + (L - at) = L + 1 /\ L + 1 \in (at + 1)..(L + 1)
      BY <1>3, <1>4
    <3>2. Lands(patched, depths, at)
      BY <1>3, <1>5, <1>6, <1>8, <3>1 DEF Lands
    <3> QED
      BY <1>3, <1>6, <1>8, <2>1, <2>3, <3>2 DEF InstructionFits
  <2> QED
    BY <2>2, <2>3
<1>10. ASSUME NEW r \in 1..Len(tail), IsJumpTask(TaskAt(tail, r))
       PROVE  JumpTaskFits(patched, depths, TaskAt(tail, r), want[r])
  <2>1. JumpTaskFits(code, depths, TaskAt(tail, r), want[r])
    BY <1>3, <1>10
  <2> QED
    BY <1>5, <1>7, <1>8, <2>1 DEF JumpTaskFits
<1>11. ASSUME NEW j \in 2..(L + 1) PROVE Reached(patched, tail, j)
  <2>1. Reached(code, todo, j)
    BY <1>1, <1>7 DEF Plan
  <2>2. j - 1 \in 1..L /\ 1..(j - 1) \subseteq 1..L
    BY <1>4
  <2>3. CASE code[j - 1].op # "JUMP"
    BY <1>8, <2>2, <2>3 DEF Reached
  <2>4. CASE code[j - 1].op = "JUMP"
    <3>1. PICK i \in 1..(j - 1) :
            code[i].op = "JUMP_IF_FALSE" /\ i \notin Awaiting(todo) /\ j = i + 1 + code[i].arg
      BY <2>1, <2>4 DEF Reached
    <3>2. i # at /\ i \in 1..L
      BY <1>6, <2>2, <3>1
    <3>3. patched[i] = code[i] /\ i \notin Awaiting(tail)
      BY <1>3, <1>5, <3>1, <3>2
    <3> QED
      BY <3>1, <3>3 DEF Reached
  <2> QED
    BY <2>3, <2>4
<1>12. Plan(patched, tail, depths, want)
  BY <1>1, <1>3, <1>5, <1>9, <1>10, <1>11 DEF Plan
<1>13. want[Len(tail)] = depths[Len(patched) + 1] + 0
  <2>1. Takes(Head(todo)) = 1 /\ Leaves(Head(todo)) = 1
    BY DEF Takes, Leaves
  <2>2. want[Len(tail)] = depths[L + 1] - 1 + 1 /\ depths[L + 1] \in Nat
    BY <1>1, <1>7, <2>1 DEF Balances, tail
  <2> QED
    BY <1>5, <2>2
<1> QED
  BY <1>12, <1>13 DEF Working, patched, tail, L

WithJump(code) == Append(code, [op |-> "JUMP", offset |-> 0, arg |-> 0])

\* The true case ends in a jump over the false case, which is where a false
\* condition leads to.
LEMMA FirstElse ==
  ASSUME NEW E, NEW code, NEW todo \in Todo(E), todo # << >>, Working(code, todo, 0),
         Head(todo).do = "else", NEW at, at = Head(todo).at, NEW false_case \in E,
         NEW longer, longer = WithJump(code)
  PROVE  Working(Patch(longer, at, Len(longer) - at),
                 <<ToCompile(false_case), ToJoin(Len(longer))>> \o Tail(todo), 0)
<1>1. PICK depths, want :
        /\ Plan(code, todo, depths, want)
        /\ want[Len(todo)] = depths[Len(code) + 1]
        /\ depths[Len(code) + 1] \in Nat
        /\ Balances(Head(todo), depths[Len(code) + 1], want[Len(Tail(todo))])
  BY FirstTask
<1> DEFINE L == Len(code)
           tail == Tail(todo)
           R == Len(tail)
           h == depths[L + 1]
           patched == Patch(longer, at, Len(longer) - at)
           more == <<ToCompile(false_case), ToJoin(Len(longer))>> \o tail
           after == Put(depths, L + 2, h - 1)
<1>2. IsJumpTask(Head(todo))
  BY DEF IsJumpTask
<1>3. /\ JumpTaskFits(code, depths, Head(todo), depths[L + 1])
      /\ at \in 1..L /\ Awaiting(tail) = Awaiting(todo) \ {at}
      /\ \A r \in 1..R :
           /\ Balances(TaskAt(tail, r), want[r], want[r - 1])
           /\ IsJumpTask(TaskAt(tail, r)) =>
                /\ JumpTaskFits(code, depths, TaskAt(tail, r), want[r])
                /\ TaskAt(tail, r).at # at
                /\ \A q \in 1..R :
                     IsJumpTask(TaskAt(tail, q)) /\ TaskAt(tail, q).at = TaskAt(tail, r).at => q = r
  BY <1>1, <1>2, FirstJump
<1>4. L \in Nat /\ R \in Nat /\ tail \in Todo(E)
  <2>1. L \in Nat
    BY <1>1, LenProperties DEF Plan
  <2>2. R \in Nat /\ tail \in Todo(E)
    BY TaskOfTail, LenProperties DEF Todo
  <2> QED
    BY <2>1, <2>2
<1>5. h \in Nat /\ h - 1 \in Nat /\ want[R] = h
  <2>1. Takes(Head(todo)) = 1 /\ Leaves(Head(todo)) = 1
    BY DEF Takes, Leaves
  <2>2. 1 <= h /\ want[R] = h - 1 + 1 /\ h \in Nat
    BY <1>1, <2>1 DEF Balances
  <2> QED
    BY <2>2
<1>6. /\ longer \in Seq(Instruction) /\ Len(longer) = L + 1
      /\ \A i \in 1..L : longer[i] = code[i]
      /\ longer[L + 1] = [op |-> "JUMP", offset |-> 0, arg |-> 0]
  <2>1. [op |-> "JUMP", offset |-> 0, arg |-> 0] \in Instruction
    BY DEF Instruction, Op
  <2> QED
    BY <1>1, <2>1, AppendProperties DEF Plan, WithJump
<1>7. at \in 1..(L + 1) /\ L + 1 - at \in Int
  BY <1>3, <1>4
<1>8. /\ patched \in Seq(Instruction) /\ Len(patched) = L + 1
      /\ \A i \in 1..L : i # at => patched[i] = code[i]
      /\ patched[at].op = code[at].op /\ patched[at].arg = L + 1 - at
      /\ patched[L + 1] = [op |-> "JUMP", offset |-> 0, arg |-> 0]
  <2>1. \A i \in 1..L : i \in 1..(L + 1)
    BY <1>4
  <2>2. L + 1 \in 1..(L + 1) /\ L + 1 # at
    BY <1>3, <1>4
  <2>4. at \in 1..Len(longer) /\ Len(longer) - at \in Int /\ Len(longer) = L + 1
    BY <1>6, <1>7
  <2>5. /\ patched \in Seq(Instruction) /\ Len(patched) = Len(longer)
        /\ \A i \in 1..Len(longer) : i # at => patched[i] = longer[i]
        /\ patched[at].op = longer[at].op /\ patched[at].arg = Len(longer) - at
    BY <1>6, <2>4, PatchedCode
  <2>3. /\ patched \in Seq(Instruction) /\ Len(patched) = L + 1
        /\ \A i \in 1..(L + 1) : i # at => patched[i] = longer[i]
        /\ patched[at].op = longer[at].op /\ patched[at].arg = L + 1 - at
    BY <2>4, <2>5
  <2> QED
    BY <1>3, <1>6, <2>1, <2>2, <2>3
<1>9. /\ Len(more) = R + 2
      /\ \A r \in 1..R : TaskAt(more, r) = TaskAt(tail, r)
      /\ TaskAt(more, R + 1) = ToJoin(L + 1)
      /\ TaskAt(more, R + 2) = ToCompile(false_case)

  <2>1. ToCompile(false_case) \in Task(E) /\ ToJoin(L + 1) \in Task(E) /\ Len(longer) = L + 1
    BY <1>4, <1>6 DEF Task, ToCompile, ToJoin
  <2>2. tail \in Todo(E) /\ R \in Nat /\ R = Len(tail)
    BY <1>4
  <2>3. more = <<ToCompile(false_case), ToJoin(L + 1)>> \o tail
    BY <2>1
  <2> HIDE DEF more, R, tail, L
  <2> DEFINE a == ToCompile(false_case)
             b == ToJoin(L + 1)
  <2>4. a \in Task(E) /\ b \in Task(E) /\ more = <<a, b>> \o tail
    BY <2>1, <2>3
  <2> HIDE DEF a, b
  <2>5. /\ Len(more) = R + 2
        /\ \A r \in 1..R : TaskAt(more, r) = TaskAt(tail, r)
        /\ TaskAt(more, R + 1) = b
        /\ TaskAt(more, R + 2) = a
    BY <2>2, <2>4, TwoTasks
  <2> QED
    BY <2>5 DEF a, b
<1>10. code[at].op = "JUMP_IF_FALSE" /\ DepthAfter(code, at, depths[at]) = h - 1
  BY <1>3 DEF JumpTaskFits
<1>11. L = Len(code) /\ h = depths[L + 1]
  OBVIOUS
<1> HIDE DEF L, tail, R, h, patched, more
<1>12. /\ after \in Heights /\ after[L + 2] = h - 1
       /\ \A i \in 1..(L + 1) : after[i] = depths[i]
  <2>1. \A i \in 1..(L + 1) : i \in 0..(L + 1)
    BY <1>4
  <2>2. depths \in Heights
    BY <1>1 DEF Plan
  <2> QED
    BY <1>4, <1>5, <2>1, <2>2, PutNext
<1>13. PICK heights \in Heights :
         /\ heights[R + 1] = h /\ heights[R + 2] = h - 1
         /\ \A r \in 0..R : heights[r] = want[r]
  <2>1. want \in Heights
    BY <1>1 DEF Plan
  <2> QED
    BY <1>4, <1>5, <2>1, PutTwo
<1> HIDE DEF after
<1>14. Awaiting(more) = (Awaiting(todo) \ {at}) \cup {L + 1}
  <2>1. \A a : a \in Awaiting(tail) <=> \E r \in 1..R : IsJumpTask(TaskAt(tail, r)) /\ a = TaskAt(tail, r).at
    BY DEF Awaiting, R
  <2>2. \A a : a \in Awaiting(more) <=> \E r \in 1..(R + 2) : IsJumpTask(TaskAt(more, r)) /\ a = TaskAt(more, r).at
    BY <1>9 DEF Awaiting
  <2>3. \A r : r \in 1..(R + 2) <=> r \in 1..R \/ r = R + 1 \/ r = R + 2
    BY <1>4
  <2>4. /\ ~IsJumpTask(TaskAt(more, R + 2)) /\ IsJumpTask(TaskAt(more, R + 1))
        /\ TaskAt(more, R + 1).at = L + 1
    BY <1>9 DEF IsJumpTask, ToJoin, ToCompile
  <2>6. \A r \in 1..R : TaskAt(more, r) = TaskAt(tail, r)
    BY <1>9
  <2>7. ASSUME NEW a \in Awaiting(more) PROVE a \in Awaiting(tail) \/ a = L + 1
    <3>1. PICK r \in 1..(R + 2) : IsJumpTask(TaskAt(more, r)) /\ a = TaskAt(more, r).at
      BY <2>2
    <3> QED
      BY <2>1, <2>3, <2>4, <2>6, <3>1
  <2>8. ASSUME NEW a \in Awaiting(tail) PROVE a \in Awaiting(more)
    BY <2>1, <2>2, <2>3, <2>6
  <2>9. L + 1 \in Awaiting(more)
    BY <2>2, <2>3, <2>4
  <2>5. Awaiting(more) = Awaiting(tail) \cup {L + 1}
    BY <2>7, <2>8, <2>9
  <2> QED
    BY <1>3, <2>5
<1>15. \A i \in 1..L : \A d : patched[i].op = code[i].op /\ DepthAfter(patched, i, d) = DepthAfter(code, i, d)
                         /\ Operands(patched[i]) = Operands(code[i])
  <2>1. Operands(patched[at]) = Operands(code[at]) /\ Pushes(patched[at]) = Pushes(code[at])
    BY <1>8, <1>10 DEF Operands, Pushes, ArithmeticOp, CompareOp, PartOp
  <2> QED
    BY <1>8, <2>1 DEF DepthAfter
<1>16. \A i \in 1..L : i \in 1..(L + 1) /\ i + 1 \in 1..(L + 1) /\ i # L + 1
  BY <1>4
<1>17. ASSUME NEW i \in 1..L PROVE InstructionFits(patched, more, after, i)
  <2>1. InstructionFits(code, todo, depths, i)
    BY <1>1, <1>11 DEF Plan
  <2>2. after[i] = depths[i] /\ after[i + 1] = depths[i + 1]
    BY <1>12, <1>16
  <2>3. CASE i # at
    <3>1. i \notin Awaiting(more) => i \notin Awaiting(todo)
      BY <1>14, <2>3
    <3>2. ASSUME Lands(code, depths, i) PROVE Lands(patched, after, i)
      <4>1. PICK target \in (i + 1)..(L + 1) :
              target = i + 1 + code[i].arg /\ depths[target] = DepthAfter(code, i, depths[i])
        BY <1>11, <3>2 DEF Lands
      <4>2. target \in 1..(L + 1) /\ target \in (i + 1)..(L + 1 + 1)
        BY <1>4, <4>1
      <4>3. after[target] = depths[target]
        BY <1>12, <4>2
      <4> QED
        BY <1>8, <1>15, <2>2, <2>3, <4>1, <4>2, <4>3 DEF Lands
    <3> QED
      BY <1>15, <2>1, <2>2, <3>1, <3>2 DEF InstructionFits
  <2>4. CASE i = at
    <3>1. at + 1 + (L + 1 - at) = L + 2 /\ L + 2 \in (at + 1)..(L + 1 + 1)
      BY <1>3, <1>4
    <3>2. DepthAfter(patched, at, after[at]) = h - 1
      BY <1>10, <1>15, <2>2, <2>4
    <3>3. Lands(patched, after, at)
      BY <1>8, <1>12, <3>1, <3>2 DEF Lands
    <3> QED
      BY <1>10, <1>15, <2>1, <2>2, <2>4, <3>3 DEF InstructionFits
  <2> QED
    BY <2>3, <2>4
<1>18. InstructionFits(patched, more, after, L + 1)
  <2>1. Operands(patched[L + 1]) = 0
    BY <1>8 DEF Operands, ArithmeticOp, CompareOp, PartOp
  <2>2. L + 1 \in 1..(L + 1)
    BY <1>4
  <2>3. 0 \in 0..after[L + 1]
    BY <1>5, <1>11, <1>12, <2>2
  <2>4. patched[L + 1].op = "JUMP"
    BY <1>8
  <2> QED
    BY <1>14, <2>1, <2>3, <2>4 DEF InstructionFits
<1>19. \A i \in 1..Len(patched) : InstructionFits(patched, more, after, i)
  <2>1. \A i \in 1..(L + 1) : i \in 1..L \/ i = L + 1
    BY <1>4
  <2> QED
    BY <1>8, <1>17, <1>18, <2>1
<1>20. \A r \in 1..R : r \in 0..R /\ r - 1 \in 0..R /\ r \in 1..(R + 2) /\ r # R + 1
  BY <1>4
<1>21. ASSUME NEW r \in 1..R, IsJumpTask(TaskAt(more, r))
       PROVE  JumpTaskFits(patched, after, TaskAt(more, r), heights[r])
              /\ TaskAt(more, r).at \in 1..L /\ TaskAt(more, r).at # at
  <2>1. JumpTaskFits(code, depths, TaskAt(more, r), heights[r]) /\ TaskAt(more, r).at # at
    BY <1>3, <1>9, <1>13, <1>20, <1>21
  <2>2. TaskAt(more, r).at \in 1..L
    BY <1>11, <2>1 DEF JumpTaskFits
  <2>3. /\ TaskAt(more, r).at \in 1..(L + 1)
        /\ after[TaskAt(more, r).at] = depths[TaskAt(more, r).at]
    BY <1>12, <1>16, <2>2
  <2>4. JumpTaskFits(patched, after, TaskAt(more, r), heights[r])
    BY <1>8, <1>15, <2>1, <2>2, <2>3 DEF JumpTaskFits
  <2> QED
    BY <2>1, <2>2, <2>4
<1>22. JumpTaskFits(patched, after, TaskAt(more, R + 1), heights[R + 1])
  <2>1. L + 1 \in 1..(L + 1)
    BY <1>4
  <2>2. Operands(patched[L + 1]) = 0 /\ Pushes(patched[L + 1]) = 0
    BY <1>8 DEF Operands, Pushes, ArithmeticOp, CompareOp, PartOp
  <2>3. DepthAfter(patched, L + 1, after[L + 1]) = h
    <3>1. after[L + 1] = h
      BY <1>11, <1>12, <2>1
    <3> QED
      BY <1>5, <2>2, <3>1 DEF DepthAfter
  <2>4. TaskAt(more, R + 1).at = L + 1 /\ TaskAt(more, R + 1).do = "join"
    BY <1>9 DEF ToJoin
  <2> QED
    BY <1>8, <1>13, <2>1, <2>3, <2>4 DEF JumpTaskFits
<1>23. \A r \in 1..(R + 2) : IsJumpTask(TaskAt(more, r)) =>
         /\ JumpTaskFits(patched, after, TaskAt(more, r), heights[r])
         /\ \A q \in 1..(R + 2) :
              IsJumpTask(TaskAt(more, q)) /\ TaskAt(more, q).at = TaskAt(more, r).at => q = r
  <2>1. \A r \in 1..(R + 2) : r \in 1..R \/ r = R + 1 \/ r = R + 2
    BY <1>4
  <2>2. ~IsJumpTask(TaskAt(more, R + 2)) /\ TaskAt(more, R + 1).at = L + 1
    BY <1>9 DEF IsJumpTask, ToJoin, ToCompile
  <2>3. L + 1 \notin 1..L
    BY <1>4
  <2>4. \A r, q \in 1..R :
          IsJumpTask(TaskAt(more, r)) /\ IsJumpTask(TaskAt(more, q))
            /\ TaskAt(more, q).at = TaskAt(more, r).at => q = r
    BY <1>3, <1>9
  <2> QED
    BY <1>21, <1>22, <2>1, <2>2, <2>3, <2>4
<1>24. \A r \in 1..(R + 2) : Balances(TaskAt(more, r), heights[r], heights[r - 1])
  <2>1. \A r \in 1..(R + 2) : r \in 1..R \/ r = R + 1 \/ r = R + 2
    BY <1>4
  <2>2. \A r \in 1..R : Balances(TaskAt(more, r), heights[r], heights[r - 1])
    BY <1>3, <1>9, <1>13, <1>20
  <2>3. ASSUME NEW r, r = R + 1 PROVE Balances(TaskAt(more, r), heights[r], heights[r - 1])
    <3>1. r - 1 = R /\ R \in 0..R
      BY <1>4, <2>3
    <3>2. heights[r] = h /\ heights[r - 1] = h
      BY <1>5, <1>13, <2>3, <3>1
    <3>3. Takes(TaskAt(more, R + 1)) = 1 /\ Leaves(TaskAt(more, R + 1)) = 1
      BY <1>9 DEF Takes, Leaves, ToJoin
    <3>4. 1 <= h /\ h = h - 1 + 1
      BY <1>5
    <3> QED
      BY <2>3, <3>2, <3>3, <3>4 DEF Balances
  <2>4. ASSUME NEW r, r = R + 2 PROVE Balances(TaskAt(more, r), heights[r], heights[r - 1])
    <3>1. r - 1 = R + 1
      BY <1>4, <2>4
    <3>2. heights[r] = h - 1 /\ heights[r - 1] = h
      BY <1>13, <2>4, <3>1
    <3>3. Takes(TaskAt(more, R + 2)) = 0 /\ Leaves(TaskAt(more, R + 2)) = 1
      BY <1>9 DEF Takes, Leaves, ToCompile
    <3>4. 0 <= h - 1 /\ h = h - 1 - 0 + 1
      BY <1>5
    <3> QED
      BY <2>4, <3>2, <3>3, <3>4 DEF Balances
  <2> QED
    BY <2>1, <2>2, <2>3, <2>4
<1>25. ASSUME NEW j \in 2..(L + 1) PROVE Reached(patched, more, j)
  <2>1. Reached(code, todo, j)
    BY <1>1, <1>11 DEF Plan
  <2>2. j - 1 \in 1..L /\ 1..(j - 1) \subseteq 1..L
    BY <1>4
  <2>3. CASE code[j - 1].op # "JUMP"
    BY <1>15, <2>2, <2>3 DEF Reached
  <2>4. CASE code[j - 1].op = "JUMP"
    <3>1. PICK i \in 1..(j - 1) :
            code[i].op = "JUMP_IF_FALSE" /\ i \notin Awaiting(todo) /\ j = i + 1 + code[i].arg
      BY <2>1, <2>4 DEF Reached
    <3>2. i \in 1..L /\ i # L + 1
      BY <1>16, <2>2, <3>1
    <3>3. at \in Awaiting(todo)
      <4>1. TaskAt(todo, Len(todo)) = Head(todo) /\ Len(todo) \in 1..Len(todo)
        <5>1. Len(todo) \in Nat \ {0}
          BY EmptySeq DEF Todo
        <5> QED
          BY <5>1, TaskOfTail DEF Todo
      <4> QED
        BY <1>2, <4>1 DEF Awaiting
    <3>4. patched[i] = code[i] /\ i \notin Awaiting(more)
      BY <1>8, <1>14, <3>1, <3>2, <3>3
    <3> QED
      BY <3>1, <3>4 DEF Reached
  <2> QED
    BY <2>3, <2>4
<1>26. Reached(patched, more, L + 2)
  <2> DEFINE j == L + 2
  <2>1. at \in 1..(j - 1) /\ j = at + 1 + (L + 1 - at) /\ at # L + 1
    BY <1>3, <1>4
  <2> HIDE DEF j
  <2>2. patched[at].op = "JUMP_IF_FALSE" /\ at \notin Awaiting(more) /\ j = at + 1 + patched[at].arg
    BY <1>8, <1>10, <1>14, <2>1
  <2>3. Reached(patched, more, j)
    BY <2>1, <2>2 DEF Reached
  <2> QED
    BY <2>3 DEF j
<1>27. \A j \in 2..(Len(patched) + 1) : Reached(patched, more, j)
  <2>1. \A j \in 2..(L + 1 + 1) : j \in 2..(L + 1) \/ j = L + 2
    BY <1>4
  <2>2. Len(patched) + 1 = L + 1 + 1
    BY <1>8
  <2> QED
    BY <1>25, <1>26, <2>1, <2>2
<1>28. after[1] = 0 /\ heights[0] = 1
  <2>1. 1 \in 1..(L + 1) /\ 0 \in 0..R
    BY <1>4
  <2>2. depths[1] = 0 /\ want[0] = 1
    BY <1>1 DEF Plan
  <2> QED
    BY <1>12, <1>13, <2>1, <2>2
<1>29. Plan(patched, more, after, heights)
  BY <1>8, <1>9, <1>12, <1>13, <1>19, <1>23, <1>24, <1>27, <1>28 DEF Plan
<1>30. heights[Len(more)] = after[Len(patched) + 1] + 0
  <2>1. Len(patched) + 1 = L + 2
    BY <1>4, <1>8
  <2>2. h - 1 = h - 1 + 0
    BY <1>5
  <2> QED
    BY <1>9, <1>12, <1>13, <2>1, <2>2
<1>31. Working(patched, more, 0)
  BY <1>29, <1>30 DEF Working
<1> QED
  BY <1>31 DEF patched, more, tail

-----------------------------------------------------------------------------
(* The lambda that is compiled.                                            *)

LiteralIn(E, I) == E \cup [type : {"compiled_lambda"}, id : I]

Construction(E, I) ==
  [id : I, code : Seq(Instruction), literals : Seq(LiteralIn(E, I)), names : Seq(STRING),
   arg_count : Nat, var_count : Nat, todo : Todo(E)]

\* A definition whose value is compiled has its variable.
Defining(todo) == \E k \in 1..Len(todo) : todo[k].do = "store_newest"

Built(cl, missing) ==
  /\ Len(cl.names) = cl.arg_count + cl.var_count
  /\ Defining(cl.todo) => cl.var_count > 0
  /\ Working(cl.code, cl.todo, missing)

\* What an instruction names exists: in the lambda `own` that is called `id`, or
\* in the lambda `target` that is as far out as its offset says.
Names(E, id, own, target, instr) ==
  LET index == instr.arg + 1
  IN  /\ instr.op = "LOAD_ARG" => instr.arg \in 0..(target.arg_count - 1)
      /\ instr.op \in {"LOAD_LOCAL", "STORE_LOCAL"} => instr.arg \in 0..(target.var_count - 1)
      /\ instr.op \in {"LOAD_LITERAL", "LOAD_LAMBDA", "LOAD_ENV"} =>
           instr.offset = 0 /\ index \in 1..Len(own.literals)
      /\ instr.op = "LOAD_LITERAL" => own.literals[index] \in E
      /\ instr.op = "LOAD_LAMBDA" => own.literals[index] = LambdaLiteral(Append(id, index))
      /\ instr.op = "LOAD_ENV" => own.literals[index] \in E /\ IsSym(own.literals[index])
      /\ instr.op # "STORE_ENV"
      /\ instr.op = "CALL" => instr.arg >= 0

\* An instruction of `cl`, the lambda that `chain` ends with after a step.
Lies(E, chain, cl, instr) ==
  /\ instr.offset \in 0..(Len(chain) - 1)
  /\ Names(E, cl.id, cl, IF instr.offset = 0 THEN cl ELSE chain[Len(chain) - instr.offset], instr)

\* All of an instruction but the target of a jump.
SameInstruction(a, b) == a.op = b.op /\ a.offset = b.offset /\ (a.op \notin JumpOp => a.arg = b.arg)

\* What a step does to a lambda: nothing that an instruction has named goes away.
Continues(E, chain, old, cl) ==
  /\ cl.id = old.id /\ cl.arg_count = old.arg_count /\ cl.var_count >= old.var_count
  /\ Len(cl.literals) >= Len(old.literals)
  /\ \A i \in 1..Len(cl.literals) : IF i <= Len(old.literals) THEN cl.literals[i] = old.literals[i]
                                   ELSE cl.literals[i] \in E
  /\ Len(cl.code) >= Len(old.code)
  /\ \A i \in 1..Len(cl.code) : IF i <= Len(old.code) THEN SameInstruction(cl.code[i], old.code[i])
                                ELSE Lies(E, chain, cl, cl.code[i])

\* The lambda that works on the first of its tasks, and what becomes of it.
Advances(E, I, chain, old, cl) ==
  cl \in Construction(E, I) /\ Built(cl, 0) /\ Continues(E, chain, old, cl)

Popped(cl) == [cl EXCEPT !.todo = Tail(@)]

\* The fields of an unfinished lambda.
LEMMA ConstructionFields ==
  ASSUME NEW E, NEW I, NEW cl \in Construction(E, I)
  PROVE  /\ cl.id \in I /\ cl.code \in Seq(Instruction) /\ cl.literals \in Seq(LiteralIn(E, I))
         /\ cl.names \in Seq(STRING) /\ cl.arg_count \in Nat /\ cl.var_count \in Nat /\ cl.todo \in Todo(E)
         /\ Len(cl.code) \in Nat /\ Len(cl.literals) \in Nat /\ Len(cl.names) \in Nat /\ Len(cl.todo) \in Nat
  BY LenProperties DEF Construction, Todo

\* Taking the first task off a lambda changes nothing else of it.
LEMMA PoppedLambda ==
  ASSUME NEW E, NEW I, NEW old \in Construction(E, I), old.todo # << >>
  PROVE  /\ Popped(old) \in Construction(E, I)
         /\ Popped(old).id = old.id /\ Popped(old).code = old.code /\ Popped(old).literals = old.literals
         /\ Popped(old).names = old.names /\ Popped(old).arg_count = old.arg_count
         /\ Popped(old).var_count = old.var_count /\ Popped(old).todo = Tail(old.todo)
<1>1. Tail(old.todo) \in Todo(E)
  BY ConstructionFields, TaskOfTail DEF Todo
<1>2. PICK todo \in Todo(E) : todo = Tail(old.todo)
  BY <1>1
<1> QED
  BY <1>2 DEF Construction, Popped

\* The tasks that are left.
LEMMA DefiningTail ==
  ASSUME NEW E, NEW todo \in Todo(E), todo # << >>
  PROVE  Defining(Tail(todo)) => Defining(todo)
<1>1. Len(Tail(todo)) = Len(todo) - 1 /\ Len(todo) \in Nat
  BY TaskOfTail, LenProperties DEF Todo
<1>2. \A k \in 1..(Len(todo) - 1) : Tail(todo)[k] = todo[k + 1]
  BY HeadTailProperties DEF Todo
<1>3. \A k \in 1..(Len(todo) - 1) : k + 1 \in 1..Len(todo)
  BY <1>1
<1> QED
  BY <1>1, <1>2, <1>3 DEF Defining

\* A task that defines a variable, in a concatenation, is in one of the parts.
LEMMA DefiningConcat ==
  ASSUME NEW E, NEW todo \in Todo(E), NEW tasks \in Todo(E), Defining(tasks \o todo)
  PROVE  Defining(tasks) \/ Defining(todo)
<1>1. Len(tasks \o todo) = Len(tasks) + Len(todo) /\ Len(tasks) \in Nat /\ Len(todo) \in Nat
  BY ConcatProperties, LenProperties DEF Todo
<1>2. \A k \in 1..(Len(tasks) + Len(todo)) :
        (tasks \o todo)[k] = IF k <= Len(tasks) THEN tasks[k] ELSE todo[k - Len(tasks)]
  BY <1>1, ConcatProperties DEF Todo
<1>3. PICK k \in 1..(Len(tasks) + Len(todo)) : (tasks \o todo)[k].do = "store_newest"
  BY <1>1 DEF Defining
<1>4. CASE k <= Len(tasks)
  <2>1. k \in 1..Len(tasks)
    BY <1>1, <1>4
  <2> QED
    BY <1>2, <1>3, <1>4, <2>1 DEF Defining
<1>5. CASE ~(k <= Len(tasks))
  <2>1. k - Len(tasks) \in 1..Len(todo)
    BY <1>1, <1>5
  <2> QED
    BY <1>2, <1>3, <1>5, <2>1 DEF Defining
<1> QED
  BY <1>4, <1>5

-----------------------------------------------------------------------------
(* The ways in which a step changes the lambda.                            *)

\* Nothing but its tasks.
LEMMA SameCode ==
  ASSUME NEW E, NEW I, NEW chain, NEW old \in Construction(E, I), NEW cl \in Construction(E, I),
         cl.id = old.id, cl.code = old.code, cl.literals = old.literals,
         cl.arg_count = old.arg_count, cl.var_count >= old.var_count
  PROVE  Continues(E, chain, old, cl)
<1>1. Len(old.code) \in Nat /\ Len(old.literals) \in Nat
  BY ConstructionFields
<1> QED
  BY <1>1 DEF Continues, SameInstruction

\* Gen appends one instruction and changes nothing else.
LEMMA GenFields ==
  ASSUME NEW E, NEW I, NEW cl \in Construction(E, I), NEW instr \in Instruction
  PROVE  /\ Gen(cl, instr) \in Construction(E, I)
         /\ Gen(cl, instr).id = cl.id /\ Gen(cl, instr).code = Append(cl.code, instr)
         /\ Gen(cl, instr).literals = cl.literals /\ Gen(cl, instr).names = cl.names
         /\ Gen(cl, instr).arg_count = cl.arg_count /\ Gen(cl, instr).var_count = cl.var_count
         /\ Gen(cl, instr).todo = cl.todo
<1>1. PICK code \in Seq(Instruction) : code = Append(cl.code, instr)
  BY ConstructionFields, AppendProperties
<1> QED
  BY <1>1 DEF Construction, Gen

\* AddLiteral appends one literal and changes nothing else.
LEMMA AddLiteralFields ==
  ASSUME NEW E, NEW I, NEW cl \in Construction(E, I), NEW literal \in LiteralIn(E, I)
  PROVE  /\ AddLiteral(cl, literal) \in Construction(E, I)
         /\ AddLiteral(cl, literal).id = cl.id /\ AddLiteral(cl, literal).code = cl.code
         /\ AddLiteral(cl, literal).literals = Append(cl.literals, literal)
         /\ AddLiteral(cl, literal).names = cl.names
         /\ AddLiteral(cl, literal).arg_count = cl.arg_count
         /\ AddLiteral(cl, literal).var_count = cl.var_count
         /\ AddLiteral(cl, literal).todo = cl.todo
<1>1. PICK literals \in Seq(LiteralIn(E, I)) : literals = Append(cl.literals, literal)
  BY ConstructionFields, AppendProperties
<1> QED
  BY <1>1 DEF Construction, AddLiteral

\* Then puts tasks in front and changes nothing else.
LEMMA ThenFields ==
  ASSUME NEW E, NEW I, NEW cl \in Construction(E, I), NEW tasks \in Todo(E)
  PROVE  /\ Then(cl, tasks) \in Construction(E, I)
         /\ Then(cl, tasks).id = cl.id /\ Then(cl, tasks).code = cl.code
         /\ Then(cl, tasks).literals = cl.literals /\ Then(cl, tasks).names = cl.names
         /\ Then(cl, tasks).arg_count = cl.arg_count /\ Then(cl, tasks).var_count = cl.var_count
         /\ Then(cl, tasks).todo = tasks \o cl.todo
<1>1. PICK todo \in Todo(E) : todo = tasks \o cl.todo
  BY ConstructionFields, TodoConcat
<1> QED
  BY <1>1 DEF Construction, Then

\* AddVariable appends a name, counts it and changes nothing else.
LEMMA AddVariableFields ==
  ASSUME NEW E, NEW I, NEW cl \in Construction(E, I), NEW name \in STRING
  PROVE  /\ AddVariable(cl, name) \in Construction(E, I)
         /\ AddVariable(cl, name).id = cl.id /\ AddVariable(cl, name).code = cl.code
         /\ AddVariable(cl, name).literals = cl.literals
         /\ AddVariable(cl, name).names = Append(cl.names, name)
         /\ AddVariable(cl, name).arg_count = cl.arg_count
         /\ AddVariable(cl, name).var_count = cl.var_count + 1
         /\ AddVariable(cl, name).todo = cl.todo
<1>1. PICK names \in Seq(STRING) : names = Append(cl.names, name)
  BY ConstructionFields, AppendProperties
<1>2. cl.var_count + 1 \in Nat
  BY ConstructionFields
<1> QED
  BY <1>1, <1>2 DEF Construction, AddVariable

\* BackpatchTarget patches one jump and changes nothing else.
LEMMA BackpatchFields ==
  ASSUME NEW E, NEW I, NEW cl \in Construction(E, I), NEW at \in 1..Len(cl.code)
  PROVE  /\ BackpatchTarget(cl, at) \in Construction(E, I)
         /\ BackpatchTarget(cl, at).id = cl.id
         /\ BackpatchTarget(cl, at).code = Patch(cl.code, at, Len(cl.code) - at)
         /\ BackpatchTarget(cl, at).literals = cl.literals /\ BackpatchTarget(cl, at).names = cl.names
         /\ BackpatchTarget(cl, at).arg_count = cl.arg_count
         /\ BackpatchTarget(cl, at).var_count = cl.var_count
         /\ BackpatchTarget(cl, at).todo = cl.todo
<1>1. cl.code \in Seq(Instruction) /\ Len(cl.code) - at \in Int
  BY ConstructionFields
<1>2. PICK code \in Seq(Instruction) : code = Patch(cl.code, at, Len(cl.code) - at)
  BY <1>1, PatchedCode
<1>3. BackpatchTarget(cl, at) = [cl EXCEPT !.code = Patch(cl.code, at, Len(cl.code) - at)]
  BY DEF Construction, BackpatchTarget, Patch
<1> QED
  BY <1>2, <1>3 DEF Construction

\* An instruction is the same as itself.
LEMMA SameInstructionItself ==
  ASSUME NEW instr
  PROVE  SameInstruction(instr, instr)
  BY DEF SameInstruction

\* An instruction is added.
LEMMA OneInstruction ==
  ASSUME NEW E, NEW I, NEW chain, NEW old \in Construction(E, I), NEW cl \in Construction(E, I),
         NEW instr \in Instruction,
         cl.id = old.id, cl.code = Append(old.code, instr), cl.literals = old.literals,
         cl.arg_count = old.arg_count, cl.var_count >= old.var_count,
         Lies(E, chain, cl, instr)
  PROVE  Continues(E, chain, old, cl)
<1>1. /\ Len(cl.code) = Len(old.code) + 1 /\ Len(old.code) \in Nat /\ Len(old.literals) \in Nat
      /\ \A i \in 1..Len(old.code) : cl.code[i] = old.code[i]
      /\ cl.code[Len(old.code) + 1] = instr
  BY ConstructionFields, AppendProperties
<1>2. \A i \in 1..Len(cl.code) : ~(i <= Len(old.code)) => i = Len(old.code) + 1
  BY <1>1
<1>3. \A i \in 1..Len(cl.code) : i <= Len(old.code) => cl.code[i] = old.code[i]
  BY <1>1
<1> QED
  BY <1>1, <1>2, <1>3, SameInstructionItself DEF Continues

\* An instruction is added with the literal it names.
LEMMA OneLiteral ==
  ASSUME NEW E, NEW I, NEW chain, NEW old \in Construction(E, I), NEW cl \in Construction(E, I),
         NEW instr \in Instruction, NEW literal \in E,
         cl.id = old.id, cl.code = Append(old.code, instr), cl.literals = Append(old.literals, literal),
         cl.arg_count = old.arg_count, cl.var_count >= old.var_count,
         Lies(E, chain, cl, instr)
  PROVE  Continues(E, chain, old, cl)
<1>1. /\ Len(cl.code) = Len(old.code) + 1 /\ Len(old.code) \in Nat
      /\ \A i \in 1..Len(old.code) : cl.code[i] = old.code[i]
      /\ cl.code[Len(old.code) + 1] = instr
  BY ConstructionFields, AppendProperties
<1>2. literal \in LiteralIn(E, I)
  BY DEF LiteralIn
<1>3. /\ Len(cl.literals) = Len(old.literals) + 1 /\ Len(old.literals) \in Nat
      /\ \A i \in 1..Len(old.literals) : cl.literals[i] = old.literals[i]
      /\ cl.literals[Len(old.literals) + 1] = literal
  BY <1>2, ConstructionFields, AppendProperties
<1>4. \A i \in 1..Len(cl.code) : ~(i <= Len(old.code)) => i = Len(old.code) + 1
  BY <1>1
<1>5. \A i \in 1..Len(cl.code) : i <= Len(old.code) => cl.code[i] = old.code[i]
  BY <1>1
<1>6. \A i \in 1..Len(cl.literals) : IF i <= Len(old.literals) THEN cl.literals[i] = old.literals[i]
                                     ELSE cl.literals[i] \in E
  BY <1>3
<1> QED
  BY <1>1, <1>3, <1>4, <1>5, <1>6, SameInstructionItself DEF Continues

\* What is built of a lambda that only has fewer tasks.
LEMMA BuiltTail ==
  ASSUME NEW E, NEW I, NEW old \in Construction(E, I), old.todo # << >>, Built(old, 0)
  PROVE  /\ Working(old.code, old.todo, 0)
         /\ Len(old.names) = old.arg_count + old.var_count
         /\ Defining(Tail(old.todo)) => old.var_count > 0
         /\ Defining(old.todo) => old.var_count > 0
<1>1. old.todo \in Todo(E)
  BY ConstructionFields
<1>2. Defining(Tail(old.todo)) => Defining(old.todo)
  BY <1>1, DefiningTail
<1> QED
  BY <1>2 DEF Built

\* A task done by one instruction that names what exists advances the lambda.
LEMMA GenAdvances ==
  ASSUME NEW E, NEW I, NEW chain, NEW old \in Construction(E, I), old.todo # << >>, Built(old, 0),
         NEW instr \in Instruction, NEW cl, cl = Gen(Popped(old), instr),
         Working(Append(old.code, instr), Tail(old.todo), 0), Lies(E, chain, cl, instr)
  PROVE  Advances(E, I, chain, old, cl)
<1>1. PICK popped \in Construction(E, I) :
        /\ popped = Popped(old)
        /\ popped.id = old.id /\ popped.code = old.code /\ popped.literals = old.literals
        /\ popped.names = old.names /\ popped.arg_count = old.arg_count
        /\ popped.var_count = old.var_count /\ popped.todo = Tail(old.todo)
  BY PoppedLambda
<1>2. /\ cl \in Construction(E, I)
      /\ cl.id = old.id /\ cl.code = Append(old.code, instr)
      /\ cl.literals = old.literals /\ cl.names = old.names
      /\ cl.arg_count = old.arg_count /\ cl.var_count = old.var_count
      /\ cl.todo = Tail(old.todo)
  BY <1>1, GenFields
<1>3. old.var_count \in Nat
  BY ConstructionFields
<1>4. Continues(E, chain, old, cl)
  BY <1>2, <1>3, OneInstruction
<1>5. Built(cl, 0)
  BY <1>2, BuiltTail DEF Built
<1> QED
  BY <1>2, <1>4, <1>5 DEF Advances

\* A task done by loading a new literal advances the lambda.
LEMMA GenLiteralAdvances ==
  ASSUME NEW E, NEW I, NEW chain, NEW old \in Construction(E, I), old.todo # << >>, Built(old, 0),
         NEW op \in {"LOAD_LITERAL", "LOAD_ENV"}, NEW literal \in E, op = "LOAD_ENV" => IsSym(literal),
         NEW cl, cl = GenLiteral(Popped(old), op, literal), Len(chain) \in Nat \ {0},
         NEW instr, instr = [op |-> op, offset |-> 0, arg |-> Len(old.literals)],
         Working(Append(old.code, instr), Tail(old.todo), 0)
  PROVE  Advances(E, I, chain, old, cl)
<1>1. PICK popped \in Construction(E, I) :
        /\ popped = Popped(old)
        /\ popped.id = old.id /\ popped.code = old.code /\ popped.literals = old.literals
        /\ popped.names = old.names /\ popped.arg_count = old.arg_count
        /\ popped.var_count = old.var_count /\ popped.todo = Tail(old.todo)
  BY PoppedLambda
<1>2. literal \in LiteralIn(E, I)
  BY DEF LiteralIn
<1>3. PICK added \in Construction(E, I) :
        /\ added = AddLiteral(popped, literal)
        /\ added.id = old.id /\ added.code = old.code /\ added.literals = Append(old.literals, literal)
        /\ added.names = old.names /\ added.arg_count = old.arg_count
        /\ added.var_count = old.var_count /\ added.todo = Tail(old.todo)
  <2>1. PICK added \in Construction(E, I) :
          /\ added = AddLiteral(popped, literal)
          /\ added.id = popped.id /\ added.code = popped.code
          /\ added.literals = Append(popped.literals, literal)
          /\ added.names = popped.names /\ added.arg_count = popped.arg_count
          /\ added.var_count = popped.var_count /\ added.todo = popped.todo
    BY <1>2, AddLiteralFields
  <2> QED
    BY <1>1, <2>1
<1>4. instr \in Instruction
  <2>1. Len(old.literals) \in Int
    BY ConstructionFields
  <2> QED
    BY <2>1 DEF Instruction, Op
<1>5. cl = Gen(added, instr)
  BY <1>1, <1>3 DEF GenLiteral, GenArg
<1>6. /\ cl \in Construction(E, I)
      /\ cl.id = old.id /\ cl.code = Append(old.code, instr)
      /\ cl.literals = Append(old.literals, literal) /\ cl.names = old.names
      /\ cl.arg_count = old.arg_count /\ cl.var_count = old.var_count
      /\ cl.todo = Tail(old.todo)
  <2>1. PICK generated \in Instruction : generated = instr
    BY <1>4
  <2>2. /\ Gen(added, generated) \in Construction(E, I)
        /\ Gen(added, generated).id = added.id
        /\ Gen(added, generated).code = Append(added.code, generated)
        /\ Gen(added, generated).literals = added.literals
        /\ Gen(added, generated).names = added.names
        /\ Gen(added, generated).arg_count = added.arg_count
        /\ Gen(added, generated).var_count = added.var_count
        /\ Gen(added, generated).todo = added.todo
    BY GenFields
  <2> QED
    BY <1>3, <1>5, <2>1, <2>2
<1>7. old.var_count \in Nat
  BY ConstructionFields
<1>8. Lies(E, chain, cl, instr)
  <2>1. /\ Len(cl.literals) = Len(old.literals) + 1 /\ Len(old.literals) \in Nat
        /\ cl.literals[Len(old.literals) + 1] = literal
    BY <1>2, <1>6, ConstructionFields, AppendProperties
  <2>2. Len(old.literals) + 1 \in 1..Len(cl.literals)
    BY <2>1
  <2>3. Names(E, cl.id, cl, cl, instr)
    BY <2>1, <2>2 DEF Names
  <2> QED
    BY <2>3 DEF Lies
<1>9. Continues(E, chain, old, cl)
  BY <1>4, <1>6, <1>7, <1>8, OneLiteral
<1>10. Built(cl, 0)
  BY <1>6, BuiltTail DEF Built
<1> QED
  BY <1>6, <1>9, <1>10 DEF Advances

\* A task replaced by tasks that do as much advances the lambda.
LEMMA ThenAdvances ==
  ASSUME NEW E, NEW I, NEW chain, NEW old \in Construction(E, I), old.todo # << >>, Built(old, 0),
         NEW tasks \in Todo(E), ~Defining(tasks), NEW cl, cl = Then(Popped(old), tasks),
         Working(old.code, tasks \o Tail(old.todo), 0)
  PROVE  Advances(E, I, chain, old, cl)
<1>1. PICK popped \in Construction(E, I) :
        /\ popped = Popped(old)
        /\ popped.id = old.id /\ popped.code = old.code /\ popped.literals = old.literals
        /\ popped.names = old.names /\ popped.arg_count = old.arg_count
        /\ popped.var_count = old.var_count /\ popped.todo = Tail(old.todo)
  BY PoppedLambda
<1>2. /\ cl \in Construction(E, I)
      /\ cl.id = old.id /\ cl.code = old.code
      /\ cl.literals = old.literals /\ cl.names = old.names
      /\ cl.arg_count = old.arg_count /\ cl.var_count = old.var_count
      /\ cl.todo = tasks \o Tail(old.todo)
  <2>1. cl = Then(popped, tasks)
    BY <1>1
  <2>2. /\ Then(popped, tasks) \in Construction(E, I)
        /\ Then(popped, tasks).id = popped.id /\ Then(popped, tasks).code = popped.code
        /\ Then(popped, tasks).literals = popped.literals /\ Then(popped, tasks).names = popped.names
        /\ Then(popped, tasks).arg_count = popped.arg_count
        /\ Then(popped, tasks).var_count = popped.var_count
        /\ Then(popped, tasks).todo = tasks \o popped.todo
    BY ThenFields
  <2> QED
    BY <1>1, <2>1, <2>2
<1>3. old.var_count \in Nat /\ popped.todo \in Todo(E)
  BY ConstructionFields
<1>4. Continues(E, chain, old, cl)
  BY <1>2, <1>3, SameCode
<1>5. Defining(cl.todo) => Defining(Tail(old.todo))
  BY <1>1, <1>2, <1>3, DefiningConcat
<1>6. Built(cl, 0)
  BY <1>2, <1>5, BuiltTail DEF Built
<1> QED
  BY <1>2, <1>4, <1>6 DEF Advances

\* A task with nothing to write advances the lambda.
LEMMA SameAdvances ==
  ASSUME NEW E, NEW I, NEW chain, NEW old \in Construction(E, I), old.todo # << >>, Built(old, 0),
         Working(old.code, Tail(old.todo), 0)
  PROVE  Advances(E, I, chain, old, Popped(old))
<1>1. PICK popped \in Construction(E, I) :
        /\ popped = Popped(old)
        /\ popped.id = old.id /\ popped.code = old.code /\ popped.literals = old.literals
        /\ popped.names = old.names /\ popped.arg_count = old.arg_count
        /\ popped.var_count = old.var_count /\ popped.todo = Tail(old.todo)
  BY PoppedLambda
<1>3. old.var_count \in Nat
  BY ConstructionFields
<1>4. Continues(E, chain, old, popped)
  BY <1>1, <1>3, SameCode
<1>5. Built(popped, 0)
  BY <1>1, BuiltTail DEF Built
<1> QED
  BY <1>1, <1>4, <1>5 DEF Advances

-----------------------------------------------------------------------------
(* Instructions that load a value.                                         *)

LoadOp == LoadConstantOp \cup LoadVariableOp \cup {"LOAD_LITERAL", "LOAD_LAMBDA", "LOAD_ENV"}

\* A load brings the missing value.
LEMMA LoadCode ==
  ASSUME NEW E, NEW code, NEW todo \in Todo(E), NEW instr \in Instruction, instr.op \in LoadOp,
         Working(code, todo, 1)
  PROVE  Working(Append(code, instr), todo, 0)
<1>1. PICK depths, want : Plan(code, todo, depths, want) /\ want[Len(todo)] = depths[Len(code) + 1] + 1
  BY DEF Working
<1>2. Operands(instr) = 0 /\ Pushes(instr) = 1 /\ instr.op \notin {"JUMP", "RETURN", "JUMP_IF_FALSE"}
  BY DEF LoadOp, LoadConstantOp, LoadVariableOp, Operands, Pushes, ArithmeticOp, CompareOp, PartOp
<1>3. depths[Len(code) + 1] \in Nat
  <2>1. Len(code) + 1 \in Nat
    BY <1>1, LenProperties DEF Plan
  <2> QED
    BY <1>1, <2>1, HeightIsNumber DEF Plan
<1>4. Follows(instr, code, depths)
  BY <1>2, <1>3 DEF Follows
<1>5. Len(todo) \in Nat
  BY LenProperties DEF Todo
<1>6. want[Len(todo)] = depths[Len(code) + 1] - Operands(instr) + Pushes(instr) + 0
  BY <1>1, <1>2, <1>3
<1>7. 0 \in Nat
  OBVIOUS
<1> QED
  BY <1>1, <1>4, <1>5, <1>6, <1>7, Generated

-----------------------------------------------------------------------------
(* Looking a name up.                                                      *)

\* A non-empty set of indices has a last one.
LEMMA LastElement ==
  ASSUME NEW n \in Nat, NEW S, S \subseteq 1..n, S # {}
  PROVE  \E i \in S : \A j \in S : j <= i
<1> DEFINE D == {d \in Nat : \E i \in S : d = n - i}
<1>1. D \subseteq Nat /\ D # {}
  <2>1. PICK i \in S : TRUE
    OBVIOUS
  <2>2. n - i \in D
    <3>1. i \in 1..n
      BY <2>1
    <3> QED
      BY <3>1
  <2> QED
    BY <2>2
<1>2. PICK d \in D : \A e \in D : d <= e
  BY <1>1, LeastNumber
<1>3. PICK i \in S : d = n - i
  BY <1>2
<1>4. ASSUME NEW j \in S PROVE j <= i
  <2>1. j \in 1..n /\ i \in 1..n
    BY <1>3
  <2>2. n - j \in D
    BY <2>1
  <2>3. d <= n - j
    BY <1>2, <2>2
  <2> QED
    BY <1>3, <2>1, <2>3
<1> QED
  BY <1>4

\* The index of a name that a lambda has is within its names.
LEMMA NameFound ==
  ASSUME NEW E, NEW I, NEW cl \in Construction(E, I), NEW name, Positions(cl, name) # {}
  PROVE  NameIndex(cl, name) \in 0..(Len(cl.names) - 1)
<1> DEFINE S == Positions(cl, name)
<1>1. S \subseteq 1..Len(cl.names) /\ Len(cl.names) \in Nat
  BY ConstructionFields DEF Positions
<1>2. S \subseteq Nat /\ S # {}
  BY <1>1
<1>3. \E i \in S : \A j \in S : i <= j
  <2> HIDE DEF S
  <2> QED
    BY <1>2, LeastNumber
<1>4. NameIndex(cl, name) + 1 \in S /\ NameIndex(cl, name) \in Int
  <2> DEFINE first == CHOOSE i \in S : \A j \in S : i <= j
  <2>1. first \in S
    BY <1>3
  <2>2. NameIndex(cl, name) = first - 1
    BY DEF NameIndex
  <2>3. first \in 1..Len(cl.names)
    BY <1>1, <2>1
  <2> HIDE DEF first
  <2> QED
    BY <1>1, <2>1, <2>2, <2>3
<1> QED
  BY <1>1, <1>4

\* A known name is found in a lambda of the chain.
LEMMA LevelFound ==
  ASSUME NEW S, NEW chain \in Seq(S), NEW name, IsKnown(chain, name)
  PROVE  /\ LevelOf(chain, name) \in 1..Len(chain)
         /\ Positions(chain[LevelOf(chain, name)], name) # {}
<1>1. LevelsWith(chain, name) \subseteq 1..Len(chain) /\ LevelsWith(chain, name) # {} /\ Len(chain) \in Nat
  BY LenProperties DEF LevelsWith, IsKnown
<1>2. \E k \in LevelsWith(chain, name) : \A j \in LevelsWith(chain, name) : j <= k
  BY <1>1, LastElement
<1>3. LevelOf(chain, name) \in LevelsWith(chain, name)
  BY <1>2 DEF LevelOf
<1> QED
  BY <1>1, <1>3 DEF LevelsWith

\* The number of names of each lambda.
Named(chain) ==
  \A k \in 1..Len(chain) : Len(chain[k].names) = chain[k].arg_count + chain[k].var_count

\* Where a known name is found, its index is that of an argument or of a
\* variable there.
LEMMA Lookup ==
  ASSUME NEW E, NEW I, NEW chain \in Seq(Construction(E, I)), Named(chain), NEW name, IsKnown(chain, name),
         NEW level, level = LevelOf(chain, name)
  PROVE  /\ level \in 1..Len(chain) /\ Len(chain) - level \in 0..(Len(chain) - 1)
         /\ Len(chain) - (Len(chain) - level) = level
         /\ chain[level].arg_count \in Nat /\ chain[level].var_count \in Nat
         /\ NameIndex(chain[level], name) \in Nat
         /\ IF IsArgument(chain[level], name)
            THEN NameIndex(chain[level], name) \in 0..(chain[level].arg_count - 1)
            ELSE NameIndex(chain[level], name) - chain[level].arg_count \in 0..(chain[level].var_count - 1)
<1>1. level \in 1..Len(chain) /\ Positions(chain[level], name) # {} /\ Len(chain) \in Nat
  BY LevelFound, LenProperties
<1>2. PICK found \in Construction(E, I) : found = chain[level]
  BY <1>1, ElementOfSeq
<1>3. NameIndex(found, name) \in 0..(Len(found.names) - 1) /\ found.arg_count \in Nat /\ found.var_count \in Nat
  BY <1>1, <1>2, NameFound, ConstructionFields
<1>4. Len(found.names) = found.arg_count + found.var_count
  BY <1>1, <1>2 DEF Named
<1>5. Len(chain) - level \in 0..(Len(chain) - 1) /\ Len(chain) - (Len(chain) - level) = level
  BY <1>1
<1>6. IF NameIndex(found, name) < found.arg_count
      THEN NameIndex(found, name) \in 0..(found.arg_count - 1)
      ELSE NameIndex(found, name) - found.arg_count \in 0..(found.var_count - 1)
  BY <1>3, <1>4
<1> QED
  BY <1>1, <1>2, <1>3, <1>5, <1>6 DEF IsArgument

-----------------------------------------------------------------------------
(* Loading a value.                                                        *)

\* A lambda on the chain that has something to do.
Active(E, I, chain, old) ==
  /\ chain \in Seq(Construction(E, I)) /\ chain # << >> /\ old = chain[Len(chain)]
  /\ old.todo # << >> /\ Built(old, 0) /\ Named(chain)

\* What holds of the lambda that the next step works on.
LEMMA ActiveLambda ==
  ASSUME NEW E, NEW I, NEW chain, NEW old, Active(E, I, chain, old)
  PROVE  /\ Len(chain) \in Nat \ {0} /\ old \in Construction(E, I)
         /\ old.todo # << >> /\ Built(old, 0) /\ Working(old.code, old.todo, 0)
         /\ old.todo \in Todo(E) /\ Tail(old.todo) \in Todo(E) /\ Head(old.todo) \in Task(E)
<1>1. Len(chain) \in Nat \ {0}
  BY LenProperties, EmptySeq DEF Active
<1>2. old \in Construction(E, I)
  BY <1>1, ElementOfSeq DEF Active
<1>3. old.todo \in Todo(E) /\ old.todo # << >>
  BY <1>2, ConstructionFields DEF Active
<1>4. Tail(old.todo) \in Todo(E) /\ Head(old.todo) \in Task(E)
  BY <1>3, HeadTailProperties DEF Todo
<1> QED
  BY <1>1, <1>2, <1>3, <1>4 DEF Active, Built

\* The value of an expression is missing when its task is gone.
Expanding(E, I, chain, old) == Active(E, I, chain, old) /\ Head(old.todo).do = "compile"

\* The lambda whose expression is compiled next lacks its value.
LEMMA ExpandingLambda ==
  ASSUME NEW E, NEW I, NEW chain, NEW old, Expanding(E, I, chain, old)
  PROVE  Working(old.code, Tail(old.todo), 1)
  BY ActiveLambda, FirstCompile DEF Expanding

\* An expression compiled to a load advances the lambda.
LEMMA LoadAdvances ==
  ASSUME NEW E, NEW I, NEW chain, NEW old, Expanding(E, I, chain, old),
         NEW instr \in Instruction, instr.op \in LoadOp,
         NEW cl, cl = Gen(Popped(old), instr), Lies(E, chain, cl, instr)
  PROVE  Advances(E, I, chain, old, cl)
<1>1. /\ old \in Construction(E, I) /\ old.todo # << >> /\ Built(old, 0) /\ Tail(old.todo) \in Todo(E)
  BY ActiveLambda DEF Expanding
<1>2. Working(Append(old.code, instr), Tail(old.todo), 0)
  BY <1>1, ExpandingLambda, LoadCode
<1> QED
  BY <1>1, <1>2, GenAdvances

\* An expression compiled to a constant advances the lambda.
LEMMA ConstantAdvances ==
  ASSUME NEW E, NEW I, NEW chain, NEW old, Expanding(E, I, chain, old),
         NEW op \in LoadConstantOp, NEW arg \in Int
  PROVE  Advances(E, I, chain, old, GenArg(Popped(old), op, arg))
<1>1. PICK instr \in Instruction : instr = [op |-> op, offset |-> 0, arg |-> arg]
  BY DEF Instruction, Op
<1>2. Len(chain) \in Nat \ {0}
  BY ActiveLambda DEF Expanding
<1>3. PICK cl : cl = Gen(Popped(old), instr)
  OBVIOUS
<1>4. Lies(E, chain, cl, instr)
  <2>1. 0 \in 0..(Len(chain) - 1)
    BY <1>2
  <2>2. instr.offset = 0 /\ instr.op \in LoadConstantOp
    BY <1>1
  <2> QED
    BY <2>1, <2>2 DEF Lies, Names, LoadConstantOp
<1>5. instr.op \in LoadOp
  BY <1>1 DEF LoadOp
<1> QED
  BY <1>1, <1>3, <1>4, <1>5, LoadAdvances DEF GenArg

\* An expression compiled to a literal, or to a lookup in the environment,
\* advances the lambda.
LEMMA LiteralAdvances ==
  ASSUME NEW E, NEW I, NEW chain, NEW old, Expanding(E, I, chain, old),
         NEW op \in {"LOAD_LITERAL", "LOAD_ENV"}, NEW literal \in E, op = "LOAD_ENV" => IsSym(literal)
  PROVE  Advances(E, I, chain, old, GenLiteral(Popped(old), op, literal))
<1>1. /\ old \in Construction(E, I) /\ old.todo # << >> /\ Built(old, 0) /\ Tail(old.todo) \in Todo(E)
      /\ Len(chain) \in Nat \ {0} /\ Len(old.literals) \in Int
  <2>1. /\ old \in Construction(E, I) /\ old.todo # << >> /\ Built(old, 0) /\ Tail(old.todo) \in Todo(E)
        /\ Len(chain) \in Nat \ {0}
    BY ActiveLambda DEF Expanding
  <2> QED
    BY <2>1, ConstructionFields
<1>2. PICK instr \in Instruction : instr = [op |-> op, offset |-> 0, arg |-> Len(old.literals)]
  BY <1>1 DEF Instruction, Op
<1>3. instr.op \in LoadOp
  BY <1>2 DEF LoadOp
<1>4. Working(Append(old.code, instr), Tail(old.todo), 0)
  BY <1>1, <1>3, ExpandingLambda, LoadCode
<1> QED
  BY <1>1, <1>2, <1>4, GenLiteralAdvances

\* compile_symbol advances the lambda, whether or not the name is known.
LEMMA SymbolAdvances ==
  ASSUME NEW E, NEW I, NEW chain, NEW old, Expanding(E, I, chain, old),
         NEW name, SymExpr(name) \in E
  PROVE  Advances(E, I, chain, old, CompileSymbol(Popped(old), chain, name))
<1>1. CASE ~IsKnown(chain, name)
  <2>1. IsSym(SymExpr(name))
    BY DEF IsSym, SymExpr
  <2>2. CompileSymbol(Popped(old), chain, name) = GenLiteral(Popped(old), "LOAD_ENV", SymExpr(name))
    BY <1>1 DEF CompileSymbol
  <2> QED
    BY <2>1, <2>2, LiteralAdvances
<1>2. CASE IsKnown(chain, name)
  <2>1. PICK level : level = LevelOf(chain, name)
    OBVIOUS
  <2>2. PICK found : found = chain[level]
    OBVIOUS
  <2>3. PICK index : index = NameIndex(found, name)
    OBVIOUS
  <2>4. /\ chain \in Seq(Construction(E, I)) /\ Named(chain) /\ old = chain[Len(chain)]
        /\ Len(chain) \in Nat \ {0} /\ old \in Construction(E, I) /\ old.todo # << >>
    BY ActiveLambda DEF Expanding, Active
  <2>5. /\ level \in 1..Len(chain) /\ Len(chain) - level \in 0..(Len(chain) - 1)
        /\ Len(chain) - (Len(chain) - level) = level
        /\ found.arg_count \in Nat /\ found.var_count \in Nat /\ index \in Nat
        /\ IF IsArgument(found, name) THEN index \in 0..(found.arg_count - 1)
           ELSE index - found.arg_count \in 0..(found.var_count - 1)
    <3>1. /\ level \in 1..Len(chain) /\ Len(chain) - level \in 0..(Len(chain) - 1)
          /\ Len(chain) - (Len(chain) - level) = level
          /\ chain[level].arg_count \in Nat /\ chain[level].var_count \in Nat
          /\ NameIndex(chain[level], name) \in Nat
          /\ IF IsArgument(chain[level], name)
             THEN NameIndex(chain[level], name) \in 0..(chain[level].arg_count - 1)
             ELSE NameIndex(chain[level], name) - chain[level].arg_count
                    \in 0..(chain[level].var_count - 1)
      <4>1. chain \in Seq(Construction(E, I)) /\ Named(chain) /\ IsKnown(chain, name)
        BY <1>2, <2>4
      <4> QED
        BY <2>1, <4>1, Lookup
    <3> QED
      BY <2>2, <2>3, <3>1
  <2>6. PICK offset \in 0..(Len(chain) - 1) : offset = Len(chain) - level /\ Len(chain) - offset = level
    BY <2>5
  <2> DEFINE instr == IF IsArgument(found, name)
                      THEN [op |-> "LOAD_ARG", offset |-> offset, arg |-> index]
                      ELSE [op |-> "LOAD_LOCAL", offset |-> offset, arg |-> index - found.arg_count]
             cl == Gen(Popped(old), instr)
  <2>7. CompileSymbol(Popped(old), chain, name) = cl
    BY <1>2, <2>1, <2>2, <2>3, <2>6 DEF CompileSymbol
  <2>8. offset \in Nat /\ index \in Int /\ index - found.arg_count \in Int
    BY <2>5, <2>6
  <2>9. instr \in Instruction
    BY <2>8 DEF Instruction, Op, LoadVariableOp
  <2>10. instr.op \in LoadOp
    BY DEF LoadOp, LoadVariableOp
  <2>11. cl.arg_count = old.arg_count /\ cl.var_count = old.var_count
    <3>1. Popped(old) \in Construction(E, I) /\ Popped(old).arg_count = old.arg_count
          /\ Popped(old).var_count = old.var_count
      BY <2>4, PoppedLambda
    <3> HIDE DEF instr
    <3> QED
      BY <2>9, <3>1, GenFields
  <2>12. offset = 0 => found = old
    BY <2>2, <2>4, <2>6
  <2>13. Lies(E, chain, cl, instr)
    <3> DEFINE target == IF offset = 0 THEN cl ELSE chain[Len(chain) - offset]
    <3>1. target.arg_count = found.arg_count /\ target.var_count = found.var_count
      BY <2>2, <2>6, <2>11, <2>12
    <3>2. /\ instr.op = "LOAD_ARG" => instr.arg \in 0..(target.arg_count - 1)
          /\ instr.op = "LOAD_LOCAL" => instr.arg \in 0..(target.var_count - 1)
          /\ instr.op \in {"LOAD_ARG", "LOAD_LOCAL"} /\ instr.offset = offset
      BY <2>5, <3>1
    <3> HIDE DEF instr, cl
    <3>3. Names(E, cl.id, cl, target, instr)
      BY <3>2 DEF Names
    <3> QED
      BY <3>2, <3>3 DEF Lies
  <2> HIDE DEF instr
  <2>14. Advances(E, I, chain, old, cl)
    BY <2>9, <2>10, <2>13, LoadAdvances
  <2> QED
    BY <2>7, <2>14
<1> QED
  BY <1>1, <1>2

-----------------------------------------------------------------------------
(* Compiling the parts of an expression.                                   *)

\* Compiling an expression takes no operand and leaves one.
LEMMA ValueTask ==
  ASSUME NEW E, NEW expr \in E
  PROVE  /\ ToCompile(expr) \in Task(E) /\ ToCompile(expr).do = "compile"
         /\ Takes(ToCompile(expr)) = 0 /\ Leaves(ToCompile(expr)) = 1
  BY DEF ToCompile, Task, Takes, Leaves

\* DROP takes an operand and leaves none.
LEMMA DropTask ==
  ASSUME NEW E
  PROVE  /\ ToGenerate("DROP", 0) \in Task(E) /\ ToGenerate("DROP", 0).do = "generate"
         /\ Takes(ToGenerate("DROP", 0)) = 1 /\ Leaves(ToGenerate("DROP", 0)) = 0
  BY DEF ToGenerate, Task, Takes, Leaves, Operands, GeneratedOp, ArithmeticOp, CompareOp, PartOp

\* The else branch takes the place of the value of the then branch.
LEMMA ElseTask ==
  ASSUME NEW E, NEW at \in Nat, NEW a \in E
  PROVE  /\ ToElse(at, a) \in Task(E) /\ ToElse(at, a).do = "else" /\ ToElse(at, a).at = at
         /\ Takes(ToElse(at, a)) = 1 /\ Leaves(ToElse(at, a)) = 1
  BY DEF ToElse, Task, Takes, Leaves

\* The operands that the generated instructions take and leave.
LEMMA GenerateTasks ==
  ASSUME NEW E
  PROVE  /\ \A op \in ArithmeticOp \cup CompareOp \cup {"CONS"} :
              /\ ToGenerate(op, 0) \in Task(E) /\ ToGenerate(op, 0).do = "generate"
              /\ Takes(ToGenerate(op, 0)) = 2 /\ Leaves(ToGenerate(op, 0)) = 1
         /\ \A op \in PartOp :
              /\ ToGenerate(op, 0) \in Task(E) /\ ToGenerate(op, 0).do = "generate"
              /\ Takes(ToGenerate(op, 0)) = 1 /\ Leaves(ToGenerate(op, 0)) = 1
         /\ \A n \in Nat : /\ ToGenerate("CALL", n) \in Task(E) /\ ToGenerate("CALL", n).do = "generate"
                           /\ Takes(ToGenerate("CALL", n)) = n + 1 /\ Leaves(ToGenerate("CALL", n)) = 1
  BY DEF ToGenerate, Task, Takes, Leaves, Operands, GeneratedOp, ArithmeticOp, CompareOp, PartOp

\* The operands that storing and branching take and leave.
LEMMA TaskKinds ==
  ASSUME NEW E
  PROVE  /\ \A name \in STRING : ToStore(name) \in Task(E) /\ ToStore(name).do = "store"
                                   /\ Takes(ToStore(name)) = 1 /\ Leaves(ToStore(name)) = 1
         /\ ToStoreNewest \in Task(E) /\ ToStoreNewest.do = "store_newest"
         /\ Takes(ToStoreNewest) = 1 /\ Leaves(ToStoreNewest) = 1
         /\ \A a \in E, b \in E : /\ ToBranch(a, b) \in Task(E) /\ ToBranch(a, b).do = "branch"
                                  /\ Takes(ToBranch(a, b)) = 1 /\ Leaves(ToBranch(a, b)) = 1
  BY DEF ToStore, ToStoreNewest, ToBranch, Task, Takes, Leaves

\* Operands above those that were there.
LEMMA ProduceSteps ==
  ASSUME NEW tasks, NEW code, NEW todo, NEW above \in Heights, NEW n \in Nat, Len(tasks) = n,
         above[1] = 0, above[n + 1] = 1,
         \A k \in 1..n : /\ Takes(tasks[k]) \in Nat /\ Takes(tasks[k]) <= above[k]
                         /\ above[k + 1] = above[k] - Takes(tasks[k]) + Leaves(tasks[k])
                         /\ ~IsJumpTask(tasks[k])
  PROVE  Produce(tasks, code, todo, above)
  BY DEF Produce, Balances

\* An expression replaced by tasks that produce its value advances the lambda.
LEMMA TasksAdvance ==
  ASSUME NEW E, NEW I, NEW chain, NEW old, Expanding(E, I, chain, old),
         NEW tasks \in Todo(E), ~Defining(tasks), NEW above,
         Produce(tasks, old.code, Tail(old.todo), above)
  PROVE  Advances(E, I, chain, old, Then(Popped(old), tasks))
<1>1. /\ old \in Construction(E, I) /\ old.todo # << >> /\ Built(old, 0) /\ Tail(old.todo) \in Todo(E)
  BY ActiveLambda DEF Expanding
<1>2. Working(old.code, tasks \o Tail(old.todo), 0)
  BY <1>1, ExpandingLambda, Expanded
<1> QED
  BY <1>1, <1>2, ThenAdvances

\* A value, and what is done with it.
LEMMA ProduceTwo ==
  ASSUME NEW E, NEW a \in Task(E), NEW b \in Task(E), NEW code, NEW todo,
         Takes(a) = 0, Leaves(a) = 1, Takes(b) = 1, Leaves(b) = 1,
         ~IsJumpTask(a), ~IsJumpTask(b)
  PROVE  /\ <<a, b>> \in Todo(E)
         /\ \E above : Produce(<<a, b>>, code, todo, above)
<1>1. <<a, b>> \in Todo(E) /\ Len(<<a, b>>) = 2 /\ <<a, b>>[1] = a /\ <<a, b>>[2] = b
  <2> DEFINE S == Task(E)
  <2>1. a \in S /\ b \in S
    OBVIOUS
  <2> HIDE DEF S
  <2>2. <<a, b>> \in Seq(S)
    BY <2>1
  <2> QED
    BY <2>2 DEF Todo, S
<1>2. PICK tasks \in Todo(E) : tasks = <<a, b>> /\ Len(tasks) = 2 /\ tasks[1] = a /\ tasks[2] = b
  BY <1>1
<1>3. PICK above \in Heights : above = [k \in Nat |-> IF k = 1 THEN 0 ELSE 1]
  BY DEF Heights
<1>4. above[1] = 0 /\ above[2] = 1 /\ above[3] = 1
  BY <1>3
<1>5. \A k \in 1..2 : k = 1 \/ k = 2
  OBVIOUS
<1>6. \A k \in 1..2 : /\ Takes(tasks[k]) \in Nat /\ Takes(tasks[k]) <= above[k]
                      /\ above[k + 1] = above[k] - Takes(tasks[k]) + Leaves(tasks[k])
                      /\ ~IsJumpTask(tasks[k])
  BY <1>2, <1>4, <1>5
<1>7. 2 \in Nat /\ 2 + 1 = 3
  OBVIOUS
<1>8. Produce(tasks, code, todo, above)
  BY <1>2, <1>4, <1>6, <1>7, ProduceSteps
<1> QED
  BY <1>1, <1>2, <1>8

\* So does one replaced by a task that brings a value and one that replaces it.
LEMMA TwoAdvance ==
  ASSUME NEW E, NEW I, NEW chain, NEW old, Expanding(E, I, chain, old),
         NEW a \in Task(E), NEW b \in Task(E),
         Takes(a) = 0, Leaves(a) = 1, Takes(b) = 1, Leaves(b) = 1,
         ~IsJumpTask(a), ~IsJumpTask(b), a.do # "store_newest", b.do # "store_newest"
  PROVE  Advances(E, I, chain, old, Then(Popped(old), <<a, b>>))
<1>1. PICK tasks \in Todo(E) : /\ tasks = <<a, b>>
                               /\ \E above : Produce(tasks, old.code, Tail(old.todo), above)
  BY ProduceTwo
<1>2. Len(tasks) = 2 /\ tasks[1] = a /\ tasks[2] = b
  BY <1>1
<1>3. \A k \in 1..2 : k = 1 \/ k = 2
  OBVIOUS
<1>4. ~Defining(tasks)
  BY <1>2, <1>3 DEF Defining
<1>5. PICK above : Produce(tasks, old.code, Tail(old.todo), above)
  BY <1>1
<1>6. Advances(E, I, chain, old, Then(Popped(old), tasks))
  BY <1>4, <1>5, TasksAdvance
<1> QED
  BY <1>1, <1>6

\* (first list), (rest list), (set! name value), (if condition ...)
LEMMA ValueTaskAdvances ==
  ASSUME NEW E, NEW I, NEW chain, NEW old, Expanding(E, I, chain, old), NEW expr \in E
  PROVE  /\ \A op \in PartOp :
              Advances(E, I, chain, old, Then(Popped(old), <<ToCompile(expr), ToGenerate(op, 0)>>))
         /\ \A name \in STRING :
              Advances(E, I, chain, old, Then(Popped(old), <<ToCompile(expr), ToStore(name)>>))
         /\ \A x \in E, y \in E :
              Advances(E, I, chain, old, Then(Popped(old), <<ToCompile(expr), ToBranch(x, y)>>))
<1>1. PICK a \in Task(E) : /\ a = ToCompile(expr) /\ Takes(a) = 0 /\ Leaves(a) = 1
                           /\ ~IsJumpTask(a) /\ a.do # "store_newest"
  BY ValueTask DEF IsJumpTask
<1>2. ASSUME NEW b \in Task(E), b.do \notin {"else", "join", "store_newest"}, Takes(b) = 1, Leaves(b) = 1
      PROVE  Advances(E, I, chain, old, Then(Popped(old), <<a, b>>))
  <2>1. ~IsJumpTask(b) /\ b.do # "store_newest"
    BY <1>2 DEF IsJumpTask
  <2> QED
    BY <1>1, <1>2, <2>1, TwoAdvance
<1>3. \A op \in PartOp : /\ ToGenerate(op, 0) \in Task(E) /\ Takes(ToGenerate(op, 0)) = 1
                         /\ ToGenerate(op, 0).do \notin {"else", "join", "store_newest"}
                         /\ Leaves(ToGenerate(op, 0)) = 1
  BY GenerateTasks
<1>4. \A name \in STRING : /\ ToStore(name) \in Task(E) /\ Takes(ToStore(name)) = 1
                           /\ ToStore(name).do \notin {"else", "join", "store_newest"}
                           /\ Leaves(ToStore(name)) = 1
  BY TaskKinds
<1>5. \A x \in E, y \in E : /\ ToBranch(x, y) \in Task(E) /\ Takes(ToBranch(x, y)) = 1
                            /\ ToBranch(x, y).do \notin {"else", "join", "store_newest"}
                            /\ Leaves(ToBranch(x, y)) = 1
  BY TaskKinds
<1> QED
  BY <1>1, <1>2, <1>3, <1>4, <1>5

\* So does one of two operands and an instruction that takes both.
LEMMA BinaryAdvances ==
  ASSUME NEW E, NEW I, NEW chain, NEW old, Expanding(E, I, chain, old), NEW x \in E, NEW y \in E,
         NEW op \in ArithmeticOp \cup CompareOp \cup {"CONS"}
  PROVE  Advances(E, I, chain, old,
                  Then(Popped(old), <<ToCompile(x), ToCompile(y), ToGenerate(op, 0)>>))
<1>1. PICK a \in Task(E) : a = ToCompile(x) /\ Takes(a) = 0 /\ Leaves(a) = 1 /\ a.do = "compile"
  BY ValueTask
<1>2. PICK b \in Task(E) : b = ToCompile(y) /\ Takes(b) = 0 /\ Leaves(b) = 1 /\ b.do = "compile"
  BY ValueTask
<1>3. PICK c \in Task(E) : c = ToGenerate(op, 0) /\ Takes(c) = 2 /\ Leaves(c) = 1 /\ c.do = "generate"
  BY GenerateTasks
<1>4. PICK tasks \in Todo(E) : /\ tasks = <<a, b, c>> /\ Len(tasks) = 3
                               /\ tasks[1] = a /\ tasks[2] = b /\ tasks[3] = c
  <2> DEFINE S == Task(E)
  <2>1. a \in S /\ b \in S /\ c \in S
    OBVIOUS
  <2> HIDE DEF S
  <2>2. <<a, b, c>> \in Seq(S)
    BY <2>1
  <2> QED
    BY <2>2 DEF Todo, S
<1>5. PICK above \in Heights : above = [k \in Nat |-> IF k = 1 THEN 0 ELSE IF k = 3 THEN 2 ELSE 1]
  BY DEF Heights
<1>6. above[1] = 0 /\ above[2] = 1 /\ above[3] = 2 /\ above[4] = 1
  BY <1>5
<1>7. \A k \in 1..3 : k = 1 \/ k = 2 \/ k = 3
  OBVIOUS
<1>8. \A k \in 1..3 : /\ Takes(tasks[k]) \in Nat /\ Takes(tasks[k]) <= above[k]
                      /\ above[k + 1] = above[k] - Takes(tasks[k]) + Leaves(tasks[k])
                      /\ ~IsJumpTask(tasks[k])
  BY <1>1, <1>2, <1>3, <1>4, <1>6, <1>7 DEF IsJumpTask
<1>9. 3 \in Nat /\ 3 + 1 = 4
  OBVIOUS
<1>10. Produce(tasks, old.code, Tail(old.todo), above)
  BY <1>4, <1>6, <1>8, <1>9, ProduceSteps
<1>11. ~Defining(tasks)
  BY <1>1, <1>2, <1>3, <1>4, <1>7 DEF Defining
<1>12. Advances(E, I, chain, old, Then(Popped(old), tasks))
  BY <1>10, <1>11, TasksAdvance
<1> QED
  BY <1>1, <1>2, <1>3, <1>4, <1>12

\* One value more for each part, and all of them taken by the call.
LEMMA CallAdvances ==
  ASSUME NEW E, NEW I, NEW chain, NEW old, Expanding(E, I, chain, old), NEW items \in Seq(E), items # << >>
  PROVE  Advances(E, I, chain, old, CompileCall(Popped(old), items))
<1>1. PICK n \in Nat \ {0} : n = Len(items) /\ DOMAIN items = 1..n
  BY LenProperties, EmptySeq
<1>2. \A i \in 1..n : items[i] \in E
  BY <1>1, ElementOfSeq
<1>3. PICK values \in Seq(Task(E)) : /\ values = [i \in DOMAIN items |-> ToCompile(items[i])]
                                     /\ Len(values) = n
                                     /\ \A i \in 1..n : values[i] = ToCompile(items[i])
  <2> DEFINE S == Task(E)
             values == [i \in 1..n |-> ToCompile(items[i])]
  <2>1. \A i \in 1..n : ToCompile(items[i]) \in S
    BY <1>2, ValueTask
  <2> HIDE DEF S
  <2>2. values \in [1..n -> S] /\ n \in Nat
    BY <2>1
  <2>3. values \in Seq(S) /\ Len(values) = n
    BY <2>2, LenProperties, SeqDef
  <2> QED
    BY <1>1, <2>3 DEF S
<1>4. PICK call \in Task(E) : /\ call = ToGenerate("CALL", n - 1) /\ Takes(call) = n /\ Leaves(call) = 1
                              /\ call.do = "generate"
  <2>1. PICK k \in Nat : k = n - 1 /\ k + 1 = n
    BY <1>1
  <2>2. /\ ToGenerate("CALL", k) \in Task(E) /\ ToGenerate("CALL", k).do = "generate"
        /\ Takes(ToGenerate("CALL", k)) = k + 1 /\ Leaves(ToGenerate("CALL", k)) = 1
    BY GenerateTasks
  <2> QED
    BY <2>1, <2>2
<1>5. PICK tasks \in Todo(E) : /\ tasks = Append(values, call) /\ Len(tasks) = n + 1
                               /\ \A i \in 1..n : tasks[i] = values[i]
                               /\ tasks[n + 1] = call
  <2> DEFINE S == Task(E)
  <2>1. values \in Seq(S) /\ call \in S /\ Len(values) = n
    BY <1>3
  <2> HIDE DEF S
  <2>2. /\ Append(values, call) \in Seq(S) /\ Len(Append(values, call)) = n + 1
        /\ \A i \in 1..n : Append(values, call)[i] = values[i]
        /\ Append(values, call)[n + 1] = call
    BY <2>1, AppendProperties
  <2> QED
    BY <2>2 DEF S, Todo
<1>6. PICK above \in Heights : above = [k \in Nat |-> IF k = n + 2 THEN 1 ELSE IF k = 0 THEN 0 ELSE k - 1]
  <2>1. \A k \in Nat : (IF k = n + 2 THEN 1 ELSE IF k = 0 THEN 0 ELSE k - 1) \in Nat
    OBVIOUS
  <2> QED
    BY <2>1 DEF Heights
<1>7. above[1] = 0 /\ above[n + 2] = 1 /\ \A k \in 1..(n + 1) : above[k] = k - 1
  BY <1>1, <1>6
<1>8. \A k \in 1..(n + 1) : k \in 1..n \/ k = n + 1
  BY <1>1
<1>9. ASSUME NEW k \in 1..(n + 1)
      PROVE  /\ Takes(tasks[k]) \in Nat /\ Takes(tasks[k]) <= above[k]
             /\ above[k + 1] = above[k] - Takes(tasks[k]) + Leaves(tasks[k])
             /\ ~IsJumpTask(tasks[k]) /\ tasks[k].do # "store_newest"
  <2>1. CASE k \in 1..n
    <3>1. /\ Takes(tasks[k]) = 0 /\ Leaves(tasks[k]) = 1 /\ tasks[k].do = "compile"
      BY <1>2, <1>3, <1>5, <2>1, ValueTask
    <3>2. above[k] = k - 1 /\ above[k + 1] = k /\ k \in Nat \ {0}
      <4>1. k + 1 \in 1..(n + 1) /\ (k + 1) - 1 = k
        BY <1>1, <2>1
      <4> QED
        BY <1>7, <2>1, <4>1
    <3> QED
      BY <3>1, <3>2 DEF IsJumpTask
  <2>2. CASE k = n + 1
    <3>1. above[k] = n /\ above[k + 1] = 1
      <4>1. k + 1 = n + 2 /\ k - 1 = n
        BY <1>1, <2>2
      <4> QED
        BY <1>7, <4>1
    <3>2. tasks[k] = call
      BY <1>5, <2>2
    <3> QED
      BY <1>1, <1>4, <3>1, <3>2 DEF IsJumpTask
  <2> QED
    BY <1>8, <2>1, <2>2
<1>10. n + 1 \in Nat /\ (n + 1) + 1 = n + 2
  BY <1>1
<1>11. Produce(tasks, old.code, Tail(old.todo), above)
  BY <1>5, <1>7, <1>9, <1>10, ProduceSteps
<1>12. ~Defining(tasks)
  BY <1>5, <1>9 DEF Defining
<1>13. Advances(E, I, chain, old, Then(Popped(old), tasks))
  BY <1>11, <1>12, TasksAdvance
<1> QED
  BY <1>1, <1>3, <1>4, <1>5, <1>13 DEF CompileCall

\* A value, and its DROP.
LEMMA BeginAdvances ==
  ASSUME NEW E, NEW I, NEW chain, NEW old, Expanding(E, I, chain, old),
         NEW operands \in Seq(E), Len(operands) >= 1
  PROVE  Advances(E, I, chain, old, CompileBegin(Popped(old), operands))
<1>1. PICK m \in Nat \ {0} : m = Len(operands)
  BY LenProperties
<1>2. PICK n \in Nat : n = 2 * m - 1
  BY <1>1
<1> DEFINE task(i) == IF i % 2 = 1 THEN ToCompile(operands[(i + 1) \div 2]) ELSE ToGenerate("DROP", 0)
           odd(i) == i % 2 = 1
<1>3. \A i \in 1..n : odd(i) => (i + 1) \div 2 \in 1..m
  BY <1>1, <1>2
<1>4. \A i \in 1..n : odd(i) => operands[(i + 1) \div 2] \in E
  <2> HIDE DEF odd
  <2> QED
    BY <1>1, <1>3, ElementOfSeq
<1>5. \A i \in 1..n : /\ task(i) \in Task(E) /\ task(i).do \in {"compile", "generate"}
                      /\ odd(i) => Takes(task(i)) = 0 /\ Leaves(task(i)) = 1
                      /\ ~odd(i) => Takes(task(i)) = 1 /\ Leaves(task(i)) = 0
  <2> SUFFICES ASSUME NEW i \in 1..n
               PROVE  /\ task(i) \in Task(E) /\ task(i).do \in {"compile", "generate"}
                      /\ odd(i) => Takes(task(i)) = 0 /\ Leaves(task(i)) = 1
                      /\ ~odd(i) => Takes(task(i)) = 1 /\ Leaves(task(i)) = 0
    OBVIOUS
  <2>1. CASE odd(i)
    <3>1. PICK expr \in E : expr = operands[(i + 1) \div 2] /\ task(i) = ToCompile(expr)
      BY <1>4, <2>1
    <3> QED
      BY <2>1, <3>1, ValueTask
  <2>2. CASE ~odd(i)
    <3>1. task(i) = ToGenerate("DROP", 0)
      BY <2>2
    <3> QED
      BY <2>2, <3>1, DropTask
  <2> QED
    BY <2>1, <2>2
<1>6. PICK tasks \in Todo(E) : /\ tasks = [i \in 1..n |-> task(i)]
                               /\ Len(tasks) = n
                               /\ \A i \in 1..n : tasks[i] = task(i)
  <2> DEFINE S == Task(E)
             values == [i \in 1..n |-> task(i)]
  <2>1. \A i \in 1..n : task(i) \in S
    BY <1>5
  <2> HIDE DEF S, task
  <2>2. values \in [1..n -> S] /\ n \in Nat
    BY <2>1
  <2>3. values \in Seq(S) /\ Len(values) = n
    BY <2>2, LenProperties, SeqDef
  <2> QED
    BY <2>3 DEF S, Todo
<1>7. PICK above \in Heights : above = [k \in Nat |-> IF odd(k) THEN 0 ELSE 1]
  BY DEF Heights
<1>8. odd(1) /\ ~odd(n + 1)
  BY <1>1, <1>2
<1>9. \A k \in 1..n : odd(k + 1) <=> ~odd(k)
  BY <1>2
<1>10. \A k \in Nat : above[k] = IF odd(k) THEN 0 ELSE 1
  BY <1>7
<1> HIDE DEF odd, task
<1>11. above[1] = 0 /\ above[n + 1] = 1
  BY <1>2, <1>8, <1>10
<1>12. ASSUME NEW k \in 1..n
       PROVE  /\ Takes(tasks[k]) \in Nat /\ Takes(tasks[k]) <= above[k]
              /\ above[k + 1] = above[k] - Takes(tasks[k]) + Leaves(tasks[k])
              /\ ~IsJumpTask(tasks[k]) /\ tasks[k].do # "store_newest"
  <2>1. k \in Nat /\ k + 1 \in Nat
    OBVIOUS
  <2>2. tasks[k].do \in {"compile", "generate"}
    BY <1>5, <1>6
  <2>3. CASE odd(k)
    <3>1. above[k] = 0 /\ above[k + 1] = 1
      BY <1>9, <1>10, <2>1, <2>3
    <3>2. Takes(tasks[k]) = 0 /\ Leaves(tasks[k]) = 1
      BY <1>5, <1>6, <2>3
    <3> QED
      BY <2>2, <3>1, <3>2 DEF IsJumpTask
  <2>4. CASE ~odd(k)
    <3>1. above[k] = 1 /\ above[k + 1] = 0
      BY <1>9, <1>10, <2>1, <2>4
    <3>2. Takes(tasks[k]) = 1 /\ Leaves(tasks[k]) = 0
      BY <1>5, <1>6, <2>4
    <3> QED
      BY <2>2, <3>1, <3>2 DEF IsJumpTask
  <2> QED
    BY <2>3, <2>4
<1>13. Produce(tasks, old.code, Tail(old.todo), above)
  BY <1>6, <1>11, <1>12, ProduceSteps
<1>14. ~Defining(tasks)
  BY <1>6, <1>12 DEF Defining
<1>15. Advances(E, I, chain, old, Then(Popped(old), tasks))
  BY <1>13, <1>14, TasksAdvance
<1>16. CompileBegin(Popped(old), operands) = Then(Popped(old), tasks)
  BY <1>1, <1>2, <1>6 DEF CompileBegin, task
<1> QED
  BY <1>15, <1>16

\* The variable of a definition exists before its value is compiled.
LEMMA DefineAdvances ==
  ASSUME NEW E, NEW I, NEW chain, NEW old, Expanding(E, I, chain, old), NEW expr \in E, NEW name \in STRING
  PROVE  Advances(E, I, chain, old,
                  Then(AddVariable(Popped(old), name), <<ToCompile(expr), ToStoreNewest>>))
<1>1. /\ old \in Construction(E, I) /\ old.todo # << >> /\ Built(old, 0) /\ Tail(old.todo) \in Todo(E)
  BY ActiveLambda DEF Expanding
<1>2. PICK popped \in Construction(E, I) :
        /\ popped = Popped(old)
        /\ popped.id = old.id /\ popped.code = old.code /\ popped.literals = old.literals
        /\ popped.names = old.names /\ popped.arg_count = old.arg_count
        /\ popped.var_count = old.var_count /\ popped.todo = Tail(old.todo)
  BY <1>1, PoppedLambda
<1>3. PICK added \in Construction(E, I) :
        /\ added = AddVariable(popped, name)
        /\ added.id = old.id /\ added.code = old.code /\ added.literals = old.literals
        /\ added.names = Append(old.names, name) /\ added.arg_count = old.arg_count
        /\ added.var_count = old.var_count + 1 /\ added.todo = Tail(old.todo)
  BY <1>2, AddVariableFields
<1>4. PICK tasks \in Todo(E) : /\ tasks = <<ToCompile(expr), ToStoreNewest>>
                               /\ \E above : Produce(tasks, old.code, Tail(old.todo), above)
  <2>1. PICK a \in Task(E), b \in Task(E) :
          /\ a = ToCompile(expr) /\ b = ToStoreNewest
          /\ Takes(a) = 0 /\ Leaves(a) = 1 /\ Takes(b) = 1 /\ Leaves(b) = 1
          /\ ~IsJumpTask(a) /\ ~IsJumpTask(b)
    <3>1. PICK a \in Task(E) : /\ a = ToCompile(expr) /\ Takes(a) = 0 /\ Leaves(a) = 1
                               /\ ~IsJumpTask(a)
      BY ValueTask DEF IsJumpTask
    <3>2. PICK b \in Task(E) : /\ b = ToStoreNewest /\ Takes(b) = 1 /\ Leaves(b) = 1
                               /\ ~IsJumpTask(b)
      BY TaskKinds DEF IsJumpTask
    <3> QED
      BY <3>1, <3>2
  <2>2. /\ <<a, b>> \in Todo(E)
        /\ \E above : Produce(<<a, b>>, old.code, Tail(old.todo), above)
    BY <2>1, ProduceTwo
  <2> QED
    BY <2>1, <2>2
<1>5. Working(old.code, tasks \o Tail(old.todo), 0)
  BY <1>1, <1>4, ExpandingLambda, Expanded
<1>6. PICK cl \in Construction(E, I) :
        /\ cl = Then(added, tasks)
        /\ cl.id = old.id /\ cl.code = old.code
        /\ cl.literals = old.literals /\ cl.names = Append(old.names, name)
        /\ cl.arg_count = old.arg_count /\ cl.var_count = old.var_count + 1
        /\ cl.todo = tasks \o Tail(old.todo)
  <2>1. /\ Then(added, tasks) \in Construction(E, I)
        /\ Then(added, tasks).id = added.id /\ Then(added, tasks).code = added.code
        /\ Then(added, tasks).literals = added.literals /\ Then(added, tasks).names = added.names
        /\ Then(added, tasks).arg_count = added.arg_count
        /\ Then(added, tasks).var_count = added.var_count
        /\ Then(added, tasks).todo = tasks \o added.todo
    BY ThenFields
  <2> QED
    BY <1>3, <2>1
<1>7. old.var_count \in Nat /\ old.arg_count \in Nat /\ Len(cl.names) = Len(old.names) + 1 /\ Len(old.names) \in Nat
  <2>1. old.names \in Seq(STRING) /\ old.var_count \in Nat /\ old.arg_count \in Nat /\ Len(old.names) \in Nat
    BY <1>1, ConstructionFields
  <2>2. Len(Append(old.names, name)) = Len(old.names) + 1
    BY <2>1, AppendProperties
  <2> QED
    BY <1>6, <2>1, <2>2
<1>8. Continues(E, chain, old, cl)
  <2>1. cl.var_count >= old.var_count
    BY <1>6, <1>7
  <2> QED
    BY <1>1, <1>6, <2>1, SameCode
<1>9. Built(cl, 0)
  <2>3. Len(old.names) = old.arg_count + old.var_count
    BY <1>1, BuiltTail
  <2>4. old.arg_count + old.var_count + 1 = old.arg_count + (old.var_count + 1)
    BY <1>7
  <2>1. Len(cl.names) = cl.arg_count + cl.var_count
    BY <1>6, <1>7, <2>3, <2>4
  <2>2. cl.var_count > 0
    BY <1>6, <1>7
  <2> QED
    BY <1>5, <1>6, <2>1, <2>2 DEF Built
<1> QED
  BY <1>2, <1>3, <1>4, <1>6, <1>8, <1>9 DEF Advances

\* The expressions there are.
LEMMA ExpressionKinds ==
  ASSUME NEW E, Expressions(E), NEW expr \in E
  PROVE  /\ expr.type \in {"nil", "true", "false", "num", "sym", "list"}
         /\ expr.type = "num" => expr.num \in Int
         /\ expr.type = "sym" => expr.sym \in STRING /\ expr = SymExpr(expr.sym)
         /\ expr.type = "list" => expr.items \in Seq(E) /\ expr.items # << >>
  BY DEF Expressions, SymExpr

\* An expression compiled to a constant without argument advances the lambda.
LEMMA NilAdvances ==
  ASSUME NEW E, NEW I, NEW chain, NEW old, Expanding(E, I, chain, old)
  PROVE  \A op \in LoadConstantOp : Advances(E, I, chain, old, GenOp(Popped(old), op))
<1>1. 0 \in Int /\ \A op : GenOp(Popped(old), op) = GenArg(Popped(old), op, 0)
  BY DEF GenOp, GenArg
<1> QED
  BY <1>1, ConstantAdvances

\* compile_buildin advances the lambda; comparisons have two operands or more,
\* and lambda comes here only without operands.
LEMMA BuildinAdvances ==
  ASSUME NEW E, Expressions(E), NEW I, NEW chain, NEW old, Expanding(E, I, chain, old),
         NEW func \in CompiledBuildin, NEW operands \in Seq(E),
         func = "lambda" => operands = << >>, CompareOpOf(func) # "none" => Len(operands) >= 2
  PROVE  Advances(E, I, chain, old, CompileBuildin(Popped(old), func, operands))
<1> DEFINE cl == Popped(old)
           next == CompileBuildin(cl, func, operands)
<1>0. Len(operands) \in Nat /\ \A i \in 1..Len(operands) : operands[i] \in E
  BY LenProperties, ElementOfSeq
<1>1. CASE ~Accepts(func, operands)
  <2>1. next = GenOp(cl, "LOAD_NIL")
    BY <1>1 DEF CompileBuildin
  <2> QED
    BY <2>1, NilAdvances DEF LoadConstantOp
<1>2. CASE Accepts(func, operands)
  <2>1. CASE func \in {"define", "set"}
    <3>1. Len(operands) = 2 /\ IsSym(operands[1])
      BY <1>2, <2>1 DEF Accepts
    <3>2. operands[1] \in E /\ operands[2] \in E
      BY <1>0, <3>1
    <3>3. operands[1].sym \in STRING
      BY <3>1, <3>2, ExpressionKinds DEF IsSym
    <3>4. CASE func = "define"
      <4>1. next = CompileDefine(cl, operands)
        BY <1>2, <3>4 DEF CompileBuildin
      <4> QED
        BY <3>2, <3>3, <4>1, DefineAdvances DEF CompileDefine
    <3>5. CASE func = "set"
      <4>1. next = CompileSet(cl, operands)
        BY <1>2, <3>5 DEF CompileBuildin
      <4> QED
        BY <3>2, <3>3, <4>1, ValueTaskAdvances DEF CompileSet
    <3> QED
      BY <2>1, <3>4, <3>5
  <2>2. CASE func = "if"
    <3>1. Len(operands) = 3
      BY <1>2, <2>2 DEF Accepts
    <3>2. operands[1] \in E /\ operands[2] \in E /\ operands[3] \in E
      BY <1>0, <3>1
    <3>3. next = CompileIf(cl, operands)
      BY <1>2, <2>2 DEF CompileBuildin
    <3> QED
      BY <3>2, <3>3, ValueTaskAdvances DEF CompileIf
  <2>3. CASE func = "quote"
    <3>1. Len(operands) = 1
      BY <1>2, <2>3 DEF Accepts
    <3>2. operands[1] \in E
      BY <1>0, <3>1
    <3>3. next = GenLiteral(cl, "LOAD_LITERAL", operands[1])
      BY <1>2, <2>3 DEF CompileBuildin
    <3> QED
      BY <3>2, <3>3, LiteralAdvances
  <2>4. CASE func = "begin"
    <3>1. Len(operands) >= 1
      BY <1>2, <2>4 DEF Accepts
    <3>2. next = CompileBegin(cl, operands)
      BY <1>2, <2>4 DEF CompileBuildin
    <3> QED
      BY <3>1, <3>2, BeginAdvances
  <2>5. CASE func \in {"first", "rest"}
    <3>1. Len(operands) = 1
      BY <1>2, <2>5 DEF Accepts
    <3>2. operands[1] \in E
      BY <1>0, <3>1
    <3>3. \E op \in PartOp : next = CompileUnary(cl, op, operands)
      BY <1>2, <2>5 DEF CompileBuildin, PartOp
    <3> QED
      BY <3>2, <3>3, ValueTaskAdvances DEF CompileUnary
  <2>6. CASE func \in {"cons", "plus", "minus", "multiply", "divide", "modulo", "equal", "lt", "gt"}
    <3>4. func \in {"equal", "lt", "gt"} => CompareOpOf(func) # "none"
      BY DEF CompareOpOf
    <3>5. func \in {"cons", "plus", "minus", "multiply", "divide", "modulo"} => Len(operands) = 2
      BY <1>2 DEF Accepts
    <3>6. \/ func \in {"equal", "lt", "gt"}
          \/ func \in {"cons", "plus", "minus", "multiply", "divide", "modulo"}
      BY <2>6
    <3>7. Len(operands) = 2 => Len(operands) >= 2
      OBVIOUS
    <3>1. Len(operands) >= 2
      BY <3>4, <3>5, <3>6, <3>7, Zenon
    <3>2. operands[1] \in E /\ operands[2] \in E
      BY <1>0, <3>1
    <3>3. \E op \in ArithmeticOp \cup CompareOp \cup {"CONS"} : next = CompileBinary(cl, op, operands)
      BY <1>2, <2>6 DEF CompileBuildin, ArithmeticOpOf, CompareOpOf, ArithmeticOp, CompareOp
    <3> QED
      BY <3>2, <3>3, BinaryAdvances DEF CompileBinary
  <2>7. func # "lambda"
    <3>1. func = "lambda" => Len(operands) = 0
      OBVIOUS
    <3>2. func = "lambda" => Len(operands) >= 1
      BY <1>2 DEF Accepts
    <3> QED
      BY <3>1, <3>2
  <2> QED
    BY <2>1, <2>2, <2>3, <2>4, <2>5, <2>6, <2>7 DEF CompiledBuildin
<1> QED
  BY <1>1, <1>2

\* compile_expr advances the lambda, for every expression but a lambda.
LEMMA ExpressionAdvances ==
  ASSUME NEW E, Expressions(E), NEW I, NEW chain, NEW old, Expanding(E, I, chain, old),
         NEW expr \in E, ~IsLambda(expr)
  PROVE  Advances(E, I, chain, old, CompileExpr(Popped(old), chain, expr))
<1> DEFINE cl == Popped(old)
           next == CompileExpr(cl, chain, expr)
<1>1. CASE expr.type \in {"nil", "true", "false"}
  <2>1. \E op \in LoadConstantOp : next = GenOp(cl, op)
    BY <1>1 DEF CompileExpr, LoadConstantOp
  <2> QED
    BY <2>1, NilAdvances
<1>2. CASE expr.type = "num"
  <2>1. next = CompileNum(cl, expr)
    BY <1>2 DEF CompileExpr
  <2>2. expr.num \in Int
    BY <1>2, ExpressionKinds
  <2>3. CASE expr.num \in MinInt16..MaxInt16
    <3>1. next = GenArg(cl, "LOAD_NUM", expr.num)
      BY <2>1, <2>3 DEF CompileNum
    <3>2. "LOAD_NUM" \in LoadConstantOp
      BY DEF LoadConstantOp
    <3> QED
      BY <2>2, <3>1, <3>2, ConstantAdvances
  <2>4. CASE expr.num \notin MinInt16..MaxInt16
    <3>1. next = GenLiteral(cl, "LOAD_LITERAL", expr)
      BY <2>1, <2>4 DEF CompileNum
    <3> QED
      BY <3>1, LiteralAdvances
  <2> QED
    BY <2>3, <2>4
<1>3. CASE expr.type = "sym"
  <2>1. next = CompileSymbol(cl, chain, expr.sym)
    BY <1>3 DEF CompileExpr
  <2>2. SymExpr(expr.sym) \in E
    BY <1>3, ExpressionKinds
  <2> QED
    BY <2>1, <2>2, SymbolAdvances
<1>4. CASE expr.type = "list"
  <2>1. expr.items \in Seq(E) /\ expr.items # << >>
    BY <1>4, ExpressionKinds
  <2>2. CASE ~IsInlined(expr)
    <3>1. next = CompileCall(cl, expr.items)
      BY <1>4, <2>2 DEF CompileExpr
    <3> QED
      BY <2>1, <3>1, CallAdvances
  <2>3. CASE IsInlined(expr)
    <3>1. next = CompileBuildin(cl, Inlined(expr), Tail(expr.items))
      BY <1>4, <2>3 DEF CompileExpr
    <3>2. Inlined(expr) \in CompiledBuildin
      BY <2>3 DEF IsInlined, Inlined
    <3>3. Tail(expr.items) \in Seq(E) /\ Len(Tail(expr.items)) = Len(expr.items) - 1 /\ Len(expr.items) \in Nat \ {0}
      BY <2>1, HeadTailProperties, LenProperties, EmptySeq
    <3>4. CompareOpOf(Inlined(expr)) # "none" => Len(Tail(expr.items)) >= 2
      <4>1. CompareOpOf(Inlined(expr)) # "none" => Len(expr.items) >= 3
        BY <1>4, <2>3 DEF Expressions
      <4> QED
        BY <3>3, <4>1
    <3>5. Inlined(expr) = "lambda" => Tail(expr.items) = << >>
      <4>1. Inlined(expr) = "lambda" => ~(Len(expr.items) >= 2)
        BY <2>3 DEF IsLambda
      <4>3. PICK k \in Nat \ {0} : k = Len(expr.items)
        BY <3>3
      <4>4. ~(k >= 2) => k - 1 = 0
        OBVIOUS
      <4>2. Inlined(expr) = "lambda" => Len(Tail(expr.items)) = 0
        BY <3>3, <4>1, <4>3, <4>4
      <4> QED
        BY <3>3, <4>2, EmptySeq
    <3> QED
      BY <3>1, <3>2, <3>3, <3>4, <3>5, BuildinAdvances
  <2> QED
    BY <2>2, <2>3
<1> QED
  BY <1>1, <1>2, <1>3, <1>4, ExpressionKinds

-----------------------------------------------------------------------------
(* The other tasks.                                                        *)

\* A task that generates an instruction advances the lambda.
LEMMA GenerateAdvances ==
  ASSUME NEW E, NEW I, NEW chain, NEW old, Active(E, I, chain, old),
         NEW op \in GeneratedOp, NEW arg \in Nat, Head(old.todo) = ToGenerate(op, arg)
  PROVE  Advances(E, I, chain, old, GenArg(Popped(old), op, arg))
<1>1. /\ Len(chain) \in Nat \ {0} /\ old \in Construction(E, I)
      /\ old.todo # << >> /\ Built(old, 0) /\ Working(old.code, old.todo, 0) /\ old.todo \in Todo(E)
  BY ActiveLambda
<1>2. PICK instr \in Instruction : instr = [op |-> op, offset |-> 0, arg |-> arg]
  <2>1. op \in Op /\ arg \in Int /\ 0 \in Nat
    BY DEF Op, GeneratedOp
  <2> QED
    BY <2>1 DEF Instruction
<1>3. Working(Append(old.code, instr), Tail(old.todo), 0)
  <2>1. old.code \in Seq(Instruction)
    BY <1>1, ConstructionFields
  <2> QED
    BY <1>1, <1>2, FirstGenerate
<1>4. PICK cl : cl = Gen(Popped(old), instr)
  OBVIOUS
<1>5. Lies(E, chain, cl, instr)
  <2>1. 0 \in 0..(Len(chain) - 1)
    BY <1>1
  <2>2. instr.offset = 0 /\ instr.op \in GeneratedOp /\ instr.arg >= 0
    BY <1>2
  <2> QED
    BY <2>1, <2>2 DEF Lies, Names, GeneratedOp, ArithmeticOp, CompareOp, PartOp
<1> QED
  BY <1>1, <1>2, <1>3, <1>4, <1>5, GenAdvances DEF GenArg

\* A task that stores in a known name advances the lambda.
LEMMA StoreAdvances ==
  ASSUME NEW E, NEW I, NEW chain, NEW old, Active(E, I, chain, old),
         Head(old.todo).do = "store", NEW name, IsKnown(chain, name)
  PROVE  Advances(E, I, chain, old, StoreSymbol(Popped(old), chain, name))
<1>1. PICK level : level = LevelOf(chain, name)
  OBVIOUS
<1>2. PICK found : found = chain[level]
  OBVIOUS
<1>3. PICK index : index = NameIndex(found, name)
  OBVIOUS
<1>4. /\ chain \in Seq(Construction(E, I)) /\ Named(chain) /\ old = chain[Len(chain)]
      /\ Len(chain) \in Nat \ {0} /\ old \in Construction(E, I) /\ old.todo # << >>
      /\ Built(old, 0) /\ Working(old.code, old.todo, 0) /\ old.todo \in Todo(E)
  BY ActiveLambda DEF Active
<1>5. /\ level \in 1..Len(chain) /\ Len(chain) - level \in 0..(Len(chain) - 1)
      /\ Len(chain) - (Len(chain) - level) = level
      /\ found.arg_count \in Nat /\ found.var_count \in Nat /\ index \in Nat
      /\ IF IsArgument(found, name) THEN index \in 0..(found.arg_count - 1)
         ELSE index - found.arg_count \in 0..(found.var_count - 1)
  BY <1>1, <1>2, <1>3, <1>4, Lookup
<1>6. /\ Working(old.code, Tail(old.todo), 0)
      /\ \A instr \in Instruction :
           instr.op = "STORE_LOCAL" => Working(Append(old.code, instr), Tail(old.todo), 0)
  BY <1>4, FirstStore
<1>7. CASE IsArgument(found, name)
  <2>1. StoreSymbol(Popped(old), chain, name) = Popped(old)
    BY <1>1, <1>2, <1>7 DEF StoreSymbol
  <2> QED
    BY <1>4, <1>6, <2>1, SameAdvances
<1>8. CASE ~IsArgument(found, name)
  <2>1. PICK offset \in 0..(Len(chain) - 1) : offset = Len(chain) - level /\ Len(chain) - offset = level
    BY <1>5
  <2>2. PICK arg \in 0..(found.var_count - 1) : arg = index - found.arg_count
    BY <1>5, <1>8
  <2>3. PICK instr \in Instruction : instr = [op |-> "STORE_LOCAL", offset |-> offset, arg |-> arg]
    <3>1. offset \in Nat /\ arg \in Int
      BY <2>1
    <3> QED
      BY <3>1 DEF Instruction, Op
  <2>4. PICK cl : cl = Gen(Popped(old), instr)
    OBVIOUS
  <2>5. StoreSymbol(Popped(old), chain, name) = cl
    BY <1>1, <1>2, <1>3, <1>8, <2>1, <2>2, <2>3, <2>4 DEF StoreSymbol
  <2>6. cl.var_count = old.var_count
    <3>1. Popped(old) \in Construction(E, I) /\ Popped(old).var_count = old.var_count
      BY <1>4, PoppedLambda
    <3> QED
      BY <2>4, <3>1, GenFields
  <2>7. offset = 0 => found = old
    BY <1>2, <1>4, <2>1
  <2>8. Lies(E, chain, cl, instr)
    <3> DEFINE target == IF offset = 0 THEN cl ELSE chain[Len(chain) - offset]
    <3>1. target.var_count = found.var_count
      BY <1>2, <2>1, <2>6, <2>7
    <3>2. /\ instr.arg \in 0..(target.var_count - 1)
          /\ instr.op = "STORE_LOCAL" /\ instr.offset = offset
      BY <2>2, <2>3, <3>1
    <3>3. Names(E, cl.id, cl, target, instr)
      BY <3>2 DEF Names
    <3> QED
      BY <3>2, <3>3 DEF Lies
  <2>9. Working(Append(old.code, instr), Tail(old.todo), 0)
    BY <1>6, <2>3
  <2>10. Advances(E, I, chain, old, cl)
    BY <1>4, <2>4, <2>8, <2>9, GenAdvances
  <2> QED
    BY <2>5, <2>10
<1> QED
  BY <1>7, <1>8

\* The initial value of a definition.
LEMMA StoreNewestAdvances ==
  ASSUME NEW E, NEW I, NEW chain, NEW old, Active(E, I, chain, old), Head(old.todo).do = "store_newest"
  PROVE  Advances(E, I, chain, old, GenArg(Popped(old), "STORE_LOCAL", Popped(old).var_count - 1))
<1>1. /\ Len(chain) \in Nat \ {0} /\ old \in Construction(E, I)
      /\ old.todo # << >> /\ Built(old, 0) /\ Working(old.code, old.todo, 0) /\ old.todo \in Todo(E)
  BY ActiveLambda
<1>2. Defining(old.todo)
  <2>1. old.todo[1] = Head(old.todo) /\ 1 \in 1..Len(old.todo)
    BY <1>1, LenProperties, EmptySeq, HeadTailProperties DEF Todo
  <2> QED
    BY <2>1 DEF Defining
<1>3. old.var_count > 0 /\ old.var_count \in Nat
  BY <1>1, <1>2, BuiltTail, ConstructionFields
<1>4. PICK arg \in 0..(old.var_count - 1) : arg = old.var_count - 1
  BY <1>3
<1>5. PICK instr \in Instruction : instr = [op |-> "STORE_LOCAL", offset |-> 0, arg |-> arg]
  <2>1. arg \in Int
    BY <1>4
  <2> QED
    BY <2>1 DEF Instruction, Op
<1>6. PICK cl : cl = Gen(Popped(old), instr)
  OBVIOUS
<1>7. Popped(old) \in Construction(E, I) /\ Popped(old).var_count = old.var_count
  BY <1>1, PoppedLambda
<1>8. cl.var_count = old.var_count
  BY <1>6, <1>7, GenFields
<1>9. Lies(E, chain, cl, instr)
  <2>1. 0 \in 0..(Len(chain) - 1)
    BY <1>1
  <2>2. instr.offset = 0 /\ instr.op = "STORE_LOCAL" /\ instr.arg \in 0..(cl.var_count - 1)
    BY <1>4, <1>5, <1>8
  <2> QED
    BY <2>1, <2>2 DEF Lies, Names
<1>10. Working(Append(old.code, instr), Tail(old.todo), 0)
  <2>1. \A other \in Instruction :
           other.op = "STORE_LOCAL" => Working(Append(old.code, other), Tail(old.todo), 0)
    BY <1>1, FirstStore
  <2> QED
    BY <1>5, <2>1
<1>11. Advances(E, I, chain, old, cl)
  BY <1>1, <1>6, <1>9, <1>10, GenAdvances
<1>12. GenArg(Popped(old), "STORE_LOCAL", Popped(old).var_count - 1) = cl
  BY <1>4, <1>5, <1>6, <1>7 DEF GenArg
<1> QED
  BY <1>11, <1>12

\* The jumps that tasks wait with are in the code.
LEMMA AwaitingInCode ==
  ASSUME NEW code, NEW todo, NEW depths, NEW want, Plan(code, todo, depths, want)
  PROVE  Awaiting(todo) \subseteq 1..Len(code)
  BY DEF Plan, Awaiting, JumpTaskFits

\* The jump over the true case: its target is known after the true case.
LEMMA BranchAdvances ==
  ASSUME NEW E, NEW I, NEW chain, NEW old, Active(E, I, chain, old), Head(old.todo).do = "branch",
         NEW x \in E, NEW y \in E
  PROVE  Advances(E, I, chain, old, CompileBranch(Popped(old), x, y))
<1>1. /\ Len(chain) \in Nat \ {0} /\ old \in Construction(E, I) /\ Tail(old.todo) \in Todo(E)
      /\ old.todo # << >> /\ Built(old, 0) /\ Working(old.code, old.todo, 0) /\ old.todo \in Todo(E)
  BY ActiveLambda
<1>2. PICK instr \in Instruction : instr = [op |-> "JUMP_IF_FALSE", offset |-> 0, arg |-> 0]
  <2>1. "JUMP_IF_FALSE" \in Op /\ 0 \in Nat /\ 0 \in Int
    BY DEF Op
  <2> QED
    BY <2>1 DEF Instruction
<1>3. PICK popped \in Construction(E, I) :
        /\ popped = Popped(old)
        /\ popped.id = old.id /\ popped.code = old.code /\ popped.literals = old.literals
        /\ popped.names = old.names /\ popped.arg_count = old.arg_count
        /\ popped.var_count = old.var_count /\ popped.todo = Tail(old.todo)
  BY <1>1, PoppedLambda
<1>4. PICK jump \in Construction(E, I) :
        /\ jump = Gen(popped, instr)
        /\ jump.id = old.id /\ jump.code = Append(old.code, instr) /\ jump.literals = old.literals
        /\ jump.names = old.names /\ jump.arg_count = old.arg_count
        /\ jump.var_count = old.var_count /\ jump.todo = Tail(old.todo)
  BY <1>3, GenFields
<1>5. PICK L \in Nat : L = Len(old.code)
  BY <1>1, ConstructionFields
<1>6. Len(jump.code) = L + 1 /\ jump.code[L + 1] = instr
  <2>1. old.code \in Seq(Instruction)
    BY <1>1, ConstructionFields
  <2> QED
    BY <1>4, <1>5, <2>1, AppendProperties
<1>7. L + 1 \notin Awaiting(Tail(old.todo))
  <2>1. PICK depths, want : /\ Plan(old.code, old.todo, depths, want)
                            /\ ~IsJumpTask(Head(old.todo)) => Plan(old.code, Tail(old.todo), depths, want)
    BY <1>1, FirstTask
  <2>2. Plan(old.code, Tail(old.todo), depths, want)
    BY <2>1 DEF IsJumpTask
  <2>3. Awaiting(Tail(old.todo)) \subseteq 1..L
    BY <1>5, <2>2, AwaitingInCode
  <2>4. L + 1 \notin 1..L
    BY <1>5
  <2> QED
    BY <2>3, <2>4
<1>8. Working(jump.code, Tail(old.todo), 1)
  BY <1>1, <1>2, <1>4, FirstBranch
<1>9. PICK a \in Task(E), b \in Task(E) :
        /\ a = ToCompile(x) /\ Takes(a) = 0 /\ Leaves(a) = 1 /\ a.do = "compile"
        /\ b = ToElse(L + 1, y) /\ Takes(b) = 1 /\ Leaves(b) = 1 /\ b.do = "else" /\ b.at = L + 1
  <2>1. PICK at \in Nat : at = L + 1
    BY <1>5
  <2>2. /\ ToElse(at, y) \in Task(E) /\ ToElse(at, y).do = "else" /\ ToElse(at, y).at = at
        /\ Takes(ToElse(at, y)) = 1 /\ Leaves(ToElse(at, y)) = 1
    BY ElseTask
  <2>3. PICK a \in Task(E) : /\ a = ToCompile(x) /\ a.do = "compile"
                             /\ Takes(a) = 0 /\ Leaves(a) = 1
    <3>1. /\ ToCompile(x) \in Task(E) /\ ToCompile(x).do = "compile"
          /\ Takes(ToCompile(x)) = 0 /\ Leaves(ToCompile(x)) = 1
      BY ValueTask
    <3> QED
      BY <3>1
  <2>4. PICK b \in Task(E) : /\ b = ToElse(L + 1, y) /\ b.do = "else" /\ b.at = L + 1
                             /\ Takes(b) = 1 /\ Leaves(b) = 1
    BY <2>1, <2>2
  <2> QED
    BY <2>3, <2>4
<1>10. PICK tasks \in Todo(E) : tasks = <<a, b>> /\ Len(tasks) = 2 /\ tasks[1] = a /\ tasks[2] = b
  <2> DEFINE S == Task(E)
  <2>1. a \in S /\ b \in S
    OBVIOUS
  <2> HIDE DEF S
  <2>2. <<a, b>> \in Seq(S)
    BY <2>1
  <2> QED
    BY <2>2 DEF Todo, S
<1>11. PICK above \in Heights : above = [k \in Nat |-> IF k = 1 THEN 0 ELSE 1]
  BY DEF Heights
<1>12. above[1] = 0 /\ above[2] = 1 /\ above[3] = 1
  BY <1>11
<1>13. \A k \in 1..2 : k = 1 \/ k = 2
  OBVIOUS
<1>14. Produce(tasks, jump.code, Tail(old.todo), above)
  <2>1. above[Len(tasks) + 1] = 1
    BY <1>10, <1>12
  <2>2. \A k \in 1..Len(tasks) : Takes(tasks[k]) \in Nat /\ Balances(tasks[k], above[k], above[k + 1])
    BY <1>9, <1>10, <1>12, <1>13 DEF Balances
  <2>3. L + 1 \in 1..(L + 1)
    BY <1>5
  <2>4. instr.op = "JUMP_IF_FALSE" /\ instr.arg = 0
    BY <1>2
  <2>5. ASSUME NEW k \in 1..Len(tasks), IsJumpTask(tasks[k])
        PROVE  /\ k = Len(tasks) /\ above[k] = 1
               /\ tasks[k].do = "else"
               /\ tasks[k].at = Len(jump.code)
    BY <1>6, <1>9, <1>10, <1>12, <1>13, <2>5 DEF IsJumpTask
  <2> QED
    BY <1>6, <1>7, <1>12, <2>1, <2>2, <2>3, <2>4, <2>5 DEF Produce
<1>15. Working(jump.code, tasks \o Tail(old.todo), 0)
  BY <1>1, <1>8, <1>14, Expanded
<1>16. PICK cl \in Construction(E, I) :
        /\ cl = Then(jump, tasks)
        /\ cl.id = old.id /\ cl.code = Append(old.code, instr) /\ cl.literals = old.literals
        /\ cl.names = old.names /\ cl.arg_count = old.arg_count
        /\ cl.var_count = old.var_count /\ cl.todo = tasks \o Tail(old.todo)
  <2>1. /\ Then(jump, tasks) \in Construction(E, I)
        /\ Then(jump, tasks).id = jump.id /\ Then(jump, tasks).code = jump.code
        /\ Then(jump, tasks).literals = jump.literals /\ Then(jump, tasks).names = jump.names
        /\ Then(jump, tasks).arg_count = jump.arg_count
        /\ Then(jump, tasks).var_count = jump.var_count
        /\ Then(jump, tasks).todo = tasks \o jump.todo
    BY ThenFields
  <2> QED
    BY <1>4, <2>1
<1>17. Lies(E, chain, cl, instr)
  <2>1. 0 \in 0..(Len(chain) - 1)
    BY <1>1
  <2>2. instr.offset = 0 /\ instr.op = "JUMP_IF_FALSE"
    BY <1>2
  <2> QED
    BY <2>1, <2>2 DEF Lies, Names
<1>18. old.var_count \in Nat
  BY <1>1, ConstructionFields
<1>19. Continues(E, chain, old, cl)
  <2>1. cl.var_count >= old.var_count
    BY <1>16, <1>18
  <2>2. /\ cl.id = old.id /\ cl.code = Append(old.code, instr) /\ cl.literals = old.literals
        /\ cl.arg_count = old.arg_count
    BY <1>16
  <2> QED
    BY <1>1, <1>17, <2>1, <2>2, OneInstruction
<1>20. Built(cl, 0)
  <2>1. ~Defining(tasks)
    BY <1>9, <1>10, <1>13 DEF Defining
  <2>2. Defining(cl.todo) => Defining(Tail(old.todo))
    BY <1>1, <1>16, <2>1, DefiningConcat
  <2>3. Working(cl.code, cl.todo, 0)
    BY <1>4, <1>15, <1>16
  <2> QED
    BY <1>1, <1>16, <2>2, <2>3, BuiltTail DEF Built
<1>21. CompileBranch(Popped(old), x, y) = cl
  <2>1. GenOp(popped, "JUMP_IF_FALSE") = jump
    BY <1>2, <1>4 DEF GenOp
  <2> QED
    BY <1>3, <1>6, <1>9, <1>10, <1>16, <2>1 DEF CompileBranch
<1> QED
  BY <1>16, <1>19, <1>20, <1>21 DEF Advances

\* A jump gets its target: nothing else changes.
LEMMA PatchExtends ==
  ASSUME NEW E, NEW I, NEW chain, NEW old \in Construction(E, I), NEW mid \in Construction(E, I),
         NEW cl \in Construction(E, I), Continues(E, chain, old, mid),
         NEW at \in 1..Len(old.code), old.code[at].op \in JumpOp, NEW arg \in Int,
         cl.code = Patch(mid.code, at, arg), cl.id = mid.id, cl.literals = mid.literals,
         cl.arg_count = mid.arg_count, cl.var_count = mid.var_count
  PROVE  Continues(E, chain, old, cl)
<1>1. /\ Len(old.code) \in Nat /\ Len(mid.code) \in Nat /\ mid.code \in Seq(Instruction)
  BY ConstructionFields
<1>2. at \in 1..Len(mid.code) /\ SameInstruction(mid.code[at], old.code[at])
  <2>1. Len(mid.code) >= Len(old.code)
    BY DEF Continues
  <2>2. at \in 1..Len(mid.code) /\ at <= Len(old.code)
    BY <1>1, <2>1
  <2> QED
    BY <2>2 DEF Continues
<1>3. /\ Len(cl.code) = Len(mid.code)
      /\ \A i \in 1..Len(mid.code) : i # at => cl.code[i] = mid.code[i]
      /\ cl.code[at].op = mid.code[at].op /\ cl.code[at].offset = mid.code[at].offset
  BY <1>1, <1>2, PatchedCode
<1>4. ASSUME NEW instr, Lies(E, chain, mid, instr) PROVE Lies(E, chain, cl, instr)
  BY <1>4 DEF Lies, Names
<1>5. ASSUME NEW i \in 1..Len(cl.code)
      PROVE  IF i <= Len(old.code) THEN SameInstruction(cl.code[i], old.code[i])
             ELSE Lies(E, chain, cl, cl.code[i])
  <2>1. CASE i = at
    <3>1. SameInstruction(cl.code[at], old.code[at])
      BY <1>2, <1>3 DEF SameInstruction
    <3>2. at <= Len(old.code)
      BY <1>1
    <3> QED
      BY <2>1, <3>1, <3>2
  <2>2. CASE i # at
    <3>1. i \in 1..Len(mid.code) /\ cl.code[i] = mid.code[i]
      BY <1>3, <2>2
    <3>2. IF i <= Len(old.code) THEN SameInstruction(mid.code[i], old.code[i])
          ELSE Lies(E, chain, mid, mid.code[i])
      BY <3>1 DEF Continues
    <3> QED
      BY <1>4, <3>1, <3>2
  <2> QED
    BY <2>1, <2>2
<1> QED
  BY <1>3, <1>5 DEF Continues

\* The jump that a task waits to give its target.
LEMMA JumpToPatch ==
  ASSUME NEW E, NEW code, NEW todo \in Todo(E), todo # << >>, Working(code, todo, 0), IsJumpTask(Head(todo))
  PROVE  Head(todo).at \in 1..Len(code) /\ code[Head(todo).at].op \in JumpOp
<1>1. PICK depths, want : Plan(code, todo, depths, want) /\ want[Len(todo)] = depths[Len(code) + 1]
  BY FirstTask
<1>2. PICK at : at = Head(todo).at
  OBVIOUS
<1>3. JumpTaskFits(code, depths, Head(todo), depths[Len(code) + 1]) /\ at \in 1..Len(code)
  BY <1>1, <1>2, FirstJump
<1> QED
  BY <1>2, <1>3 DEF JumpTaskFits, IsJumpTask, JumpOp

\* The task that ends an if advances the lambda.
LEMMA JoinAdvances ==
  ASSUME NEW E, NEW I, NEW chain, NEW old, Active(E, I, chain, old), Head(old.todo).do = "join"
  PROVE  Advances(E, I, chain, old, BackpatchTarget(Popped(old), Head(old.todo).at))
<1>1. /\ Len(chain) \in Nat \ {0} /\ old \in Construction(E, I)
      /\ old.todo # << >> /\ Built(old, 0) /\ Working(old.code, old.todo, 0) /\ old.todo \in Todo(E)
  BY ActiveLambda
<1>2. PICK at \in 1..Len(old.code) : at = Head(old.todo).at /\ old.code[at].op \in JumpOp
  BY <1>1, JumpToPatch DEF IsJumpTask
<1>3. PICK popped \in Construction(E, I) :
        /\ popped = Popped(old)
        /\ popped.id = old.id /\ popped.code = old.code /\ popped.literals = old.literals
        /\ popped.names = old.names /\ popped.arg_count = old.arg_count
        /\ popped.var_count = old.var_count /\ popped.todo = Tail(old.todo)
  BY <1>1, PoppedLambda
<1>4. PICK cl \in Construction(E, I) :
        /\ cl = BackpatchTarget(popped, at)
        /\ cl.id = old.id /\ cl.code = Patch(old.code, at, Len(old.code) - at) /\ cl.literals = old.literals
        /\ cl.names = old.names /\ cl.arg_count = old.arg_count
        /\ cl.var_count = old.var_count /\ cl.todo = Tail(old.todo)
  <2>1. at \in 1..Len(popped.code)
    BY <1>3
  <2>2. /\ BackpatchTarget(popped, at) \in Construction(E, I)
        /\ BackpatchTarget(popped, at).id = popped.id
        /\ BackpatchTarget(popped, at).code = Patch(popped.code, at, Len(popped.code) - at)
        /\ BackpatchTarget(popped, at).literals = popped.literals
        /\ BackpatchTarget(popped, at).names = popped.names
        /\ BackpatchTarget(popped, at).arg_count = popped.arg_count
        /\ BackpatchTarget(popped, at).var_count = popped.var_count
        /\ BackpatchTarget(popped, at).todo = popped.todo
    BY <2>1, BackpatchFields
  <2> QED
    BY <1>3, <2>2
<1>5. Working(cl.code, cl.todo, 0)
  BY <1>1, <1>2, <1>4, FirstJoin
<1>6. Continues(E, chain, old, cl)
  <2>1. old.var_count \in Nat /\ Len(old.code) - at \in Int
    BY <1>1, ConstructionFields
  <2>2. Continues(E, chain, old, old)
    BY <1>1, <2>1, SameCode
  <2> QED
    BY <1>1, <1>2, <1>4, <2>1, <2>2, PatchExtends
<1>7. Built(cl, 0)
  BY <1>1, <1>4, <1>5, BuiltTail DEF Built
<1> QED
  BY <1>2, <1>3, <1>4, <1>6, <1>7 DEF Advances

\* The task that begins an else branch advances the lambda.
LEMMA ElseAdvances ==
  ASSUME NEW E, NEW I, NEW chain, NEW old, Active(E, I, chain, old), Head(old.todo).do = "else",
         NEW y \in E
  PROVE  Advances(E, I, chain, old, CompileElse(Popped(old), Head(old.todo).at, y))
<1>1. /\ Len(chain) \in Nat \ {0} /\ old \in Construction(E, I) /\ Tail(old.todo) \in Todo(E)
      /\ old.todo # << >> /\ Built(old, 0) /\ Working(old.code, old.todo, 0) /\ old.todo \in Todo(E)
  BY ActiveLambda
<1>2. PICK at \in 1..Len(old.code) : at = Head(old.todo).at /\ old.code[at].op \in JumpOp
  BY <1>1, JumpToPatch DEF IsJumpTask
<1>3. PICK popped \in Construction(E, I) :
        /\ popped = Popped(old)
        /\ popped.id = old.id /\ popped.code = old.code /\ popped.literals = old.literals
        /\ popped.names = old.names /\ popped.arg_count = old.arg_count
        /\ popped.var_count = old.var_count /\ popped.todo = Tail(old.todo)
  BY <1>1, PoppedLambda
<1>4. PICK instr \in Instruction : instr = [op |-> "JUMP", offset |-> 0, arg |-> 0]
  <2>1. "JUMP" \in Op /\ 0 \in Nat /\ 0 \in Int
    BY DEF Op
  <2> QED
    BY <2>1 DEF Instruction
<1>5. PICK longer \in Seq(Instruction) : longer = WithJump(old.code) /\ longer = Append(old.code, instr)
                                         /\ Len(longer) = Len(old.code) + 1
  <2>1. old.code \in Seq(Instruction)
    BY <1>1, ConstructionFields
  <2>2. Append(old.code, instr) \in Seq(Instruction) /\ Len(Append(old.code, instr)) = Len(old.code) + 1
    BY <2>1, AppendProperties
  <2>3. WithJump(old.code) = Append(old.code, instr)
    BY <1>4 DEF WithJump
  <2> QED
    BY <2>2, <2>3
<1>6. PICK jump \in Construction(E, I) :
        /\ jump = Gen(popped, instr)
        /\ jump.id = old.id /\ jump.code = longer /\ jump.literals = old.literals
        /\ jump.names = old.names /\ jump.arg_count = old.arg_count
        /\ jump.var_count = old.var_count /\ jump.todo = Tail(old.todo)
  <2>1. /\ Gen(popped, instr) \in Construction(E, I)
        /\ Gen(popped, instr).id = popped.id
        /\ Gen(popped, instr).code = Append(popped.code, instr)
        /\ Gen(popped, instr).literals = popped.literals
        /\ Gen(popped, instr).names = popped.names
        /\ Gen(popped, instr).arg_count = popped.arg_count
        /\ Gen(popped, instr).var_count = popped.var_count
        /\ Gen(popped, instr).todo = popped.todo
    BY GenFields
  <2> QED
    BY <1>3, <1>5, <2>1
<1>7. Len(old.code) \in Nat /\ Len(longer) \in Nat /\ at \in 1..Len(longer) /\ old.var_count \in Nat
      /\ Len(longer) - at \in Int
  <2>1. Len(old.code) \in Nat /\ old.var_count \in Nat
    BY <1>1, ConstructionFields
  <2> QED
    BY <1>5, <2>1
<1>8. PICK mid \in Construction(E, I) :
        /\ mid = BackpatchTarget(jump, at)
        /\ mid.id = old.id /\ mid.code = Patch(longer, at, Len(longer) - at) /\ mid.literals = old.literals
        /\ mid.names = old.names /\ mid.arg_count = old.arg_count
        /\ mid.var_count = old.var_count /\ mid.todo = Tail(old.todo)
  <2>1. at \in 1..Len(jump.code)
    BY <1>6, <1>7
  <2>2. /\ BackpatchTarget(jump, at) \in Construction(E, I)
        /\ BackpatchTarget(jump, at).id = jump.id
        /\ BackpatchTarget(jump, at).code = Patch(jump.code, at, Len(jump.code) - at)
        /\ BackpatchTarget(jump, at).literals = jump.literals
        /\ BackpatchTarget(jump, at).names = jump.names
        /\ BackpatchTarget(jump, at).arg_count = jump.arg_count
        /\ BackpatchTarget(jump, at).var_count = jump.var_count
        /\ BackpatchTarget(jump, at).todo = jump.todo
    BY <2>1, BackpatchFields
  <2> QED
    BY <1>6, <2>2
<1>9. PICK tasks \in Todo(E) : tasks = <<ToCompile(y), ToJoin(Len(longer))>> /\ ~Defining(tasks)
  <2>1. ToCompile(y) \in Task(E) /\ ToJoin(Len(longer)) \in Task(E)
    BY <1>7 DEF Task, ToCompile, ToJoin
  <2> DEFINE S == Task(E)
             a == ToCompile(y)
             b == ToJoin(Len(longer))
  <2>2. a \in S /\ b \in S /\ a.do = "compile" /\ b.do = "join"
    BY <2>1 DEF ToCompile, ToJoin
  <2> HIDE DEF S, a, b
  <2>3. <<a, b>> \in Seq(S) /\ Len(<<a, b>>) = 2 /\ <<a, b>>[1] = a /\ <<a, b>>[2] = b
    BY <2>2
  <2>4. \A k \in 1..2 : k = 1 \/ k = 2
    OBVIOUS
  <2>5. ~Defining(<<a, b>>)
    BY <2>2, <2>3, <2>4 DEF Defining
  <2> QED
    BY <2>3, <2>5 DEF S, Todo, a, b
<1>10. Working(Patch(longer, at, Len(longer) - at), tasks \o Tail(old.todo), 0)
  BY <1>1, <1>2, <1>5, <1>9, FirstElse
<1>11. PICK cl \in Construction(E, I) :
        /\ cl = Then(mid, tasks)
        /\ cl.id = old.id /\ cl.code = Patch(longer, at, Len(longer) - at) /\ cl.literals = old.literals
        /\ cl.names = old.names /\ cl.arg_count = old.arg_count
        /\ cl.var_count = old.var_count /\ cl.todo = tasks \o Tail(old.todo)
  <2>1. /\ Then(mid, tasks) \in Construction(E, I)
        /\ Then(mid, tasks).id = mid.id /\ Then(mid, tasks).code = mid.code
        /\ Then(mid, tasks).literals = mid.literals /\ Then(mid, tasks).names = mid.names
        /\ Then(mid, tasks).arg_count = mid.arg_count
        /\ Then(mid, tasks).var_count = mid.var_count
        /\ Then(mid, tasks).todo = tasks \o mid.todo
    BY ThenFields
  <2> QED
    BY <1>8, <2>1
<1>12. Continues(E, chain, old, cl)
  <2>1. Lies(E, chain, jump, instr)
    <3>1. 0 \in 0..(Len(chain) - 1)
      BY <1>1
    <3>2. instr.offset = 0 /\ instr.op = "JUMP"
      BY <1>4
    <3> QED
      BY <3>1, <3>2 DEF Lies, Names
  <2>2. Continues(E, chain, old, jump)
    BY <1>1, <1>5, <1>6, <1>7, <2>1, OneInstruction
  <2> QED
    BY <1>1, <1>2, <1>6, <1>7, <1>11, <2>2, PatchExtends
<1>13. Built(cl, 0)
  <2>1. Defining(cl.todo) => Defining(Tail(old.todo))
    BY <1>1, <1>9, <1>11, DefiningConcat
  <2> QED
    BY <1>1, <1>10, <1>11, <2>1, BuiltTail DEF Built
<1>14. CompileElse(Popped(old), at, y) = cl
  <2>1. GenOp(popped, "JUMP") = jump
    BY <1>4, <1>6 DEF GenOp
  <2> QED
    BY <1>3, <1>6, <1>8, <1>9, <1>11, <2>1 DEF CompileElse
<1> QED
  BY <1>2, <1>11, <1>12, <1>13, <1>14 DEF Advances

\* A set! only stores into names that the compiler knows, and a nested lambda
\* is not compiled by a single step.
LEMMA TaskAdvances ==
  ASSUME NEW E, Expressions(E), NEW I, NEW chain, NEW old, Active(E, I, chain, old),
         NEW task, task = Head(old.todo),
         task.do = "compile" => ~IsLambda(task.expr),
         task.do = "store" => IsKnown(chain, task.sym)
  PROVE  Advances(E, I, chain, old, CompileTask(Popped(old), chain, task))
<1> DEFINE cl == Popped(old)
           next == CompileTask(cl, chain, task)
<1>1. task \in Task(E)
  BY ActiveLambda
<1>2. CASE task.do = "compile"
  <2>1. next = CompileExpr(cl, chain, task.expr)
    BY <1>2 DEF CompileTask
  <2>2. task.expr \in E
    BY <1>1, <1>2 DEF Task
  <2>3. Expanding(E, I, chain, old)
    BY <1>2 DEF Expanding
  <2> QED
    BY <1>2, <2>1, <2>2, <2>3, ExpressionAdvances
<1>3. CASE task.do = "generate"
  <2>1. next = GenArg(cl, task.op, task.arg)
    BY <1>3 DEF CompileTask
  <2>2. task.op \in GeneratedOp /\ task.arg \in Nat /\ task = ToGenerate(task.op, task.arg)
    BY <1>1, <1>3 DEF Task, ToGenerate
  <2> QED
    BY <2>1, <2>2, GenerateAdvances
<1>4. CASE task.do = "store"
  <2>1. next = StoreSymbol(cl, chain, task.sym)
    BY <1>4 DEF CompileTask
  <2> QED
    BY <1>4, <2>1, StoreAdvances
<1>5. CASE task.do = "store_newest"
  <2>1. next = GenArg(cl, "STORE_LOCAL", cl.var_count - 1)
    BY <1>5 DEF CompileTask
  <2> QED
    BY <1>5, <2>1, StoreNewestAdvances
<1>6. CASE task.do = "branch"
  <2>1. next = CompileBranch(cl, task.true_case, task.false_case)
    BY <1>6 DEF CompileTask
  <2>2. task.true_case \in E /\ task.false_case \in E
    BY <1>1, <1>6 DEF Task
  <2> QED
    BY <1>6, <2>1, <2>2, BranchAdvances
<1>7. CASE task.do = "else"
  <2>1. next = CompileElse(cl, task.at, task.false_case)
    BY <1>7 DEF CompileTask
  <2>2. task.false_case \in E
    BY <1>1, <1>7 DEF Task
  <2> QED
    BY <1>7, <2>1, <2>2, ElseAdvances
<1>8. CASE task.do = "join"
  <2>1. next = BackpatchTarget(cl, task.at)
    BY <1>8 DEF CompileTask
  <2> QED
    BY <1>8, <2>1, JoinAdvances
<1>9. task.do \in {"compile", "generate", "store", "store_newest", "branch", "else", "join"}
  BY <1>1 DEF Task
<1> QED
  BY <1>2, <1>3, <1>4, <1>5, <1>6, <1>7, <1>8, <1>9

-----------------------------------------------------------------------------
(* Names of lambdas: the way to the lambda from the program.               *)

\* The lambda that is n lambdas further out.
Out(id, n) == SubSeq(id, 1, Len(id) - n)

\* The lambda n further out, as a number that is n shorter.
LEMMA OutOf ==
  ASSUME NEW S, NEW id \in Seq(S), NEW n \in 0..Len(id)
  PROVE  /\ Out(id, n) \in Seq(S) /\ Len(Out(id, n)) = Len(id) - n
         /\ \A k \in 1..(Len(id) - n) : Out(id, n)[k] = id[k]
<1>1. Len(id) \in Nat
  BY LenProperties
<1>2. PICK m \in 0..Len(id) : m = Len(id) - n
  <2>1. Len(id) - n \in 0..Len(id)
    BY <1>1
  <2> QED
    BY <2>1
<1>3. \A k \in 1..m : k \in 1..Len(id)
  BY <1>1
<1>4. \A k \in 1..m : id[k] \in S
  BY <1>3, ElementOfSeq
<1>5. SubSeq(id, 1, m) \in Seq(S) /\ Len(SubSeq(id, 1, m)) = m
      /\ \A k \in 1..m : SubSeq(id, 1, m)[k] = id[k]
  BY <1>1, <1>3, SubSeqProperties
<1> QED
  BY <1>2, <1>5 DEF Out

\* No step out stays.
LEMMA OutNone ==
  ASSUME NEW S, NEW id \in Seq(S)
  PROVE  Out(id, 0) = id
<1>1. Len(id) \in Nat /\ 0 \in 0..Len(id) /\ Len(id) - 0 = Len(id)
  BY LenProperties
<1>2. /\ Out(id, 0) \in Seq(S) /\ Len(Out(id, 0)) = Len(id)
      /\ \A k \in 1..Len(id) : Out(id, 0)[k] = id[k]
  BY <1>1, OutOf
<1> QED
  BY <1>2, SeqEqual

\* The first step out of a new lambda leads to the one it is in.
LEMMA OutAppend ==
  ASSUME NEW S, NEW id \in Seq(S), NEW x \in S, NEW n \in 0..Len(id)
  PROVE  Out(Append(id, x), n + 1) = Out(id, n)
<1>1. /\ Len(id) \in Nat /\ Append(id, x) \in Seq(S) /\ Len(Append(id, x)) = Len(id) + 1
      /\ \A k \in 1..Len(id) : Append(id, x)[k] = id[k]
  BY LenProperties, AppendProperties
<1>2. PICK longer \in Seq(S) : longer = Append(id, x)
  BY <1>1
<1>3. n + 1 \in 0..Len(longer) /\ Len(longer) - (n + 1) = Len(id) - n
  BY <1>1, <1>2
<1>4. /\ Out(longer, n + 1) \in Seq(S) /\ Len(Out(longer, n + 1)) = Len(id) - n
      /\ \A k \in 1..(Len(id) - n) : Out(longer, n + 1)[k] = longer[k]
  BY <1>3, OutOf
<1>5. /\ Out(id, n) \in Seq(S) /\ Len(Out(id, n)) = Len(id) - n
      /\ \A k \in 1..(Len(id) - n) : Out(id, n)[k] = id[k]
  BY OutOf
<1>6. \A k \in 1..(Len(id) - n) : k \in 1..Len(id)
  BY <1>1
<1>7. \A k \in 1..(Len(id) - n) : Out(longer, n + 1)[k] = Out(id, n)[k]
  BY <1>1, <1>2, <1>4, <1>5, <1>6
<1>8. Out(longer, n + 1) = Out(id, n)
  BY <1>4, <1>5, <1>7, SeqEqual
<1> QED
  BY <1>2, <1>8

\* Steps out add up.
LEMMA OutOut ==
  ASSUME NEW S, NEW id \in Seq(S), NEW m \in 0..Len(id), NEW n \in 0..(Len(id) - m)
  PROVE  Out(Out(id, m), n) = Out(id, m + n)
<1>1. Len(id) \in Nat
  BY LenProperties
<1>2. PICK mid \in Seq(S) : /\ mid = Out(id, m) /\ Len(mid) = Len(id) - m
                            /\ \A k \in 1..(Len(id) - m) : mid[k] = id[k]
  BY OutOf
<1>3. n \in 0..Len(mid) /\ m + n \in 0..Len(id) /\ Len(mid) - n = Len(id) - (m + n)
  BY <1>1, <1>2
<1>4. /\ Out(mid, n) \in Seq(S) /\ Len(Out(mid, n)) = Len(id) - (m + n)
      /\ \A k \in 1..(Len(id) - (m + n)) : Out(mid, n)[k] = mid[k]
  BY <1>3, OutOf
<1>5. /\ Out(id, m + n) \in Seq(S) /\ Len(Out(id, m + n)) = Len(id) - (m + n)
      /\ \A k \in 1..(Len(id) - (m + n)) : Out(id, m + n)[k] = id[k]
  BY <1>3, OutOf
<1>6. \A k \in 1..(Len(id) - (m + n)) : k \in 1..(Len(id) - m)
  BY <1>1
<1>7. \A k \in 1..(Len(id) - (m + n)) : Out(mid, n)[k] = Out(id, m + n)[k]
  BY <1>2, <1>4, <1>5, <1>6
<1>8. Out(mid, n) = Out(id, m + n)
  BY <1>4, <1>5, <1>7, SeqEqual
<1> QED
  BY <1>2, <1>8

\* A number is that of the lambda around it and its last part.
LEMMA OutLast ==
  ASSUME NEW S, NEW id \in Seq(S), id # << >>
  PROVE  /\ 1 \in 0..Len(id) /\ Len(id) \in 1..Len(id) /\ id[Len(id)] \in S
         /\ id = Append(Out(id, 1), id[Len(id)])
<1>1. Len(id) \in Nat \ {0}
  BY LenProperties, EmptySeq
<1>2. PICK n \in Nat \ {0} : n = Len(id)
  BY <1>1
<1>3. 1 \in 0..n /\ n \in 1..n
  OBVIOUS
<1>4. PICK x \in S : x = id[n]
  BY <1>2, <1>3, ElementOfSeq
<1>5. PICK front \in Seq(S) : /\ front = Out(id, 1) /\ Len(front) = n - 1
                              /\ \A k \in 1..(n - 1) : front[k] = id[k]
  <2>1. 1 \in 0..Len(id)
    BY <1>2, <1>3
  <2>2. /\ Out(id, 1) \in Seq(S) /\ Len(Out(id, 1)) = Len(id) - 1
        /\ \A k \in 1..(Len(id) - 1) : Out(id, 1)[k] = id[k]
    BY <2>1, OutOf
  <2> QED
    BY <1>2, <2>2
<1>6. /\ Append(front, x) \in Seq(S) /\ Len(Append(front, x)) = Len(front) + 1
      /\ \A k \in 1..Len(front) : Append(front, x)[k] = front[k]
      /\ Append(front, x)[Len(front) + 1] = x
  BY AppendProperties
<1>7. Len(Append(front, x)) = n /\ \A k \in 1..n : k \in 1..(n - 1) \/ k = n
  BY <1>5, <1>6
<1>8. (n - 1) + 1 = n
  OBVIOUS
<1>9. \A k \in 1..n : Append(front, x)[k] = id[k]
  BY <1>4, <1>5, <1>6, <1>7, <1>8
<1>10. Append(front, x) = id
  BY <1>2, <1>6, <1>7, <1>9, SeqEqual
<1> QED
  BY <1>2, <1>3, <1>4, <1>5, <1>10

-----------------------------------------------------------------------------
(* The compiler.                                                           *)

\* Names of the lambdas of the program `root`.
Ids(root) == {id \in Seq({root} \cup Nat) : id # << >> /\ id[1] = root}

Lambda(E, I) ==
  [code : Seq(Instruction), literals : Seq(LiteralIn(E, I)), arg_count : Nat, var_count : Nat]

\* What is built of a lambda that is finished.
Ended(code) ==
  \E body : Working(body, << >>, 0) /\ code = Append(body, [op |-> "RETURN", offset |-> 0, arg |-> 0])

Begun(chain) == {chain[k].id : k \in 1..Len(chain)}
Present(chain, table) == DOMAIN table \cup Begun(chain)

\* Each lambda on the chain becomes the next literal of the one around it.
Nesting(chain) ==
  \A k \in 1..Len(chain) :
    /\ Len(chain[k].id) = k
    /\ \A n \in 0..(k - 1) : Out(chain[k].id, n) = chain[k - n].id
    /\ k < Len(chain) => chain[k + 1].id = Append(chain[k].id, Len(chain[k].literals) + 1)

Compiling(E, I, chain, table) ==
  /\ chain \in Seq(Construction(E, I))
  /\ \A k \in 1..Len(chain) : Built(chain[k], IF k = Len(chain) THEN 0 ELSE 1)
  /\ Nesting(chain)
  /\ DOMAIN table \subseteq I
  /\ \A id \in DOMAIN table : table[id] \in Lambda(E, I) /\ Ended(table[id].code)
  /\ DOMAIN table \cap Begun(chain) = {}

\* The lambda, finished or not.
Part(chain, table, id) == IF id \in DOMAIN table THEN table[id] ELSE chain[Len(id)]

NamedAt(E, chain, table, id, instr) ==
  /\ instr.offset \in 0..(Len(id) - 1)
  /\ Names(E, id, Part(chain, table, id), Part(chain, table, Out(id, instr.offset)), instr)

HasLambda(outer, id) ==
  /\ id[Len(id)] \in 1..Len(outer.literals)
  /\ outer.literals[id[Len(id)]] = LambdaLiteral(id)

LiteralKnown(E, table, id, j, literal) ==
  literal \in E \/ (literal = LambdaLiteral(Append(id, j)) /\ Append(id, j) \in DOMAIN table)

\* The lambdas around each lambda are there, all that its instructions name, and
\* what its literals stand for; and each lambda is a literal of the one around it.
Textual(E, chain, table) ==
  \A id \in Present(chain, table) :
    /\ \A n \in 0..(Len(id) - 1) : Out(id, n) \in Present(chain, table)
    /\ \A i \in 1..Len(Part(chain, table, id).code) :
         NamedAt(E, chain, table, id, Part(chain, table, id).code[i])
    /\ \A j \in 1..Len(Part(chain, table, id).literals) :
         LiteralKnown(E, table, id, j, Part(chain, table, id).literals[j])
    /\ id \in DOMAIN table /\ Len(id) > 1 => HasLambda(Part(chain, table, Out(id, 1)), id)

\* The fields of a lambda, finished or not.
LEMMA PartFields ==
  ASSUME NEW E, NEW I, NEW chain, NEW table, Compiling(E, I, chain, table), NEW id \in Present(chain, table)
  PROVE  /\ id \in I
         /\ Part(chain, table, id).code \in Seq(Instruction)
         /\ Part(chain, table, id).literals \in Seq(LiteralIn(E, I))
         /\ Part(chain, table, id).arg_count \in Nat /\ Part(chain, table, id).var_count \in Nat
         /\ Len(Part(chain, table, id).code) \in Nat /\ Len(Part(chain, table, id).literals) \in Nat
<1>1. CASE id \in DOMAIN table
  <2>1. PICK lambda \in Lambda(E, I) : lambda = table[id]
    BY <1>1 DEF Compiling
  <2>2. Part(chain, table, id) = lambda
    BY <1>1, <2>1 DEF Part
  <2> QED
    BY <1>1, <2>2, LenProperties DEF Lambda, Compiling
<1>2. CASE id \notin DOMAIN table
  <2>1. PICK k \in 1..Len(chain) : id = chain[k].id
    BY <1>2 DEF Present, Begun
  <2>2. PICK cl \in Construction(E, I) : cl = chain[k]
    BY <2>1, ElementOfSeq DEF Compiling
  <2>3. Len(id) = k
    BY <2>1 DEF Compiling, Nesting
  <2>4. Part(chain, table, id) = cl
    BY <1>2, <2>2, <2>3 DEF Part
  <2> QED
    BY <2>1, <2>2, <2>4, ConstructionFields
<1> QED
  BY <1>1, <1>2

\* The lambdas of the chain are unfinished, and their place is the length of
\* their number.
LEMMA PartOnChain ==
  ASSUME NEW E, NEW I, NEW chain, NEW table, Compiling(E, I, chain, table), NEW k \in 1..Len(chain)
  PROVE  /\ Part(chain, table, chain[k].id) = chain[k] /\ chain[k].id \in Present(chain, table)
         /\ chain[k].id \notin DOMAIN table /\ Len(chain[k].id) = k
<1>1. chain[k].id \in Begun(chain)
  BY DEF Begun
<1> QED
  BY <1>1 DEF Compiling, Nesting, Part, Present

\* Nothing that an instruction has named goes away.
Continued(lambda, later) ==
  /\ later.arg_count = lambda.arg_count /\ later.var_count >= lambda.var_count
  /\ Len(later.literals) >= Len(lambda.literals)
  /\ \A j \in 1..Len(lambda.literals) : later.literals[j] = lambda.literals[j]

\* What an instruction names stays there when its lambda and the one it names
\* grow.
LEMMA NamesGrow ==
  ASSUME NEW E, NEW id, NEW own, NEW later_own, NEW target, NEW later_target, NEW instr,
         Continued(own, later_own), Continued(target, later_target), Names(E, id, own, target, instr),
         Len(own.literals) \in Nat, Len(later_own.literals) \in Nat,
         target.var_count \in Nat, later_target.var_count \in Nat
  PROVE  Names(E, id, later_own, later_target, instr)
<1>1. \A n \in 1..Len(own.literals) :
        n \in 1..Len(later_own.literals) /\ later_own.literals[n] = own.literals[n]
  BY DEF Continued
<1>2. \A n \in 0..(target.var_count - 1) : n \in 0..(later_target.var_count - 1)
  BY DEF Continued
<1>3. later_target.arg_count = target.arg_count
  BY DEF Continued
<1> QED
  BY <1>1, <1>2, <1>3 DEF Names

\* The same instruction names the same things.
LEMMA NamesSame ==
  ASSUME NEW E, NEW id, NEW own, NEW target, NEW a, NEW b, SameInstruction(a, b),
         Names(E, id, own, target, b)
  PROVE  Names(E, id, own, target, a)
<1>1. CASE a.op \in JumpOp
  BY <1>1 DEF Names, SameInstruction, JumpOp
<1>2. CASE a.op \notin JumpOp
  BY <1>2 DEF Names, SameInstruction
<1> QED
  BY <1>1, <1>2

\* Textual survives a step in which lambdas only grow, if what is new in them
\* names what exists.
LEMMA TextGrows ==
  ASSUME NEW E, NEW I, NEW chain, NEW table, Compiling(E, I, chain, table), Textual(E, chain, table),
         NEW later, NEW tables, Compiling(E, I, later, tables),
         DOMAIN table \subseteq DOMAIN tables, Present(chain, table) \subseteq Present(later, tables),
         \A id \in Present(chain, table) : Continued(Part(chain, table, id), Part(later, tables, id)),
         \A id \in Present(later, tables) :
           /\ id \notin Present(chain, table) =>
                \A n \in 0..(Len(id) - 1) : Out(id, n) \in Present(later, tables)
           /\ \A i \in 1..Len(Part(later, tables, id).code) :
                \/ /\ id \in Present(chain, table) /\ i \in 1..Len(Part(chain, table, id).code)
                   /\ SameInstruction(Part(later, tables, id).code[i], Part(chain, table, id).code[i])
                \/ NamedAt(E, later, tables, id, Part(later, tables, id).code[i])
           /\ \A j \in 1..Len(Part(later, tables, id).literals) :
                \/ id \in Present(chain, table) /\ j \in 1..Len(Part(chain, table, id).literals)
                \/ LiteralKnown(E, tables, id, j, Part(later, tables, id).literals[j])
           /\ id \in DOMAIN tables \ DOMAIN table /\ Len(id) > 1 =>
                HasLambda(Part(later, tables, Out(id, 1)), id)
  PROVE  Textual(E, later, tables)
<1>1. SUFFICES ASSUME NEW id \in Present(later, tables)
               PROVE  /\ \A n \in 0..(Len(id) - 1) : Out(id, n) \in Present(later, tables)
                      /\ \A i \in 1..Len(Part(later, tables, id).code) :
                           NamedAt(E, later, tables, id, Part(later, tables, id).code[i])
                      /\ \A j \in 1..Len(Part(later, tables, id).literals) :
                           LiteralKnown(E, tables, id, j, Part(later, tables, id).literals[j])
                      /\ id \in DOMAIN tables /\ Len(id) > 1 => HasLambda(Part(later, tables, Out(id, 1)), id)
  BY DEF Textual
<1>2. \A n \in 0..(Len(id) - 1) : Out(id, n) \in Present(later, tables)
  BY DEF Textual
<1>3. ASSUME NEW i \in 1..Len(Part(later, tables, id).code)
      PROVE  NamedAt(E, later, tables, id, Part(later, tables, id).code[i])
  <2>1. SUFFICES ASSUME id \in Present(chain, table), i \in 1..Len(Part(chain, table, id).code),
                        SameInstruction(Part(later, tables, id).code[i], Part(chain, table, id).code[i])
                 PROVE  NamedAt(E, later, tables, id, Part(later, tables, id).code[i])
    OBVIOUS
  <2>2. PICK a : a = Part(later, tables, id).code[i]
    OBVIOUS
  <2>3. PICK b : b = Part(chain, table, id).code[i]
    OBVIOUS
  <2>4. NamedAt(E, chain, table, id, b)
    BY <2>1, <2>3 DEF Textual
  <2>5. a.offset = b.offset /\ SameInstruction(a, b)
    BY <2>1, <2>2, <2>3 DEF SameInstruction
  <2>6. PICK out : out = Out(id, b.offset)
    OBVIOUS
  <2>7. out \in Present(chain, table)
    BY <2>1, <2>4, <2>6 DEF Textual, NamedAt
  <2>8. /\ Len(Part(chain, table, id).literals) \in Nat /\ Len(Part(later, tables, id).literals) \in Nat
        /\ Part(chain, table, out).var_count \in Nat /\ Part(later, tables, out).var_count \in Nat
    BY <2>1, <2>7, PartFields
  <2>9. Names(E, id, Part(chain, table, id), Part(chain, table, out), b)
    BY <2>4, <2>6 DEF NamedAt
  <2>10. Names(E, id, Part(later, tables, id), Part(later, tables, out), b)
    BY <2>1, <2>7, <2>8, <2>9, NamesGrow
  <2>11. Names(E, id, Part(later, tables, id), Part(later, tables, out), a)
    BY <2>5, <2>10, NamesSame
  <2> QED
    BY <2>2, <2>4, <2>5, <2>6, <2>11 DEF NamedAt
<1>4. ASSUME NEW j \in 1..Len(Part(later, tables, id).literals)
      PROVE  LiteralKnown(E, tables, id, j, Part(later, tables, id).literals[j])
  <2>1. SUFFICES ASSUME id \in Present(chain, table), j \in 1..Len(Part(chain, table, id).literals)
                 PROVE  LiteralKnown(E, tables, id, j, Part(later, tables, id).literals[j])
    OBVIOUS
  <2>2. Part(later, tables, id).literals[j] = Part(chain, table, id).literals[j]
    BY <2>1 DEF Continued
  <2>3. LiteralKnown(E, table, id, j, Part(chain, table, id).literals[j])
    BY <2>1 DEF Textual
  <2> QED
    BY <2>2, <2>3 DEF LiteralKnown
<1>5. ASSUME id \in DOMAIN tables, Len(id) > 1 PROVE HasLambda(Part(later, tables, Out(id, 1)), id)
  <2>1. SUFFICES ASSUME id \in DOMAIN table
                 PROVE  HasLambda(Part(later, tables, Out(id, 1)), id)
    BY <1>5
  <2>2. id \in Present(chain, table)
    BY <2>1 DEF Present
  <2>3. HasLambda(Part(chain, table, Out(id, 1)), id)
    BY <1>5, <2>1, <2>2 DEF Textual
  <2>4. Out(id, 1) \in Present(chain, table)
    <3>1. 1 \in 0..(Len(id) - 1)
      <4>1. id \in I
        BY <2>2, PartFields
      <4> QED
        BY <1>5
    <3> QED
      BY <2>2, <3>1 DEF Textual
  <2>5. PICK outer : outer = Part(chain, table, Out(id, 1))
    OBVIOUS
  <2>6. PICK now : now = Part(later, tables, Out(id, 1))
    OBVIOUS
  <2>7. Continued(outer, now) /\ Len(outer.literals) \in Nat /\ Len(now.literals) \in Nat
    BY <2>4, <2>5, <2>6, PartFields
  <2>8. HasLambda(now, id)
    BY <2>3, <2>5, <2>7 DEF HasLambda, Continued
  <2> QED
    BY <2>6, <2>8
<1> QED
  BY <1>2, <1>3, <1>4, <1>5

Replaced(chain, cl) == [chain EXCEPT ![Len(chain)] = cl]

\* A lambda continues itself.
LEMMA GrownItself ==
  ASSUME NEW lambda, lambda.var_count \in Nat, Len(lambda.literals) \in Nat
  PROVE  Continued(lambda, lambda)
  BY DEF Continued

\* The last lambda of the chain is another one than the others.
LEMMA LastOfChain ==
  ASSUME NEW E, NEW I, NEW chain, NEW table, Compiling(E, I, chain, table), chain # << >>,
         NEW n, n = Len(chain)
  PROVE  /\ n \in Nat \ {0} /\ n \in 1..n /\ chain[n] \in Construction(E, I)
         /\ \A id \in Present(chain, table) : id # chain[n].id =>
              \/ id \in DOMAIN table
              \/ id \notin DOMAIN table /\ Len(id) \in 1..(n - 1) /\ id = chain[Len(id)].id
<1>1. n \in Nat \ {0}
  BY EmptySeq, LenProperties DEF Compiling
<1>2. chain[n] \in Construction(E, I)
  BY <1>1, ElementOfSeq DEF Compiling
<1>3. ASSUME NEW id \in Present(chain, table), id # chain[n].id, id \notin DOMAIN table
      PROVE  Len(id) \in 1..(n - 1) /\ id = chain[Len(id)].id
  <2>1. PICK k \in 1..n : id = chain[k].id
    BY <1>3 DEF Present, Begun
  <2>2. Len(id) = k /\ k # n
    BY <1>3, <2>1 DEF Compiling, Nesting
  <2> QED
    BY <1>1, <2>1, <2>2
<1> QED
  BY <1>1, <1>2, <1>3

\* The last lambda of the chain becomes `cl`.
LEMMA LastReplaced ==
  ASSUME NEW E, NEW I, NEW chain, NEW table, Compiling(E, I, chain, table), chain # << >>,
         NEW n, n = Len(chain), NEW cl \in Construction(E, I), cl.id = chain[n].id,
         NEW later, later = Replaced(chain, cl)
  PROVE  /\ later \in Seq(Construction(E, I)) /\ Len(later) = n /\ later[n] = cl
         /\ \A k \in 1..(n - 1) : later[k] = chain[k]
         /\ \A k \in 1..n : later[k].id = chain[k].id
         /\ Begun(later) = Begun(chain) /\ Present(later, table) = Present(chain, table)
         /\ Nesting(later)
         /\ Part(later, table, cl.id) = cl
         /\ \A id \in Present(chain, table) : id # cl.id =>
              Part(later, table, id) = Part(chain, table, id)
<1>1. n \in Nat \ {0} /\ n \in 1..n /\ chain[n] \in Construction(E, I) /\ chain \in Seq(Construction(E, I))
  BY LastOfChain DEF Compiling
<1>2. later \in Seq(Construction(E, I)) /\ Len(later) = n /\ \A k \in 1..n : later[k] = IF k = n THEN cl ELSE chain[k]
  BY <1>1, ExceptSeq DEF Replaced
<1>3. \A k \in 1..(n - 1) : later[k] = chain[k]
  <2>1. \A k \in 1..(n - 1) : k \in 1..n /\ k # n
    BY <1>1
  <2> QED
    BY <1>2, <2>1
<1>4. \A k \in 1..n : later[k].id = chain[k].id
  BY <1>2
<1>5. Begun(later) = Begun(chain)
  BY <1>2, <1>4 DEF Begun
<1>6. Nesting(later)
  <2>1. Nesting(chain)
    BY DEF Compiling
  <2>2. ASSUME NEW k \in 1..n
        PROVE  /\ Len(later[k].id) = k
               /\ \A m \in 0..(k - 1) : Out(later[k].id, m) = later[k - m].id
               /\ k < n => later[k + 1].id = Append(later[k].id, Len(later[k].literals) + 1)
    <3>1. /\ Len(chain[k].id) = k
          /\ \A m \in 0..(k - 1) : Out(chain[k].id, m) = chain[k - m].id
          /\ k < n => chain[k + 1].id = Append(chain[k].id, Len(chain[k].literals) + 1)
      BY <2>1 DEF Nesting
    <3>2. \A m \in 0..(k - 1) : k - m \in 1..n
      BY <1>1
    <3>3. k < n => k \in 1..(n - 1) /\ k + 1 \in 1..n
      BY <1>1
    <3> QED
      BY <1>3, <1>4, <3>1, <3>2, <3>3
  <2> QED
    BY <1>2, <2>2 DEF Nesting
<1>7. Part(later, table, cl.id) = cl
  <2>1. cl.id \notin DOMAIN table /\ Len(cl.id) = n
    BY <1>1, PartOnChain
  <2> QED
    BY <1>1, <1>2, <2>1 DEF Part
<1>8. ASSUME NEW id \in Present(chain, table), id # cl.id
      PROVE  Part(later, table, id) = Part(chain, table, id)
  <2>1. \/ id \in DOMAIN table
        \/ id \notin DOMAIN table /\ Len(id) \in 1..(n - 1)
    BY <1>8, LastOfChain
  <2> QED
    BY <1>3, <2>1 DEF Part
<1> QED
  BY <1>1, <1>2, <1>3, <1>4, <1>5, <1>6, <1>7, <1>8 DEF Present

\* What a lambda names once it is changed.
LEMMA LiesThere ==
  ASSUME NEW E, NEW I, NEW chain, NEW table, Compiling(E, I, chain, table), chain # << >>,
         NEW n, n = Len(chain), NEW cl \in Construction(E, I), cl.id = chain[n].id,
         NEW later, later = Replaced(chain, cl), NEW instr, Lies(E, chain, cl, instr)
  PROVE  NamedAt(E, later, table, cl.id, instr)
<1>1. n \in Nat \ {0} /\ n \in 1..n
  BY LastOfChain
<1>2. PICK offset \in 0..(n - 1) : offset = instr.offset
  BY DEF Lies
<1>3. Len(cl.id) = n /\ Out(cl.id, offset) = chain[n - offset].id
  BY <1>1 DEF Compiling, Nesting
<1>4. PICK k \in 1..n : k = n - offset /\ (offset # 0 => k # n)
  <2>1. n - offset \in 1..n /\ (offset # 0 => n - offset # n)
    BY <1>1
  <2> QED
    BY <2>1
<1>5. Part(later, table, cl.id) = cl
  BY LastReplaced
<1>6. Part(later, table, Out(cl.id, offset)) = IF offset = 0 THEN cl ELSE chain[n - offset]
  <2>1. CASE offset = 0
    <3>1. k = n
      BY <1>1, <1>4, <2>1
    <3> QED
      BY <1>3, <1>4, <1>5, <2>1, <3>1
  <2>2. CASE offset # 0
    <3>1. /\ Part(chain, table, chain[k].id) = chain[k] /\ chain[k].id \in Present(chain, table)
          /\ Len(chain[k].id) = k
      BY PartOnChain
    <3>2. chain[k].id # cl.id
      BY <1>3, <1>4, <2>2, <3>1
    <3>3. Part(later, table, chain[k].id) = chain[k]
      BY <3>1, <3>2, LastReplaced
    <3> QED
      BY <1>3, <1>4, <2>2, <3>3
  <2> QED
    BY <2>1, <2>2
<1>7. Names(E, cl.id, cl, IF offset = 0 THEN cl ELSE chain[n - offset], instr)
  BY <1>2 DEF Lies
<1> QED
  BY <1>2, <1>3, <1>5, <1>6, <1>7 DEF NamedAt

\* A task is done.
LEMMA TaskStep ==
  ASSUME NEW E, NEW I, NEW chain, NEW table, Compiling(E, I, chain, table), Textual(E, chain, table),
         chain # << >>, NEW n, n = Len(chain), NEW cl, Advances(E, I, chain, chain[n], cl),
         NEW later, later = Replaced(chain, cl)
  PROVE  Compiling(E, I, later, table) /\ Textual(E, later, table)
<1>1. n \in Nat \ {0} /\ n \in 1..n /\ chain[n] \in Construction(E, I)
  BY LastOfChain
<1>2. cl \in Construction(E, I) /\ cl.id = chain[n].id /\ Built(cl, 0) /\ Continues(E, chain, chain[n], cl)
  BY DEF Advances, Continues
<1>3. /\ later \in Seq(Construction(E, I)) /\ Len(later) = n /\ later[n] = cl
      /\ \A k \in 1..(n - 1) : later[k] = chain[k]
      /\ Begun(later) = Begun(chain) /\ Present(later, table) = Present(chain, table)
      /\ Nesting(later)
      /\ Part(later, table, cl.id) = cl
      /\ \A id \in Present(chain, table) : id # cl.id =>
           Part(later, table, id) = Part(chain, table, id)
  BY <1>2, LastReplaced
<1>4. Compiling(E, I, later, table)
  <2>1. ASSUME NEW k \in 1..n PROVE Built(later[k], IF k = n THEN 0 ELSE 1)
    <3>1. CASE k = n
      BY <1>2, <1>3, <3>1
    <3>2. CASE k # n
      <4>1. k \in 1..(n - 1)
        BY <1>1, <3>2
      <4>2. Built(chain[k], 1)
        BY <3>2 DEF Compiling
      <4> QED
        BY <1>3, <3>2, <4>1, <4>2
    <3> QED
      BY <3>1, <3>2
  <2> QED
    BY <1>3, <2>1 DEF Compiling
<1>5. Part(chain, table, cl.id) = chain[n] /\ cl.id \notin DOMAIN table
  BY <1>1, <1>2, PartOnChain
<1>6. ASSUME NEW id \in Present(chain, table)
      PROVE  Continued(Part(chain, table, id), Part(later, table, id))
  <2>1. CASE id = cl.id
    <3>1. Len(chain[n].literals) \in Nat /\ Len(cl.literals) \in Nat
      BY <1>1, <1>2, ConstructionFields
    <3>2. Continued(chain[n], cl)
      BY <1>2, <3>1 DEF Continues, Continued
    <3> QED
      BY <1>3, <1>5, <2>1, <3>2
  <2>2. CASE id # cl.id
    BY <1>3, <2>2, PartFields, GrownItself
  <2> QED
    BY <2>1, <2>2
<1>7. ASSUME NEW id \in Present(chain, table), NEW i \in 1..Len(Part(later, table, id).code)
      PROVE  \/ /\ id \in Present(chain, table) /\ i \in 1..Len(Part(chain, table, id).code)
                /\ SameInstruction(Part(later, table, id).code[i], Part(chain, table, id).code[i])
             \/ NamedAt(E, later, table, id, Part(later, table, id).code[i])
  <2>1. CASE id = cl.id
    <3>1. Len(chain[n].code) \in Nat
      BY <1>1, ConstructionFields
    <3>2. i \in 1..Len(cl.code)
      BY <1>3, <2>1
    <3>3. CASE i <= Len(chain[n].code)
      <4>1. i \in 1..Len(chain[n].code) /\ SameInstruction(cl.code[i], chain[n].code[i])
        BY <1>2, <3>1, <3>2, <3>3 DEF Continues
      <4> QED
        BY <1>3, <1>5, <2>1, <4>1
    <3>4. CASE ~(i <= Len(chain[n].code))
      <4>1. Lies(E, chain, cl, cl.code[i])
        BY <1>2, <3>2, <3>4 DEF Continues
      <4>2. NamedAt(E, later, table, cl.id, cl.code[i])
        BY <1>2, <4>1, LiesThere
      <4> QED
        BY <1>3, <2>1, <4>2
    <3> QED
      BY <3>3, <3>4
  <2>2. CASE id # cl.id
    BY <1>3, <2>2, SameInstructionItself
  <2> QED
    BY <2>1, <2>2
<1>8. ASSUME NEW id \in Present(chain, table), NEW j \in 1..Len(Part(later, table, id).literals)
      PROVE  \/ id \in Present(chain, table) /\ j \in 1..Len(Part(chain, table, id).literals)
             \/ LiteralKnown(E, table, id, j, Part(later, table, id).literals[j])
  <2>1. CASE id = cl.id
    <3>1. Len(chain[n].literals) \in Nat /\ Len(cl.literals) \in Nat
      BY <1>1, <1>2, ConstructionFields
    <3>2. j \in 1..Len(cl.literals)
      BY <1>3, <2>1
    <3>3. CASE j <= Len(chain[n].literals)
      <4>1. j \in 1..Len(chain[n].literals)
        BY <3>1, <3>2, <3>3
      <4> QED
        BY <1>5, <2>1, <4>1
    <3>4. CASE ~(j <= Len(chain[n].literals))
      <4>1. cl.literals[j] \in E
        BY <1>2, <3>2, <3>4 DEF Continues
      <4> QED
        BY <1>3, <2>1, <4>1 DEF LiteralKnown
    <3> QED
      BY <3>3, <3>4
  <2>2. CASE id # cl.id
    BY <1>3, <2>2
  <2> QED
    BY <2>1, <2>2
<1>9. Textual(E, later, table)
  BY <1>3, <1>4, <1>6, <1>7, <1>8, TextGrows
<1> QED
  BY <1>4, <1>9

\* The number of a lambda inside another.
LEMMA IdOfChild ==
  ASSUME NEW root, NEW id \in Ids(root), NEW j \in Nat
  PROVE  /\ Append(id, j) \in Ids(root) /\ Len(Append(id, j)) = Len(id) + 1
         /\ Append(id, j)[Len(id) + 1] = j /\ Len(id) \in Nat \ {0}
         /\ Out(Append(id, j), 0) = Append(id, j)
         /\ \A n \in 0..Len(id) : Out(Append(id, j), n + 1) = Out(id, n)
<1> DEFINE S == {root} \cup Nat
<1>1. id \in Seq(S) /\ id # << >> /\ id[1] = root /\ j \in S
  BY DEF Ids
<1>2. Ids(root) = {s \in Seq(S) : s # << >> /\ s[1] = root}
  BY DEF Ids
<1> HIDE DEF S
<1>3. /\ Append(id, j) \in Seq(S) /\ Len(Append(id, j)) = Len(id) + 1
      /\ Append(id, j)[Len(id) + 1] = j
      /\ \A k \in 1..Len(id) : Append(id, j)[k] = id[k]
  BY <1>1, AppendProperties
<1>4. Len(id) \in Nat \ {0}
  BY <1>1, EmptySeq, LenProperties
<1>5. Append(id, j) # << >> /\ Append(id, j)[1] = root
  <2>1. 1 \in 1..Len(id) /\ Len(id) + 1 # 0
    BY <1>4
  <2> QED
    BY <1>1, <1>3, <2>1, EmptySeq
<1>6. \A n \in 0..Len(id) : Out(Append(id, j), n + 1) = Out(id, n)
  BY <1>1, OutAppend
<1>7. PICK longer \in Seq(S) : longer = Append(id, j)
  BY <1>3
<1>8. Out(longer, 0) = longer
  BY OutNone
<1> QED
  BY <1>2, <1>3, <1>4, <1>5, <1>6, <1>7, <1>8

\* One expression is to be compiled.
LEMMA FirstWorking ==
  ASSUME NEW E, NEW expr \in E
  PROVE  /\ <<ToCompile(expr)>> \in Todo(E) /\ ~Defining(<<ToCompile(expr)>>)
         /\ Working(<< >>, <<ToCompile(expr)>>, 0)
<1>1. PICK task \in Task(E) : /\ task = ToCompile(expr) /\ Takes(task) = 0 /\ Leaves(task) = 1
                              /\ task.do = "compile"
  BY ValueTask
<1>2. PICK todo \in Todo(E) : todo = <<task>> /\ Len(todo) = 1 /\ todo[1] = task
  <2> DEFINE S == Task(E)
  <2>1. task \in S
    OBVIOUS
  <2> HIDE DEF S
  <2>2. <<task>> \in Seq(S)
    BY <2>1
  <2> QED
    BY <2>2 DEF Todo, S
<1>3. \A k \in 1..1 : k = 1
  OBVIOUS
<1>4. ~Defining(todo)
  BY <1>1, <1>2, <1>3 DEF Defining
<1>5. PICK want \in Heights : want = [k \in Nat |-> IF k = 0 THEN 1 ELSE 0]
  BY DEF Heights
<1>6. PICK depths \in Heights : depths = [k \in Nat |-> 0]
  BY DEF Heights
<1>7. want[0] = 1 /\ want[1] = 0 /\ depths[1] = 0
  BY <1>5, <1>6
<1>8. PICK code \in Seq(Instruction) : code = << >> /\ Len(code) = 0
  BY EmptySeq
<1>9. TaskAt(todo, 1) = task
  BY <1>2 DEF TaskAt
<1>10. Plan(code, todo, depths, want)
  <2>1. \A r \in 1..Len(todo) : Balances(TaskAt(todo, r), want[r], want[r - 1])
    <3>1. Balances(task, want[1], want[0])
      BY <1>1, <1>7 DEF Balances
    <3>2. 1 - 1 = 0
      OBVIOUS
    <3> QED
      BY <1>2, <1>3, <1>9, <3>1, <3>2
  <2>2. \A r \in 1..Len(todo) : ~IsJumpTask(TaskAt(todo, r))
    BY <1>1, <1>2, <1>3, <1>9 DEF IsJumpTask
  <2>3. \A i \in 1..Len(code) : FALSE
    BY <1>8
  <2>4. \A j \in 2..(Len(code) + 1) : FALSE
    BY <1>8
  <2> QED
    BY <1>7, <2>1, <2>2, <2>3, <2>4 DEF Plan
<1>11. want[Len(todo)] = depths[Len(code) + 1] + 0
  BY <1>2, <1>7, <1>8
<1>12. Working(code, todo, 0)
  BY <1>10, <1>11 DEF Working
<1> QED
  BY <1>1, <1>2, <1>4, <1>8, <1>12

\* A lambda just begun.
LEMMA NewConstruction ==
  ASSUME NEW E, NEW I, NEW id \in I, NEW names \in Seq(STRING), NEW expr \in E, NEW cl,
         cl = NewLambda(id, names, <<ToCompile(expr)>>)
  PROVE  /\ cl \in Construction(E, I) /\ Built(cl, 0) /\ cl.id = id
         /\ Len(cl.code) = 0 /\ Len(cl.literals) = 0
<1>1. PICK todo \in Todo(E) : todo = <<ToCompile(expr)>> /\ ~Defining(todo) /\ Working(<< >>, todo, 0)
  BY FirstWorking
<1>2. PICK count \in Nat : count = Len(names)
  BY LenProperties
<1>3. PICK code \in Seq(Instruction) : code = << >> /\ Len(code) = 0
  BY EmptySeq
<1>4. PICK literals \in Seq(LiteralIn(E, I)) : literals = << >> /\ Len(literals) = 0
  BY EmptySeq
<1>5. cl = [id |-> id, code |-> code, literals |-> literals, names |-> names,
            arg_count |-> count, var_count |-> 0, todo |-> todo]
  BY <1>1, <1>2, <1>3, <1>4 DEF NewLambda
<1>6. cl \in Construction(E, I)
  BY <1>5 DEF Construction
<1>7. Built(cl, 0)
  BY <1>1, <1>2, <1>3, <1>5 DEF Built
<1> QED
  BY <1>3, <1>4, <1>5, <1>6, <1>7

\* The argument names and the body of a lambda.
LEMMA LambdaParts ==
  ASSUME NEW E, Expressions(E), NEW expr \in E, IsLambda(expr), NEW operands, operands = Tail(expr.items)
  PROVE  ArgNames(operands[1]) \in Seq(STRING) /\ Body(operands) \in E
<1>1. expr.type = "list" /\ Len(expr.items) >= 2
  BY DEF IsLambda, IsInlined
<1>2. expr.items \in Seq(E) /\ expr.items # << >> /\ Len(expr.items) \in Nat
  BY <1>1, ExpressionKinds, LenProperties
<1>3. operands[1] = expr.items[2] /\ expr.items[2] \in E
  <2>1. Len(operands) = Len(expr.items) - 1 /\ \A i \in 1..Len(operands) : operands[i] = expr.items[i + 1]
    BY <1>2, HeadTailProperties
  <2>2. 1 \in 1..Len(operands) /\ 1 + 1 = 2 /\ 2 \in 1..Len(expr.items)
    BY <1>1, <1>2, <2>1
  <2> QED
    BY <1>2, <2>1, <2>2, ElementOfSeq
<1>4. PICK list \in E : list = operands[1]
  BY <1>3
<1>5. PICK items \in Seq(E) : items = Items(list)
  <2>1. Items(list) \in Seq(E)
    BY ExpressionKinds, EmptySeq DEF Items
  <2> QED
    BY <2>1
<1>6. \A i \in DOMAIN items : IsSym(items[i])
  BY <1>3, <1>4, <1>5 DEF Expressions
<1>7. PICK n \in Nat : n = Len(items) /\ DOMAIN items = 1..n
  BY LenProperties
<1>8. \A i \in 1..n : items[i].sym \in STRING
  <2>1. \A i \in 1..n : items[i] \in E
    BY <1>7, ElementOfSeq
  <2> QED
    BY <1>6, <1>7, <2>1, ExpressionKinds DEF IsSym
<1>9. ArgNames(list) = [i \in 1..n |-> items[i].sym]
  BY <1>5, <1>7 DEF ArgNames
<1>10. ArgNames(list) \in Seq(STRING)
  <2>1. [i \in 1..n |-> items[i].sym] \in [1..n -> STRING]
    BY <1>8
  <2> QED
    BY <1>9, <2>1, SeqDef
<1> QED
  BY <1>4, <1>10 DEF Expressions

\* The name of the lambda that becomes the next literal of `outer`.
IdWithin(outer) == Append(outer.id, Len(outer.literals) + 1)

\* The lambdas around a lambda in the lambda that is called `around`.
IsWithin(id, around) ==
  /\ Out(id, 0) = id
  /\ \A m \in 0..Len(around) : Out(id, m + 1) = Out(around, m)

WithLambda(chain, cl, child) == Append(Replaced(chain, cl), child)

\* A lambda in the last lambda of the chain has another name than those that
\* are there.
LEMMA ChildIsNew ==
  ASSUME NEW E, NEW root, NEW chain, NEW table, Compiling(E, Ids(root), chain, table), Textual(E, chain, table),
         chain # << >>, NEW n, n = Len(chain),
         NEW id, id = IdWithin(chain[n])
  PROVE  /\ id \in Ids(root) /\ Len(id) = n + 1 /\ id \notin Present(chain, table)
         /\ IsWithin(id, chain[n].id)
         /\ id[n + 1] = Len(chain[n].literals) + 1
<1> DEFINE I == Ids(root)
<1>1. n \in Nat \ {0} /\ n \in 1..n /\ chain[n] \in Construction(E, I)
  BY LastOfChain
<1>2. PICK outer \in I : outer = chain[n].id /\ Len(outer) = n
  BY <1>1, ConstructionFields DEF Compiling, Nesting
<1>3. PICK j \in Nat : j = Len(chain[n].literals) + 1
  <2>1. Len(chain[n].literals) \in Nat
    BY <1>1, ConstructionFields
  <2>2. Len(chain[n].literals) + 1 \in Nat
    BY <2>1
  <2> QED
    BY <2>2
<1>4. /\ id \in I /\ Len(id) = n + 1 /\ id[n + 1] = j /\ Out(id, 0) = id
      /\ \A m \in 0..n : Out(id, m + 1) = Out(outer, m)
      /\ Out(outer, 0) = outer
  <2>1. id = Append(outer, j)
    BY <1>2, <1>3 DEF IdWithin
  <2>2. /\ Append(outer, j) \in Ids(root) /\ Len(Append(outer, j)) = Len(outer) + 1
        /\ Append(outer, j)[Len(outer) + 1] = j
        /\ Out(Append(outer, j), 0) = Append(outer, j)
        /\ \A m \in 0..Len(outer) : Out(Append(outer, j), m + 1) = Out(outer, m)
    BY IdOfChild
  <2>3. Out(outer, 0) = outer
    BY <1>2, <1>1 DEF Compiling, Nesting
  <2> QED
    BY <1>2, <2>1, <2>2, <2>3
<1>5. id \notin DOMAIN table
  <2>1. SUFFICES ASSUME id \in DOMAIN table PROVE FALSE
    OBVIOUS
  <2>2. id \in Present(chain, table) /\ Len(id) > 1
    BY <1>1, <1>4, <2>1 DEF Present
  <2>3. HasLambda(Part(chain, table, Out(id, 1)), id)
    BY <2>1, <2>2 DEF Textual
  <2>4. Out(id, 1) = outer
    <3>1. 0 \in 0..n /\ 0 + 1 = 1
      BY <1>1
    <3> QED
      BY <1>4, <3>1
  <2>5. Part(chain, table, outer) = chain[n]
    BY <1>1, <1>2, PartOnChain
  <2>6. Len(chain[n].literals) \in Nat
    BY <1>1, ConstructionFields
  <2>7. j \in 1..Len(chain[n].literals)
    BY <1>4, <2>3, <2>4, <2>5 DEF HasLambda
  <2> QED
    BY <1>3, <2>6, <2>7
<1>6. id \notin Begun(chain)
  <2>1. \A k \in 1..n : Len(chain[k].id) = k
    BY DEF Compiling, Nesting
  <2>2. \A k \in 1..n : k # n + 1
    BY <1>1
  <2> QED
    BY <1>4, <2>1, <2>2 DEF Begun
<1> QED
  BY <1>2, <1>3, <1>4, <1>5, <1>6 DEF Present, IsWithin

\* A lambda is begun.
LEMMA ChildAdded ==
  ASSUME NEW E, NEW I, NEW chain, NEW table, Compiling(E, I, chain, table), Textual(E, chain, table),
         chain # << >>, NEW n, n = Len(chain),
         NEW cl \in Construction(E, I), cl.id = chain[n].id, cl.code = chain[n].code,
         cl.literals = chain[n].literals, cl.arg_count = chain[n].arg_count,
         cl.var_count = chain[n].var_count, Built(cl, 1),
         NEW child \in Construction(E, I), Built(child, 0), Len(child.code) = 0, Len(child.literals) = 0,
         NEW id \in I, child.id = id, id = IdWithin(chain[n]),
         Len(id) = n + 1, id \notin Present(chain, table), IsWithin(id, chain[n].id),
         NEW later, later = WithLambda(chain, cl, child)
  PROVE  Compiling(E, I, later, table) /\ Textual(E, later, table)
<1>1. n \in Nat \ {0} /\ n \in 1..n /\ chain[n] \in Construction(E, I)
  BY LastOfChain
<1>2. PICK mid : mid = Replaced(chain, cl)
  OBVIOUS
<1>3. /\ mid \in Seq(Construction(E, I)) /\ Len(mid) = n /\ mid[n] = cl
      /\ \A k \in 1..(n - 1) : mid[k] = chain[k]
      /\ \A k \in 1..n : mid[k].id = chain[k].id
      /\ Begun(mid) = Begun(chain) /\ Present(mid, table) = Present(chain, table)
      /\ Nesting(mid)
      /\ Part(mid, table, cl.id) = cl
      /\ \A x \in Present(chain, table) : x # cl.id => Part(mid, table, x) = Part(chain, table, x)
  BY <1>2, LastReplaced
<1>4. /\ later \in Seq(Construction(E, I)) /\ Len(later) = n + 1 /\ later[n + 1] = child
       /\ \A k \in 1..n : later[k] = mid[k]
  <2>1. later = Append(mid, child)
    BY <1>2 DEF WithLambda
  <2> QED
    BY <1>3, <2>1, AppendProperties
<1>5. \A k \in 1..(n + 1) : k \in 1..n \/ k = n + 1
  BY <1>1
<1>6. Begun(later) = Begun(chain) \cup {id}
  <2>1. \A k \in 1..n : k \in 1..(n + 1)
    BY <1>1
  <2>2. n + 1 \in 1..(n + 1)
    BY <1>1
  <2> QED
    BY <1>3, <1>4, <1>5, <2>1, <2>2 DEF Begun
<1>7. Present(later, table) = Present(chain, table) \cup {id} /\ id \notin DOMAIN table
  BY <1>6 DEF Present
<1>8. Nesting(later)
  <2>1. ASSUME NEW k \in 1..n
        PROVE  /\ Len(later[k].id) = k
               /\ \A m \in 0..(k - 1) : Out(later[k].id, m) = later[k - m].id
               /\ later[k + 1].id = Append(later[k].id, Len(later[k].literals) + 1)
    <3>1. /\ Len(mid[k].id) = k
          /\ \A m \in 0..(k - 1) : Out(mid[k].id, m) = mid[k - m].id
          /\ k < n => mid[k + 1].id = Append(mid[k].id, Len(mid[k].literals) + 1)
      BY <1>3 DEF Nesting
    <3>2. \A m \in 0..(k - 1) : k - m \in 1..n
      BY <1>1
    <3>3. CASE k < n
      <4>1. k + 1 \in 1..n
        BY <1>1, <3>3
      <4> QED
        BY <1>4, <3>1, <3>2, <3>3, <4>1
    <3>4. CASE ~(k < n)
      <4>1. k = n
        BY <1>1, <3>4
      <4>2. later[k + 1].id = Append(later[k].id, Len(later[k].literals) + 1)
        <5>1. later[n + 1].id = IdWithin(chain[n])
          BY <1>4
        <5>2. later[n] = cl
          BY <1>1, <1>3, <1>4
        <5> QED
          BY <4>1, <5>1, <5>2 DEF IdWithin
      <4> QED
        BY <1>4, <3>1, <3>2, <4>2
    <3> QED
      BY <3>3, <3>4
  <2>2. ASSUME NEW m \in 0..n PROVE Out(id, m) = later[n + 1 - m].id
    <3>1. CASE m = 0
      <4>1. n + 1 - m = n + 1
        BY <1>1, <3>1
      <4> QED
        BY <1>4, <3>1, <4>1 DEF IsWithin
    <3>2. CASE m # 0
      <4>1. PICK q \in 0..(n - 1) : q = m - 1 /\ q + 1 = m
        <5>1. m - 1 \in 0..(n - 1) /\ (m - 1) + 1 = m
          BY <1>1, <3>2
        <5> QED
          BY <5>1
      <4>2. q \in 0..n /\ n - q \in 1..n /\ n + 1 - m = n - q
        BY <1>1, <4>1
      <4>3. Out(id, m) = Out(chain[n].id, q)
        <5>1. Len(chain[n].id) = n
          BY <1>1 DEF Compiling, Nesting
        <5> QED
          BY <4>1, <4>2, <5>1 DEF IsWithin
      <4>4. Out(mid[n].id, q) = mid[n - q].id
        BY <1>1, <1>3 DEF Nesting
      <4> QED
        BY <1>1, <1>3, <1>4, <4>2, <4>3, <4>4
    <3> QED
      BY <3>1, <3>2
  <2>3. ASSUME NEW k \in 1..(n + 1)
        PROVE  /\ Len(later[k].id) = k
               /\ \A m \in 0..(k - 1) : Out(later[k].id, m) = later[k - m].id
               /\ k < n + 1 => later[k + 1].id = Append(later[k].id, Len(later[k].literals) + 1)
    <3>1. CASE k \in 1..n
      BY <2>1, <3>1
    <3>2. CASE k = n + 1
      <4>1. k - 1 = n /\ ~(k < n + 1)
        BY <1>1, <3>2
      <4>2. later[k].id = id
        BY <1>4, <3>2
      <4>3. \A m \in 0..n : Out(later[k].id, m) = later[k - m].id
        BY <2>2, <3>2, <4>2
      <4> QED
        BY <3>2, <4>1, <4>2, <4>3
    <3> QED
      BY <1>5, <3>1, <3>2
  <2> QED
    BY <1>4, <2>3 DEF Nesting
<1>9. Compiling(E, I, later, table)
  <2>1. ASSUME NEW k \in 1..(n + 1) PROVE Built(later[k], IF k = n + 1 THEN 0 ELSE 1)
    <3>1. CASE k = n + 1
      BY <1>4, <3>1
    <3>2. CASE k = n
      <4>1. k # n + 1
        BY <1>1, <3>2
      <4> QED
        BY <1>1, <1>3, <1>4, <3>2, <4>1
    <3>3. CASE k # n + 1 /\ k # n
      <4>1. k \in 1..(n - 1) /\ k \in 1..n
        BY <1>1, <3>3
      <4>2. Built(chain[k], 1)
        BY <3>3, <4>1 DEF Compiling
      <4> QED
        BY <1>3, <1>4, <3>3, <4>1, <4>2
    <3> QED
      BY <3>1, <3>2, <3>3
  <2>2. DOMAIN table \cap Begun(later) = {}
    BY <1>6, <1>7 DEF Compiling
  <2> QED
    BY <1>4, <1>8, <2>1, <2>2 DEF Compiling
<1>10. Part(later, table, id) = child
  BY <1>4, <1>7 DEF Part
<1>11. ASSUME NEW x \in Present(chain, table) PROVE Part(later, table, x) = Part(mid, table, x)
  <2>1. CASE x \in DOMAIN table
    BY <2>1 DEF Part
  <2>2. CASE x \notin DOMAIN table
    <3>1. PICK k \in 1..n : x = chain[k].id /\ Len(x) = k
      BY <2>2 DEF Present, Begun, Compiling, Nesting
    <3> QED
      BY <1>4, <2>2, <3>1 DEF Part
  <2> QED
    BY <2>1, <2>2
<1>12. Part(chain, table, cl.id) = chain[n]
  BY <1>1, PartOnChain
<1>13. ASSUME NEW x \in Present(chain, table)
       PROVE  /\ Part(later, table, x).code = Part(chain, table, x).code
              /\ Part(later, table, x).literals = Part(chain, table, x).literals
              /\ Part(later, table, x).arg_count = Part(chain, table, x).arg_count
              /\ Part(later, table, x).var_count = Part(chain, table, x).var_count
  <2>1. CASE x = cl.id
    BY <1>3, <1>11, <1>12, <2>1
  <2>2. CASE x # cl.id
    BY <1>3, <1>11, <2>2
  <2> QED
    BY <2>1, <2>2
<1>14. ASSUME NEW x \in Present(chain, table)
       PROVE  Continued(Part(chain, table, x), Part(later, table, x))
  <2>1. PICK part : part = Part(chain, table, x)
    OBVIOUS
  <2>2. PICK now : now = Part(later, table, x)
    OBVIOUS
  <2>3. part.var_count \in Nat /\ Len(part.literals) \in Nat
    BY <2>1, PartFields
  <2>4. now.literals = part.literals /\ now.arg_count = part.arg_count /\ now.var_count = part.var_count
    BY <1>13, <2>1, <2>2
  <2> QED
    BY <2>1, <2>2, <2>3, <2>4 DEF Continued
<1>15. ASSUME NEW m \in 0..(Len(id) - 1) PROVE Out(id, m) \in Present(later, table)
  <2>1. Out(id, m) = later[n + 1 - m].id /\ n + 1 - m \in 1..(n + 1)
    <3>1. m \in 0..n /\ n + 1 \in 1..(n + 1) /\ m \in 0..((n + 1) - 1) /\ n + 1 - m \in 1..(n + 1)
      BY <1>1
    <3>2. Out(later[n + 1].id, m) = later[n + 1 - m].id
      BY <1>4, <1>8, <3>1 DEF Nesting
    <3> QED
      BY <1>4, <3>1, <3>2
  <2> QED
    BY <1>4, <2>1 DEF Present, Begun
<1>16. Textual(E, later, table)
  <2>1. ASSUME NEW x \in Present(later, table)
        PROVE  /\ x \notin Present(chain, table) => x = id
               /\ x = id => Len(Part(later, table, x).code) = 0 /\ Len(Part(later, table, x).literals) = 0
    BY <1>7, <1>10
  <2>2. ASSUME NEW x \in Present(later, table)
        PROVE  /\ x \notin Present(chain, table) =>
                    \A m \in 0..(Len(x) - 1) : Out(x, m) \in Present(later, table)
               /\ \A i \in 1..Len(Part(later, table, x).code) :
                    \/ /\ x \in Present(chain, table) /\ i \in 1..Len(Part(chain, table, x).code)
                       /\ SameInstruction(Part(later, table, x).code[i], Part(chain, table, x).code[i])
                    \/ NamedAt(E, later, table, x, Part(later, table, x).code[i])
               /\ \A j \in 1..Len(Part(later, table, x).literals) :
                    \/ x \in Present(chain, table) /\ j \in 1..Len(Part(chain, table, x).literals)
                    \/ LiteralKnown(E, table, x, j, Part(later, table, x).literals[j])
    <3>1. CASE x \in Present(chain, table)
      BY <1>13, <3>1, SameInstructionItself
    <3>2. CASE x \notin Present(chain, table)
      <4>1. x = id /\ Len(Part(later, table, x).code) = 0 /\ Len(Part(later, table, x).literals) = 0
        BY <2>1, <3>2
      <4>2. \A i \in 1..0 : FALSE
        OBVIOUS
      <4> QED
        BY <1>15, <4>1, <4>2
    <3> QED
      BY <3>1, <3>2
  <2>3. Present(chain, table) \subseteq Present(later, table)
    BY <1>7
  <2> QED
    BY <1>9, <1>14, <2>2, <2>3, TextGrows
<1> QED
  BY <1>9, <1>16

\* Beginning a lambda inside the last one keeps the chain and the names in
\* order.
LEMMA ChildStep ==
  ASSUME NEW E, Expressions(E), NEW root, NEW chain, NEW table,
         Compiling(E, Ids(root), chain, table), Textual(E, chain, table),
         chain # << >>, NEW n, n = Len(chain), Expanding(E, Ids(root), chain, chain[n]),
         NEW expr \in E, IsLambda(expr), NEW cl, cl = Popped(chain[n]),
         NEW later, later = WithLambda(chain, cl, ChildOf(cl, Tail(expr.items)))
  PROVE  Compiling(E, Ids(root), later, table) /\ Textual(E, later, table)
<1>1. PICK I : I = Ids(root)
  OBVIOUS
<1>2. n \in Nat \ {0} /\ n \in 1..n /\ chain[n] \in Construction(E, I)
  BY <1>1, LastOfChain
<1>3. chain[n].todo # << >> /\ Built(chain[n], 0) /\ Working(chain[n].code, Tail(chain[n].todo), 1)
  BY ExpandingLambda DEF Expanding, Active
<1>4. /\ cl \in Construction(E, I) /\ cl.id = chain[n].id /\ cl.code = chain[n].code
      /\ cl.literals = chain[n].literals /\ cl.names = chain[n].names
      /\ cl.arg_count = chain[n].arg_count /\ cl.var_count = chain[n].var_count
      /\ cl.todo = Tail(chain[n].todo)
  BY <1>2, <1>3, PoppedLambda
<1>5. Built(cl, 1)
  <2>1. Defining(cl.todo) => Defining(chain[n].todo)
    BY <1>2, <1>3, <1>4, DefiningTail, ConstructionFields
  <2> QED
    BY <1>3, <1>4, <2>1 DEF Built
<1>6. PICK id : id = IdWithin(chain[n])
  OBVIOUS
<1>7. /\ id \in I /\ Len(id) = n + 1 /\ id \notin Present(chain, table)
      /\ IsWithin(id, chain[n].id)
  BY <1>1, <1>6, ChildIsNew
<1>8. PICK operands : operands = Tail(expr.items)
  OBVIOUS
<1>9. ArgNames(operands[1]) \in Seq(STRING) /\ Body(operands) \in E
  BY <1>8, LambdaParts
<1>10. PICK child : child = ChildOf(cl, operands)
  OBVIOUS
<1>11. child = NewLambda(id, ArgNames(operands[1]), <<ToCompile(Body(operands))>>)
  BY <1>4, <1>6, <1>10 DEF ChildOf, IdWithin
<1>12. /\ child \in Construction(E, I) /\ Built(child, 0) /\ child.id = id
       /\ Len(child.code) = 0 /\ Len(child.literals) = 0
  BY <1>7, <1>9, <1>11, NewConstruction
<1>13. later = WithLambda(chain, cl, child)
  BY <1>8, <1>10
<1>14. Compiling(E, I, chain, table)
  BY <1>1
<1>15. Compiling(E, I, later, table) /\ Textual(E, later, table)
  BY <1>4, <1>5, <1>6, <1>7, <1>12, <1>13, <1>14, ChildAdded
<1> QED
  BY <1>1, <1>15

ReturnInstruction == [op |-> "RETURN", offset |-> 0, arg |-> 0]
LoadLambdaInstruction(index) == [op |-> "LOAD_LAMBDA", offset |-> 0, arg |-> index]

\* Finishing appends RETURN, which ends the code.
LEMMA FinishedLambda ==
  ASSUME NEW E, NEW I, NEW cl \in Construction(E, I), Built(cl, 0), cl.todo = << >>,
         NEW lambda, lambda = Finished(cl)
  PROVE  /\ lambda \in Lambda(E, I) /\ Ended(lambda.code) /\ Continued(cl, lambda)
         /\ lambda.literals = cl.literals
         /\ \A i \in 1..Len(lambda.code) :
              \/ i \in 1..Len(cl.code) /\ lambda.code[i] = cl.code[i]
              \/ lambda.code[i] = ReturnInstruction
<1>1. /\ cl.code \in Seq(Instruction) /\ cl.literals \in Seq(LiteralIn(E, I)) /\ cl.arg_count \in Nat
      /\ cl.var_count \in Nat /\ Len(cl.literals) \in Nat /\ Len(cl.code) \in Nat
  BY ConstructionFields
<1>2. PICK instr \in Instruction : instr = ReturnInstruction
  <2>1. ReturnInstruction \in [op : {"RETURN"}, offset : Nat, arg : Int]
    BY DEF ReturnInstruction
  <2> QED
    BY <2>1 DEF Instruction, Op
<1>3. PICK code \in Seq(Instruction) :
        /\ code = Append(cl.code, instr) /\ Len(code) = Len(cl.code) + 1
        /\ \A i \in 1..Len(cl.code) : code[i] = cl.code[i]
        /\ code[Len(cl.code) + 1] = instr
  <2>1. cl.code \in Seq(Instruction)
    BY <1>1
  <2>2. /\ Append(cl.code, instr) \in Seq(Instruction) /\ Len(Append(cl.code, instr)) = Len(cl.code) + 1
        /\ \A i \in 1..Len(cl.code) : Append(cl.code, instr)[i] = cl.code[i]
        /\ Append(cl.code, instr)[Len(cl.code) + 1] = instr
    BY <2>1, AppendProperties
  <2> QED
    BY <2>2
<1>4. Gen(cl, instr).code = code
  BY <1>3, GenFields
<1>5. lambda = [code |-> code, literals |-> cl.literals, arg_count |-> cl.arg_count, var_count |-> cl.var_count]
  BY <1>2, <1>4 DEF Finished, GenOp, ReturnInstruction
<1>6. lambda \in Lambda(E, I)
  BY <1>1, <1>5 DEF Lambda
<1>7. Ended(lambda.code)
  <2>1. Working(cl.code, << >>, 0)
    BY DEF Built
  <2> QED
    BY <1>2, <1>3, <1>5, <2>1 DEF Ended, ReturnInstruction
<1>8. Continued(cl, lambda)
  BY <1>1, <1>5 DEF Continued
<1>9. \A i \in 1..(Len(cl.code) + 1) : i \in 1..Len(cl.code) \/ i = Len(cl.code) + 1
  BY <1>1
<1> QED
  BY <1>2, <1>3, <1>5, <1>6, <1>7, <1>8, <1>9

\* The lambda that gets a finished one as its next literal.
LEMMA HoldingLambda ==
  ASSUME NEW E, NEW I, NEW cl \in Construction(E, I), Built(cl, 1), NEW id \in I,
         NEW holder, holder = GenLiteral(cl, "LOAD_LAMBDA", LambdaLiteral(id))
  PROVE  /\ holder \in Construction(E, I) /\ Built(holder, 0) /\ holder.id = cl.id /\ Continued(cl, holder)
         /\ \A i \in 1..Len(holder.code) :
              \/ i \in 1..Len(cl.code) /\ holder.code[i] = cl.code[i]
              \/ holder.code[i] = LoadLambdaInstruction(Len(cl.literals))
         /\ \A j \in 1..Len(holder.literals) :
              \/ j \in 1..Len(cl.literals)
              \/ j = Len(cl.literals) + 1 /\ holder.literals[j] = LambdaLiteral(id)
         /\ Len(cl.literals) + 1 \in 1..Len(holder.literals)
         /\ holder.literals[Len(cl.literals) + 1] = LambdaLiteral(id)
<1>1. /\ cl.code \in Seq(Instruction) /\ cl.literals \in Seq(LiteralIn(E, I))
      /\ Len(cl.literals) \in Nat /\ Len(cl.code) \in Nat /\ cl.var_count \in Nat /\ cl.todo \in Todo(E)
  BY ConstructionFields
<1>2. PICK literal \in LiteralIn(E, I) : literal = LambdaLiteral(id)
  <2>1. LambdaLiteral(id) \in LiteralIn(E, I)
    BY DEF LambdaLiteral, LiteralIn
  <2> QED
    BY <2>1
<1>3. PICK instr \in Instruction : instr = LoadLambdaInstruction(Len(cl.literals))
  <2>1. Len(cl.literals) \in Int
    BY <1>1
  <2> QED
    BY <2>1 DEF Instruction, Op, LoadLambdaInstruction
<1>4. PICK mid \in Construction(E, I) :
        /\ mid = AddLiteral(cl, literal) /\ mid.id = cl.id /\ mid.code = cl.code
        /\ mid.literals = Append(cl.literals, literal) /\ mid.names = cl.names
        /\ mid.arg_count = cl.arg_count /\ mid.var_count = cl.var_count /\ mid.todo = cl.todo
  BY AddLiteralFields
<1>5. holder = Gen(mid, instr)
  BY <1>2, <1>3, <1>4 DEF GenLiteral, GenArg, LoadLambdaInstruction
<1>6. /\ holder \in Construction(E, I)
      /\ holder.id = mid.id /\ holder.code = Append(mid.code, instr)
      /\ holder.literals = mid.literals /\ holder.names = mid.names
      /\ holder.arg_count = mid.arg_count /\ holder.var_count = mid.var_count
      /\ holder.todo = mid.todo
  BY <1>5, GenFields
<1>7. /\ Len(holder.code) = Len(cl.code) + 1 /\ holder.code = Append(cl.code, instr)
      /\ \A i \in 1..Len(cl.code) : holder.code[i] = cl.code[i]
      /\ holder.code[Len(cl.code) + 1] = instr
  <2>1. holder.code = Append(cl.code, instr)
    BY <1>4, <1>6
  <2> QED
    BY <1>1, <2>1, AppendProperties
<1>8. /\ Len(holder.literals) = Len(cl.literals) + 1
      /\ \A i \in 1..Len(cl.literals) : holder.literals[i] = cl.literals[i]
      /\ holder.literals[Len(cl.literals) + 1] = literal
  <2>1. holder.literals = Append(cl.literals, literal)
    BY <1>4, <1>6
  <2> DEFINE S == LiteralIn(E, I)
  <2>2. cl.literals \in Seq(S) /\ literal \in S
    BY <1>1
  <2> HIDE DEF S
  <2> QED
    BY <2>1, <2>2, AppendProperties
<1>9. Built(holder, 0)
  <2>1. instr.op \in LoadOp
    BY <1>3 DEF LoadOp, LoadLambdaInstruction
  <2>2. Working(cl.code, cl.todo, 1)
    BY DEF Built
  <2>3. Working(Append(cl.code, instr), cl.todo, 0)
    BY <1>1, <2>1, <2>2, LoadCode
  <2> QED
    BY <1>4, <1>6, <1>7, <2>3 DEF Built
<1>10. Continued(cl, holder)
  BY <1>1, <1>4, <1>6, <1>8 DEF Continued
<1>11. /\ \A i \in 1..(Len(cl.code) + 1) : i \in 1..Len(cl.code) \/ i = Len(cl.code) + 1
       /\ \A j \in 1..(Len(cl.literals) + 1) : j \in 1..Len(cl.literals) \/ j = Len(cl.literals) + 1
       /\ Len(cl.literals) + 1 \in 1..(Len(cl.literals) + 1)
  BY <1>1
<1> QED
  BY <1>2, <1>3, <1>4, <1>6, <1>7, <1>8, <1>9, <1>10, <1>11



\* The lambdas that are left when the last one of the chain is finished.
Left(E, I, chain, n, later) ==
  /\ later \in Seq(Construction(E, I)) /\ Len(later) = n - 1
  /\ \A k \in 1..(n - 2) : later[k] = chain[k]
  /\ \A k \in 1..(n - 1) : later[k].id = chain[k].id
  /\ n > 1 => /\ n - 1 \in 1..n
              /\ later[n - 1] = GenLiteral(chain[n - 1], "LOAD_LAMBDA", LambdaLiteral(chain[n].id))

\* Finishing the last lambda has the one around it load it and leaves the
\* others as they are.
LEMMA ChainFinished ==
  ASSUME NEW E, NEW I, NEW chain, NEW table, Compiling(E, I, chain, table), chain # << >>
  PROVE  Left(E, I, chain, Len(chain), FinishLambda(chain))
<1> SUFFICES ASSUME NEW n, n = Len(chain), NEW later, later = FinishLambda(chain)
             PROVE  /\ later \in Seq(Construction(E, I)) /\ Len(later) = n - 1
                    /\ \A k \in 1..(n - 2) : later[k] = chain[k]
                    /\ \A k \in 1..(n - 1) : later[k].id = chain[k].id
                    /\ n > 1 => /\ n - 1 \in 1..n
                                /\ later[n - 1] = GenLiteral(chain[n - 1], "LOAD_LAMBDA",
                                                             LambdaLiteral(chain[n].id))
  BY DEF Left
<1>1. n \in Nat \ {0} /\ n \in 1..n /\ chain[n] \in Construction(E, I) /\ chain \in Seq(Construction(E, I))
  BY LastOfChain DEF Compiling
<1> DEFINE S == Construction(E, I)
<1>2. PICK outer \in Seq(S) : /\ outer = SubSeq(chain, 1, n - 1) /\ Len(outer) = n - 1
                              /\ \A k \in 1..(n - 1) : outer[k] = chain[k]
  <2>1. \A k \in 1..(n - 1) : k \in 1..n
    BY <1>1
  <2>2. \A k \in 1..(n - 1) : chain[k] \in S
    BY <1>1, <2>1, ElementOfSeq
  <2>3. PICK m \in Nat : m = n - 1
    <3>1. n - 1 \in Nat
      BY <1>1
    <3> QED
      BY <3>1
  <2> HIDE DEF S
  <2>4. /\ SubSeq(chain, 1, m) \in Seq(S) /\ Len(SubSeq(chain, 1, m)) = m
        /\ \A k \in 1..m : SubSeq(chain, 1, m)[k] = chain[k]
    <3>1. chain \in Seq(S) /\ \A k \in 1..m : chain[k] \in S
      BY <1>1, <2>2, <2>3 DEF S
    <3>2. m <= Len(chain)
      BY <1>1, <2>3
    <3> QED
      BY <1>1, <2>1, <2>3, <3>1, <3>2, SubSeqProperties
  <2> QED
    BY <2>3, <2>4
<1>3. CASE n = 1
  <2>1. outer = << >>
    BY <1>2, <1>3, EmptySeq
  <2>2. later = outer
    BY <1>2, <2>1 DEF FinishLambda
  <2>3. \A k \in 1..(n - 1) : FALSE
    BY <1>3
  <2>4. (\A k \in 1..(n - 2) : FALSE) /\ ~(n > 1)
    BY <1>3
  <2> QED
    BY <1>2, <1>3, <2>2, <2>3, <2>4
<1>4. CASE n # 1
  <2>1. n - 1 \in 1..(n - 1) /\ n - 1 \in 1..n /\ n > 1 /\ n - 1 # 0 /\ n - 1 \in Nat
    BY <1>1, <1>4
  <2>2. outer # << >>
    BY <1>2, <2>1, EmptySeq
  <2>3. PICK cl \in S : cl = chain[n - 1]
    BY <1>1, <2>1, ElementOfSeq
  <2>4. PICK holder : holder = GenLiteral(cl, "LOAD_LAMBDA", LambdaLiteral(chain[n].id))
    OBVIOUS
  <2>5. outer[n - 1] = cl
    BY <1>2, <2>1, <2>3
  <2>6. later = [outer EXCEPT ![n - 1] = holder]
    <3>1. later = [outer EXCEPT ![Len(outer)] = GenLiteral(@, "LOAD_LAMBDA", LambdaLiteral(chain[n].id))]
      BY <1>2, <2>2 DEF FinishLambda
    <3> QED
      BY <1>2, <2>4, <2>5, <3>1
  <2>7. holder \in S /\ holder.id = cl.id
    <3>1. chain[n].id \in I /\ Built(cl, 1)
      <4>1. n - 1 # n
        BY <1>1
      <4> QED
        BY <1>1, <2>1, <2>3, <4>1, ConstructionFields DEF Compiling
    <3>2. cl \in Construction(E, I)
      BY <2>3
    <3>3. PICK id \in I : id = chain[n].id
      BY <3>1
    <3>4. holder = GenLiteral(cl, "LOAD_LAMBDA", LambdaLiteral(id)) /\ Built(cl, 1)
      BY <2>4, <3>1, <3>3
    <3> HIDE DEF S
    <3>5. holder \in Construction(E, I) /\ holder.id = cl.id
      BY <3>2, <3>4, HoldingLambda
    <3> QED
      BY <3>5 DEF S
  <2> HIDE DEF S
  <2>8. later \in Seq(S) /\ Len(later) = n - 1 /\ \A k \in 1..(n - 1) : later[k] = IF k = n - 1 THEN holder ELSE outer[k]
    <3>1. n - 1 \in 1..Len(outer)
      BY <1>2, <2>1
    <3>2. /\ [outer EXCEPT ![n - 1] = holder] \in Seq(S)
          /\ Len([outer EXCEPT ![n - 1] = holder]) = Len(outer)
          /\ \A k \in 1..Len(outer) : [outer EXCEPT ![n - 1] = holder][k] = IF k = n - 1 THEN holder ELSE outer[k]
      BY <2>7, <3>1, ExceptSeq
    <3> QED
      BY <1>2, <2>6, <3>2
  <2>9. \A k \in 1..(n - 2) : k \in 1..(n - 1) /\ k # n - 1
    BY <1>1
  <2>10. \A k \in 1..(n - 1) : later[k].id = chain[k].id
    BY <1>2, <2>3, <2>7, <2>8
  <2>11. \A k \in 1..(n - 2) : later[k] = chain[k]
    BY <1>2, <2>8, <2>9
  <2>12. later[n - 1] = holder
    BY <2>1, <2>8
  <2> QED
    BY <2>1, <2>3, <2>4, <2>8, <2>10, <2>11, <2>12 DEF S
<1> QED
  BY <1>3, <1>4

\* What becomes of the lambdas when the last one of the chain is finished: it
\* gets a RETURN, and the one around it what loads it.
LEMMA PartsFinished ==
  ASSUME NEW E, NEW I, NEW chain, NEW table, Compiling(E, I, chain, table), chain # << >>,
         NEW n, n = Len(chain), NEW later, later = FinishLambda(chain),
         NEW cl, cl = chain[n], NEW tables, tables = AddLambda(table, cl)
  PROVE  /\ Present(later, tables) = Present(chain, table)
         /\ Begun(later) \subseteq Begun(chain) /\ chain[n].id \notin Begun(later)
         /\ Part(later, tables, chain[n].id) = Finished(chain[n])
         /\ n > 1 => Part(later, tables, chain[n - 1].id) = later[n - 1]
         /\ \A id \in Present(chain, table) : id # chain[n].id /\ (n > 1 => id # chain[n - 1].id) =>
              Part(later, tables, id) = Part(chain, table, id)
<1>1. n \in Nat \ {0} /\ n \in 1..n /\ Len(chain[n].id) = n /\ chain[n].id \notin DOMAIN table
  BY LastOfChain, PartOnChain
<1>2. /\ later \in Seq(Construction(E, I)) /\ Len(later) = n - 1
      /\ \A k \in 1..(n - 2) : later[k] = chain[k]
      /\ \A k \in 1..(n - 1) : later[k].id = chain[k].id
      /\ n > 1 => /\ n - 1 \in 1..n
                  /\ later[n - 1] = GenLiteral(chain[n - 1], "LOAD_LAMBDA", LambdaLiteral(chain[n].id))
  <2>1. Left(E, I, chain, n, later)
    BY ChainFinished
  <2> QED
    BY <2>1 DEF Left
<1>3. /\ DOMAIN tables = DOMAIN table \cup {chain[n].id} /\ tables[chain[n].id] = Finished(chain[n])
      /\ \A id \in DOMAIN table : id # chain[n].id => tables[id] = table[id]
  <2>1. /\ DOMAIN tables = DOMAIN table \cup {cl.id} /\ tables[cl.id] = Finished(cl)
        /\ \A id \in DOMAIN table : id # cl.id => tables[id] = table[id]
    BY DEF AddLambda
  <2> QED
    BY <2>1
<1>4. \A k \in 1..n : k \in 1..(n - 1) \/ k = n
  BY <1>1
<1>5. \A k \in 1..(n - 1) : k \in 1..n /\ k # n
  BY <1>1
<1>6. Begun(later) = {chain[k].id : k \in 1..(n - 1)}
  <2>1. Len(later) = n - 1 /\ \A k \in 1..(n - 1) : later[k].id = chain[k].id
    BY <1>2
  <2> QED
    BY <2>1 DEF Begun
<1>7. /\ Begun(chain) = Begun(later) \cup {chain[n].id}
      /\ Begun(later) \subseteq Begun(chain)
  BY <1>1, <1>4, <1>5, <1>6 DEF Begun
<1>8. \A k \in 1..n : Len(chain[k].id) = k
  BY DEF Compiling, Nesting
<1>9. chain[n].id \notin Begun(later)
  <2>1. \A k \in 1..(n - 1) : chain[k].id # chain[n].id
    BY <1>1, <1>5, <1>8
  <2> QED
    BY <1>6, <2>1
<1>10. Present(later, tables) = Present(chain, table)
  BY <1>3, <1>7 DEF Present
<1>11. Part(later, tables, chain[n].id) = Finished(chain[n])
  BY <1>3 DEF Part
<1>12. ASSUME NEW k \in 1..(n - 1) PROVE chain[k].id \notin DOMAIN tables
  <2>1. chain[k].id \notin DOMAIN table /\ chain[k].id # chain[n].id
    BY <1>1, <1>5, <1>8, PartOnChain
  <2> QED
    BY <1>3, <2>1
<1>13. ASSUME n > 1 PROVE Part(later, tables, chain[n - 1].id) = later[n - 1]
  <2>1. n - 1 \in 1..(n - 1)
    BY <1>1, <1>13
  <2> QED
    BY <1>5, <1>8, <1>12, <2>1 DEF Part
<1>14. ASSUME NEW id \in Present(chain, table), id # chain[n].id, n > 1 => id # chain[n - 1].id
       PROVE  Part(later, tables, id) = Part(chain, table, id)
  <2>1. CASE id \in DOMAIN table
    BY <1>3, <1>14, <2>1 DEF Part
  <2>2. CASE id \notin DOMAIN table
    <3>1. PICK k \in 1..(n - 1) : id = chain[k].id
      BY <1>2, <1>7, <1>14, <2>2 DEF Present, Begun
    <3>2. k \in 1..(n - 2)
      <4>1. n > 1
        BY <1>1, <3>1
      <4>2. k # n - 1
        BY <1>14, <3>1, <4>1
      <4> QED
        BY <1>1, <3>1, <4>2
    <3>3. id \notin DOMAIN tables /\ Len(id) = k
      BY <1>5, <1>8, <1>12, <3>1
    <3> QED
      BY <1>2, <2>2, <3>1, <3>2, <3>3 DEF Part
  <2> QED
    BY <2>1, <2>2
<1> QED
  BY <1>7, <1>9, <1>10, <1>11, <1>13, <1>14

\* Finishing the last lambda keeps the chain and the table in order.
LEMMA CompilingFinished ==
  ASSUME NEW E, NEW I, NEW chain, NEW table, Compiling(E, I, chain, table), chain # << >>,
         NEW n, n = Len(chain), chain[n].todo = << >>, NEW later, later = FinishLambda(chain),
         NEW tables, tables = AddLambda(table, chain[n])
  PROVE  Compiling(E, I, later, tables)
<1>1. n \in Nat \ {0} /\ n \in 1..n /\ chain[n] \in Construction(E, I) /\ Built(chain[n], 0)
  BY LastOfChain DEF Compiling
<1>2. /\ later \in Seq(Construction(E, I)) /\ Len(later) = n - 1
      /\ \A k \in 1..(n - 2) : later[k] = chain[k]
      /\ \A k \in 1..(n - 1) : later[k].id = chain[k].id
      /\ n > 1 => /\ n - 1 \in 1..n
                  /\ later[n - 1] = GenLiteral(chain[n - 1], "LOAD_LAMBDA", LambdaLiteral(chain[n].id))
  <2>1. Left(E, I, chain, n, later)
    BY ChainFinished
  <2> QED
    BY <2>1 DEF Left
<1>3. /\ DOMAIN tables = DOMAIN table \cup {chain[n].id} /\ tables[chain[n].id] = Finished(chain[n])
      /\ \A id \in DOMAIN table : id # chain[n].id => tables[id] = table[id]
  <2>1. PICK cl : cl = chain[n]
    OBVIOUS
  <2>2. tables = AddLambda(table, cl)
    BY <2>1
  <2>3. /\ DOMAIN tables = DOMAIN table \cup {cl.id} /\ tables[cl.id] = Finished(cl)
        /\ \A id \in DOMAIN table : id # cl.id => tables[id] = table[id]
    BY <2>2 DEF AddLambda
  <2> QED
    BY <2>1, <2>3
<1>4. Begun(later) \subseteq Begun(chain) /\ chain[n].id \notin Begun(later)
  BY PartsFinished
<1>5. DOMAIN tables \cap Begun(later) = {}
  BY <1>3, <1>4 DEF Compiling
<1>6. ASSUME NEW id \in DOMAIN tables PROVE tables[id] \in Lambda(E, I) /\ Ended(tables[id].code)
  <2>1. CASE id = chain[n].id
    <3>1. PICK lambda : lambda = Finished(chain[n])
      OBVIOUS
    <3>2. lambda \in Lambda(E, I) /\ Ended(lambda.code)
      BY <1>1, <3>1, FinishedLambda
    <3> QED
      BY <1>3, <2>1, <3>1, <3>2
  <2>2. CASE id # chain[n].id
    BY <1>3, <2>2 DEF Compiling
  <2> QED
    BY <2>1, <2>2
<1>7. ASSUME NEW k \in 1..(n - 1) PROVE Built(later[k], IF k = n - 1 THEN 0 ELSE 1)
  <2>1. k \in 1..n /\ k # n
    BY <1>1
  <2>2. Built(chain[k], 1)
    BY <2>1 DEF Compiling
  <2>3. CASE k = n - 1
    <3>1. PICK cl \in Construction(E, I) : cl = chain[k]
      BY <2>1, ElementOfSeq DEF Compiling
    <3>2. PICK id \in I : id = chain[n].id
      BY <1>1, ConstructionFields
    <3>3. PICK holder : holder = GenLiteral(cl, "LOAD_LAMBDA", LambdaLiteral(id))
      OBVIOUS
    <3>4. Built(holder, 0)
      BY <2>2, <3>1, <3>3, HoldingLambda
    <3>5. n > 1
      BY <1>1, <2>3
    <3>6. later[k] = holder
      BY <1>2, <2>3, <3>1, <3>2, <3>3, <3>5
    <3> QED
      BY <2>3, <3>4, <3>6
  <2>4. CASE k # n - 1
    <3>1. k \in 1..(n - 2)
      BY <1>1, <2>4
    <3> QED
      BY <1>2, <2>2, <2>4, <3>1
  <2> QED
    BY <2>3, <2>4
<1>8. Nesting(later)
  <2>1. ASSUME NEW k \in 1..(n - 1)
        PROVE  /\ Len(later[k].id) = k
               /\ \A m \in 0..(k - 1) : Out(later[k].id, m) = later[k - m].id
               /\ k < n - 1 => later[k + 1].id = Append(later[k].id, Len(later[k].literals) + 1)
    <3>1. k \in 1..n /\ k < n /\ k + 1 \in 1..n
      BY <1>1
    <3>2. /\ Len(chain[k].id) = k
          /\ \A m \in 0..(k - 1) : Out(chain[k].id, m) = chain[k - m].id
          /\ chain[k + 1].id = Append(chain[k].id, Len(chain[k].literals) + 1)
      BY <3>1 DEF Compiling, Nesting
    <3>3. \A m \in 0..(k - 1) : k - m \in 1..(n - 1)
      BY <1>1
    <3>4. k < n - 1 => k \in 1..(n - 2) /\ k + 1 \in 1..(n - 1)
      BY <1>1
    <3> QED
      BY <1>2, <3>2, <3>3, <3>4
  <2> QED
    BY <1>2, <2>1 DEF Nesting
<1>9. DOMAIN tables \subseteq I
  BY <1>1, <1>3, ConstructionFields DEF Compiling
<1> QED
  BY <1>2, <1>5, <1>6, <1>7, <1>8, <1>9 DEF Compiling

\* A lambda that has nothing more to do is finished.
LEMMA FinishStep ==
  ASSUME NEW E, NEW root, NEW I, I = Ids(root),
         NEW chain, NEW table, Compiling(E, I, chain, table), Textual(E, chain, table),
         chain # << >>, NEW n, n = Len(chain), NEW cl, cl = chain[n], cl.todo = << >>,
         NEW later, later = FinishLambda(chain), NEW tables, tables = AddLambda(table, cl)
  PROVE  Compiling(E, I, later, tables) /\ Textual(E, later, tables)
<1>1. n \in Nat \ {0} /\ n \in 1..n /\ cl \in Construction(E, I) /\ Built(cl, 0)
  BY LastOfChain DEF Compiling
<1>2. Compiling(E, I, later, tables)
  BY CompilingFinished
<1>3. /\ Present(later, tables) = Present(chain, table)
      /\ Part(later, tables, cl.id) = Finished(cl)
      /\ n > 1 => Part(later, tables, chain[n - 1].id) = later[n - 1]
      /\ \A id \in Present(chain, table) : id # cl.id /\ (n > 1 => id # chain[n - 1].id) =>
           Part(later, tables, id) = Part(chain, table, id)
  BY PartsFinished
<1>4. PICK lambda : lambda = Finished(cl)
  OBVIOUS
<1>5. /\ Continued(cl, lambda) /\ lambda.literals = cl.literals
      /\ \A i \in 1..Len(lambda.code) :
           \/ i \in 1..Len(cl.code) /\ lambda.code[i] = cl.code[i]
           \/ lambda.code[i] = ReturnInstruction
  BY <1>1, <1>4, FinishedLambda
<1>6. /\ Part(chain, table, cl.id) = cl /\ cl.id \in Present(chain, table)
      /\ Len(cl.id) = n /\ cl.id \notin DOMAIN table
  BY <1>1, PartOnChain
<1>7. DOMAIN tables = DOMAIN table \cup {cl.id}
  BY DEF AddLambda
<1>8. NamedAt(E, later, tables, cl.id, ReturnInstruction)
  <2>1. 0 \in 0..(Len(cl.id) - 1)
    BY <1>1, <1>6
  <2>2. ReturnInstruction.offset = 0 /\ ReturnInstruction.op = "RETURN"
    BY DEF ReturnInstruction
  <2>3. ASSUME NEW own, NEW target PROVE Names(E, cl.id, own, target, ReturnInstruction)
    BY <2>2 DEF Names
  <2> QED
    BY <2>1, <2>2, <2>3 DEF NamedAt
<1>9. ASSUME n > 1, NEW outer, outer = chain[n - 1], NEW holder, holder = later[n - 1]
      PROVE  /\ outer.id \in Present(chain, table) /\ outer.id # cl.id
             /\ Part(chain, table, outer.id) = outer /\ Part(later, tables, outer.id) = holder
             /\ Continued(outer, holder)
             /\ \A i \in 1..Len(holder.code) :
                  \/ i \in 1..Len(outer.code) /\ holder.code[i] = outer.code[i]
                  \/ NamedAt(E, later, tables, outer.id, holder.code[i])
             /\ \A j \in 1..Len(holder.literals) :
                  \/ j \in 1..Len(outer.literals)
                  \/ LiteralKnown(E, tables, outer.id, j, holder.literals[j])
             /\ HasLambda(holder, cl.id) /\ Out(cl.id, 1) = outer.id
  <2>1. n - 1 \in 1..n /\ n - 1 # n /\ n - 1 < n /\ (n - 1) + 1 = n
    BY <1>1, <1>9
  <2>2. outer \in Construction(E, I) /\ Built(outer, 1)
    <3>1. outer \in Construction(E, I)
      BY <1>9, <2>1, ElementOfSeq DEF Compiling
    <3> QED
      BY <1>9, <2>1, <3>1 DEF Compiling
  <2>3. /\ Part(chain, table, outer.id) = outer /\ outer.id \in Present(chain, table)
        /\ Len(outer.id) = n - 1 /\ outer.id # cl.id
    BY <1>6, <1>9, <2>1, PartOnChain
  <2>4. PICK id \in I : id = cl.id
    BY <1>1, ConstructionFields
  <2>5. holder = GenLiteral(outer, "LOAD_LAMBDA", LambdaLiteral(id))
    <3>1. n > 1 =>
            /\ n - 1 \in 1..n
            /\ later[n - 1] = GenLiteral(chain[n - 1], "LOAD_LAMBDA", LambdaLiteral(chain[n].id))
      <4>1. Left(E, I, chain, n, later)
        BY ChainFinished
      <4> QED
        BY <4>1 DEF Left
    <3>2. later[n - 1] = GenLiteral(chain[n - 1], "LOAD_LAMBDA", LambdaLiteral(chain[n].id))
      BY <1>9, <3>1
    <3> QED
      BY <1>9, <2>4, <3>2
  <2>6. PICK j \in Nat : j = Len(outer.literals)
    BY <2>2, ConstructionFields
  <2>7. /\ holder \in Construction(E, I) /\ holder.id = outer.id /\ Continued(outer, holder)
        /\ \A i \in 1..Len(holder.code) :
             \/ i \in 1..Len(outer.code) /\ holder.code[i] = outer.code[i]
             \/ holder.code[i] = LoadLambdaInstruction(j)
        /\ \A k \in 1..Len(holder.literals) :
             \/ k \in 1..Len(outer.literals)
             \/ k = j + 1 /\ holder.literals[k] = LambdaLiteral(id)
        /\ j + 1 \in 1..Len(holder.literals)
        /\ holder.literals[j + 1] = LambdaLiteral(id)
    BY <2>2, <2>5, <2>6, HoldingLambda
  <2>8. id = Append(outer.id, j + 1)
    BY <1>9, <2>1, <2>4, <2>6 DEF Compiling, Nesting
  <2>9. id[Len(id)] = j + 1 /\ Out(id, 1) = outer.id
    <3>1. 1 \in 0..(n - 1) /\ Out(cl.id, 1) = chain[n - 1].id
      <4>1. 1 \in 0..(n - 1)
        BY <1>1, <1>9
      <4> QED
        BY <1>1, <4>1 DEF Compiling, Nesting
    <3>2. id[Len(id)] = j + 1
      <4>1. PICK o \in Ids(root) : o = outer.id
        BY <2>2, ConstructionFields
      <4>2. PICK i \in Nat : i = j + 1
        <5>1. j + 1 \in Nat
          OBVIOUS
        <5> QED
          BY <5>1
      <4>3. Append(o, i)[Len(o) + 1] = i
        BY IdOfChild
      <4>4. Len(o) + 1 = Len(id)
        BY <1>1, <1>6, <2>1, <2>3, <2>4, <4>1
      <4> QED
        BY <2>8, <4>1, <4>2, <4>3, <4>4
    <3> QED
      BY <1>9, <2>4, <3>1, <3>2
  <2>10. HasLambda(holder, id)
    BY <2>7, <2>9 DEF HasLambda
  <2>11. Part(later, tables, outer.id) = holder
    BY <1>3, <1>9
  <2>12. NamedAt(E, later, tables, outer.id, LoadLambdaInstruction(j))
    <3>1. PICK instr : instr = LoadLambdaInstruction(j)
      OBVIOUS
    <3>2. instr.offset = 0 /\ instr.op = "LOAD_LAMBDA" /\ instr.arg = j
      BY <3>1 DEF LoadLambdaInstruction
    <3>3. 0 \in 0..(Len(outer.id) - 1)
      BY <1>1, <1>9, <2>3
    <3>4. ASSUME NEW target PROVE Names(E, outer.id, holder, target, instr)
      BY <2>7, <2>8, <3>2 DEF Names
    <3> QED
      BY <2>11, <3>1, <3>2, <3>3, <3>4 DEF NamedAt
  <2>13. ASSUME NEW k \in 1..Len(holder.literals)
         PROVE  \/ k \in 1..Len(outer.literals)
                \/ LiteralKnown(E, tables, outer.id, k, holder.literals[k])
    <3>1. SUFFICES ASSUME k = j + 1, holder.literals[k] = LambdaLiteral(id)
                   PROVE  LiteralKnown(E, tables, outer.id, k, holder.literals[k])
      BY <2>7
    <3>2. id \in DOMAIN tables
      BY <1>7, <2>4
    <3> QED
      BY <2>8, <3>1, <3>2 DEF LiteralKnown
  <2>14. \A i \in 1..Len(holder.code) :
           \/ i \in 1..Len(outer.code) /\ holder.code[i] = outer.code[i]
           \/ NamedAt(E, later, tables, outer.id, holder.code[i])
    BY <2>7, <2>12
  <2> QED
    BY <2>3, <2>4, <2>7, <2>9, <2>10, <2>11, <2>13, <2>14
<1>10. ASSUME NEW id \in Present(chain, table)
       PROVE  /\ Continued(Part(chain, table, id), Part(later, tables, id))
              /\ \A i \in 1..Len(Part(later, tables, id).code) :
                   \/ /\ i \in 1..Len(Part(chain, table, id).code)
                      /\ Part(later, tables, id).code[i] = Part(chain, table, id).code[i]
                   \/ NamedAt(E, later, tables, id, Part(later, tables, id).code[i])
              /\ \A j \in 1..Len(Part(later, tables, id).literals) :
                   \/ j \in 1..Len(Part(chain, table, id).literals)
                   \/ LiteralKnown(E, tables, id, j, Part(later, tables, id).literals[j])
  <2>1. CASE id = cl.id
    BY <1>3, <1>4, <1>5, <1>6, <1>8, <2>1
  <2>2. CASE id # cl.id /\ n > 1 /\ id = chain[n - 1].id
    <3>1. PICK outer : outer = chain[n - 1]
      OBVIOUS
    <3>2. PICK holder : holder = later[n - 1]
      OBVIOUS
    <3> QED
      BY <1>9, <2>2, <3>1, <3>2
  <2>3. CASE id # cl.id /\ (n > 1 => id # chain[n - 1].id)
    <3>1. PICK part : part = Part(chain, table, id)
      OBVIOUS
    <3>2. part.var_count \in Nat /\ Len(part.literals) \in Nat
      BY <3>1, PartFields
    <3>3. Part(later, tables, id) = part
      BY <1>3, <2>3, <3>1
    <3>4. Continued(part, part)
      BY <3>2, GrownItself
    <3> QED
      BY <3>1, <3>3, <3>4
  <2> QED
    BY <2>1, <2>2, <2>3
<1>11. ASSUME NEW id \in DOMAIN tables \ DOMAIN table, Len(id) > 1
       PROVE  HasLambda(Part(later, tables, Out(id, 1)), id)
  <2>1. id = cl.id /\ n > 1
    BY <1>6, <1>7, <1>11
  <2>2. PICK outer : outer = chain[n - 1]
    OBVIOUS
  <2>3. PICK holder : holder = later[n - 1]
    OBVIOUS
  <2> QED
    BY <1>9, <2>1, <2>2, <2>3
<1>12. Textual(E, later, tables)
  <2>1. DOMAIN table \subseteq DOMAIN tables
    BY <1>7
  <2> QED
    BY <1>2, <1>3, <1>10, <1>11, <2>1, SameInstructionItself, TextGrows
<1> QED
  BY <1>2, <1>12

-----------------------------------------------------------------------------
(* Runs of the compiler.                                                   *)

Sound(E, root, c) ==
  /\ c = [chain |-> c.chain, table |-> c.table]
  /\ Compiling(E, Ids(root), c.chain, c.table) /\ Textual(E, c.chain, c.table)

\* The number of the outermost lambda of a program.
LEMMA IdOfProgram ==
  ASSUME NEW root
  PROVE  <<root>> \in Ids(root) /\ Len(<<root>>) = 1 /\ Out(<<root>>, 0) = <<root>>
<1> DEFINE S == {root} \cup Nat
<1>1. root \in S
  OBVIOUS
<1>2. Ids(root) = {id \in Seq(S) : id # << >> /\ id[1] = root}
  BY DEF Ids
<1> HIDE DEF S
<1>3. PICK id \in Seq(S) : id = <<root>> /\ Len(id) = 1 /\ id[1] = root
  <2>1. <<root>> \in Seq(S)
    BY <1>1
  <2> QED
    BY <2>1
<1>4. id # << >>
  BY <1>3, EmptySeq
<1>5. Out(id, 0) = id
  BY OutNone
<1> QED
  BY <1>2, <1>3, <1>4, <1>5

\* The compiler starts in a sound state.
LEMMA StartSound ==
  ASSUME NEW E, Expressions(E), NEW root, NEW program, program.names \in Seq(STRING), program.body \in E
  PROVE  Sound(E, root, CompileStart(root, program))
<1> DEFINE c == CompileStart(root, program)
<1>1. PICK I : I = Ids(root)
  OBVIOUS
<1>2. PICK id \in I : id = <<root>> /\ Len(id) = 1 /\ Out(id, 0) = id
  BY <1>1, IdOfProgram
<1>3. PICK cl \in Construction(E, I) :
        /\ cl = NewLambda(id, program.names, <<ToCompile(program.body)>>)
        /\ Built(cl, 0) /\ cl.id = id /\ Len(cl.code) = 0 /\ Len(cl.literals) = 0
  <2>1. PICK names \in Seq(STRING) : names = program.names
    OBVIOUS
  <2>2. PICK expr \in E : expr = program.body
    OBVIOUS
  <2>3. PICK cl : cl = NewLambda(id, names, <<ToCompile(expr)>>)
    OBVIOUS
  <2>4. /\ cl \in Construction(E, I)
        /\ Built(cl, 0) /\ cl.id = id /\ Len(cl.code) = 0 /\ Len(cl.literals) = 0
    BY <2>3, NewConstruction
  <2> QED
    BY <2>1, <2>2, <2>3, <2>4
<1>4. PICK table : table = << >>
  OBVIOUS
<1>5. PICK chain \in Seq(Construction(E, I)) : chain = <<cl>> /\ Len(chain) = 1 /\ chain[1] = cl
  <2> DEFINE S == Construction(E, I)
  <2>1. cl \in S
    OBVIOUS
  <2> HIDE DEF S
  <2>2. <<cl>> \in Seq(S)
    BY <2>1
  <2> QED
    BY <2>2 DEF S
<1>6. c = [chain |-> chain, table |-> table]
  BY <1>2, <1>3, <1>4, <1>5 DEF CompileStart
<1>7. DOMAIN table = {}
  BY <1>4
<1>8. \A k \in 1..1 : k = 1
  OBVIOUS
<1>9. Begun(chain) = {id} /\ Present(chain, table) = {id}
  BY <1>3, <1>5, <1>7, <1>8 DEF Begun, Present
<1>10. \A m \in 0..(1 - 1) : m = 0
  OBVIOUS
<1>11. Nesting(chain)
  <2>1. 1 - 0 = 1 /\ ~(1 < 1)
    OBVIOUS
  <2> QED
    BY <1>2, <1>3, <1>5, <1>8, <1>10, <2>1 DEF Nesting
<1>12. Compiling(E, I, chain, table)
  BY <1>3, <1>5, <1>7, <1>8, <1>11 DEF Compiling
<1>13. Textual(E, chain, table)
  <2>1. Part(chain, table, id) = cl
    BY <1>2, <1>5, <1>7 DEF Part
  <2>2. \A i \in 1..0 : FALSE
    OBVIOUS
  <2> QED
    BY <1>2, <1>3, <1>7, <1>9, <1>10, <2>1, <2>2 DEF Textual
<1> QED
  BY <1>1, <1>6, <1>12, <1>13 DEF Sound

\* Every step of the compiler keeps its state sound.
LEMMA StepSound ==
  ASSUME NEW E, Expressions(E), NEW root, NEW c, Sound(E, root, c), ~IsCompiled(c), SetsKnownName(c)
  PROVE  Sound(E, root, CompileStep(c))
<1>1. PICK I : I = Ids(root)
  OBVIOUS
<1>2. PICK chain : chain = c.chain
  OBVIOUS
<1>3. PICK table : table = c.table
  OBVIOUS
<1>4. /\ Compiling(E, I, chain, table) /\ Textual(E, chain, table) /\ chain # << >>
      /\ c = [chain |-> chain, table |-> table]
  BY <1>1, <1>2, <1>3 DEF Sound, IsCompiled
<1>5. PICK n \in Nat \ {0} : n = Len(chain) /\ n \in 1..n
  BY <1>4, LastOfChain
<1>6. PICK old \in Construction(E, I) : old = chain[n]
  BY <1>4, <1>5, LastOfChain
<1>7. PICK next : next = CompileStep(c)
  OBVIOUS
<1>8. CASE old.todo = << >>
  <2>1. PICK later : later = FinishLambda(chain)
    OBVIOUS
  <2>2. PICK tables : tables = AddLambda(table, old)
    OBVIOUS
  <2>3. next = [chain |-> later, table |-> tables]
    BY <1>2, <1>3, <1>5, <1>6, <1>7, <1>8, <2>1, <2>2 DEF CompileStep
  <2>4. Compiling(E, I, later, tables) /\ Textual(E, later, tables)
    BY <1>1, <1>4, <1>5, <1>6, <1>8, <2>1, <2>2, FinishStep
  <2> QED
    BY <1>1, <1>7, <2>3, <2>4 DEF Sound
<1>9. CASE old.todo # << >>
  <2>1. PICK task : task = Head(old.todo)
    OBVIOUS
  <2>2. Active(E, I, chain, old)
    <3>1. \A k \in 1..n : Len(chain[k].names) = chain[k].arg_count + chain[k].var_count
      BY <1>4, <1>5 DEF Compiling, Built
    <3> QED
      BY <1>4, <1>5, <1>6, <1>9, <3>1 DEF Active, Named, Compiling
  <2>3. task \in Task(E)
    BY <2>1, <2>2, ActiveLambda
  <2>4. PICK cl : cl = Popped(old)
    OBVIOUS
  <2>5. CASE task.do = "compile" /\ IsLambda(task.expr)
    <3>1. task.expr \in E
      BY <2>3, <2>5 DEF Task
    <3>2. PICK later : later = WithLambda(chain, cl, ChildOf(cl, Tail(task.expr.items)))
      OBVIOUS
    <3>3. next = [chain |-> later, table |-> table]
      <4>1. next = [c EXCEPT !.chain = Append([chain EXCEPT ![n] = cl], ChildOf(cl, Tail(task.expr.items)))]
        BY <1>2, <1>5, <1>6, <1>7, <1>9, <2>1, <2>4, <2>5 DEF CompileStep, Popped
      <4> QED
        BY <1>4, <1>5, <3>2, <4>1 DEF WithLambda, Replaced
    <3>4. Expanding(E, I, chain, old)
      BY <2>1, <2>2, <2>5 DEF Expanding
    <3>5. PICK expr \in E : expr = task.expr /\ IsLambda(expr)
      BY <2>5, <3>1
    <3>6. Compiling(E, I, later, table) /\ Textual(E, later, table)
      BY <1>1, <1>4, <1>5, <1>6, <2>4, <3>2, <3>4, <3>5, ChildStep
    <3> QED
      BY <1>1, <1>7, <3>3, <3>6 DEF Sound
  <2>6. CASE ~(task.do = "compile" /\ IsLambda(task.expr))
    <3>1. PICK done : done = CompileTask(cl, chain, task)
      OBVIOUS
    <3>2. PICK later : later = Replaced(chain, done)
      OBVIOUS
    <3>3. next = [chain |-> later, table |-> table]
      <4>1. next = [c EXCEPT !.chain[n] = done]
        BY <1>2, <1>5, <1>6, <1>7, <1>9, <2>1, <2>4, <2>6, <3>1 DEF CompileStep, Popped
      <4> QED
        BY <1>4, <1>5, <3>2, <4>1 DEF Replaced
    <3>4. task.do = "store" => IsKnown(chain, task.sym)
      BY <1>2, <1>5, <1>6, <1>9, <2>1 DEF SetsKnownName
    <3>5. Advances(E, I, chain, old, done)
      BY <2>1, <2>2, <2>4, <2>6, <3>1, <3>4, TaskAdvances
    <3>6. Compiling(E, I, later, table) /\ Textual(E, later, table)
      BY <1>4, <1>5, <1>6, <3>2, <3>5, TaskStep
    <3> QED
      BY <1>1, <1>7, <3>3, <3>6 DEF Sound
  <2> QED
    BY <2>5, <2>6
<1> QED
  BY <1>8, <1>9

-----------------------------------------------------------------------------
(* The code of a finished lambda is balanced.                              *)

\* depths[i] operands lie in a frame before instruction i, on every way to it.
Levels(code, depths) ==
  /\ code \in Seq(Instruction) /\ code # << >> /\ depths \in [1..Len(code) -> Nat] /\ depths[1] = 0
  /\ \A i \in 1..Len(code) :
       /\ Operands(code[i]) \in 0..depths[i]
       /\ code[i].op = "RETURN" => depths[i] = 1
       /\ \A j \in Successors(code, i) :
            j \in (i + 1)..Len(code) /\ depths[j] = DepthAfter(code, i, depths[i])
  /\ \A j \in 2..Len(code) : \E i \in 1..(j - 1) : j \in Successors(code, i)

\* Code that has ended has operand counts that fit every instruction.
LEMMA EndedLevels ==
  ASSUME NEW code, Ended(code)
  PROVE  \E depths : Levels(code, depths)
<1>1. PICK body : Working(body, << >>, 0) /\ code = Append(body, ReturnInstruction)
  BY DEF Ended, ReturnInstruction
<1>2. PICK all, want : Plan(body, << >>, all, want) /\ want[Len(<< >>)] = all[Len(body) + 1] + 0
  BY <1>1 DEF Working
<1>3. PICK n \in Nat : n = Len(body) /\ body \in Seq(Instruction) /\ all \in Heights
  BY <1>2, LenProperties DEF Plan
<1>4. PICK instr \in Instruction : instr = ReturnInstruction /\ instr.op = "RETURN" /\ Operands(instr) = 1
  <2>1. ReturnInstruction \in [op : {"RETURN"}, offset : Nat, arg : Int]
    BY DEF ReturnInstruction
  <2>2. ReturnInstruction \in Instruction
    BY <2>1 DEF Instruction, Op
  <2>3. ReturnInstruction.op = "RETURN"
    BY <2>1
  <2>4. Operands(ReturnInstruction) = 1
    BY <2>3 DEF Operands, ArithmeticOp, CompareOp, PartOp
  <2> QED
    BY <2>2, <2>3, <2>4
<1>5. /\ code \in Seq(Instruction) /\ Len(code) = n + 1 /\ code[n + 1] = instr
      /\ \A i \in 1..n : code[i] = body[i]
  <2>1. code = Append(body, instr)
    BY <1>1, <1>4
  <2> QED
    BY <1>3, <2>1, AppendProperties
<1>6. \A i \in Nat : all[i] \in Nat
  BY <1>3, HeightIsNumber
<1>7. all[1] = 0 /\ all[n + 1] = 1
  <2>1. Len(<< >>) = 0 /\ want[0] = 1 /\ all[1] = 0
    BY <1>2, EmptySeq DEF Plan
  <2>2. all[n + 1] \in Nat
    BY <1>6
  <2> QED
    BY <1>2, <1>3, <2>1, <2>2
<1>8. \A i \in 1..(n + 1) : i \in Nat /\ (i \in 1..n \/ i = n + 1)
  OBVIOUS
<1>9. PICK depths \in [1..Len(code) -> Nat] : \A i \in 1..(n + 1) : depths[i] = all[i]
  <2>1. PICK f : f = [i \in 1..(n + 1) |-> all[i]]
    OBVIOUS
  <2>2. f \in [1..(n + 1) -> Nat]
    BY <1>6, <1>8, <2>1
  <2>3. \A i \in 1..(n + 1) : f[i] = all[i]
    BY <2>1
  <2> QED
    BY <1>5, <2>2, <2>3
<1>10. Awaiting(<< >>) = {}
  <2>1. \A r \in 1..0 : FALSE
    OBVIOUS
  <2>2. Len(<< >>) = 0
    BY EmptySeq
  <2> QED
    BY <2>1, <2>2 DEF Awaiting
<1>11. ASSUME NEW i \in 1..n
       PROVE  /\ body[i].op # "RETURN" /\ Operands(body[i]) \in 0..all[i]
              /\ \A j \in Successors(body, i) :
                   j \in (i + 1)..(n + 1) /\ all[j] = DepthAfter(body, i, all[i])
  <2>1. InstructionFits(body, << >>, all, i)
    BY <1>2, <1>3 DEF Plan
  <2>2. i + 1 \in (i + 1)..(n + 1)
    OBVIOUS
  <2>3. ASSUME body[i].op \in JumpOp
        PROVE  /\ i + 1 + body[i].arg \in (i + 1)..(n + 1)
               /\ all[i + 1 + body[i].arg] = DepthAfter(body, i, all[i])
    BY <1>3, <1>10, <2>1, <2>3 DEF InstructionFits, Lands
  <2>4. body[i].op # "JUMP" => all[i + 1] = DepthAfter(body, i, all[i])
    BY <2>1 DEF InstructionFits
  <2> QED
    BY <2>1, <2>2, <2>3, <2>4 DEF Successors, JumpOp, InstructionFits
<1>12. \A i \in 1..n : /\ Successors(code, i) = Successors(body, i)
                       /\ DepthAfter(code, i, all[i]) = DepthAfter(body, i, all[i])
  BY <1>5 DEF Successors, DepthAfter
<1>13. Successors(code, n + 1) = {}
  BY <1>4, <1>5 DEF Successors
<1>14. ASSUME NEW i \in 1..(n + 1)
       PROVE  /\ Operands(code[i]) \in 0..depths[i]
              /\ code[i].op = "RETURN" => depths[i] = 1
              /\ \A j \in Successors(code, i) :
                   j \in (i + 1)..(n + 1) /\ depths[j] = DepthAfter(code, i, depths[i])
  <2>1. CASE i \in 1..n
    <3>1. \A j \in (i + 1)..(n + 1) : j \in 1..(n + 1)
      BY <2>1
    <3> QED
      BY <1>5, <1>9, <1>11, <1>12, <2>1, <3>1
  <2>2. CASE i = n + 1
    <3>1. 1 \in 0..1
      OBVIOUS
    <3> QED
      BY <1>4, <1>5, <1>7, <1>9, <1>13, <2>2, <3>1
  <2> QED
    BY <1>8, <2>1, <2>2
<1>15. ASSUME NEW j \in 2..(n + 1) PROVE \E i \in 1..(j - 1) : j \in Successors(code, i)
  <2>1. Reached(body, << >>, j)
    BY <1>2, <1>3 DEF Plan
  <2>2. CASE body[j - 1].op # "JUMP"
    <3>1. j - 1 \in 1..n /\ j - 1 \in 1..(j - 1) /\ (j - 1) + 1 = j
      OBVIOUS
    <3>2. body[j - 1].op # "RETURN"
      BY <1>11, <3>1
    <3>3. j \in Successors(body, j - 1)
      BY <2>2, <3>1, <3>2 DEF Successors
    <3> QED
      BY <1>12, <3>1, <3>3
  <2>3. CASE ~(body[j - 1].op # "JUMP")
    <3>1. PICK i \in 1..(j - 1) : body[i].op = "JUMP_IF_FALSE" /\ j = i + 1 + body[i].arg
      BY <2>1, <2>3 DEF Reached
    <3>2. i \in 1..n
      OBVIOUS
    <3>3. j \in Successors(body, i)
      BY <3>1 DEF Successors
    <3> QED
      BY <1>12, <3>2, <3>3
  <2> QED
    BY <2>2, <2>3
<1>16. code # << >>
  BY <1>5, EmptySeq
<1>17. depths[1] = 0
  <2>1. 1 \in 1..(n + 1)
    OBVIOUS
  <2> QED
    BY <1>7, <1>9, <2>1
<1> QED
  BY <1>5, <1>9, <1>14, <1>15, <1>16, <1>17 DEF Levels

\* The recursive definition of DepthsOf has one solution.
DepthsFrom(code, depths) ==
  [i \in DOMAIN code |->
    LET before == {j \in 1..(i - 1) : i \in Successors(code, j)}
    IN  IF before = {} THEN 0
        ELSE LET j == CHOOSE j \in before : TRUE IN DepthAfter(code, j, depths[j])]

\* The operands an instruction finds depend on the instructions before it only.
LEMMA DepthFromBefore ==
  ASSUME NEW code, NEW depths, Levels(code, depths), NEW i \in 1..Len(code), NEW other,
         \A j \in 1..(i - 1) : other[j] = depths[j]
  PROVE  DepthsFrom(code, other)[i] = depths[i]
<1>1. DOMAIN code = 1..Len(code) /\ Len(code) \in Nat
  BY LenProperties DEF Levels
<1> DEFINE before == {j \in 1..(i - 1) : i \in Successors(code, j)}
<1>2. DepthsFrom(code, other)[i] =
        IF before = {} THEN 0
        ELSE LET j == CHOOSE j \in before : TRUE IN DepthAfter(code, j, other[j])
  BY <1>1 DEF DepthsFrom
<1>3. CASE i = 1
  <2>1. before = {}
    BY <1>3
  <2> QED
    BY <1>2, <1>3, <2>1 DEF Levels
<1>4. CASE i # 1
  <2>1. i \in 2..Len(code)
    BY <1>1, <1>4
  <2>2. before # {}
    BY <2>1 DEF Levels
  <2>3. PICK k : k = (CHOOSE j \in before : TRUE)
    OBVIOUS
  <2>4. k \in before
    BY <2>2, <2>3
  <2>5. k \in 1..(i - 1) /\ i \in Successors(code, k) /\ k \in 1..Len(code)
    BY <1>1, <2>4
  <2>6. depths[i] = DepthAfter(code, k, depths[k])
    BY <2>5 DEF Levels
  <2>7. other[k] = depths[k]
    BY <2>5
  <2> QED
    BY <1>2, <2>2, <2>3, <2>6, <2>7
<1> QED
  BY <1>3, <1>4

\* So there is one such count, and it is the one DepthsOf computes.
LEMMA DepthsUnique ==
  ASSUME NEW code, NEW depths, Levels(code, depths)
  PROVE  DepthsOf(code) = depths
<1>1. DOMAIN code = 1..Len(code) /\ Len(code) \in Nat /\ depths \in [1..Len(code) -> Nat]
  BY LenProperties DEF Levels
<1>2. DepthsFrom(code, depths) = depths
  <2>1. \A i \in 1..Len(code) : DepthsFrom(code, depths)[i] = depths[i]
    BY DepthFromBefore
  <2>2. DOMAIN DepthsFrom(code, depths) = 1..Len(code)
    BY <1>1 DEF DepthsFrom
  <2>3. DepthsFrom(code, depths) = [i \in 1..Len(code) |-> DepthsFrom(code, depths)[i]]
    BY <1>1 DEF DepthsFrom
  <2> QED
    BY <1>1, <2>1, <2>3
<1>3. PICK d : d = DepthsOf(code)
  OBVIOUS
<1>4. d = DepthsFrom(code, d)
  <2>1. d = CHOOSE f : f = DepthsFrom(code, f)
    BY <1>3 DEF DepthsOf, DepthsFrom
  <2> QED
    BY <1>2, <2>1
<1>5. ASSUME NEW i \in 1..Len(code) PROVE d[i] = depths[i]
  <2> DEFINE S == {k \in 1..Len(code) : d[k] # depths[k]}
  <2>1. SUFFICES ASSUME S # {} PROVE FALSE
    OBVIOUS
  <2>2. S \subseteq Nat
    OBVIOUS
  <2>3. PICK k \in S : \A j \in S : k <= j
    <3> HIDE DEF S
    <3> QED
      BY <2>1, <2>2, LeastNumber
  <2>4. k \in 1..Len(code) /\ d[k] # depths[k]
    OBVIOUS
  <2>5. \A j \in 1..(k - 1) : d[j] = depths[j]
    <3>1. ASSUME NEW j \in 1..(k - 1) PROVE d[j] = depths[j]
      <4>1. j \in 1..Len(code) /\ ~(k <= j)
        BY <1>1, <2>4
      <4> QED
        BY <2>3, <4>1
    <3> QED
      BY <3>1
  <2>6. DepthsFrom(code, d)[k] = depths[k]
    BY <2>4, <2>5, DepthFromBefore
  <2> QED
    BY <1>4, <2>4, <2>6
<1>6. DOMAIN d = 1..Len(code) /\ d = [i \in 1..Len(code) |-> d[i]]
  <2>1. DOMAIN DepthsFrom(code, d) = 1..Len(code)
        /\ DepthsFrom(code, d) = [i \in 1..Len(code) |-> DepthsFrom(code, d)[i]]
    BY <1>1 DEF DepthsFrom
  <2> QED
    BY <1>4, <2>1
<1> QED
  BY <1>1, <1>3, <1>5, <1>6

\* Code that has ended is balanced, and no jump leaves it.
LEMMA EndedBalanced ==
  ASSUME NEW code, Ended(code)
  PROVE  /\ Balanced(code, DepthsOf(code))
         /\ \A i \in DOMAIN code : Successors(code, i) \subseteq DOMAIN code
<1>1. PICK depths : Levels(code, depths)
  BY EndedLevels
<1>2. DepthsOf(code) = depths
  BY <1>1, DepthsUnique
<1>3. DOMAIN code = 1..Len(code) /\ Len(code) \in Nat
  BY <1>1, LenProperties DEF Levels
<1>4. Balanced(code, depths)
  BY <1>1, <1>3 DEF Balanced, Levels
<1>5. ASSUME NEW i \in 1..Len(code) PROVE Successors(code, i) \subseteq 1..Len(code)
  <2>1. \A j \in (i + 1)..Len(code) : j \in 1..Len(code)
    BY <1>3
  <2> QED
    BY <1>1, <2>1 DEF Levels
<1> QED
  BY <1>2, <1>3, <1>4, <1>5

-----------------------------------------------------------------------------
(* What the compiler hands over.                                           *)

\* Every lambda of the table, and what it names.
Complete(E, table) ==
  \A id \in DOMAIN table :
    /\ id \in Ids(id[1])
    /\ Ended(table[id].code) /\ Len(table[id].literals) \in Nat /\ Len(table[id].code) \in Nat
    /\ \A n \in 0..(Len(id) - 1) : Out(id, n) \in DOMAIN table
    /\ \A i \in 1..Len(table[id].code) :
         /\ table[id].code[i].offset \in 0..(Len(id) - 1)
         /\ Names(E, id, table[id], table[Out(id, table[id].code[i].offset)], table[id].code[i])
    /\ \A j \in 1..Len(table[id].literals) : LiteralKnown(E, table, id, j, table[id].literals[j])
    /\ Len(id) > 1 => HasLambda(table[Out(id, 1)], id)

\* Steps out stay within the program.
LEMMA OutInside ==
  ASSUME NEW root, NEW id \in Ids(root), NEW n \in 0..(Len(id) - 1)
  PROVE  /\ Out(id, n) \in Ids(root) /\ Out(id, n)[1] = root /\ id[1] = root
         /\ Len(Out(id, n)) = Len(id) - n /\ Len(id) \in Nat \ {0}
<1> DEFINE S == {root} \cup Nat
<1>1. id \in Seq(S) /\ id # << >> /\ id[1] = root
  BY DEF Ids
<1>2. Ids(root) = {s \in Seq(S) : s # << >> /\ s[1] = root}
  BY DEF Ids
<1> HIDE DEF S
<1>3. Len(id) \in Nat \ {0}
  BY <1>1, EmptySeq, LenProperties
<1>4. n \in 0..Len(id)
  BY <1>3
<1>5. /\ Out(id, n) \in Seq(S) /\ Len(Out(id, n)) = Len(id) - n
      /\ \A k \in 1..(Len(id) - n) : Out(id, n)[k] = id[k]
  BY <1>1, <1>4, OutOf
<1>6. 1 \in 1..(Len(id) - n) /\ Len(id) - n # 0
  BY <1>3
<1>7. Out(id, n) # << >> /\ Out(id, n)[1] = root
  BY <1>1, <1>5, <1>6, EmptySeq
<1> QED
  BY <1>1, <1>2, <1>3, <1>5, <1>7

\* A sound state with nothing left to compile leaves a complete table.
LEMMA SoundComplete ==
  ASSUME NEW E, NEW root, NEW c, Sound(E, root, c), IsCompiled(c)
  PROVE  Complete(E, c.table) /\ DOMAIN c.table \subseteq Ids(root)
<1>1. PICK I : I = Ids(root)
  OBVIOUS
<1>2. PICK table : table = c.table
  OBVIOUS
<1>3. PICK chain : chain = << >> /\ Len(chain) = 0
  BY EmptySeq
<1>4. Compiling(E, I, chain, table) /\ Textual(E, chain, table)
  BY <1>1, <1>2, <1>3 DEF Sound, IsCompiled
<1>5. Present(chain, table) = DOMAIN table
  <2>1. \A k \in 1..0 : FALSE
    OBVIOUS
  <2> QED
    BY <1>3, <2>1 DEF Present, Begun
<1>6. \A id \in DOMAIN table : Part(chain, table, id) = table[id]
  BY DEF Part
<1>7. ASSUME NEW id \in DOMAIN table
      PROVE  /\ id \in I /\ id \in Ids(id[1])
             /\ Ended(table[id].code) /\ Len(table[id].literals) \in Nat /\ Len(table[id].code) \in Nat
             /\ \A n \in 0..(Len(id) - 1) : Out(id, n) \in DOMAIN table
             /\ Len(id) \in Nat \ {0}
  <2>1. id \in I /\ Ended(table[id].code) /\ table[id] \in Lambda(E, I)
    BY <1>4 DEF Compiling
  <2>2. id \in Ids(id[1])
    BY <1>1, <2>1 DEF Ids
  <2>3. \A n \in 0..(Len(id) - 1) : Out(id, n) \in DOMAIN table
    BY <1>4, <1>5 DEF Textual
  <2>4. Len(table[id].literals) \in Nat /\ Len(table[id].code) \in Nat
    BY <2>1, LenProperties DEF Lambda
  <2>5. Len(id) \in Nat \ {0}
    BY <1>1, <2>1, IdOfChild
  <2> QED
    BY <2>1, <2>2, <2>3, <2>4, <2>5
<1>8. ASSUME NEW id \in DOMAIN table, NEW i \in 1..Len(table[id].code)
      PROVE  /\ table[id].code[i].offset \in 0..(Len(id) - 1)
             /\ Names(E, id, table[id], table[Out(id, table[id].code[i].offset)], table[id].code[i])
  <2>1. PICK instr : instr = table[id].code[i]
    OBVIOUS
  <2>2. NamedAt(E, chain, table, id, instr)
    BY <1>4, <1>5, <1>6, <2>1 DEF Textual
  <2>3. Out(id, instr.offset) \in DOMAIN table
    BY <1>7, <2>2 DEF NamedAt
  <2> QED
    BY <1>6, <2>1, <2>2, <2>3 DEF NamedAt
<1>9. ASSUME NEW id \in DOMAIN table, NEW j \in 1..Len(table[id].literals)
      PROVE  LiteralKnown(E, table, id, j, table[id].literals[j])
  BY <1>4, <1>5, <1>6 DEF Textual
<1>10. ASSUME NEW id \in DOMAIN table, Len(id) > 1 PROVE HasLambda(table[Out(id, 1)], id)
  <2>1. HasLambda(Part(chain, table, Out(id, 1)), id)
    BY <1>4, <1>5, <1>10 DEF Textual
  <2>2. 1 \in 0..(Len(id) - 1)
    BY <1>7, <1>10
  <2>3. Out(id, 1) \in DOMAIN table
    BY <1>7, <2>2
  <2> QED
    BY <1>6, <2>1, <2>3
<1>11. Complete(E, table)
  BY <1>7, <1>8, <1>9, <1>10 DEF Complete
<1> QED
  BY <1>1, <1>2, <1>7, <1>11

\* Of several programs, too.
LEMMA ProgramsComplete ==
  ASSUME NEW E, NEW compiled,
         \A name \in DOMAIN compiled :
           Complete(E, compiled[name]) /\ DOMAIN compiled[name] \subseteq Ids(name)
  PROVE  Complete(E, ProgramTable(compiled))
<1>1. PICK all : all = ProgramTable(compiled)
  OBVIOUS
<1>2. ASSUME NEW name \in DOMAIN compiled, NEW id \in DOMAIN compiled[name]
      PROVE  id \in DOMAIN all /\ all[id] = compiled[name][id]
  <2>1. id[1] = name
    BY DEF Ids
  <2> QED
    BY <1>1, <2>1 DEF ProgramTable
<1>3. ASSUME NEW id \in DOMAIN all
      PROVE  \E name \in DOMAIN compiled : id \in DOMAIN compiled[name]
  BY <1>1 DEF ProgramTable
<1>4. SUFFICES ASSUME NEW id \in DOMAIN all
               PROVE  /\ id \in Ids(id[1])
                      /\ Ended(all[id].code) /\ Len(all[id].literals) \in Nat /\ Len(all[id].code) \in Nat
                      /\ \A n \in 0..(Len(id) - 1) : Out(id, n) \in DOMAIN all
                      /\ \A i \in 1..Len(all[id].code) :
                           /\ all[id].code[i].offset \in 0..(Len(id) - 1)
                           /\ Names(E, id, all[id], all[Out(id, all[id].code[i].offset)], all[id].code[i])
                      /\ \A j \in 1..Len(all[id].literals) : LiteralKnown(E, all, id, j, all[id].literals[j])
                      /\ Len(id) > 1 => HasLambda(all[Out(id, 1)], id)
  BY <1>1 DEF Complete
<1>5. PICK name \in DOMAIN compiled : id \in DOMAIN compiled[name]
  BY <1>3
<1>6. PICK table : table = compiled[name]
  OBVIOUS
<1>7. Complete(E, table) /\ id \in DOMAIN table /\ id \in Ids(name)
  BY <1>5, <1>6
<1>8. \A x \in DOMAIN table : x \in DOMAIN all /\ all[x] = table[x]
  BY <1>2, <1>6
<1>9. Len(id) \in Nat \ {0}
  BY <1>7, IdOfChild
<1>10. \A n \in 0..(Len(id) - 1) : Out(id, n) \in DOMAIN table
  BY <1>7 DEF Complete
<1>11. all[id] = table[id]
  BY <1>7, <1>8
<1>12. ASSUME NEW i \in 1..Len(all[id].code)
       PROVE  /\ all[id].code[i].offset \in 0..(Len(id) - 1)
              /\ Names(E, id, all[id], all[Out(id, all[id].code[i].offset)], all[id].code[i])
  <2>1. PICK instr : instr = table[id].code[i]
    OBVIOUS
  <2>2. instr.offset \in 0..(Len(id) - 1) /\ Names(E, id, table[id], table[Out(id, instr.offset)], instr)
    BY <1>7, <1>11, <2>1 DEF Complete
  <2>3. all[Out(id, instr.offset)] = table[Out(id, instr.offset)]
    BY <1>8, <1>10, <2>2
  <2> QED
    BY <1>11, <2>1, <2>2, <2>3
<1>13. ASSUME NEW j \in 1..Len(all[id].literals) PROVE LiteralKnown(E, all, id, j, all[id].literals[j])
  <2>1. LiteralKnown(E, table, id, j, table[id].literals[j])
    BY <1>7, <1>11 DEF Complete
  <2> QED
    BY <1>8, <1>11, <2>1 DEF LiteralKnown
<1>14. ASSUME Len(id) > 1 PROVE HasLambda(all[Out(id, 1)], id)
  <2>1. 1 \in 0..(Len(id) - 1)
    BY <1>9, <1>14
  <2>2. HasLambda(table[Out(id, 1)], id)
    BY <1>7, <1>14 DEF Complete
  <2> QED
    BY <1>8, <1>10, <2>1, <2>2
<1>15. /\ id \in Ids(id[1]) /\ Ended(all[id].code)
       /\ Len(all[id].literals) \in Nat /\ Len(all[id].code) \in Nat
  BY <1>7, <1>11 DEF Complete
<1> QED
  BY <1>8, <1>10, <1>12, <1>13, <1>14, <1>15

-----------------------------------------------------------------------------
(* The compiled lambdas in memory.                                         *)

Holders(id) ==
  {h \in LambdaId : \E i \in DOMAIN CompiledLambda[h].literals :
     CompiledLambda[h].literals[i] = [type |-> "compiled_lambda", id |-> id]}

\* The literals that the machine has are those of the table.
LEMMA LoadedLiterals ==
  ASSUME NEW table, IsLoaded(table), NEW id \in LambdaId
  PROVE  /\ id \in DOMAIN table
         /\ DOMAIN CompiledLambda[id].literals = 1..Len(table[id].literals)
         /\ \A j \in 1..Len(table[id].literals) :
              /\ table[id].literals[j].type # "list" =>
                   CompiledLambda[id].literals[j] = table[id].literals[j]
              /\ CompiledLambda[id].literals[j].type = "compiled_lambda" =>
                   CompiledLambda[id].literals[j] = table[id].literals[j]
<1>1. CompiledLambda[id].literals \in Seq(Literal)
  BY CompiledAssumption
<1>2. DOMAIN CompiledLambda[id].literals = 1..Len(table[id].literals)
  BY <1>1, LenProperties DEF IsLoaded
<1> QED
  BY <1>2 DEF IsLoaded, InMemory, IsType

\* The only lambda that holds another as a literal is the one around it.
LEMMA HoldersOf ==
  ASSUME NEW E, Expressions(E), NEW table, Complete(E, table), IsLoaded(table), NEW id \in LambdaId
  PROVE  Holders(id) = IF Len(id) = 1 THEN {} ELSE {Out(id, 1)}
<1>1. DOMAIN table = LambdaId /\ id \in Ids(id[1])
  BY DEF IsLoaded, Complete
<1>2. Len(id) \in Nat \ {0}
  BY <1>1, IdOfChild
<1>3. ASSUME NEW h \in Holders(id) PROVE Len(id) # 1 /\ h = Out(id, 1)
  <2>1. h \in LambdaId /\ h \in Ids(h[1])
    BY <1>1 DEF Holders, Complete
  <2>2. PICK i \in 1..Len(table[h].literals) : CompiledLambda[h].literals[i] = LambdaLiteral(id)
    BY <2>1, LoadedLiterals DEF Holders, LambdaLiteral
  <2>3. table[h].literals[i] = LambdaLiteral(id)
    BY <2>1, <2>2, LoadedLiterals DEF LambdaLiteral
  <2>4. LambdaLiteral(id) \notin E
    BY ExpressionKinds DEF LambdaLiteral
  <2>5. LiteralKnown(E, table, h, i, LambdaLiteral(id))
    BY <1>1, <2>1, <2>3 DEF Complete
  <2>6. id = Append(h, i)
    BY <2>4, <2>5 DEF LiteralKnown, LambdaLiteral
  <2>7. /\ Len(Append(h, i)) = Len(h) + 1 /\ Len(h) \in Nat \ {0}
        /\ \A n \in 0..Len(h) : Out(Append(h, i), n + 1) = Out(h, n)
    <3>1. i \in Nat
      BY <1>1, <2>1 DEF Complete
    <3> QED
      BY <2>1, <3>1, IdOfChild
  <2>8. Out(h, 0) = h
    BY <2>1, OutNone DEF Ids
  <2>9. 0 \in 0..Len(h) /\ 0 + 1 = 1
    BY <2>7
  <2> QED
    BY <2>6, <2>7, <2>8, <2>9
<1>4. ASSUME Len(id) # 1 PROVE Out(id, 1) \in Holders(id)
  <2>1. 1 \in 0..(Len(id) - 1)
    <3>1. PICK m \in Nat \ {0} : m = Len(id)
      BY <1>2
    <3>2. m # 1 => 1 \in 0..(m - 1)
      OBVIOUS
    <3> QED
      BY <1>4, <3>1, <3>2
  <2>2. PICK h \in LambdaId : h = Out(id, 1) /\ HasLambda(table[h], id)
    BY <1>1, <2>1 DEF Complete
  <2>3. PICK j \in 1..Len(table[h].literals) : table[h].literals[j] = LambdaLiteral(id)
    BY <2>2 DEF HasLambda
  <2>4. CompiledLambda[h].literals[j] = LambdaLiteral(id) /\ j \in DOMAIN CompiledLambda[h].literals
    BY <2>3, LoadedLiterals DEF LambdaLiteral
  <2> QED
    BY <2>2, <2>4 DEF Holders, LambdaLiteral
<1> QED
  BY <1>3, <1>4

-----------------------------------------------------------------------------
(* The recursive definition of OuterLambdas has one solution.              *)

Enclosing(id) == [n \in 1..(Len(id) - 1) |-> Out(id, n)]

\* The lambdas around a lambda, from the inside out.
LEMMA EnclosingSeq ==
  ASSUME NEW root, NEW id \in Ids(root)
  PROVE  /\ Enclosing(id) \in Seq(Ids(root)) /\ Len(Enclosing(id)) = Len(id) - 1
         /\ \A n \in 1..(Len(id) - 1) : Enclosing(id)[n] = Out(id, n)
         /\ Len(id) = 1 => Enclosing(id) = << >>
         /\ Len(id) # 1 => Enclosing(id) = <<Out(id, 1)>> \o Enclosing(Out(id, 1))
<1>1. Len(id) \in Nat \ {0}
  BY IdOfChild
<1>2. ASSUME NEW x \in Ids(root)
      PROVE  /\ Enclosing(x) \in Seq(Ids(root)) /\ Len(Enclosing(x)) = Len(x) - 1
             /\ \A n \in 1..(Len(x) - 1) : Enclosing(x)[n] = Out(x, n)
  <2>1. PICK m \in Nat : m = Len(x) - 1
    <3>1. Len(x) \in Nat \ {0}
      BY IdOfChild
    <3>2. Len(x) - 1 \in Nat
      BY <3>1
    <3> QED
      BY <3>2
  <2>2. \A n \in 1..m : n \in 0..(Len(x) - 1)
    BY <2>1
  <2>3. \A n \in 1..m : Out(x, n) \in Ids(root)
    BY <2>2, OutInside
  <2> DEFINE S == Ids(root)
  <2>4. [n \in 1..m |-> Out(x, n)] \in [1..m -> S]
    BY <2>3
  <2> HIDE DEF S
  <2>5. PICK f : f = [n \in 1..m |-> Out(x, n)]
    OBVIOUS
  <2>6. f \in [1..m -> S] /\ DOMAIN f = 1..m /\ \A n \in 1..m : f[n] = Out(x, n)
    BY <2>4, <2>5
  <2>7. f \in Seq(S)
    BY <2>6, SeqDef
  <2>8. Len(f) = m
    BY <2>6, <2>7, LenProperties
  <2> QED
    BY <2>1, <2>5, <2>6, <2>7, <2>8 DEF Enclosing, S
<1>3. ASSUME Len(id) = 1 PROVE Enclosing(id) = << >>
  <2>1. Len(id) - 1 = 0
    BY <1>3
  <2> QED
    BY <1>2, <2>1, EmptySeq
<1>4. ASSUME Len(id) # 1 PROVE Enclosing(id) = <<Out(id, 1)>> \o Enclosing(Out(id, 1))
  <2>1. PICK m \in Nat \ {0} : Len(id) = m + 1
    <3>1. Len(id) - 1 \in Nat \ {0} /\ Len(id) = (Len(id) - 1) + 1
      BY <1>1, <1>4
    <3> QED
      BY <3>1
  <2>2. PICK h \in Ids(root) : h = Out(id, 1) /\ Len(h) = m
    <3>1. 1 \in 0..(Len(id) - 1) /\ Len(id) - 1 = m
      BY <2>1
    <3> QED
      BY <3>1, OutInside
  <2> DEFINE S == Ids(root)
  <2> HIDE DEF S
  <2>3. PICK s \in Seq(S) : s = Enclosing(id) /\ Len(s) = m /\ \A n \in 1..m : s[n] = Out(id, n)
    <3>1. Len(id) - 1 = m
      BY <2>1
    <3> QED
      BY <1>2, <3>1 DEF S
  <2>4. PICK t \in Seq(S) : t = Enclosing(h) /\ Len(t) = m - 1 /\ \A n \in 1..(m - 1) : t[n] = Out(h, n)
    BY <1>2, <2>2 DEF S
  <2>5. PICK first \in Seq(S) : first = <<h>> /\ Len(first) = 1 /\ first[1] = h
    <3>1. h \in S
      BY <2>2 DEF S
    <3>2. <<h>> \in Seq(S)
      BY <3>1
    <3> QED
      BY <3>2
  <2>6. /\ first \o t \in Seq(S) /\ Len(first \o t) = 1 + (m - 1)
        /\ \A n \in 1..(1 + (m - 1)) : (first \o t)[n] = IF n <= 1 THEN first[n] ELSE t[n - 1]
    BY <2>4, <2>5, ConcatProperties
  <2>7. 1 + (m - 1) = m
    OBVIOUS
  <2>8. ASSUME NEW n \in 1..m PROVE (first \o t)[n] = s[n]
    <3>1. CASE n = 1
      BY <2>2, <2>3, <2>5, <2>6, <2>7, <3>1
    <3>2. CASE n # 1
      <4>1. n - 1 \in 1..(m - 1) /\ ~(n <= 1) /\ 1 + (n - 1) = n
        BY <3>2
      <4>2. (first \o t)[n] = Out(h, n - 1)
        BY <2>4, <2>6, <2>7, <4>1
      <4>3. Out(Out(id, 1), n - 1) = Out(id, 1 + (n - 1))
        <5>1. 1 \in 0..Len(id) /\ n - 1 \in 0..(Len(id) - 1)
          BY <2>1, <4>1
        <5> DEFINE R == {root} \cup Nat
        <5>2. id \in Seq(R)
          BY DEF Ids
        <5> HIDE DEF R
        <5> QED
          BY <5>1, <5>2, OutOut
      <4> QED
        BY <2>2, <2>3, <4>1, <4>2, <4>3
    <3> QED
      BY <3>1, <3>2
  <2>9. first \o t = s
    BY <2>3, <2>6, <2>7, <2>8, SeqEqual
  <2> QED
    BY <2>2, <2>3, <2>4, <2>5, <2>9
<1> QED
  BY <1>2, <1>3, <1>4

OuterFrom(outer) ==
  [id \in LambdaId |->
    IF Holders(id) = {} THEN << >>
    ELSE LET h == CHOOSE h \in Holders(id) : TRUE IN <<h>> \o outer[h]]

\* The lambdas around one are the next one out and those around that.
LEMMA OuterFromInner ==
  ASSUME NEW E, Expressions(E), NEW table, Complete(E, table), IsLoaded(table),
         NEW id \in LambdaId, NEW outer, Len(id) # 1 => outer[Out(id, 1)] = Enclosing(Out(id, 1))
  PROVE  OuterFrom(outer)[id] = Enclosing(id)
<1>1. id \in Ids(id[1])
  BY DEF IsLoaded, Complete
<1>2. OuterFrom(outer)[id] =
        IF Holders(id) = {} THEN << >>
        ELSE LET h == CHOOSE h \in Holders(id) : TRUE IN <<h>> \o outer[h]
  BY DEF OuterFrom
<1>3. Holders(id) = IF Len(id) = 1 THEN {} ELSE {Out(id, 1)}
  BY HoldersOf
<1>4. CASE Len(id) = 1
  BY <1>1, <1>2, <1>3, <1>4, EnclosingSeq
<1>5. CASE Len(id) # 1
  <2>1. PICK k : k = (CHOOSE h \in Holders(id) : TRUE)
    OBVIOUS
  <2>2. k = Out(id, 1) /\ Holders(id) # {}
    BY <1>3, <1>5, <2>1
  <2>3. OuterFrom(outer)[id] = <<k>> \o outer[k]
    BY <1>2, <2>1, <2>2
  <2>4. Enclosing(id) = <<Out(id, 1)>> \o Enclosing(Out(id, 1))
    BY <1>1, <1>5, EnclosingSeq
  <2> QED
    BY <1>5, <2>2, <2>3, <2>4
<1> QED
  BY <1>4, <1>5

\* So OuterLambdas is the nesting of the text.
LEMMA OuterUnique ==
  ASSUME NEW E, Expressions(E), NEW table, Complete(E, table), IsLoaded(table)
  PROVE  OuterLambdas = [id \in LambdaId |-> Enclosing(id)]
<1>1. \A id \in LambdaId : id \in Ids(id[1]) /\ id \in DOMAIN table
  BY DEF IsLoaded, Complete
<1>2. ASSUME NEW id \in LambdaId PROVE Len(id) \in Nat \ {0}
  BY <1>1, IdOfChild
<1>3. ASSUME NEW id \in LambdaId, Len(id) # 1 PROVE Out(id, 1) \in LambdaId /\ Len(Out(id, 1)) = Len(id) - 1
  <2>1. 1 \in 0..(Len(id) - 1)
    <3>1. PICK m \in Nat \ {0} : m = Len(id)
      BY <1>2
    <3>2. m # 1 => 1 \in 0..(m - 1)
      OBVIOUS
    <3> QED
      BY <1>3, <3>1, <3>2
  <2> QED
    BY <1>1, <2>1, OutInside DEF IsLoaded, Complete
<1>4. PICK all : all = [id \in LambdaId |-> Enclosing(id)]
  OBVIOUS
<1>5. OuterFrom(all) = all
  <2>1. \A id \in LambdaId : OuterFrom(all)[id] = Enclosing(id)
    <3>1. ASSUME NEW id \in LambdaId PROVE OuterFrom(all)[id] = Enclosing(id)
      <4>1. Len(id) # 1 => all[Out(id, 1)] = Enclosing(Out(id, 1))
        BY <1>3, <1>4
      <4> QED
        BY <4>1, OuterFromInner
    <3> QED
      BY <3>1
  <2>2. OuterFrom(all) = [id \in LambdaId |-> OuterFrom(all)[id]]
    BY DEF OuterFrom
  <2> QED
    BY <1>4, <2>1, <2>2
<1>6. PICK outer : outer = CHOOSE f : f = OuterFrom(f)
  OBVIOUS
<1>7. outer = OuterFrom(outer)
  BY <1>5, <1>6
<1>8. ASSUME NEW id \in LambdaId PROVE outer[id] = Enclosing(id)
  <2> DEFINE S == {n \in Nat : \E x \in LambdaId : n = Len(x) /\ outer[x] # Enclosing(x)}
  <2>1. SUFFICES ASSUME S # {} PROVE FALSE
    BY <1>2
  <2>2. S \subseteq Nat
    OBVIOUS
  <2>3. PICK n \in S : \A m \in S : n <= m
    <3> HIDE DEF S
    <3> QED
      BY <2>1, <2>2, LeastNumber
  <2>4. PICK x \in LambdaId : n = Len(x) /\ outer[x] # Enclosing(x)
    BY <2>3
  <2>5. ASSUME Len(x) # 1 PROVE outer[Out(x, 1)] = Enclosing(Out(x, 1))
    <3>1. Out(x, 1) \in LambdaId /\ Len(Out(x, 1)) = n - 1 /\ n \in Nat \ {0}
      BY <1>2, <1>3, <2>4, <2>5
    <3>2. n - 1 \notin S
      <4>1. ~(n <= n - 1)
        BY <3>1
      <4> HIDE DEF S
      <4> QED
        BY <2>3, <4>1
    <3>3. n - 1 \in Nat
      BY <3>1
    <3> QED
      BY <3>1, <3>2, <3>3
  <2>6. OuterFrom(outer)[x] = Enclosing(x)
    BY <2>4, <2>5, OuterFromInner
  <2> QED
    BY <1>7, <2>4, <2>6
<1>9. OuterLambdas = [id \in LambdaId |-> outer[id]]
  BY <1>6 DEF OuterLambdas, OuterFrom, Holders
<1> QED
  BY <1>8, <1>9

-----------------------------------------------------------------------------
(* Every compiled lambda is scoped.                                        *)

\* What that says of the lambda at an offset.
LEMMA OuterOf ==
  ASSUME NEW E, Expressions(E), NEW table, Complete(E, table), IsLoaded(table), NEW id \in LambdaId
  PROVE  /\ OuterLambdas[id] = Enclosing(id) /\ Len(id) \in Nat \ {0}
         /\ OuterLambdas[id] \in Seq(LambdaId) /\ Len(OuterLambdas[id]) = Len(id) - 1
         /\ \A n \in 1..(Len(id) - 1) : OuterLambdas[id][n] = Out(id, n)
         /\ \A offset \in 0..(Len(id) - 1) : /\ LambdaAt(id, offset) = Out(id, offset)
                                             /\ Out(id, offset) \in LambdaId
         /\ Around(id) = IF Len(id) = 1 THEN {} ELSE {Out(id, 1)}
<1>1. DOMAIN table = LambdaId /\ id \in Ids(id[1])
  BY DEF IsLoaded, Complete
<1>2. PICK outer : outer = OuterLambdas[id]
  OBVIOUS
<1>3. outer = Enclosing(id)
  BY <1>2, OuterUnique
<1>4. PICK m \in Nat \ {0} : m = Len(id)
  BY <1>1, IdOfChild
<1>5. outer \in Seq(Ids(id[1])) /\ Len(outer) = m - 1 /\ \A n \in 1..(m - 1) : outer[n] = Out(id, n)
  BY <1>1, <1>3, <1>4, EnclosingSeq
<1>6. \A n \in 0..(m - 1) : Out(id, n) \in LambdaId
  BY <1>1, <1>4 DEF Complete
<1>7. outer \in Seq(LambdaId)
  <2>1. DOMAIN outer = 1..(m - 1) /\ m - 1 \in Nat /\ outer = [n \in 1..(m - 1) |-> outer[n]]
    BY <1>5, LenProperties
  <2>2. \A n \in 1..(m - 1) : n \in 0..(m - 1)
    OBVIOUS
  <2>3. \A n \in 1..(m - 1) : outer[n] \in LambdaId
    BY <1>5, <1>6, <2>2
  <2> DEFINE S == LambdaId
  <2>4. \A n \in 1..(m - 1) : outer[n] \in S
    BY <2>3
  <2> HIDE DEF S
  <2>5. outer \in [1..(m - 1) -> S]
    BY <2>1, <2>4
  <2>6. outer \in Seq(S)
    BY <2>1, <2>5, SeqDef
  <2> QED
    BY <2>6 DEF S
<1>8. ASSUME NEW offset \in 0..(m - 1) PROVE LambdaAt(id, offset) = Out(id, offset)
  <2>1. CASE offset = 0
    BY <1>1, <2>1, OutNone DEF LambdaAt, Ids
  <2>2. CASE offset # 0
    <3>1. offset \in 1..(m - 1)
      BY <2>2
    <3> QED
      BY <1>2, <1>5, <2>2, <3>1 DEF LambdaAt
  <2> QED
    BY <2>1, <2>2
<1>9. Around(id) = IF m = 1 THEN {} ELSE {Out(id, 1)}
  <2>1. CASE m = 1
    <3>1. outer = << >>
      BY <1>1, <1>3, <1>4, <2>1, EnclosingSeq
    <3> QED
      BY <1>2, <2>1, <3>1 DEF Around
  <2>2. CASE m # 1
    <3>1. 1 \in 1..(m - 1) /\ m - 1 # 0
      BY <2>2
    <3>2. outer # << >> /\ outer[1] = Out(id, 1)
      BY <1>5, <3>1, EmptySeq
    <3> QED
      BY <1>2, <2>2, <3>2 DEF Around
  <2> QED
    BY <2>1, <2>2
<1> QED
  BY <1>2, <1>3, <1>4, <1>5, <1>6, <1>7, <1>8, <1>9

\* A literal that is no lambda is what the reader built.
LEMMA LiteralIsData ==
  ASSUME NEW E, Expressions(E), NEW literal \in E, NEW atom, InMemory(atom, literal)
  PROVE  /\ ~IsType(atom, "compiled_lambda") /\ IsData(atom)
         /\ IsSym(literal) => IsType(atom, "sym")
<1>1. literal.type \in {"nil", "true", "false", "num", "sym", "list"}
  BY ExpressionKinds
<1>2. CASE literal.type = "list"
  BY <1>2 DEF InMemory, IsType, IsData, IsSym
<1>3. CASE literal.type # "list"
  BY <1>1, <1>3 DEF InMemory, IsType, IsData, IsSym
<1> QED
  BY <1>2, <1>3

\* Every instruction of a complete table names what exists.
LEMMA InstructionScoped ==
  ASSUME NEW E, Expressions(E), NEW table, Complete(E, table), IsLoaded(table),
         NEW id \in LambdaId, NEW i \in DOMAIN CompiledLambda[id].code
  PROVE  ScopedInstruction(id, i)
<1>1. DOMAIN table = LambdaId /\ id \in DOMAIN table /\ id \in Ids(id[1])
  BY DEF IsLoaded, Complete
<1>2. PICK code : code = CompiledLambda[id].code
  OBVIOUS
<1>3. /\ code = table[id].code /\ Ended(code) /\ DOMAIN code = 1..Len(code)
      /\ Successors(code, i) \subseteq DOMAIN code
  <2>1. code = table[id].code /\ Ended(code)
    BY <1>1, <1>2 DEF IsLoaded, Complete
  <2>2. code \in Seq(Instruction)
    BY <1>2, CompiledAssumption
  <2>3. Successors(code, i) \subseteq DOMAIN code
    BY <1>2, <2>1, EndedBalanced
  <2> QED
    BY <2>1, <2>2, <2>3, LenProperties
<1>4. PICK instr : instr = code[i]
  OBVIOUS
<1>5. /\ instr.offset \in 0..(Len(id) - 1)
      /\ Names(E, id, table[id], table[Out(id, instr.offset)], instr)
  BY <1>1, <1>2, <1>3, <1>4 DEF Complete
<1>6. PICK to \in LambdaId : to = Out(id, instr.offset) /\ LambdaAt(id, instr.offset) = to
  BY <1>5, OuterOf
<1>7. instr.offset \in 0..Len(OuterLambdas[id])
  <2>1. Len(OuterLambdas[id]) = Len(id) - 1
    BY OuterOf
  <2> QED
    BY <1>5, <2>1
<1>8. /\ CompiledLambda[to].arg_count = table[to].arg_count
      /\ CompiledLambda[to].var_count = table[to].var_count
  BY DEF IsLoaded
<1>9. /\ instr.op = "LOAD_ARG" => instr.arg \in 0..(CompiledLambda[to].arg_count - 1)
      /\ instr.op \in {"LOAD_LOCAL", "STORE_LOCAL"} => instr.arg \in 0..(CompiledLambda[to].var_count - 1)
      /\ instr.op = "CALL" => instr.arg >= 0
  BY <1>5, <1>6, <1>8 DEF Names
<1>10. PICK own : own = CompiledLambda[id].literals
  OBVIOUS
<1>11. DOMAIN own = 1..Len(table[id].literals)
  BY <1>10, LoadedLiterals
<1>12. ASSUME instr.op \in {"LOAD_LITERAL", "LOAD_LAMBDA", "LOAD_ENV"}
       PROVE  /\ to = id /\ instr.arg + 1 \in DOMAIN own
              /\ InMemory(own[instr.arg + 1], table[id].literals[instr.arg + 1])
  <2>1. instr.offset = 0 /\ instr.arg + 1 \in DOMAIN own
    BY <1>5, <1>11, <1>12 DEF Names
  <2>2. to = id
    BY <1>6, <2>1 DEF LambdaAt
  <2> QED
    BY <1>10, <1>11, <2>1, <2>2 DEF IsLoaded
<1>13. PICK index : index = instr.arg + 1
  OBVIOUS
<1>14. ASSUME instr.op = "LOAD_LITERAL"
       PROVE  /\ to = id /\ index \in DOMAIN own
              /\ ~IsType(own[index], "compiled_lambda") /\ IsData(own[index])
  <2>1. table[id].literals[index] \in E
    BY <1>5, <1>13, <1>14 DEF Names
  <2>2. to = id /\ index \in DOMAIN own /\ InMemory(own[index], table[id].literals[index])
    BY <1>12, <1>13, <1>14
  <2> QED
    BY <2>1, <2>2, LiteralIsData
<1>15. ASSUME instr.op = "LOAD_ENV" PROVE index \in DOMAIN own /\ IsType(own[index], "sym")
  <2>1. table[id].literals[index] \in E /\ IsSym(table[id].literals[index])
    BY <1>5, <1>13, <1>15 DEF Names
  <2>2. index \in DOMAIN own /\ InMemory(own[index], table[id].literals[index])
    BY <1>12, <1>13, <1>15
  <2> QED
    BY <2>1, <2>2, LiteralIsData
<1>16. ASSUME instr.op = "LOAD_LAMBDA"
       PROVE  /\ to = id /\ index \in DOMAIN own
              /\ IsType(own[index], "compiled_lambda") /\ Around(own[index].id) = {id}
  <2>1. table[id].literals[index] = LambdaLiteral(Append(id, index))
    BY <1>5, <1>13, <1>16 DEF Names
  <2>2. to = id /\ index \in DOMAIN own /\ InMemory(own[index], table[id].literals[index])
    BY <1>12, <1>13, <1>16
  <2>3. LambdaLiteral(Append(id, index)).type = "compiled_lambda" /\ LambdaLiteral(Append(id, index)).id = Append(id, index)
    BY DEF LambdaLiteral
  <2>4. own[index] = LambdaLiteral(Append(id, index))
    BY <2>1, <2>2, <2>3 DEF InMemory
  <2>5. LambdaLiteral(Append(id, index)) \notin E
    BY <2>3, ExpressionKinds
  <2>6. LiteralKnown(E, table, id, index, LambdaLiteral(Append(id, index)))
    BY <1>1, <1>11, <2>1, <2>2 DEF Complete
  <2>7. PICK child \in LambdaId : child = Append(id, index)
    BY <1>1, <2>5, <2>6 DEF LiteralKnown
  <2>8. index \in Nat
    BY <1>1, <1>11, <2>2 DEF Complete
  <2>9. Len(child) = Len(id) + 1 /\ Len(id) \in Nat \ {0} /\ Out(child, 0 + 1) = Out(id, 0)
    <3>1. \A n \in 0..Len(id) : Out(child, n + 1) = Out(id, n)
      BY <1>1, <2>7, <2>8, IdOfChild
    <3>2. Len(child) = Len(id) + 1 /\ Len(id) \in Nat \ {0}
      BY <1>1, <2>7, <2>8, IdOfChild
    <3>3. 0 \in 0..Len(id)
      BY <3>2
    <3> QED
      BY <3>1, <3>2, <3>3
  <2>10. Out(child, 1) = id
    BY <1>1, <2>9, OutNone DEF Ids
  <2>11. Len(child) # 1
    BY <2>9
  <2>12. Around(child) = {id}
    BY <2>10, <2>11, OuterOf
  <2> QED
    BY <2>2, <2>3, <2>4, <2>7, <2>12 DEF IsType
<1>17. instr.op # "STORE_ENV"
  BY <1>5 DEF Names
<1> QED
  BY <1>2, <1>3, <1>4, <1>6, <1>7, <1>9, <1>10, <1>13, <1>14, <1>15, <1>16, <1>17
     DEF ScopedInstruction, HasLiteral

\* What the compiler hands over is balanced and scoped, whatever it compiled.
LEMMA CompleteCode ==
  ASSUME NEW E, Expressions(E), NEW table, Complete(E, table), IsLoaded(table)
  PROVE  BalancedCode /\ \A id \in LambdaId : Scoped(id)
<1>1. ASSUME NEW id \in LambdaId PROVE Balanced(CompiledLambda[id].code, StackDepth[id])
  <2>1. CompiledLambda[id].code = table[id].code /\ Ended(table[id].code)
    BY DEF IsLoaded, Complete
  <2> QED
    BY <2>1, EndedBalanced DEF StackDepth
<1>2. ASSUME NEW id \in LambdaId PROVE Scoped(id)
  <2>1. PICK outer : outer = OuterLambdas[id]
    OBVIOUS
  <2>2. PICK m \in Nat : m = Len(outer) /\ m = Len(id) - 1
    <3>1. Len(outer) = Len(id) - 1 /\ Len(id) \in Nat \ {0}
      BY <2>1, OuterOf
    <3>2. Len(id) - 1 \in Nat
      BY <3>1
    <3> QED
      BY <3>1, <3>2
  <2>3. /\ outer \in Seq(LambdaId) /\ \A n \in 1..m : outer[n] = Out(id, n)
    BY <2>1, <2>2, OuterOf
  <2>4. ASSUME NEW n \in 1..(m - 1) PROVE Around(outer[n]) = {outer[n + 1]}
    <3>1. n \in 1..m /\ n + 1 \in 1..m /\ n \in 0..(Len(id) - 1) /\ 1 \in 0..(Len(id) - n) /\ n \in 0..Len(id)
      <4>1. Len(id) = m + 1
        <5>1. Len(id) \in Nat \ {0}
          BY OuterOf
        <5> QED
          BY <2>2, <5>1
      <4> QED
        BY <4>1
    <3>2. PICK h \in LambdaId : h = outer[n] /\ h = Out(id, n)
      BY <2>3, <3>1, OuterOf
    <3>3. id \in Ids(id[1])
      BY DEF IsLoaded, Complete
    <3>4. Len(h) = Len(id) - n /\ Len(id) \in Nat
      BY <3>1, <3>2, <3>3, OutInside
    <3>5. Len(h) # 1
      BY <2>2, <3>4
    <3>6. Out(h, 1) = Out(id, n + 1)
      <4> DEFINE R == {id[1]} \cup Nat
      <4>1. id \in Seq(R)
        BY <3>3 DEF Ids
      <4> HIDE DEF R
      <4> QED
        BY <3>1, <3>2, <4>1, OutOut
    <3>7. Around(h) = {Out(h, 1)}
      BY <3>5, OuterOf
    <3> QED
      BY <2>3, <3>1, <3>2, <3>6, <3>7
  <2>5. \A i \in DOMAIN CompiledLambda[id].code : ScopedInstruction(id, i)
    BY InstructionScoped
  <2> QED
    BY <2>1, <2>2, <2>3, <2>4, <2>5 DEF Scoped
<1> QED
  BY <1>1, <1>2 DEF BalancedCode

-----------------------------------------------------------------------------
(* Compiled programs.                                                      *)

\* Every state of a run of the compiler is sound.
LEMMA RunSound ==
  ASSUME NEW E, Expressions(E), NEW run, NEW name, NEW program, CompilerRun(run, name, program),
         program.names \in Seq(STRING), program.body \in E, NEW i \in 1..Len(run)
  PROVE  Sound(E, name, run[i])
<1> DEFINE S == {n \in 1..Len(run) : ~Sound(E, name, run[n])}
<1>1. PICK m \in Nat \ {0} : m = Len(run)
  BY DEF CompilerRun
<1>2. SUFFICES ASSUME S # {} PROVE FALSE
  OBVIOUS
<1>3. S \subseteq Nat
  BY <1>1
<1>4. PICK n \in S : \A k \in S : n <= k
  <2> HIDE DEF S
  <2> QED
    BY <1>2, <1>3, LeastNumber
<1>5. n \in 1..m /\ ~Sound(E, name, run[n])
  BY <1>1, <1>4
<1>6. Sound(E, name, run[1])
  BY StartSound DEF CompilerRun
<1>7. PICK k \in 1..(m - 1) : n = k + 1
  <2>1. n # 1
    BY <1>5, <1>6
  <2>2. n - 1 \in 1..(m - 1) /\ n = (n - 1) + 1
    BY <1>5, <2>1
  <2> QED
    BY <2>2
<1>8. Sound(E, name, run[k])
  <2>1. k \in 1..m /\ ~(n <= k)
    BY <1>7
  <2> QED
    BY <1>1, <1>4, <2>1
<1>9. ~IsCompiled(run[k]) /\ SetsKnownName(run[k]) /\ run[n] = CompileStep(run[k])
  BY <1>1, <1>7 DEF CompilerRun
<1>10. Sound(E, name, CompileStep(run[k]))
  BY <1>8, <1>9, StepSound
<1> QED
  BY <1>5, <1>9, <1>10

\* The tables of the expressions of a program form one complete table.
LEMMA CompiledTables ==
  ASSUME NEW E, NEW source, NEW runs, CompiledFrom(E, source, runs)
  PROVE  Complete(E, ProgramTable(Tables(runs)))
<1>1. PICK compiled : compiled = Tables(runs)
  OBVIOUS
<1>2. ASSUME NEW name \in DOMAIN compiled
      PROVE  Complete(E, compiled[name]) /\ DOMAIN compiled[name] \subseteq Ids(name)
  <2>1. name \in DOMAIN runs /\ name \in DOMAIN source
    BY <1>1 DEF Tables, CompiledFrom
  <2>2. PICK run : run = runs[name]
    OBVIOUS
  <2>3. PICK program : program = source[name]
    OBVIOUS
  <2>4. CompilerRun(run, name, program) /\ program.names \in Seq(STRING) /\ program.body \in E /\ Expressions(E)
    BY <2>1, <2>2, <2>3 DEF CompiledFrom
  <2>5. Len(run) \in 1..Len(run) /\ IsCompiled(run[Len(run)])
    BY <2>4 DEF CompilerRun
  <2>6. PICK last : last = run[Len(run)]
    OBVIOUS
  <2>7. Sound(E, name, last) /\ IsCompiled(last)
    BY <2>4, <2>5, <2>6, RunSound
  <2>8. compiled[name] = last.table
    BY <1>1, <2>1, <2>2, <2>6 DEF Tables
  <2> QED
    BY <2>7, <2>8, SoundComplete
<1> QED
  BY <1>1, <1>2, ProgramsComplete

\* For every program, whatever its expressions are and however deep they are
\* nested: on all ways through the code of a compiled lambda an instruction
\* finds the same number of operands, enough for it, and RETURN exactly one;
\* and what an instruction names by its offset and index exists, in the lambda
\* that is that far out in the text.  The one thing asked for is that `set!`
\* names an argument or a variable of a lambda around it.
THEOREM CompiledCode ==
  ASSUME NEW E, NEW source, NEW runs, CompiledFrom(E, source, runs)
  PROVE  BalancedCode /\ ScopedCode
<1>1. PICK table : table = ProgramTable(Tables(runs))
  OBVIOUS
<1>2. Expressions(E) /\ Complete(E, table) /\ IsLoaded(table)
  BY <1>1, CompiledTables DEF CompiledFrom
<1>3. BalancedCode /\ \A id \in LambdaId : Scoped(id)
  BY <1>2, CompleteCode
<1>4. ASSUME NEW f \in Form, f.form \in {"lambda", "file"} PROVE OuterLambdas[f.cl] = << >>
  <2>1. PICK name \in DOMAIN source : f.cl = <<name>>
    BY <1>4 DEF CompiledFrom
  <2>2. f.cl \in LambdaId
    BY <1>4, FormAssumption DEF FormRecord
  <2>3. <<name>> \in Ids(name) /\ Len(<<name>>) = 1
    BY IdOfProgram
  <2>4. Enclosing(<<name>>) = << >>
    BY <2>3, EnclosingSeq
  <2> QED
    BY <1>2, <2>1, <2>2, <2>4, OuterOf
<1> QED
  BY <1>3, <1>4 DEF ScopedCode

===============================================================================
