--------------------- MODULE BytecodeInterpreterProofs ---------------------
(***************************************************************************)
(* Proofs about the bytecode interpreter, for every program.               *)
(*                                                                         *)
(* First the types.  Then, for programs whose code is balanced: as long as *)
(* outer variables are looked for in frames that are alive, the stack      *)
(* keeps the layout that bytecode_interpreter.c documents, and the         *)
(* registers it saves there stay there.                                    *)
(*                                                                         *)
(* The activations on the stack are frames <<f, k>>: f is the slot of the  *)
(* lambda, k that of the saved state.  Frames do not overlap, so what is   *)
(* stored into a variable of one leaves lambdas and states of all others.  *)
(***************************************************************************)
EXTENDS BalancedBytecode, TLAPS, SequenceTheorems, WellFoundedInduction

-----------------------------------------------------------------------------
(* Atoms.                                                                  *)

\* The fields that the type of an atom promises.
LEMMA AtomFields ==
  ASSUME NEW a \in Atom
  PROVE  /\ a.type = "num" => a.num \in NumValue
         /\ a.type = "sym" => a.sym \in Symbol
         /\ a.type = "pair" => a.cell \in Nat
         /\ a.type = "buildin" => a.func \in Buildin
         /\ a.type = "runtime_lambda" => a.cl \in LambdaId /\ a.scopes \in Nat
         /\ a.type = "interpreter_state" =>
              /\ a.fp_index \in Nat /\ a.ip_index \in Nat /\ a.arg_count \in Nat
              /\ a.frame_scope \in Nat /\ a.scope_escaped \in BOOLEAN
  BY DEF Atom, AtomOver, ValueOver, SavedState, Nil, True, False

\* The atoms that the interpreter makes.
LEMMA AtomsMade ==
  /\ Nil \in Value /\ True \in Value /\ False \in Value
  /\ \A n \in NumValue : Num(n) \in Value
  /\ \A c \in Nat : Pair(c) \in Value
  /\ \A cl \in LambdaId, s \in Nat : RuntimeLambda(cl, s) \in Value
  /\ \A fp \in Nat, i \in Nat, argc \in Nat, e \in BOOLEAN, s \in Nat :
       InterpreterState(fp, i, argc, e, s) \in Atom
  BY DEF Value, Atom, AtomOver, ValueOver, SavedState, Nil, True, False, Num, Pair,
         RuntimeLambda, InterpreterState

LEMMA ValueIsAtom == Value \subseteq Atom
  BY DEF Value, Atom, AtomOver

\* Wrapping brings every integer into the range of a number atom.
LEMMA WrapRange ==
  ASSUME NEW n \in Int
  PROVE  Wrap(n) \in NumValue
<1> DEFINE width == MaxNum - MinNum + 1
<1>1. width \in Nat /\ width > 0
  BY NumAssumption
<1>2. (n - MinNum) % width \in 0..(width - 1)
  BY <1>1, NumAssumption
<1> QED
  BY <1>1, <1>2, NumAssumption DEF Wrap, NumValue

\* and leaves a number in that range as it is.
LEMMA WrapInRange ==
  ASSUME NEW n \in NumValue
  PROVE  Wrap(n) = n
<1>1. MinNum \in Int /\ MaxNum \in Int /\ n \in Int /\ MinNum <= n /\ n <= MaxNum
  BY NumAssumption DEF NumValue
<1>2. PICK m \in Nat, w \in Nat : m = n - MinNum /\ w = MaxNum - MinNum + 1 /\ m < w
  BY <1>1
<1>3. m % w = m
  BY <1>2
<1> QED
  BY <1>1, <1>2, <1>3 DEF Wrap

\* The quotient of two natural numbers is no larger than the dividend, and
\* smaller by half unless the divisor is 1.
LEMMA NaturalDivision ==
  \A n, d \in Nat : d > 0 => \E q, r \in Nat :
    /\ q = n \div d /\ r = n % d /\ r < d /\ q * d + r = n
    /\ q <= n /\ q * d <= n /\ (d = 1 => q = n) /\ (d > 1 => 2 * q <= n)
<1> SUFFICES ASSUME NEW n \in Nat, NEW d \in Nat, d > 0
             PROVE  \E q, r \in Nat :
                      /\ q = n \div d /\ r = n % d /\ r < d /\ q * d + r = n
                      /\ q <= n /\ q * d <= n /\ (d = 1 => q = n) /\ (d > 1 => 2 * q <= n)
  OBVIOUS
<1>1. PICK q \in Nat, r \in Nat : q = n \div d /\ r = n % d /\ r < d /\ q * d + r = n
  OBVIOUS
<1>2. PICK p \in Nat : p = q * d /\ p + r = n
  BY <1>1
<1>3. q <= p /\ (d > 1 => 2 * q <= p)
  BY <1>2
<1>4. d = 1 => q = n
  BY <1>1
<1>5. q <= n /\ q * d <= n /\ (d > 1 => 2 * q <= n)
  BY <1>1, <1>2, <1>3
<1> QED
  BY <1>1, <1>4, <1>5

\* For integers of any width in two's complement: division rounds towards zero,
\* a division that does not trap never overflows, and the quotient, multiplied
\* and added to the remainder as instructions do, gives the dividend back.
THEOREM DivisionBelongsTogether ==
  ASSUME MinNum = -MaxNum - 1,
         NEW a \in NumValue, NEW b \in NumValue, ~DivisionTraps(a, b)
  PROVE  /\ Quotient(a, b) \in NumValue /\ Remainder(a, b) \in NumValue
         /\ Abs(Remainder(a, b)) < Abs(b) /\ (a < 0 => Remainder(a, b) <= 0)
         /\ (a >= 0 => Remainder(a, b) >= 0)
         /\ Wrap(Wrap(Quotient(a, b) * b) + Remainder(a, b)) = a
<1>1. /\ MinNum \in Int /\ MaxNum \in Nat /\ a \in Int /\ b \in Int /\ b # 0
      /\ MinNum <= a /\ a <= MaxNum /\ MinNum <= b /\ b <= MaxNum
      /\ (a = MinNum => b # -1)
  BY NumAssumption DEF NumValue, DivisionTraps
<1>2. PICK n \in Nat, d \in Nat : n = Abs(a) /\ d = Abs(b) /\ d > 0
  BY <1>1 DEF Abs
<1>3. /\ n = (IF a < 0 THEN -a ELSE a) /\ d = (IF b < 0 THEN -b ELSE b)
  BY <1>2 DEF Abs
<1>4. PICK q \in Nat, r \in Nat :
        /\ q = n \div d /\ r = n % d /\ r < d /\ q * d + r = n
        /\ q <= n /\ q * d <= n /\ (d = 1 => q = n) /\ (d > 1 => 2 * q <= n)
  BY <1>2, NaturalDivision
<1>5. /\ r < d /\ q * d + r = n
      /\ q <= n /\ q * d <= n /\ (d = 1 => q = n) /\ (d > 1 => 2 * q <= n)
  BY <1>4
<1>6. PICK p \in Nat : p = q * d
  BY <1>5
<1>7. PICK Q \in Int, R \in Int : Q = Quotient(a, b) /\ R = Remainder(a, b)
                                  /\ Q = (IF (a < 0) = (b < 0) THEN q ELSE -q)
                                  /\ R = (IF a < 0 THEN -r ELSE r)
  <2>1. Abs(a) \div Abs(b) = q /\ Abs(a) % Abs(b) = r
    BY <1>2, <1>4
  <2>2. /\ Quotient(a, b) = (IF (a < 0) = (b < 0) THEN q ELSE -q)
        /\ Remainder(a, b) = (IF a < 0 THEN -r ELSE r)
    BY <2>1 DEF Quotient, Remainder
  <2>3. Quotient(a, b) \in Int /\ Remainder(a, b) \in Int
    BY <1>1, <1>5, <2>2
  <2> QED
    BY <2>2, <2>3
<1>8. Q * b = IF a < 0 THEN -p ELSE p
  <2>1. CASE a < 0 /\ b < 0
    BY <1>1, <1>3, <1>5, <1>6, <1>7, <2>1
  <2>2. CASE a < 0 /\ ~(b < 0)
    BY <1>1, <1>3, <1>5, <1>6, <1>7, <2>2
  <2>3. CASE ~(a < 0) /\ b < 0
    BY <1>1, <1>3, <1>5, <1>6, <1>7, <2>3
  <2>4. CASE ~(a < 0) /\ ~(b < 0)
    BY <1>1, <1>3, <1>5, <1>6, <1>7, <2>4
  <2> QED
    BY <2>1, <2>2, <2>3, <2>4
<1>9. p + r = n /\ p <= n /\ r < d /\ q <= n /\ (d = 1 => q = n) /\ (d > 1 => 2 * q <= n)
  BY <1>5, <1>6
<1>10. Q \in NumValue
  <2>1. MinNum <= Q /\ Q <= MaxNum
    BY <1>1, <1>2, <1>3, <1>5, <1>7, <1>9
  <2> QED
    BY <1>1, <1>7, <2>1 DEF NumValue
<1>11. R \in NumValue
  <2>1. MinNum <= R /\ R <= MaxNum
    BY <1>1, <1>2, <1>3, <1>5, <1>6, <1>7, <1>9
  <2> QED
    BY <1>1, <1>7, <2>1 DEF NumValue
<1>12. Q * b \in NumValue
  <2>1. MinNum <= Q * b /\ Q * b <= MaxNum /\ Q * b \in Int
    BY <1>1, <1>2, <1>3, <1>6, <1>8, <1>9
  <2> QED
    BY <1>1, <2>1 DEF NumValue
<1>13. Q * b + R = a
  BY <1>1, <1>2, <1>3, <1>5, <1>6, <1>7, <1>8, <1>9
<1>14. Wrap(Wrap(Q * b) + R) = a
  BY <1>12, <1>13, WrapInRange
<1>15. Abs(R) < Abs(b) /\ (a < 0 => R <= 0) /\ (a >= 0 => R >= 0)
  BY <1>1, <1>2, <1>5, <1>7 DEF Abs
<1> QED
  BY <1>7, <1>10, <1>11, <1>14, <1>15

LEMMA LeastElement ==
  ASSUME NEW S, S \subseteq Nat, S # {}
  PROVE  \E i \in S : \A j \in S : i <= j
<1>1. IsWellFoundedOn(OpToRel(<, Nat), Nat)
  BY NatLessThanWellFounded
<1>2. PICK x \in S : \A y \in S : ~ (<<y, x>> \in OpToRel(<, Nat))
  BY <1>1, WFMin
<1>3. \A y \in S : ~ (y < x)
  BY <1>2 DEF OpToRel
<1> QED
  BY <1>3

LEMMA FirstBindingFound ==
  ASSUME NEW e \in Seq(Binding), NEW key, Bound(e, key)
  PROVE  FirstBinding(e, key) \in 1..Len(e)
<1>1. Bindings(e, key) \subseteq Nat /\ Bindings(e, key) \subseteq 1..Len(e) /\ Bindings(e, key) # {}
  BY DEF Bindings, Bound
<1>2. \E i \in Bindings(e, key) : \A j \in Bindings(e, key) : i <= j
  BY <1>1, LeastElement
<1>3. FirstBinding(e, key) \in Bindings(e, key)
  BY <1>2 DEF FirstBinding
<1> QED
  BY <1>1, <1>3

LEMMA EnvGetType ==
  ASSUME NEW e \in Seq(Binding), NEW key, Bound(e, key)
  PROVE  EnvGet(e, key) \in Atom
<1>1. e[FirstBinding(e, key)] \in Binding
  BY FirstBindingFound
<1> QED
  BY <1>1 DEF EnvGet, Binding, BindingOver, Atom

LEMMA EnvSetType ==
  ASSUME NEW e \in Seq(Binding), NEW key, NEW a \in Atom
  PROVE  EnvSet(e, key, a) \in Seq(Binding)
<1>1. CASE ~Bound(e, key)
  BY <1>1 DEF EnvSet
<1>2. CASE Bound(e, key)
  <2> DEFINE i == FirstBinding(e, key)
  <2>1. i \in 1..Len(e)
    BY <1>2, FirstBindingFound
  <2>2. [e[i] EXCEPT !.value = a] \in Binding
    <3>1. e[i] \in Binding
      BY <2>1
    <3> QED
      BY <3>1 DEF Binding, BindingOver, Atom
  <2>3. EnvSet(e, key, a) = [e EXCEPT ![i] = [e[i] EXCEPT !.value = a]]
    BY <1>2 DEF EnvSet
  <2> HIDE DEF i
  <2> QED
    BY <2>1, <2>2, <2>3, ExceptSeq
<1> QED
  BY <1>1, <1>2

-----------------------------------------------------------------------------
(* The execution stack.                                                    *)

LEMMA PopProperties ==
  ASSUME stack \in Seq(Atom), NEW n \in 0..Len(stack)
  PROVE  /\ Pop(n) \in Seq(Atom)
         /\ Len(Pop(n)) = Len(stack) - n
         /\ \A i \in 1..(Len(stack) - n) : Pop(n)[i] = stack[i]
  BY DEF Pop

LEMMA TopType ==
  ASSUME stack \in Seq(Atom), NEW n \in 0..(Len(stack) - 1)
  PROVE  Top(n) \in Atom
  BY DEF Top

LEMMA NilsProperties ==
  ASSUME NEW n \in Nat
  PROVE  /\ Nils(n) \in Seq(Value)
         /\ Len(Nils(n)) = n
         /\ \A i \in 1..n : Nils(n)[i] = Nil
  BY AtomsMade DEF Nils

-----------------------------------------------------------------------------
(* The instruction about to run.                                           *)

LEMMA InLoop ==
  ASSUME TypeOK, status = "running"
  PROVE  /\ rl.cl \in LambdaId
         /\ rl.scopes \in Nat
         /\ Code \in Seq(Instruction)
         /\ Compiled(rl).literals \in Seq(Literal)
         /\ Compiled(rl).arg_count \in Nat
         /\ Compiled(rl).var_count \in Nat
         /\ ip \in 1..Len(Code)
         /\ Current \in Instruction
<1>1. rl.cl \in LambdaId /\ rl.scopes \in Nat
  BY AtomFields DEF TypeOK, IsType
<1>2. Compiled(rl) \in [code : Seq(Instruction), literals : Seq(Literal),
                        arg_count : Nat, var_count : Nat]
  BY <1>1, CompiledAssumption DEF Compiled
<1> QED
  BY <1>1, <1>2 DEF TypeOK, Code, Current

LEMMA TargetScopeType ==
  ASSUME TypeOK, status = "running", NEW offset \in Nat,
         offset > 0 => ScopeId(offset) \in DOMAIN scopes
  PROVE  TargetScope(offset) \in Scope
<1>1. CASE offset = 0
  BY <1>1, InLoop DEF TypeOK, TargetScope, ThisScope, StackScope, Scope, ScopeOver
<1>2. CASE offset > 0
  BY <1>2 DEF TypeOK, TargetScope
<1> QED
  BY <1>1, <1>2

LEMMA SlotType ==
  ASSUME TypeOK, NEW scope \in Scope, NEW i \in Nat, SlotExists(scope, i)
  PROVE  Slot(scope, i) \in Atom
<1>1. CASE scope.type = "stack"
  BY <1>1 DEF TypeOK, Slot, SlotExists
<1>2. CASE scope.type # "stack"
  <2>1. CASE scope \in [type : {"heap"}, next : Nat, arg_count : Nat, frame_index : {0},
                       atoms : Seq(Atom)]
    BY <2>1, <1>2 DEF Slot, SlotExists
  <2>2. CASE scope = EnvScope
    BY <2>2, <1>2 DEF SlotExists, EnvScope
  <2> QED
    BY <1>2, <2>1, <2>2 DEF Scope, ScopeOver, Atom
<1> QED
  BY <1>1, <1>2

LEMMA TargetLambdaType ==
  ASSUME TypeOK, status = "running", NEW offset \in Nat, HasFrame(offset)
  PROVE  /\ TargetLambda(offset).literals \in Seq(Literal)
         /\ TargetLambda(offset).var_count \in Nat
<1>1. TargetScope(offset) \in Scope
  BY TargetScopeType DEF HasFrame
<1>2. Slot(TargetScope(offset), 1) \in Atom
  BY <1>1, SlotType DEF HasFrame
<1>3. Slot(TargetScope(offset), 1).cl \in LambdaId
  BY <1>2, AtomFields DEF HasFrame, IsType
<1> QED
  BY <1>3, CompiledAssumption DEF TargetLambda, Compiled

\* Most instructions leave the registers and the memory alone.
LEMMA TypeOfOperandStep ==
  ASSUME TypeOK, status = "running",
         UNCHANGED <<memory, registers, session, result, status>>,
         stack' \in Seq(Atom), ip' \in DOMAIN Code
  PROVE  TypeOK'
<1>1. /\ env' = env /\ scopes' = scopes /\ pairs' = pairs
      /\ frame_index' = frame_index /\ arg_count' = arg_count /\ rl' = rl
      /\ frame_scope' = frame_scope /\ scope_escaped' = scope_escaped
      /\ args' = args /\ form' = form /\ forms' = forms
      /\ result' = result /\ status' = status
  BY DEF memory, registers, session
<1>2. ip' \in DOMAIN Code' /\ ip' \in Int
  BY <1>1, InLoop DEF Code, Compiled
<1> QED
  BY <1>1, <1>2 DEF TypeOK

LEMMA FallThrough ==
  ASSUME TypeOK, NEW ops, Executing(ops),
         Current.op # "RETURN", ~(Current.op = "CALL" /\ IsType(Callee, "runtime_lambda"))
  PROVE  NextIp \in DOMAIN Code
  BY DEF Executing, Executable

LEMMA EnoughOperands ==
  ASSUME NEW ops, Executing(ops)
  PROVE  Operands(Current) \in 0..Len(stack)
  BY DEF Executing, Executable

-----------------------------------------------------------------------------
(* Type correctness, one instruction at a time.                            *)

\* An instruction that replaces n operands by one atom and falls through.
LEMMA TypeOfReplacement ==
  ASSUME TypeOK, NEW ops, Executing(ops),
         NEW n \in 0..Len(stack), NEW a \in Atom, stack' = Append(Pop(n), a),
         Current.op # "RETURN", ~(Current.op = "CALL" /\ IsType(Callee, "runtime_lambda")),
         ip' = NextIp,
         UNCHANGED <<memory, registers, session, result, status>>
  PROVE  TypeOK'
<1>1. stack' \in Seq(Atom)
  BY PopProperties DEF TypeOK
<1>2. ip' \in DOMAIN Code
  BY FallThrough
<1> QED
  BY <1>1, <1>2, TypeOfOperandStep DEF Executing

\* An instruction that pushes an atom and falls through.
LEMMA TypeOfPush ==
  ASSUME TypeOK, NEW ops, Executing(ops),
         NEW a \in Atom, Push(a),
         Current.op # "RETURN", Current.op # "CALL",
         ip' = NextIp,
         UNCHANGED <<memory, registers, session, result, status>>
  PROVE  TypeOK'
<1>1. stack' \in Seq(Atom)
  BY DEF TypeOK, Push
<1>2. ip' \in DOMAIN Code
  BY FallThrough
<1> QED
  BY <1>1, <1>2, TypeOfOperandStep DEF Executing

LEMMA LoadConstantType ==
  ASSUME TypeOK, LoadConstant
  PROVE  TypeOK'
<1>1. Current \in Instruction /\ Current.op \in LoadConstantOp
  BY InLoop DEF LoadConstant, Executing
<1>2. Num(Wrap(Current.arg)) \in Atom
  BY <1>1, WrapRange, AtomsMade, ValueIsAtom DEF Instruction
<1>3. PICK a \in Atom : Push(a)
  BY <1>1, <1>2, AtomsMade, ValueIsAtom DEF LoadConstant, LoadConstantOp
<1> QED
  BY <1>1, <1>3, TypeOfPush DEF LoadConstant, LoadConstantOp

LEMMA LoadLiteralType ==
  ASSUME TypeOK, LoadLiteral
  PROVE  TypeOK'
<1> DEFINE literal == TargetLambda(Current.offset).literals[Current.arg + 1]
<1>1. Current \in Instruction /\ Current.op = "LOAD_LITERAL" /\ status = "running"
  BY InLoop DEF LoadLiteral, Executing
<1>2. /\ HasFrame(Current.offset)
      /\ HasLiteral(TargetLambda(Current.offset), Current.arg)
      /\ ~IsType(literal, "compiled_lambda")
  BY <1>1 DEF LoadLiteral, Executing, Executable
<1>3. literal \in Literal
  BY <1>1, <1>2, TargetLambdaType DEF Instruction, HasLiteral
<1>4. literal \in Atom
  BY <1>2, <1>3, ValueIsAtom DEF Literal, IsType
<1> QED
  BY <1>1, <1>4, TypeOfPush DEF LoadLiteral

LEMMA LoadVariableType ==
  ASSUME TypeOK, LoadVariable
  PROVE  TypeOK'
<1> DEFINE scope == TargetScope(Current.offset)
<1>1. Current \in Instruction /\ Current.op \in LoadVariableOp /\ status = "running"
  BY InLoop DEF LoadVariable, Executing
<1>2. HasVariable(Current)
  BY <1>1 DEF LoadVariable, Executing, Executable
<1>3. scope \in Scope
  BY <1>1, <1>2, TargetScopeType DEF Instruction, HasVariable
<1>4. VariableSlot(Current) \in Nat
  <2>1. scope.arg_count \in Nat
    BY <1>3 DEF Scope, ScopeOver, EnvScope
  <2> QED
    BY <1>1, <1>2, <2>1 DEF VariableSlot, HasVariable, Instruction
<1>5. Slot(scope, VariableSlot(Current)) \in Atom
  BY <1>2, <1>3, <1>4, SlotType DEF HasVariable
<1> QED
  BY <1>1, <1>5, TypeOfPush DEF LoadVariable, LoadVariableOp

LEMMA LoadEnvType ==
  ASSUME TypeOK, LoadEnv
  PROVE  TypeOK'
<1>1. Current.op = "LOAD_ENV"
  BY DEF LoadEnv, Executing
<1>2. PICK a \in Atom : Push(a)
  BY EnvGetType, AtomsMade, ValueIsAtom DEF LoadEnv, TypeOK
<1> QED
  BY <1>1, <1>2, TypeOfPush DEF LoadEnv

LEMMA LoadLambdaType ==
  ASSUME TypeOK, LoadLambda
  PROVE  TypeOK'
<1> DEFINE literal == TargetLambda(Current.offset).literals[Current.arg + 1]
<1>1. Current \in Instruction /\ Current.op = "LOAD_LAMBDA" /\ status = "running"
  BY InLoop DEF LoadLambda, Executing
<1>2. /\ HasFrame(Current.offset)
      /\ HasLiteral(TargetLambda(Current.offset), Current.arg)
      /\ IsType(literal, "compiled_lambda")
  BY <1>1 DEF LoadLambda, Executing, Executable
<1>3. literal \in Literal
  BY <1>1, <1>2, TargetLambdaType DEF Instruction, HasLiteral
<1>4. literal.id \in LambdaId
  BY <1>2, <1>3 DEF Literal, Value, ValueOver, IsType, Nil, True, False
<1>5. ThisScope \in Scope
  BY <1>1, InLoop DEF TypeOK, ThisScope, StackScope, Scope, ScopeOver
<1>6. scopes' \in Seq(Scope) /\ frame_scope' \in Nat
  <2>1. scopes \in Seq(Scope) /\ frame_scope \in Nat
    BY DEF TypeOK
  <2>2. CASE frame_scope = NULL
    <3>1. scopes' = Append(scopes, ThisScope) /\ frame_scope' = Len(scopes) + 1
      BY <2>2 DEF LoadLambda, NeedsScope
    <3> QED
      BY <1>5, <2>1, <3>1, AppendProperties, LenProperties
  <2>3. CASE frame_scope # NULL
    BY <2>1, <2>3 DEF LoadLambda, NeedsScope
  <2> QED
    BY <2>2, <2>3
<1>7. stack' \in Seq(Atom)
  <2>1. RuntimeLambda(literal.id, frame_scope') \in Atom
    BY <1>4, <1>6, AtomsMade, ValueIsAtom
  <2> QED
    BY <2>1 DEF LoadLambda, Push, TypeOK
<1>8. ip' \in DOMAIN Code
  BY <1>1, FallThrough DEF LoadLambda
<1>9. ip' \in DOMAIN Code' /\ ip' \in Int
  BY <1>1, <1>8, InLoop DEF LoadLambda, Code, Compiled
<1> QED
  BY <1>6, <1>7, <1>9 DEF LoadLambda, TypeOK, session

LEMMA StoreLocalType ==
  ASSUME TypeOK, StoreLocal
  PROVE  TypeOK'
<1> DEFINE scope == TargetScope(Current.offset)
           i == VariableSlot(Current)
<1>1. Current \in Instruction /\ Current.op = "STORE_LOCAL" /\ status = "running"
  BY InLoop DEF StoreLocal, Executing
<1>2. HasVariable(Current)
  BY <1>1 DEF StoreLocal, Executing, Executable
<1>3. scope \in Scope
  BY <1>1, <1>2, TargetScopeType DEF Instruction, HasVariable
<1>4. Top(0) \in Atom
  <2>1. Operands(Current) = 1
    BY <1>1 DEF Operands, ArithmeticOp, CompareOp, PartOp
  <2>2. Len(stack) >= 1 /\ Len(stack) \in Nat
    BY <2>1, EnoughOperands DEF StoreLocal, TypeOK
  <2> QED
    BY <2>2, TopType DEF TypeOK
<1>5. scope_escaped' \in BOOLEAN
  BY DEF StoreLocal, TypeOK, EscapedBy
<1>6. stack' \in Seq(Atom) /\ scopes' \in Seq(Scope)
  <2>1. CASE scope.type = "stack"
    <3>1. scope.frame_index + i - 1 \in 1..Len(stack)
      BY <1>2, <2>1 DEF HasVariable, SlotExists, TypeOK
    <3>2. stack' = [stack EXCEPT ![scope.frame_index + i - 1] = Top(0)] /\ scopes' = scopes
      BY <2>1 DEF StoreLocal
    <3> QED
      BY <1>4, <3>1, <3>2, ExceptSeq DEF TypeOK
  <2>2. CASE scope.type # "stack"
    <3> DEFINE s == ScopeId(Current.offset)
    <3>1. Current.offset # 0 /\ scope = scopes[s] /\ s \in DOMAIN scopes
      BY <1>1, <1>2, <2>2 DEF TargetScope, ThisScope, StackScope, HasVariable, Instruction
    <3>2. scope \in [type : {"heap"}, next : Nat, arg_count : Nat, frame_index : {0},
                     atoms : Seq(Atom)]
      BY <1>2, <1>3, <2>2 DEF HasVariable, Scope, ScopeOver, EnvScope, Atom
    <3>3. i \in 1..Len(scope.atoms)
      BY <1>2, <2>2, <3>2 DEF HasVariable, SlotExists
    <3>4. [scope.atoms EXCEPT ![i] = Top(0)] \in Seq(Atom)
      <4> HIDE DEF i, scope
      <4> QED
        BY <1>4, <3>2, <3>3, ExceptSeq
    <3>5. [scope EXCEPT !.atoms = [scope.atoms EXCEPT ![i] = Top(0)]] \in Scope
      <4>1. [scope EXCEPT !.atoms = [scope.atoms EXCEPT ![i] = Top(0)]]
              \in [type : {"heap"}, next : Nat, arg_count : Nat, frame_index : {0},
                   atoms : Seq(Atom)]
        BY <3>2, <3>4
      <4> QED
        BY <4>1 DEF Scope, ScopeOver, Atom
    <3>6. /\ scopes' = [scopes EXCEPT ![s] = [scope EXCEPT !.atoms = [scope.atoms EXCEPT ![i] = Top(0)]]]
          /\ stack' = stack
      BY <2>2, <3>1 DEF StoreLocal
    <3>7. s \in 1..Len(scopes) /\ scopes \in Seq(Scope)
      BY <3>1 DEF TypeOK
    <3> HIDE DEF s, scope, i
    <3> QED
      BY <3>5, <3>6, <3>7, ExceptSeq DEF TypeOK
  <2> QED
    BY <2>1, <2>2
<1>7. ip' \in DOMAIN Code' /\ ip' \in Int
  BY <1>1, FallThrough, InLoop DEF StoreLocal, Code, Compiled
<1> QED
  BY <1>5, <1>6, <1>7 DEF StoreLocal, TypeOK, session

LEMMA StoreEnvType ==
  ASSUME TypeOK, StoreEnv
  PROVE  TypeOK'
<1>1. Current \in Instruction /\ Current.op = "STORE_ENV" /\ status = "running"
  BY InLoop DEF StoreEnv, Executing
<1>2. Top(0) \in Atom
  <2>1. Operands(Current) = 1
    BY <1>1 DEF Operands, ArithmeticOp, CompareOp, PartOp
  <2>2. Len(stack) >= 1 /\ Len(stack) \in Nat
    BY <2>1, EnoughOperands DEF StoreEnv, TypeOK
  <2> QED
    BY <2>2, TopType DEF TypeOK
<1>3. env' \in Seq(Binding)
  BY <1>2, EnvSetType DEF StoreEnv, TypeOK
<1>4. scope_escaped' \in BOOLEAN
  BY DEF StoreEnv, TypeOK, EscapedBy
<1>5. ip' \in DOMAIN Code' /\ ip' \in Int
  BY <1>1, FallThrough, InLoop DEF StoreEnv, Code, Compiled
<1> QED
  BY <1>3, <1>4, <1>5 DEF StoreEnv, TypeOK, session

LEMMA DropType ==
  ASSUME TypeOK, Drop
  PROVE  TypeOK'
<1>1. Current.op = "DROP" /\ status = "running"
  BY DEF Drop, Executing
<1>2. 1 \in 0..Len(stack)
  BY <1>1, EnoughOperands DEF Drop, Operands, ArithmeticOp, CompareOp, PartOp
<1>3. stack' \in Seq(Atom)
  BY <1>2, PopProperties DEF Drop, TypeOK
<1> QED
  BY <1>1, <1>3, FallThrough, TypeOfOperandStep DEF Drop

LEMMA JumpType ==
  ASSUME TypeOK, Jump
  PROVE  TypeOK'
<1>1. Current.op = "JUMP" /\ status = "running"
  BY DEF Jump, Executing
<1>2. stack' \in Seq(Atom)
  BY DEF Jump, TypeOK
<1> QED
  BY <1>1, <1>2, FallThrough, TypeOfOperandStep DEF Jump

LEMMA JumpIfFalseType ==
  ASSUME TypeOK, JumpIfFalse
  PROVE  TypeOK'
<1>1. Current.op = "JUMP_IF_FALSE" /\ status = "running"
  BY DEF JumpIfFalse, Executing
<1>2. 1 \in 0..Len(stack)
  BY <1>1, EnoughOperands DEF JumpIfFalse, Operands, ArithmeticOp, CompareOp, PartOp
<1>3. stack' \in Seq(Atom)
  BY <1>2, PopProperties DEF JumpIfFalse, TypeOK
<1> QED
  BY <1>1, <1>3, FallThrough, TypeOfOperandStep DEF JumpIfFalse

\* What CALL finds on the stack.
LEMMA CalleeType ==
  ASSUME TypeOK, Executing({"CALL"})
  PROVE  /\ Current.arg \in Nat
         /\ Current.arg + 1 <= Len(stack)
         /\ Callee \in Atom
<1>1. Current \in Instruction /\ Current.op = "CALL" /\ status = "running"
  BY InLoop DEF Executing
<1>2. Current.arg + 1 \in 0..Len(stack)
  BY <1>1, EnoughOperands DEF Operands, ArithmeticOp, CompareOp, PartOp
<1>3. Current.arg \in Nat /\ Current.arg + 1 <= Len(stack)
  BY <1>1, <1>2 DEF Instruction, Executing, Executable
<1> QED
  BY <1>3, TopType DEF Callee, TypeOK

LEMMA CallRuntimeLambdaType ==
  ASSUME TypeOK, CallRuntimeLambda
  PROVE  TypeOK'
<1> DEFINE nils == Nils(Compiled(Callee).var_count)
           state == InterpreterState(frame_index, ip, arg_count, scope_escaped, frame_scope)
<1>1. /\ Current.arg \in Nat /\ Current.arg + 1 <= Len(stack)
      /\ Callee \in Atom /\ Callee.type = "runtime_lambda"
      /\ status = "running"
  BY CalleeType DEF CallRuntimeLambda, IsType, Executing
<1>2. Callee.cl \in LambdaId
  BY <1>1, AtomFields
<1>3. Compiled(Callee).var_count \in Nat /\ Compiled(Callee).code \in Seq(Instruction)
        /\ Compiled(Callee).code # << >>
  BY <1>2, CompiledAssumption DEF Compiled
<1>4. nils \in Seq(Atom)
  BY <1>3, NilsProperties, ValueIsAtom, SeqMonotonic
<1>5. state \in Atom
  BY <1>1, InLoop, AtomsMade DEF TypeOK
<1>6. stack' \in Seq(Atom)
  <2>1. stack' = stack \o nils \o <<state>> /\ stack \in Seq(Atom)
    BY DEF CallRuntimeLambda, TypeOK
  <2> HIDE DEF nils, state
  <2> QED
    BY <1>4, <1>5, <2>1, ConcatProperties
<1>7. /\ rl' = Callee /\ ip' = 1 /\ status' = status
      /\ frame_index' = Len(stack) - Current.arg /\ arg_count' = Current.arg
  BY DEF CallRuntimeLambda
<1>8. frame_index' \in Nat /\ frame_index' > 0
  BY <1>1, <1>7, LenProperties DEF TypeOK
<1>9. 1 \in DOMAIN Code'
  BY <1>3, <1>7 DEF Code, Compiled
<1>10. /\ env' = env /\ scopes' = scopes /\ pairs' = pairs /\ result' = result
       /\ args' = args /\ form' = form /\ forms' = forms
       /\ frame_scope' = 0 /\ scope_escaped' = FALSE
  BY DEF CallRuntimeLambda, memory, session, NULL
<1>11. arg_count' \in Nat /\ ip' \in Int /\ rl' \in Atom /\ IsType(rl', "runtime_lambda")
  BY <1>1, <1>7 DEF IsType
<1> QED
  BY <1>6, <1>7, <1>8, <1>9, <1>10, <1>11 DEF TypeOK

LEMMA CallBuildinType ==
  ASSUME TypeOK, CallBuildin
  PROVE  TypeOK'
<1>1. /\ Current.arg \in Nat /\ Current.arg + 1 \in 0..Len(stack)
      /\ Callee \in Atom /\ Callee.type = "buildin"
      /\ Current.op = "CALL"
  BY CalleeType, LenProperties DEF CallBuildin, IsType, Executing, TypeOK
<1>2. PICK value \in BuildinResults(Callee.func, Actuals) :
        stack' = Append(Pop(Current.arg + 1), value)
  BY DEF CallBuildin
<1>3. Callee.func \in {"print", "gc_heap_size", "plus"}
  BY DEF CallBuildin, SimpleFunc
<1>4. value \in Atom
  <2>1. CASE Callee.func = "print"
    BY <1>2, <2>1, AtomsMade, ValueIsAtom DEF BuildinResults
  <2>2. CASE Callee.func = "gc_heap_size"
    BY <1>2, <2>2, AtomsMade, ValueIsAtom, SizeAssumption DEF BuildinResults
  <2>3. CASE Callee.func = "plus"
    <3> DEFINE a == EvalAtom(Actuals[1])
               b == EvalAtom(Actuals[2])
    <3>1. Actuals[1] \in Atom /\ Actuals[2] \in Atom
      <4>1. Current.arg >= 2
        BY <1>1, <2>3 DEF CallBuildin, Executing, Executable, BuildinArity, ArithmeticFunc, IsType
      <4>2. /\ stack[Len(stack) - Current.arg + 1] \in Atom
            /\ stack[Len(stack) - Current.arg + 2] \in Atom
        <5>1. /\ Len(stack) - Current.arg + 1 \in 1..Len(stack)
              /\ Len(stack) - Current.arg + 2 \in 1..Len(stack)
          BY <1>1, <4>1
        <5>2. stack \in Seq(Atom)
          BY DEF TypeOK
        <5> QED
          BY <5>1, <5>2, ElementOfSeq
      <4>3. /\ Actuals[1] = stack[Len(stack) - Current.arg + 1]
            /\ Actuals[2] = stack[Len(stack) - Current.arg + 2]
        <5> DEFINE m == Len(stack) - Current.arg + 1
        <5>1. m \in 1..(Len(stack) + 1) /\ Len(stack) \in (m - 1)..Len(stack)
          BY <1>1, LenProperties DEF TypeOK
        <5>2. \A j \in 1..(Len(stack) - m + 1) : Actuals[j] = stack[m + j - 1]
          <6>1. m \in Int /\ Len(stack) \in Int /\ m..Len(stack) \subseteq 1..Len(stack)
            BY <1>1, <5>1
          <6>2. \A j \in m..Len(stack) : stack[j] \in Atom
            <7> HIDE DEF m
            <7> QED
              BY <6>1, ElementOfSeq DEF TypeOK
          <6>3. Actuals = SubSeq(stack, m, Len(stack))
            BY DEF Actuals
          <6> HIDE DEF m
          <6> QED
            BY <6>1, <6>2, <6>3, SubSeqProperties
        <5>3. Len(stack) - m + 1 = Current.arg
          BY <1>1, LenProperties DEF TypeOK
        <5>4. m \in Int /\ 1 \in 1..Current.arg /\ 2 \in 1..Current.arg
          BY <1>1, <4>1, <5>1
        <5>5. Actuals[1] = stack[m] /\ Actuals[2] = stack[m + 1]
          <6> HIDE DEF m
          <6> QED
            BY <5>2, <5>3, <5>4
        <5>6. m + 1 = Len(stack) - Current.arg + 2
          BY <1>1, LenProperties DEF TypeOK
        <5> QED
          BY <5>5, <5>6
      <4> QED
        BY <4>2, <4>3
    <3>2. a \in Atom /\ b \in Atom
      BY <3>1, EnvGetType, AtomsMade, ValueIsAtom DEF EvalAtom, TypeOK, IsType
    <3>3. CASE IsType(a, "num") /\ IsType(b, "num")
      <4>1. a.num + b.num \in Int
        BY <3>2, <3>3, AtomFields, NumAssumption DEF IsType, NumValue
      <4>2. value = Num(Wrap(a.num + b.num))
        BY <1>2, <2>3, <3>3 DEF BuildinResults
      <4> QED
        BY <4>1, <4>2, WrapRange, AtomsMade, ValueIsAtom
    <3>4. CASE ~(IsType(a, "num") /\ IsType(b, "num"))
      BY <1>2, <2>3, <3>4, AtomsMade, ValueIsAtom DEF BuildinResults
    <3> QED
      BY <3>3, <3>4
  <2> QED
    BY <1>3, <2>1, <2>2, <2>3
<1> QED
  BY <1>1, <1>2, <1>4, TypeOfReplacement DEF CallBuildin, IsType

\* RETURN turns a stack scope into a heap scope.
LEMMA CaptureType ==
  ASSUME TypeOK, Executing({"RETURN"}), EscapedBy(Top(0)), NEW s \in DOMAIN scopes
  PROVE  Captured(scopes[s], FrameAtoms) \in Scope
<1> DEFINE frame == SubSeq(stack, frame_index, frame_index + FrameSize - 1)
<1>1. /\ status = "running" /\ Current.op = "RETURN"
      /\ FrameSize \in Nat /\ frame_index \in Nat /\ frame_index > 0
      /\ Len(stack) \in Nat
  <2>1. status = "running" /\ Current.op = "RETURN"
    BY DEF Executing
  <2>2. FrameSize \in Nat
    BY <2>1, InLoop DEF FrameSize, TypeOK
  <2>3. frame_index \in Nat /\ frame_index > 0 /\ Len(stack) \in Nat
    BY <2>1, LenProperties DEF TypeOK
  <2> QED
    BY <2>1, <2>2, <2>3
<1>2. frame_index + FrameSize - 1 <= Len(stack) - 2
  BY <1>1 DEF Executing, Executable, Returns
<1>3. \A i \in frame_index..(frame_index + FrameSize - 1) : stack[i] \in Atom
  BY <1>1, <1>2 DEF TypeOK
<1>4. frame \in Seq(Atom)
  <2> DEFINE n == frame_index + FrameSize - 1
  <2>1. n \in Int /\ frame_index \in Int /\ \A i \in frame_index..n : stack[i] \in Atom
    BY <1>1, <1>3
  <2> HIDE DEF n
  <2>2. SubSeq(stack, frame_index, n) \in Seq(Atom)
    BY <2>1, SubSeqProperties
  <2> QED
    BY <2>2 DEF n
<1>5. scopes[s] \in Scope
  BY DEF TypeOK
<1> HIDE DEF frame
<1>6. Captured(scopes[s], frame) \in Scope
  <2> DEFINE heap == [type : {"heap"}, next : Nat, arg_count : Nat, frame_index : {0},
                      atoms : Seq(Atom)]
  <2>1. Captured(scopes[s], frame) \in heap
    <3>1. << >> \in Seq(Atom)
      OBVIOUS
    <3>2. scopes[s] \in [type : {"stack", "heap", "env"}, next : Nat, arg_count : Nat,
                         frame_index : Nat, atoms : Seq(Atom)]
      <4> DEFINE old == scopes[s]
      <4>1. CASE old \in [type : {"stack"}, next : Nat, arg_count : Nat,
                          frame_index : Nat \ {0}, atoms : {<< >>}]
        BY <3>1, <4>1
      <4>2. CASE old \in [type : {"heap"}, next : Nat, arg_count : Nat,
                          frame_index : {0}, atoms : Seq(Atom)]
        BY <4>2
      <4>3. CASE old = EnvScope
        BY <3>1, <4>3 DEF EnvScope, NULL
      <4> QED
        BY <1>5, <4>1, <4>2, <4>3 DEF Scope, ScopeOver, Atom
    <3> QED
      BY <1>4, <3>2 DEF Captured
  <2>2. heap \subseteq Scope
    BY DEF Scope, ScopeOver, Atom
  <2> HIDE DEF heap
  <2> QED
    BY <2>1, <2>2
<1> QED
  BY <1>6 DEF frame, FrameAtoms

LEMMA ReturnType ==
  ASSUME TypeOK, Return
  PROVE  TypeOK'
<1> DEFINE state == Top(1)
           caller == stack[state.fp_index]
<1>1. /\ status = "running" /\ Current.op = "RETURN" /\ Executable
      /\ Len(stack) \in Nat /\ stack \in Seq(Atom)
  BY LenProperties DEF Return, Executing, TypeOK
<1>2. FrameSize \in Nat /\ Len(stack) >= FrameSize + 2
  <2>1. FrameSize \in Nat
    BY <1>1, InLoop DEF FrameSize, TypeOK
  <2>2. Len(stack) >= FrameSize + 2
    BY <1>1, <2>1 DEF Executable, Returns
  <2> QED
    BY <2>1, <2>2
<1>3. Top(0) \in Atom /\ state \in Atom
  BY <1>1, <1>2, TopType
<1>4. scopes' \in Seq(Scope)
  <2>1. CASE EscapedBy(Top(0))
    <3>0. frame_scope \in DOMAIN scopes
      BY <1>1, <2>1 DEF Executable, Returns
    <3>1. Captured(scopes[frame_scope], FrameAtoms) \in Scope
      BY <2>1, <3>0, CaptureType DEF Return
    <3>2. scopes' = [scopes EXCEPT ![frame_scope] =
                       Captured(scopes[frame_scope], FrameAtoms)]
      BY <2>1 DEF Return
    <3>3. frame_scope \in 1..Len(scopes) /\ scopes \in Seq(Scope)
      BY <3>0 DEF TypeOK
    <3> QED
      BY <3>1, <3>2, <3>3, ExceptSeq
  <2>2. CASE ~EscapedBy(Top(0))
    BY <2>2 DEF Return, TypeOK
  <2> QED
    BY <2>1, <2>2
<1>5. Pop(FrameSize + 2) \in Seq(Atom)
  BY <1>1, <1>2, PopProperties
<1>6. /\ env' = env /\ pairs' = pairs /\ args' = args /\ form' = form /\ forms' = forms
  BY DEF Return, session
<1>7. CASE IsType(state, "interpreter_state")
  <2>1. /\ arg_count' = state.arg_count /\ frame_index' = state.fp_index
        /\ rl' = caller /\ ip' = state.ip_index + 1
        /\ frame_scope' = state.frame_scope /\ scope_escaped' = state.scope_escaped
        /\ stack' = Append(Pop(FrameSize + 2), Top(0))
        /\ result' = result /\ status' = status
    BY <1>7 DEF Return
  <2>2. /\ state.fp_index \in Nat /\ state.ip_index \in Nat /\ state.arg_count \in Nat
        /\ state.frame_scope \in Nat /\ state.scope_escaped \in BOOLEAN
    BY <1>3, <1>7, AtomFields DEF IsType
  <2>3. /\ state.fp_index \in 1..(Len(stack) - FrameSize - 2)
        /\ IsType(caller, "runtime_lambda")
        /\ state.ip_index + 1 \in DOMAIN Compiled(caller).code
    BY <1>1, <1>7 DEF Executable, Returns
  <2>4. caller \in Atom
    <3>1. state.fp_index \in 1..Len(stack)
      BY <1>1, <1>2, <2>3
    <3> QED
      BY <3>1, <1>1, ElementOfSeq
  <2>5. stack' \in Seq(Atom)
    BY <1>3, <1>5, <2>1
  <2>6. ip' \in DOMAIN Code'
    BY <2>1, <2>3 DEF Code, Compiled
  <2>7. IsType(rl', "runtime_lambda") /\ frame_index' > 0
    BY <2>1, <2>2, <2>3
  <2>8. ip' \in Int /\ frame_index' \in Nat /\ arg_count' \in Nat /\ frame_scope' \in Nat
        /\ scope_escaped' \in BOOLEAN /\ rl' \in Atom /\ result' \in Atom /\ status' \in Status
    BY <2>1, <2>2, <2>4 DEF TypeOK
  <2>9. /\ env' \in Seq(Binding) /\ pairs' \in Seq(PairCell) /\ args' \in Seq(Value)
        /\ form'.sym \in Symbol \cup {NoName} /\ forms' \in 0..MaxForms
    BY <1>6 DEF TypeOK
  <2> QED
    BY <1>4, <2>5, <2>6, <2>7, <2>8, <2>9 DEF TypeOK
<1>8. CASE ~IsType(state, "interpreter_state")
  <2>1. /\ result' = Top(0) /\ status' = "returned" /\ stack' = Pop(FrameSize + 2)
        /\ scope_escaped' = EscapedBy(Top(0))
        /\ frame_index' = frame_index /\ arg_count' = arg_count /\ rl' = rl
        /\ ip' = ip /\ frame_scope' = frame_scope
    BY <1>8 DEF Return
  <2>2. scope_escaped' \in BOOLEAN
    BY <2>1 DEF EscapedBy, TypeOK
  <2> QED
    BY <1>3, <1>4, <1>5, <1>6, <2>1, <2>2 DEF TypeOK, Status
<1> QED
  BY <1>7, <1>8

LEMMA OperandsOfBinary ==
  ASSUME TypeOK, NEW ops, Executing(ops),
         ops \subseteq ArithmeticOp \cup CompareOp \cup {"CONS"}
  PROVE  /\ 2 \in 0..Len(stack) /\ Top(0) \in Atom /\ Top(1) \in Atom
         /\ Current.op \in ops /\ status = "running"
<1>1. Current.op \in ops /\ status = "running"
  BY DEF Executing
<1>2. 2 \in 0..Len(stack)
  <2>1. Operands(Current) = 2
    BY <1>1 DEF Operands, ArithmeticOp, CompareOp, PartOp
  <2> QED
    BY <2>1, EnoughOperands
<1> QED
  BY <1>1, <1>2, TopType DEF TypeOK

LEMMA ArithmeticType ==
  ASSUME TypeOK, Arithmetic
  PROVE  TypeOK'
<1> DEFINE a == Top(1).num
           b == Top(0).num
<1>1. /\ 2 \in 0..Len(stack) /\ Top(0) \in Atom /\ Top(1) \in Atom
      /\ Current.op \in ArithmeticOp
  BY OperandsOfBinary DEF Arithmetic
<1>2. a \in Int /\ b \in Int
  <2>1. Top(1).type = "num" /\ Top(0).type = "num"
    BY <1>1 DEF Arithmetic, Executing, Executable, Computes, IsType
  <2> QED
    BY <1>1, <2>1, AtomFields, NumAssumption DEF NumValue
<1>3. a + b \in Int /\ a - b \in Int /\ a * b \in Int
  BY <1>2
<1>4. Current.op \in {"DIV", "MOD"} => Quotient(a, b) \in Int /\ Remainder(a, b) \in Int
  <2> HAVE Current.op \in {"DIV", "MOD"}
  <2>1. b # 0
    BY <1>1 DEF Arithmetic, Executing, Executable, Computes, DivisionTraps
  <2>2. Abs(a) \in Int /\ Abs(b) \in Int /\ Abs(b) > 0
    BY <1>2, <2>1 DEF Abs
  <2>3. Quotient(a, b) \in Int
    BY <2>2 DEF Quotient
  <2>4. Remainder(a, b) \in Int
    BY <2>2 DEF Remainder
  <2> QED
    BY <2>3, <2>4
<1>5. ArithmeticResult(Current.op, a, b) \in Atom
  <2> HIDE DEF a, b
  <2>1. \A n \in Int : Num(Wrap(n)) \in Atom
    BY WrapRange, AtomsMade, ValueIsAtom
  <2> QED
    BY <1>1, <1>3, <1>4, <2>1 DEF ArithmeticResult, ArithmeticOp
<1> QED
  BY <1>1, <1>5, TypeOfReplacement DEF Arithmetic, ArithmeticOp

LEMMA CompareType ==
  ASSUME TypeOK, Compare
  PROVE  TypeOK'
<1>1. 2 \in 0..Len(stack) /\ Current.op \in CompareOp
  BY OperandsOfBinary DEF Compare
<1>2. CompareResult(Current.op, Top(1), Top(0)) \in Atom
  BY AtomsMade, ValueIsAtom DEF CompareResult
<1> QED
  BY <1>1, <1>2, TypeOfReplacement DEF Compare, CompareOp

LEMMA BuildPairType ==
  ASSUME TypeOK, BuildPair
  PROVE  TypeOK'
<1>1. /\ 2 \in 0..Len(stack) /\ Top(0) \in Atom /\ Top(1) \in Atom
      /\ Current.op = "CONS" /\ status = "running"
  BY OperandsOfBinary DEF BuildPair
<1>2. pairs' \in Seq(PairCell)
  BY <1>1 DEF BuildPair, TypeOK, PairCell, PairOver, Atom
<1>3. Pair(Len(pairs) + 1) \in Atom
  BY AtomsMade, ValueIsAtom, LenProperties DEF TypeOK
<1>4. stack' \in Seq(Atom)
  BY <1>1, <1>3, PopProperties DEF BuildPair, TypeOK
<1>5. ip' \in DOMAIN Code' /\ ip' \in Int
  BY <1>1, FallThrough, InLoop DEF BuildPair, registers, Code, Compiled
<1> QED
  BY <1>2, <1>4, <1>5 DEF BuildPair, TypeOK, registers, session

LEMMA TakePartType ==
  ASSUME TypeOK, TakePart
  PROVE  TypeOK'
<1>1. Current.op \in PartOp /\ status = "running"
  BY DEF TakePart, Executing
<1>2. 1 \in 0..Len(stack) /\ Len(stack) >= 1
  BY <1>1, EnoughOperands DEF TakePart, Operands, ArithmeticOp, CompareOp, PartOp
<1>3. Top(0).type = "pair" /\ Top(0) \in Atom
  BY <1>1, <1>2, TopType DEF TakePart, Executing, Executable, IsType, TypeOK
<1>4. pairs[Top(0).cell] \in PairCell
  BY <1>1 DEF TakePart, Executing, Executable, TypeOK
<1>5. pairs[Top(0).cell].first \in Atom /\ pairs[Top(0).cell].rest \in Atom
  BY <1>4 DEF PairCell, PairOver, Atom
<1>6. PICK a \in Atom : stack' = Append(Pop(1), a)
  BY <1>5 DEF TakePart
<1> QED
  BY <1>1, <1>2, <1>6, TypeOfReplacement DEF TakePart, PartOp

-----------------------------------------------------------------------------
(* Type correctness of the top level.                                      *)

LEMMA EnterLoopType ==
  ASSUME TypeOK, NEW lambda \in Atom, lambda.type = "runtime_lambda",
         NEW actuals \in Seq(Value), EnterLoop(lambda, actuals)
  PROVE  /\ stack' \in Seq(Atom)
         /\ frame_index' \in Nat /\ arg_count' \in Nat /\ frame_scope' \in Nat
         /\ scope_escaped' \in BOOLEAN
         /\ rl' \in Atom
         /\ ip' \in Int
         /\ args' \in Seq(Value)
         /\ result' \in Atom
         /\ status' \in Status
         /\ IsType(rl', "runtime_lambda") /\ frame_index' > 0 /\ ip' \in DOMAIN Code'
<1>1. lambda.cl \in LambdaId
  BY AtomFields
<1>2. /\ Compiled(lambda).var_count \in Nat /\ Compiled(lambda).code \in Seq(Instruction)
      /\ Compiled(lambda).code # << >>
  BY <1>1, CompiledAssumption DEF Compiled
<1>3. Append(stack, lambda) \in Seq(Atom) /\ actuals \in Seq(Atom)
        /\ Nils(Compiled(lambda).var_count + 1) \in Seq(Atom)
  <2>1. actuals \in Seq(Atom)
    BY ValueIsAtom, SeqMonotonic
  <2>2. Nils(Compiled(lambda).var_count + 1) \in Seq(Value)
    BY <1>2, NilsProperties
  <2> QED
    BY <2>1, <2>2, ValueIsAtom, SeqMonotonic, AppendProperties DEF TypeOK
<1>4. stack' \in Seq(Atom) /\ status' \in Status
  <2> DEFINE nils == Nils(Compiled(lambda).var_count + 1)
             base == Append(stack, lambda)
  <2>1. \/ stack' = base \o actuals \o nils /\ status' = "running"
        \/ stack' = base \o actuals /\ status' = "returned"
    BY DEF EnterLoop
  <2>2. base \in Seq(Atom) /\ nils \in Seq(Atom) /\ actuals \in Seq(Atom)
    BY <1>3
  <2> HIDE DEF nils, base
  <2>3. base \o actuals \in Seq(Atom)
    BY <2>2, ConcatProperties
  <2>4. base \o actuals \o nils \in Seq(Atom)
    BY <2>2, <2>3, ConcatProperties
  <2> QED
    BY <2>1, <2>3, <2>4 DEF Status
<1>5. ip' \in DOMAIN Code'
  BY <1>2 DEF EnterLoop, Code, Compiled
<1>6. Len(actuals) \in Nat /\ Len(stack) + 1 \in Nat /\ Len(stack) + 1 > 0
  BY LenProperties DEF TypeOK
<1>7. Nil \in Atom
  BY AtomsMade, ValueIsAtom
<1>8. /\ rl' = lambda /\ args' = actuals /\ frame_index' = Len(stack) + 1
      /\ arg_count' = Len(actuals) /\ frame_scope' = 0 /\ scope_escaped' = FALSE
      /\ ip' = 1 /\ result' = Nil
  BY DEF EnterLoop, NULL
<1>9. scope_escaped' \in BOOLEAN
  BY <1>8
<1>10. frame_index' \in Nat /\ arg_count' \in Nat /\ frame_scope' \in Nat /\ ip' \in Int /\ frame_index' > 0
  BY <1>6, <1>8
<1>11. rl' \in Atom /\ IsType(rl', "runtime_lambda") /\ args' \in Seq(Value) /\ result' \in Atom
  BY <1>7, <1>8 DEF IsType
<1> QED
  BY <1>4, <1>5, <1>9, <1>10, <1>11

LEMMA EnterType ==
  ASSUME TypeOK, NEW f \in Form, Enter(f)
  PROVE  form'.sym \in Symbol \cup {NoName} /\ forms' \in 0..MaxForms
<1>1. f.sym \in Symbol \cup {NoName}
  BY FormAssumption DEF FormRecord
<1> QED
  BY <1>1, SizeAssumption DEF Enter, TypeOK

LEMMA DefineLambdaType ==
  ASSUME TypeOK, DefineLambda
  PROVE  TypeOK'
<1>1. PICK f \in Form :
        /\ f.form = "lambda"
        /\ Enter(f)
        /\ scopes' = Append(scopes, EnvScope)
        /\ env' = EnvDef(env, f.sym, RuntimeLambda(f.cl, Len(scopes) + 1))
        /\ UNCHANGED <<pairs, stack, registers, ip, args, result, status>>
  BY DEF DefineLambda
<1>2. f.sym \in Symbol /\ f.cl \in LambdaId
  BY <1>1, FormAssumption DEF FormRecord
<1>3. scopes' \in Seq(Scope)
  BY <1>1, AppendProperties DEF TypeOK, Scope, ScopeOver
<1>4. env' \in Seq(Binding)
  <2>1. RuntimeLambda(f.cl, Len(scopes) + 1) \in Atom
    BY <1>2, AtomsMade, ValueIsAtom, LenProperties DEF TypeOK
  <2>2. [key |-> f.sym, value |-> RuntimeLambda(f.cl, Len(scopes) + 1)] \in Binding
    BY <1>2, <2>1 DEF Binding, BindingOver, Atom
  <2> QED
    BY <1>1, <2>2, AppendProperties DEF EnvDef, TypeOK
<1> QED
  BY <1>1, <1>3, <1>4, EnterType DEF TypeOK, registers, Enter

LEMMA CallGlobalType ==
  ASSUME TypeOK, CallGlobal
  PROVE  TypeOK'
<1>1. PICK f \in Form :
        /\ f.form = "call"
        /\ Enter(f)
        /\ Bound(env, f.func)
        /\ IsType(EnvGet(env, f.func), "runtime_lambda")
        /\ EnterLoop(EnvGet(env, f.func), f.args)
        /\ UNCHANGED memory
  BY DEF CallGlobal
<1>2. f.args \in Seq(Value)
  BY <1>1, FormAssumption DEF FormRecord
<1>3. EnvGet(env, f.func) \in Atom /\ EnvGet(env, f.func).type = "runtime_lambda"
  BY <1>1, EnvGetType DEF TypeOK, IsType
<1> HIDE DEF EnterLoop
<1> QED
  BY <1>1, <1>2, <1>3, EnterType, EnterLoopType DEF TypeOK, memory

LEMMA RunFileType ==
  ASSUME TypeOK, RunFile
  PROVE  TypeOK'
<1>1. PICK f \in Form :
        /\ f.form = "file"
        /\ Enter(f)
        /\ scopes' = Append(scopes, EnvScope)
        /\ EnterLoop(RuntimeLambda(f.cl, Len(scopes) + 1), << >>)
        /\ UNCHANGED <<env, pairs>>
  BY DEF RunFile
<1> DEFINE lambda == RuntimeLambda(f.cl, Len(scopes) + 1)
<1>2. f.cl \in LambdaId
  BY <1>1, FormAssumption DEF FormRecord
<1>3. lambda \in Atom /\ lambda.type = "runtime_lambda"
  <2>1. lambda.type = "runtime_lambda"
    BY DEF RuntimeLambda
  <2> QED
    BY <1>2, <2>1, AtomsMade, ValueIsAtom, LenProperties DEF TypeOK
<1>4. << >> \in Seq(Value)
  OBVIOUS
<1>5. scopes' \in Seq(Scope)
  BY <1>1, AppendProperties DEF TypeOK, Scope, ScopeOver
<1> HIDE DEF lambda
<1>6. EnterLoop(lambda, << >>)
  BY <1>1 DEF lambda
<1> QED
  BY <1>1, <1>3, <1>4, <1>5, <1>6, EnterType, EnterLoopType DEF TypeOK

LEMMA FinishType ==
  ASSUME TypeOK, Finish
  PROVE  TypeOK'
<1>1. env' \in Seq(Binding)
  <2>1. CASE form.sym = NoName
    BY <2>1 DEF Finish, TypeOK
  <2>2. CASE form.sym # NoName
    <3>1. [key |-> form.sym, value |-> result] \in Binding
      BY <2>2 DEF TypeOK, Binding, BindingOver, Atom
    <3> QED
      BY <2>2, <3>1, AppendProperties DEF Finish, EnvDef, TypeOK
  <2> QED
    BY <2>1, <2>2
<1>2. stack' \in Seq(Atom)
  BY DEF Finish
<1> QED
  BY <1>1, <1>2 DEF Finish, TypeOK, registers, session, Status

LEMMA TypeOKInit == Init => TypeOK
<1> HAVE Init
<1>1. rl \in Atom /\ result \in Atom
  BY AtomsMade, ValueIsAtom DEF Init
<1>2. env \in Seq(Binding) /\ pairs \in Seq(PairCell) /\ forms \in 0..MaxForms
  BY SizeAssumption DEF Init
<1>3. scopes \in Seq(Scope) /\ stack \in Seq(Atom) /\ args \in Seq(Value)
  BY DEF Init
<1>4. form.sym \in Symbol \cup {NoName}
  BY DEF Init
<1>5. /\ frame_index \in Nat /\ arg_count \in Nat /\ frame_scope \in Nat
      /\ ip \in Int /\ status = "idle"
  BY DEF Init, NULL
<1>6. scope_escaped \in BOOLEAN
  BY DEF Init
<1> QED
  BY <1>1, <1>2, <1>3, <1>4, <1>5, <1>6 DEF TypeOK, Status

LEMMA TypeOKStep ==
  ASSUME TypeOK, [Next]_vars
  PROVE  TypeOK'
<1>1. CASE LoadConstant
  BY <1>1, LoadConstantType
<1>2. CASE LoadLiteral
  BY <1>2, LoadLiteralType
<1>3. CASE LoadLambda
  BY <1>3, LoadLambdaType
<1>4. CASE LoadVariable
  BY <1>4, LoadVariableType
<1>5. CASE LoadEnv
  BY <1>5, LoadEnvType
<1>6. CASE StoreLocal
  BY <1>6, StoreLocalType
<1>7. CASE StoreEnv
  BY <1>7, StoreEnvType
<1>8. CASE Drop
  BY <1>8, DropType
<1>9. CASE Jump
  BY <1>9, JumpType
<1>10. CASE JumpIfFalse
  BY <1>10, JumpIfFalseType
<1>11. CASE CallRuntimeLambda
  BY <1>11, CallRuntimeLambdaType
<1>12. CASE CallBuildin
  BY <1>12, CallBuildinType
<1>13. CASE Return
  BY <1>13, ReturnType
<1>14. CASE Arithmetic
  BY <1>14, ArithmeticType
<1>15. CASE Compare
  BY <1>15, CompareType
<1>16. CASE BuildPair
  BY <1>16, BuildPairType
<1>17. CASE TakePart
  BY <1>17, TakePartType
<1>18. CASE Fault
  BY <1>18 DEF Fault, TypeOK, memory, registers, session, Status
<1>19. CASE DefineLambda
  BY <1>19, DefineLambdaType
<1>20. CASE CallGlobal
  BY <1>20, CallGlobalType
<1>21. CASE RunFile
  BY <1>21, RunFileType
<1>22. CASE Finish
  BY <1>22, FinishType
<1>23. CASE UNCHANGED vars
  BY <1>23 DEF vars, memory, registers, session, TypeOK, Code, Compiled
<1> QED
  BY <1>1, <1>2, <1>3, <1>4, <1>5, <1>6, <1>7, <1>8, <1>9, <1>10, <1>11, <1>12, <1>13,
     <1>14, <1>15, <1>16, <1>17, <1>18, <1>19, <1>20, <1>21, <1>22, <1>23
     DEF Next, Execute, TopLevel, Done

\* Whatever bytecode the interpreter is given, every register, every slot of
\* the stack and every cell of memory keeps its type, and while the loop of
\* bci_eval runs it executes an instruction of the lambda in rl.
THEOREM TypeCorrect == Spec => []TypeOK
<1>1. Init => TypeOK
  BY TypeOKInit
<1>2. TypeOK /\ [Next]_vars => TypeOK'
  BY TypeOKStep
<1> QED
  BY <1>1, <1>2, PTL DEF Spec

-----------------------------------------------------------------------------
(* Frames.                                                                 *)

IsFrame(f, k) ==
  \/ f = 1 /\ k = StateSlot(1, Len(args))
  \/ IsState(k) /\ f = CalleeFrame(stack[k])

\* The slot of the saved state of the running frame.
OwnStateSlot == StateSlot(frame_index, arg_count)

\* The frame of the caller that the state in slot k restores.
CallerFrame(k) == stack[k].fp_index
CallerStateSlot(k) == StateSlot(stack[k].fp_index, stack[k].arg_count)

\* Of StackReleased, the activations that have run.
WholeFrameGone ==
  status = "returned" /\ Len(args) = Compiled(rl).arg_count => stack = << >>

IInv ==
  /\ TypeOK
  /\ FrameLayout
  /\ SavedStateHidden
  /\ WholeFrameGone
  /\ status = "idle" => stack = << >>

-----------------------------------------------------------------------------
(* Code.                                                                   *)

\* A lambda on the stack, and the depth of operands in its code.
LEMMA LambdaOnStack ==
  ASSUME BalancedCode, stack \in Seq(Atom), NEW f \in DOMAIN stack,
         IsType(stack[f], "runtime_lambda")
  PROVE  LET lambda == stack[f]
             depth == StackDepth[lambda.cl]
         IN  /\ lambda.cl \in LambdaId
             /\ Compiled(lambda).code \in Seq(Instruction)
             /\ Compiled(lambda).var_count \in Nat
             /\ Compiled(lambda).literals \in Seq(Literal)
             /\ Balanced(Compiled(lambda).code, depth)
             /\ depth \in [DOMAIN Compiled(lambda).code -> Nat]
<1>1. stack[f] \in Atom
  OBVIOUS
<1>2. stack[f].cl \in LambdaId
  BY <1>1, AtomFields DEF IsType
<1>3. Compiled(stack[f]) \in [code : Seq(Instruction), literals : Seq(Literal),
                              arg_count : Nat, var_count : Nat]
  BY <1>2, CompiledAssumption DEF Compiled
<1>4. Balanced(Compiled(stack[f]).code, StackDepth[stack[f].cl])
  BY <1>2 DEF BalancedCode, Compiled
<1> QED
  BY <1>2, <1>3, <1>4 DEF Balanced

-----------------------------------------------------------------------------
(* Frames.                                                                 *)

\* The running frame: its lambda, arguments and variables, its saved state,
\* and the operands of the instruction that is about to run.
LEMMA RunningFrame ==
  ASSUME BalancedCode, TypeOK, FrameLayout, status = "running"
  PROVE  /\ frame_index \in 1..Len(stack)
         /\ stack[frame_index] = rl
         /\ OwnStateSlot = frame_index + 1 + arg_count + Compiled(rl).var_count
         /\ OwnStateSlot \in Nat
         /\ StackDepth[rl.cl][ip] \in Nat
         /\ Len(stack) = OwnStateSlot + StackDepth[rl.cl][ip]
         /\ Balanced(Code, StackDepth[rl.cl])
         /\ \A k \in (OwnStateSlot + 1)..Len(stack) : ~IsState(k)
<1>1. /\ frame_index \in DOMAIN stack
      /\ stack[frame_index] = rl
      /\ OperandsEndAt(frame_index, arg_count, ip, Len(stack))
      /\ \A k \in (OwnStateSlot + 1)..Len(stack) : ~IsState(k)
  BY DEF FrameLayout, CurrentFrame, OwnStateSlot
<1>2. IsType(stack[frame_index], "runtime_lambda") /\ stack \in Seq(Atom)
        /\ frame_index \in Nat /\ arg_count \in Nat /\ ip \in DOMAIN Code
  BY <1>1 DEF OperandsEndAt, TypeOK
<1>3. /\ Compiled(rl).var_count \in Nat
      /\ Balanced(Code, StackDepth[rl.cl])
      /\ StackDepth[rl.cl] \in [DOMAIN Code -> Nat]
  BY <1>1, <1>2, LambdaOnStack DEF Code
<1>4. OwnStateSlot = frame_index + 1 + arg_count + Compiled(rl).var_count
  BY <1>1 DEF OwnStateSlot, StateSlot
<1>5. Len(stack) = OwnStateSlot + StackDepth[rl.cl][ip]
  BY <1>1 DEF OperandsEndAt, OwnStateSlot
<1> QED
  BY <1>1, <1>2, <1>3, <1>4, <1>5, SMTT(30)

\* The frame at the bottom of the stack is the first one that bci_eval built.
LEMMA BottomFrame ==
  ASSUME BalancedCode, TypeOK, FrameLayout, status = "running"
  PROVE  /\ 1 \in DOMAIN stack
         /\ IsType(stack[1], "runtime_lambda")
         /\ StateSlot(1, Len(args)) \in Nat
         /\ 1 < StateSlot(1, Len(args))
         /\ \A k \in DOMAIN stack : IsState(k) => StateSlot(1, Len(args)) < k
<1>1. /\ frame_index \in DOMAIN stack /\ stack \in Seq(Atom) /\ Len(args) \in Nat
  BY RunningFrame DEF TypeOK
<1>2. 1 \in DOMAIN stack /\ IsType(stack[1], "runtime_lambda")
  BY <1>1 DEF FrameLayout
<1>3. Compiled(stack[1]).var_count \in Nat
  BY <1>1, <1>2, LambdaOnStack
<1>4. StateSlot(1, Len(args)) \in Nat /\ 1 < StateSlot(1, Len(args))
  BY <1>1, <1>3 DEF StateSlot
<1>5. \A k \in 1..StateSlot(1, Len(args)) : ~IsState(k)
  BY DEF FrameLayout
<1> QED
  BY <1>1, <1>2, <1>4, <1>5

\* What lies between a saved state and the frame that it restores.
LEMMA SavedFrameFacts ==
  ASSUME BalancedCode, TypeOK, FrameLayout, status = "running",
         NEW k \in DOMAIN stack, IsState(k)
  PROVE  LET state == stack[k]
             caller == stack[state.fp_index]
             callee == stack[CalleeFrame(state)]
         IN  /\ SavedFrame(k)
             /\ k \in Nat /\ state \in Atom
             /\ state.arg_count \in Nat /\ state.ip_index \in Nat
             /\ state.frame_scope \in Nat /\ state.scope_escaped \in BOOLEAN
             /\ CallerFrame(k) \in DOMAIN stack
             /\ CallerStateSlot(k) \in Nat /\ CalleeFrame(state) \in DOMAIN stack
             /\ CallerStateSlot(k) = CallerFrame(k) + 1 + state.arg_count + Compiled(caller).var_count
             /\ Compiled(caller).var_count \in Nat
             /\ PendingCall(state) \in Instruction
             /\ CallerStateSlot(k) < CalleeFrame(state) /\ CalleeFrame(state) < k
             /\ \A j \in (CallerStateSlot(k) + 1)..(k - 1) : ~IsState(j)
             /\ IsFrame(CallerFrame(k), CallerStateSlot(k))
<1> DEFINE state == stack[k]
           caller == stack[state.fp_index]
<1>1. SavedFrame(k) /\ stack \in Seq(Atom) /\ k \in Nat /\ k <= Len(stack)
  BY DEF FrameLayout, TypeOK
<1>2. state \in Atom /\ state.type = "interpreter_state"
  BY <1>1, ElementOfSeq DEF IsState, IsType
<1>3. /\ state.arg_count \in Nat /\ state.ip_index \in Nat
      /\ state.frame_scope \in Nat /\ state.scope_escaped \in BOOLEAN
  BY <1>2, AtomFields
<1>4. /\ state.fp_index \in 1..(k - 1)
      /\ IsType(caller, "runtime_lambda")
      /\ state.ip_index \in DOMAIN Compiled(caller).code
      /\ CallerStateSlot(k) < CalleeFrame(state) /\ CalleeFrame(state) < k
      /\ IsType(stack[CalleeFrame(state)], "runtime_lambda")
      /\ Linked(state.fp_index, state.arg_count)
      /\ \A j \in (CallerStateSlot(k) + 1)..(k - 1) : ~IsState(j)
  BY <1>1 DEF SavedFrame, CallerStateSlot
<1>5. state.fp_index \in DOMAIN stack
  BY <1>1, <1>4
<1>6. /\ Compiled(caller).code \in Seq(Instruction) /\ Compiled(caller).var_count \in Nat
      /\ StackDepth[caller.cl] \in [DOMAIN Compiled(caller).code -> Nat]
  BY <1>1, <1>4, <1>5, LambdaOnStack
<1>7. CallerStateSlot(k) = CallerFrame(k) + 1 + state.arg_count + Compiled(caller).var_count
  BY DEF CallerStateSlot, CallerFrame, StateSlot
<1>8. CallerStateSlot(k) \in Nat
  <2>1. CallerFrame(k) \in Nat
    BY <1>1, <1>4 DEF CallerFrame
  <2> QED
    BY <1>3, <1>6, <1>7, <2>1
<1>9. PendingCall(state) \in Instruction
  BY <1>4, <1>6 DEF PendingCall
<1>10. CalleeFrame(state) \in DOMAIN stack
  <2>1. CalleeFrame(state) = CallerStateSlot(k) + StackDepth[caller.cl][state.ip_index] - PendingCall(state).arg
    BY DEF CalleeFrame, CallerStateSlot
  <2>2. StackDepth[caller.cl][state.ip_index] \in Nat /\ PendingCall(state).arg \in Int
    BY <1>4, <1>6, <1>9 DEF Instruction
  <2>3. CalleeFrame(state) \in Int
    BY <1>8, <2>1, <2>2
  <2> QED
    BY <1>1, <1>4, <1>8, <2>3
<1>11. IsFrame(CallerFrame(k), CallerStateSlot(k))
  BY <1>4 DEF Linked, IsFrame, CallerFrame, CallerStateSlot
<1> QED
  BY <1>1, <1>2, <1>3, <1>4, <1>5, <1>6, <1>7, <1>8, <1>9, <1>10, <1>11 DEF CallerFrame

\* The running frame is one of the frames.
LEMMA RunningFrameIsFrame ==
  ASSUME FrameLayout, status = "running"
  PROVE  IsFrame(frame_index, OwnStateSlot)
  BY DEF FrameLayout, CurrentFrame, Linked, IsFrame, OwnStateSlot

LEMMA FrameBounds ==
  ASSUME BalancedCode, TypeOK, FrameLayout, status = "running",
         NEW f, NEW k, IsFrame(f, k)
  PROVE  /\ f \in DOMAIN stack /\ f \in Nat /\ k \in Nat
         /\ 0 < f /\ f < k
         /\ StateSlot(1, Len(args)) <= k
<1>1. CASE f = 1 /\ k = StateSlot(1, Len(args))
  BY <1>1, BottomFrame
<1>0. stack \in Seq(Atom)
  BY DEF TypeOK
<1>2. CASE IsState(k) /\ f = CalleeFrame(stack[k])
  <2>1. k \in DOMAIN stack
    BY <1>2 DEF IsState
  <2>2. /\ CallerStateSlot(k) \in Nat /\ f \in DOMAIN stack
        /\ CallerStateSlot(k) < f /\ f < k /\ k \in Nat
    BY <1>2, <2>1, SavedFrameFacts
  <2> QED
    BY <1>0, <1>2, <2>1, <2>2, BottomFrame
<1> QED
  BY <1>1, <1>2 DEF IsFrame

\* One frame ends before the other one begins.
LEMMA FramesDisjoint ==
  ASSUME BalancedCode, TypeOK, FrameLayout, status = "running",
         NEW f1, NEW k1, IsFrame(f1, k1), NEW f2, NEW k2, IsFrame(f2, k2)
  PROVE  \/ k1 < f2
         \/ k2 < f1
         \/ f1 = f2 /\ k1 = k2
<1>1. ASSUME NEW f, NEW k, IsFrame(f, k), NEW g, NEW m, IsFrame(g, m), k < m
      PROVE  k < g
  <2>1. /\ f \in Nat /\ k \in Nat /\ g \in Nat /\ m \in Nat
        /\ StateSlot(1, Len(args)) <= k
    BY <1>1, FrameBounds
  <2>2. IsState(m) /\ g = CalleeFrame(stack[m])
    <3>1. StateSlot(1, Len(args)) \in Nat
      BY BottomFrame
    <3> QED
      BY <1>1, <2>1, <3>1 DEF IsFrame
  <2>3. m \in DOMAIN stack
    BY <2>2 DEF IsState
  <2>4. /\ CallerStateSlot(m) \in Nat /\ CallerStateSlot(m) < g
        /\ \A j \in (CallerStateSlot(m) + 1)..(m - 1) : ~IsState(j)
        /\ IsFrame(CallerFrame(m), CallerStateSlot(m))
    BY <2>2, <2>3, SavedFrameFacts
  <2>5. k <= CallerStateSlot(m)
    <3>1. CASE IsState(k)
      BY <1>1, <2>1, <2>4, <3>1
    <3>2. CASE k = StateSlot(1, Len(args))
      BY <2>4, <3>2, FrameBounds
    <3> QED
      BY <1>1, <3>1, <3>2 DEF IsFrame
  <2> QED
    BY <2>1, <2>4, <2>5
<1>2. k1 \in Nat /\ k2 \in Nat
  BY FrameBounds
<1>3. CASE k1 = k2
  <2>1. StateSlot(1, Len(args)) \in Nat
          /\ \A k \in DOMAIN stack : IsState(k) => StateSlot(1, Len(args)) < k
    BY BottomFrame
  <2> QED
    BY <1>3, <2>1 DEF IsFrame, IsState
<1> QED
  BY <1>1, <1>2, <1>3

-----------------------------------------------------------------------------
(* Steps that leave the frames up to slot n alone.                         *)

KeepsFrames(n) ==
  /\ args' = args
  /\ stack' \in Seq(Atom)
  /\ n <= Len(stack')
  /\ \A f, k : IsFrame(f, k) /\ k <= n => stack'[f] = stack[f] /\ stack'[k] = stack[k]
  /\ \A k \in 1..n : IsState(k)' => IsState(k)
  /\ \A s \in DOMAIN scopes :
       scopes[s].type = "stack" /\ scopes[s].frame_index < n =>
         s \in DOMAIN scopes' /\ scopes'[s] = scopes[s]

LEMMA PendingCallKept ==
  ASSUME BalancedCode, TypeOK, FrameLayout, status = "running",
         NEW n \in Nat, KeepsFrames(n), NEW k \in 1..n, IsState(k)
  PROVE  /\ stack'[k] = stack[k]
         /\ stack'[CallerFrame(k)] = stack[CallerFrame(k)]
         /\ stack'[CalleeFrame(stack[k])] = stack[CalleeFrame(stack[k])]
         /\ PendingCall(stack[k])' = PendingCall(stack[k])
         /\ CallerStateSlot(k)' = CallerStateSlot(k)
         /\ CalleeFrame(stack[k])' = CalleeFrame(stack[k])
<1>1. k \in DOMAIN stack
  BY DEF IsState
<1>2. /\ IsFrame(CallerFrame(k), CallerStateSlot(k))
      /\ CallerStateSlot(k) \in Nat
      /\ CallerStateSlot(k) < k
  <2>1. /\ IsFrame(CallerFrame(k), CallerStateSlot(k))
        /\ CallerStateSlot(k) \in Nat /\ CalleeFrame(stack[k]) \in DOMAIN stack
        /\ CallerStateSlot(k) < CalleeFrame(stack[k]) /\ CalleeFrame(stack[k]) < k
    BY <1>1, SavedFrameFacts
  <2> QED
    BY <2>1 DEF TypeOK
<1>3. IsFrame(CalleeFrame(stack[k]), k)
  BY DEF IsFrame
<1>4. stack'[k] = stack[k] /\ stack'[CalleeFrame(stack[k])] = stack[CalleeFrame(stack[k])]
  BY <1>3 DEF KeepsFrames
<1>5. stack'[CallerFrame(k)] = stack[CallerFrame(k)]
  BY <1>2 DEF KeepsFrames
<1>6. /\ PendingCall(stack[k])' = PendingCall(stack[k])
      /\ CallerStateSlot(k)' = CallerStateSlot(k)
  BY <1>4, <1>5 DEF PendingCall, CallerFrame, CallerStateSlot, StateSlot, Compiled
<1>7. CalleeFrame(stack[k])' = CalleeFrame(stack[k])
  BY <1>4, <1>5, <1>6 DEF CalleeFrame, CallerFrame, CallerStateSlot
<1> QED
  BY <1>4, <1>5, <1>6, <1>7

\* A frame that is kept stays linked to the call that entered it.
LEMMA LinkedKept ==
  ASSUME BalancedCode, TypeOK, FrameLayout, status = "running",
         NEW n \in Nat, KeepsFrames(n), NEW f, NEW argc \in Nat,
         NEW k, k = StateSlot(f, argc), IsFrame(f, k), k <= n,
         Linked(f, argc)
  PROVE  /\ stack'[f] = stack[f]
         /\ StateSlot(f, argc)' = k
         /\ Linked(f, argc)'
<1>1. stack'[f] = stack[f] /\ stack'[k] = stack[k]
  BY DEF KeepsFrames
<1>2. StateSlot(f, argc)' = k
  BY <1>1 DEF StateSlot, Compiled
<1>3. CASE f = 1
  BY <1>1, <1>2, <1>3 DEF Linked, KeepsFrames
<1>4. CASE f # 1
  <2>1. /\ IsState(k) /\ CalleeFrame(stack[k]) = f /\ PendingCall(stack[k]).arg = argc
    BY <1>4 DEF Linked
  <2>2. k \in 1..n /\ k \in DOMAIN stack'
    <3>1. k \in Nat /\ 0 < k /\ k <= n
      BY FrameBounds
    <3>2. n <= Len(stack') /\ stack' \in Seq(Atom)
      BY DEF KeepsFrames
    <3> QED
      BY <3>1, <3>2
  <2>3. stack'[CallerFrame(k)] = stack[CallerFrame(k)]
    BY <2>1, <2>2, PendingCallKept
  <2> QED
    BY <1>1, <1>4, <2>1, <2>2, <2>3
       DEF Linked, IsState, CalleeFrame, PendingCall, StateSlot, Compiled, CallerFrame
<1> QED
  BY <1>1, <1>2, <1>3, <1>4

\* A saved frame in terms of the fields of the state and of the call it waits for.
RestoresFrame(k, f, i, argc, scope, escaped, code, slot, g) ==
  /\ stack[k].fp_index = f /\ stack[k].ip_index = i /\ stack[k].arg_count = argc
  /\ stack[k].frame_scope = scope /\ stack[k].scope_escaped = escaped
  /\ f \in 1..(k - 1)
  /\ IsType(stack[f], "runtime_lambda")
  /\ code = Compiled(stack[f]).code
  /\ i \in DOMAIN code
  /\ code[i].op = "CALL"
  /\ slot = StateSlot(f, argc)
  /\ g = slot + StackDepth[stack[f].cl][i] - code[i].arg
  /\ slot < g /\ g < k
  /\ IsType(stack[g], "runtime_lambda")
  /\ k = StateSlot(g, code[i].arg)
  /\ Linked(f, argc)
  /\ OwnScope(f, argc, scope, escaped)
  /\ \A j \in (slot + 1)..(k - 1) : ~IsState(j)

FieldsDecide ==
  \A k, f, i, argc, scope, escaped, code, slot, g :
    RestoresFrame(k, f, i, argc, scope, escaped, code, slot, g) =>
      SavedFrame(k) /\ (IsState(k) /\ g # 1 => Linked(g, code[i].arg))

LEMMA SavedFrameByFields == FieldsDecide
<1> SUFFICES ASSUME NEW k, NEW f, NEW i, NEW argc, NEW scope, NEW escaped, NEW code, NEW slot, NEW g,
                    RestoresFrame(k, f, i, argc, scope, escaped, code, slot, g)
             PROVE  SavedFrame(k) /\ (IsState(k) /\ g # 1 => Linked(g, code[i].arg))
  BY DEF FieldsDecide
<1>1. PendingCall(stack[k]) = code[i] /\ CalleeFrame(stack[k]) = g
  BY DEF RestoresFrame, PendingCall, CalleeFrame
<1>2. SavedFrame(k)
  BY <1>1 DEF RestoresFrame, SavedFrame
<1>3. ASSUME IsState(k), g # 1
      PROVE  Linked(g, code[i].arg)
  BY <1>1, <1>3 DEF RestoresFrame, Linked
<1> QED
  BY <1>2, <1>3

\* The states up to slot n restore what they restored before.
LEMMA SavedFramesKept ==
  ASSUME BalancedCode, TypeOK, FrameLayout, status = "running",
         NEW n \in Nat, KeepsFrames(n), NEW k \in 1..n, IsState(k)
  PROVE  SavedFrame(k)'
<1> DEFINE state == stack[k]
<1>1. k \in DOMAIN stack
  BY DEF IsState
<1>2. /\ SavedFrame(k)
      /\ state.arg_count \in Nat
      /\ CallerFrame(k) \in DOMAIN stack
      /\ CallerStateSlot(k) \in Nat
      /\ CallerStateSlot(k) < CalleeFrame(state) /\ CalleeFrame(state) < k
      /\ CalleeFrame(state) \in DOMAIN stack
      /\ IsFrame(CallerFrame(k), CallerStateSlot(k))
      /\ \A j \in (CallerStateSlot(k) + 1)..(k - 1) : ~IsState(j)
  BY <1>1, SavedFrameFacts
<1>3. /\ stack'[k] = state
      /\ stack'[CallerFrame(k)] = stack[CallerFrame(k)]
      /\ stack'[CalleeFrame(state)] = stack[CalleeFrame(state)]
      /\ PendingCall(stack[k])' = PendingCall(state)
      /\ CallerStateSlot(k)' = CallerStateSlot(k)
      /\ CalleeFrame(stack[k])' = CalleeFrame(state)
  BY PendingCallKept
<1>4. /\ state.fp_index \in 1..(k - 1)
      /\ IsType(stack[state.fp_index], "runtime_lambda")
      /\ state.ip_index \in DOMAIN Compiled(stack[state.fp_index]).code
      /\ PendingCall(state).op = "CALL"
      /\ IsType(stack[CalleeFrame(state)], "runtime_lambda")
      /\ k = StateSlot(CalleeFrame(state), PendingCall(state).arg)
      /\ Linked(state.fp_index, state.arg_count)
      /\ OwnScope(state.fp_index, state.arg_count, state.frame_scope, state.scope_escaped)
  BY <1>2 DEF SavedFrame
<1>5. k \in Nat /\ CalleeFrame(state) \in Nat /\ CallerStateSlot(k) < k
  BY <1>2 DEF TypeOK
<1>6. PICK f, argc, scope, escaped :
        /\ f = state.fp_index /\ argc = state.arg_count
        /\ scope = state.frame_scope /\ escaped = state.scope_escaped
  OBVIOUS
<1>7. Linked(f, argc)'
  <2>1. /\ argc \in Nat /\ CallerStateSlot(k) = StateSlot(f, argc)
        /\ IsFrame(f, CallerStateSlot(k)) /\ CallerStateSlot(k) <= n /\ Linked(f, argc)
    BY <1>2, <1>4, <1>5, <1>6 DEF CallerStateSlot, CallerFrame
  <2> HIDE DEF state
  <2> QED
    BY <2>1, LinkedKept
<1>8. OwnScope(f, argc, scope, escaped)'
  <2>1. OwnScope(f, argc, scope, escaped) /\ f < n
    BY <1>4, <1>6
  <2> QED
    BY <2>1 DEF OwnScope, KeepsFrames
<1>9. \A j \in (CallerStateSlot(k) + 1)..(k - 1) : ~IsState(j)'
  <2>1. \A j \in (CallerStateSlot(k) + 1)..(k - 1) : j \in 1..n
    BY <1>2, <1>5
  <2> QED
    BY <1>2, <2>1 DEF KeepsFrames
<1>10. PICK i, code, slot, g :
         /\ i = state.ip_index /\ code = Compiled(stack[f]).code
         /\ slot = CallerStateSlot(k) /\ g = CalleeFrame(state)
  OBVIOUS
<1>11. /\ stack'[f] = stack[f] /\ stack'[g] = stack[g] /\ stack'[k] = state
  BY <1>3, <1>6, <1>10 DEF CallerFrame
<1>12. code[i] = PendingCall(state)
  BY <1>6, <1>10 DEF PendingCall
<1>13. g = slot + StackDepth[stack[f].cl][i] - code[i].arg
  BY <1>6, <1>10, <1>12 DEF CalleeFrame, CallerStateSlot
<1>14. StateSlot(f, argc)' = slot /\ StateSlot(g, code[i].arg)' = k
  <2>1. slot = StateSlot(f, argc) /\ k = StateSlot(g, code[i].arg)
    BY <1>4, <1>6, <1>10, <1>12 DEF CallerStateSlot
  <2> QED
    BY <1>11, <2>1 DEF StateSlot, Compiled
<1>15. RestoresFrame(k, f, i, argc, scope, escaped, code, slot, g)'
  <2>1. code = (Compiled(stack[f]).code)'
    BY <1>10, <1>11 DEF Compiled
  <2>2. /\ f \in 1..(k - 1) /\ IsType(stack[f], "runtime_lambda")
        /\ i \in DOMAIN code /\ code[i].op = "CALL" /\ slot < g /\ g < k
        /\ IsType(stack[g], "runtime_lambda")
    BY <1>2, <1>4, <1>6, <1>10, <1>12
  <2>3. IsType(stack[f], "runtime_lambda")' /\ IsType(stack[g], "runtime_lambda")'
    BY <1>11, <2>2 DEF IsType
  <2>4. \A j \in (slot + 1)..(k - 1) : ~IsState(j)'
    BY <1>9, <1>10
  <2>5. g = slot + (StackDepth[stack[f].cl][i])' - code[i].arg
    BY <1>11, <1>13 DEF StackDepth
  <2> QED
    BY <1>6, <1>7, <1>8, <1>10, <1>11, <1>14, <2>1, <2>2, <2>3, <2>4, <2>5 DEF RestoresFrame
<1>16. FieldsDecide'
  BY SavedFrameByFields, PTL
<1> QED
  BY <1>15, <1>16 DEF FieldsDecide

\* The running frame in terms of the registers.
RunsFrame(f, argc, scope, escaped, slot) ==
  /\ frame_index = f /\ arg_count = argc
  /\ frame_scope = scope /\ scope_escaped = escaped
  /\ f \in DOMAIN stack
  /\ stack[f] = rl
  /\ IsType(rl, "runtime_lambda")
  /\ ip \in DOMAIN Code
  /\ slot = StateSlot(f, argc)
  /\ Len(stack) = slot + StackDepth[rl.cl][ip]
  /\ Linked(f, argc)
  /\ OwnScope(f, argc, scope, escaped)
  /\ \A k \in (slot + 1)..Len(stack) : ~IsState(k)

RegistersDecide ==
  \A f, argc, scope, escaped, slot, bottom :
    /\ RunsFrame(f, argc, scope, escaped, slot)
    /\ IsType(stack[1], "runtime_lambda")
    /\ bottom = StateSlot(1, Len(args))
    /\ \A k \in 1..bottom : ~IsState(k)
    /\ \A k \in DOMAIN stack : IsState(k) => SavedFrame(k)
    => FrameLayout

LEMMA LayoutByRegisters == RegistersDecide
<1> SUFFICES ASSUME NEW f, NEW argc, NEW scope, NEW escaped, NEW slot,
                    RunsFrame(f, argc, scope, escaped, slot)
             PROVE  CurrentFrame
  BY DEF RegistersDecide, FrameLayout
<1>1. OperandsEndAt(frame_index, arg_count, ip, Len(stack))
  BY DEF RunsFrame, OperandsEndAt, Code
<1> QED
  BY <1>1 DEF RunsFrame, CurrentFrame

LEMMA LayoutKept ==
  ASSUME BalancedCode, TypeOK, FrameLayout, status = "running",
         NEW n \in Nat, KeepsFrames(n), StateSlot(1, Len(args)) <= n,
         NEW f, NEW argc, NEW scope, NEW escaped, NEW slot,
         RunsFrame(f, argc, scope, escaped, slot)',
         \A k \in (n + 1)..Len(stack') : IsState(k)' => SavedFrame(k)'
  PROVE  FrameLayout'
<1> DEFINE b == StateSlot(1, Len(args))
<1>1. PICK bottom : bottom = StateSlot(1, Len(args))
  OBVIOUS
<1>2. /\ bottom \in Nat /\ bottom <= n /\ IsType(stack[1], "runtime_lambda")
      /\ \A k \in 1..bottom : ~IsState(k)
  <2>1. \A k \in 1..bottom : ~IsState(k)
    BY <1>1 DEF FrameLayout
  <2> QED
    BY <1>1, <2>1, BottomFrame
<1>3. stack'[1] = stack[1] /\ args' = args
  BY <1>1, <1>2 DEF KeepsFrames, IsFrame
<1>4. StateSlot(1, Len(args))' = bottom /\ IsType(stack[1], "runtime_lambda")'
  BY <1>1, <1>2, <1>3 DEF StateSlot, Compiled, IsType
<1>5. \A k \in 1..bottom : ~IsState(k)'
  BY <1>2 DEF KeepsFrames
<1>6. ASSUME NEW k \in DOMAIN stack', IsState(k)'
      PROVE  SavedFrame(k)'
  <2>1. k \in 1..Len(stack')
    BY DEF KeepsFrames
  <2>2. CASE k <= n
    BY <1>6, <2>1, <2>2, SavedFramesKept DEF KeepsFrames
  <2>3. CASE k > n
    BY <1>6, <2>1, <2>3
  <2> QED
    BY <2>1, <2>2, <2>3
<1>7. RegistersDecide'
  BY LayoutByRegisters, PTL
<1> QED
  BY <1>4, <1>5, <1>6, <1>7 DEF RegistersDecide

\* A step of the running activation that only changes its operands.
LEMMA SameActivation ==
  ASSUME BalancedCode, TypeOK, FrameLayout, status = "running",
         KeepsFrames(OwnStateSlot),
         frame_index' = frame_index, arg_count' = arg_count, rl' = rl,
         NEW f, f = frame_index, NEW argc, argc = arg_count,
         NEW scope, frame_scope' = scope, NEW escaped, scope_escaped' = escaped,
         OwnScope(f, argc, scope, escaped)',
         ip' \in DOMAIN Code,
         Len(stack') = OwnStateSlot + StackDepth[rl.cl][ip'],
         \A k \in (OwnStateSlot + 1)..Len(stack') : ~IsState(k)'
  PROVE  FrameLayout'
<1>1. PICK slot : slot = OwnStateSlot
  OBVIOUS
<1>2. /\ slot \in Nat /\ f \in DOMAIN stack /\ stack[f] = rl /\ f <= slot
      /\ IsFrame(f, slot) /\ Linked(f, argc) /\ slot = StateSlot(f, argc) /\ argc \in Nat
      /\ StateSlot(1, Len(args)) <= slot
  <2>1. IsFrame(f, slot)
    BY <1>1, RunningFrameIsFrame
  <2>2. slot \in Nat /\ f <= slot /\ StateSlot(1, Len(args)) <= slot /\ f \in DOMAIN stack
    BY <2>1, FrameBounds
  <2>3. Linked(f, argc) /\ stack[f] = rl
    BY DEF FrameLayout, CurrentFrame
  <2>4. argc \in Nat /\ slot = StateSlot(f, argc)
    BY <1>1 DEF TypeOK, OwnStateSlot
  <2> QED
    BY <2>1, <2>2, <2>3, <2>4
<1>3. /\ stack'[f] = stack[f]
      /\ StateSlot(f, argc)' = slot
      /\ Linked(f, argc)'
  <2> DEFINE n == slot
  <2>1. n \in Nat /\ KeepsFrames(n)
    BY <1>1, <1>2
  <2> HIDE DEF n
  <2> QED
    BY <1>2, <2>1, LinkedKept DEF n
<1>4. f \in DOMAIN stack' /\ IsType(rl, "runtime_lambda")
  <2>1. stack' \in Seq(Atom) /\ slot <= Len(stack') /\ f \in Nat /\ 0 < f
    BY <1>1, <1>2, FrameBounds DEF KeepsFrames
  <2> QED
    BY <1>2, <2>1, SMTT(30) DEF TypeOK
<1>5. RunsFrame(f, argc, scope, escaped, slot)'
  <2>1. (ip \in DOMAIN Code)' /\ IsType(rl, "runtime_lambda")'
    BY <1>4 DEF Code, Compiled, IsType
  <2>2. (Len(stack) = slot + StackDepth[rl.cl][ip])'
    BY <1>1
  <2>3. \A k \in (slot + 1)..Len(stack') : ~IsState(k)'
    BY <1>1
  <2> QED
    BY <1>2, <1>3, <1>4, <2>1, <2>2, <2>3 DEF RunsFrame
<1>6. \A k \in (slot + 1)..Len(stack') : IsState(k)' => SavedFrame(k)'
  BY <1>1
<1> QED
  BY <1>1, <1>2, <1>5, <1>6, LayoutKept

-----------------------------------------------------------------------------
(* Instructions that only change the operands of the running frame.        *)

LEMMA PrefixKeepsFrames ==
  ASSUME BalancedCode, TypeOK, FrameLayout, status = "running",
         NEW n \in Nat, n <= Len(stack), n <= Len(stack'), stack' \in Seq(Atom),
         \A k \in 1..n : stack'[k] = stack[k],
         args' = args,
         \A s \in DOMAIN scopes :
           scopes[s].type = "stack" /\ scopes[s].frame_index < n =>
             s \in DOMAIN scopes' /\ scopes'[s] = scopes[s]
  PROVE  KeepsFrames(n)
<1>1. ASSUME NEW f, NEW k, IsFrame(f, k), k <= n
      PROVE  stack'[f] = stack[f] /\ stack'[k] = stack[k]
  <2>1. f \in Nat /\ k \in Nat /\ 0 < f /\ f < k
    BY <1>1, FrameBounds
  <2> QED
    BY <1>1, <2>1
<1>2. \A k \in 1..n : IsState(k)' => IsState(k)
  <2>1. stack \in Seq(Atom) /\ \A k \in 1..n : k \in DOMAIN stack
    BY DEF TypeOK
  <2> QED
    BY <2>1 DEF IsState
<1> QED
  BY <1>1, <1>2 DEF KeepsFrames

\* The code of the running lambda expects after the instruction what the
\* instruction leaves.
LEMMA DepthOfNext ==
  ASSUME BalancedCode, TypeOK, FrameLayout, status = "running", Executable,
         Current.op # "RETURN", ~(Current.op = "CALL" /\ IsType(Callee, "runtime_lambda"))
  PROVE  /\ NextIp \in DOMAIN Code
         /\ StackDepth[rl.cl][NextIp]
              = StackDepth[rl.cl][ip] - Operands(Current) + Pushes(Current)
         /\ Operands(Current) \in 0..StackDepth[rl.cl][ip]
<1>1. NextIp \in DOMAIN Code
  BY DEF Executable
<1>2. ip \in DOMAIN Code /\ Balanced(Code, StackDepth[rl.cl])
  BY InLoop, RunningFrame DEF TypeOK
<1>3. NextIp \in Successors(Code, ip)
  <2>1. Current.arg \in Int /\ ip \in Int
    BY InLoop DEF Instruction
  <2> QED
    BY <2>1 DEF NextIp, IsTaken, Successors, Current
<1> QED
  BY <1>1, <1>2, <1>3 DEF Balanced, DepthAfter, Current

\* The scope of the frame is described in the same way if scopes are kept.
LEMMA OwnScopeKept ==
  ASSUME BalancedCode, TypeOK, FrameLayout, status = "running",
         \A s \in DOMAIN scopes : scopes[s].type = "stack" =>
             s \in DOMAIN scopes' /\ scopes'[s] = scopes[s],
         NEW f, f = frame_index, NEW argc, argc = arg_count, NEW scope, scope = frame_scope,
         NEW escaped, frame_scope = NULL => ~escaped
  PROVE  OwnScope(f, argc, scope, escaped)'
<1>1. OwnScope(f, argc, scope, scope_escaped)
  BY DEF FrameLayout, CurrentFrame
<1> QED
  BY <1>1 DEF OwnScope

LEMMA LayoutOfOperands ==
  ASSUME BalancedCode, TypeOK, FrameLayout, status = "running", Executable,
         Current.op # "RETURN", ~(Current.op = "CALL" /\ IsType(Callee, "runtime_lambda")),
         frame_index' = frame_index, arg_count' = arg_count, rl' = rl, args' = args,
         \A s \in DOMAIN scopes : scopes[s].type = "stack" =>
             s \in DOMAIN scopes' /\ scopes'[s] = scopes[s],
         NEW f, f = frame_index, NEW argc, argc = arg_count,
         NEW scope, frame_scope' = scope, NEW escaped, scope_escaped' = escaped,
         OwnScope(f, argc, scope, escaped)',
         ip' = NextIp,
         stack' \in Seq(Atom),
         Len(stack') = Len(stack) - Operands(Current) + Pushes(Current),
         \A k \in 1..(Len(stack) - Operands(Current)) : k <= Len(stack') => stack'[k] = stack[k],
         \A k \in (Len(stack) - Operands(Current) + 1)..Len(stack') :
           ~IsType(stack'[k], "interpreter_state")
  PROVE  FrameLayout'
<1> DEFINE depth == StackDepth[rl.cl]
<1>1. /\ NextIp \in DOMAIN Code
      /\ depth[NextIp] = depth[ip] - Operands(Current) + Pushes(Current)
      /\ Operands(Current) \in 0..depth[ip]
  BY DepthOfNext
<1>2. /\ OwnStateSlot \in Nat /\ depth[ip] \in Nat /\ Len(stack) = OwnStateSlot + depth[ip]
      /\ \A k \in (OwnStateSlot + 1)..Len(stack) : ~IsState(k)
  BY RunningFrame
<1>3. Pushes(Current) \in {0, 1}
  BY DEF Pushes
<1> HIDE DEF depth
<1>4. /\ OwnStateSlot <= Len(stack) - Operands(Current)
      /\ OwnStateSlot <= Len(stack')
      /\ Len(stack) \in Nat /\ Len(stack') \in Nat
  BY <1>1, <1>2, <1>3, SMTT(30)
<1>5. \A k \in 1..OwnStateSlot : stack'[k] = stack[k]
  <2>1. PICK own, kept, new :
          own = OwnStateSlot /\ kept = Len(stack) - Operands(Current) /\ new = Len(stack')
    OBVIOUS
  <2>2. own \in Nat /\ kept \in Int /\ new \in Nat /\ own <= kept /\ own <= new
    BY <1>1, <1>2, <1>4, <2>1
  <2> SUFFICES ASSUME NEW k \in 1..own
               PROVE  stack'[k] = stack[k]
    BY <2>1
  <2>3. k \in 1..kept /\ k <= new
    BY <2>2
  <2> QED
    BY <2>1, <2>3
<1>6. KeepsFrames(OwnStateSlot)
  <2> DEFINE n == OwnStateSlot
  <2>1. n \in Nat /\ n <= Len(stack) /\ n <= Len(stack') /\ \A k \in 1..n : stack'[k] = stack[k]
    BY <1>1, <1>2, <1>4, <1>5
  <2> HIDE DEF n
  <2>2. KeepsFrames(n)
    BY <2>1, PrefixKeepsFrames
  <2> QED
    BY <2>2 DEF n
<1>7. \A k \in (OwnStateSlot + 1)..Len(stack') : ~IsState(k)'
  <2> SUFFICES ASSUME NEW k \in (OwnStateSlot + 1)..Len(stack')
               PROVE  ~IsType(stack'[k], "interpreter_state")
    BY DEF IsState
  <2>1. CASE k <= Len(stack) - Operands(Current)
    <3>1. k \in 1..(Len(stack) - Operands(Current)) /\ k <= Len(stack') /\ k \in 1..Len(stack)
      BY <1>1, <1>2, <1>4, <2>1
    <3>2. k \in DOMAIN stack /\ k \in (OwnStateSlot + 1)..Len(stack)
      BY <1>2, <3>1, SMTT(30) DEF TypeOK
    <3>3. stack'[k] = stack[k]
      BY <3>1
    <3>4. ~IsState(k)
      BY <1>2, <3>2
    <3> QED
      BY <3>2, <3>3, <3>4 DEF IsState
  <2>2. CASE k > Len(stack) - Operands(Current)
    BY <1>1, <1>2, <1>4, <2>2
  <2> QED
    BY <1>1, <1>2, <1>4, <2>1, <2>2
<1>8. ip' \in DOMAIN Code /\ Len(stack') = OwnStateSlot + StackDepth[rl.cl][ip']
  <2>1. Len(stack') = OwnStateSlot + depth[NextIp]
    BY <1>1, <1>2, <1>3
  <2> QED
    BY <1>1, <2>1 DEF depth
<1> QED
  BY <1>6, <1>7, <1>8, SameActivation

LEMMA LayoutOfOperandStep ==
  ASSUME BalancedCode, TypeOK, FrameLayout, status = "running", Executable,
         Current.op # "RETURN", ~(Current.op = "CALL" /\ IsType(Callee, "runtime_lambda")),
         frame_index' = frame_index, arg_count' = arg_count, rl' = rl, args' = args,
         frame_scope' = frame_scope, frame_scope = NULL => ~scope_escaped',
         scopes' = scopes, ip' = NextIp,
         stack' \in Seq(Atom),
         Len(stack') = Len(stack) - Operands(Current) + Pushes(Current),
         \A k \in 1..(Len(stack) - Operands(Current)) : k <= Len(stack') => stack'[k] = stack[k],
         \A k \in (Len(stack) - Operands(Current) + 1)..Len(stack') :
           ~IsType(stack'[k], "interpreter_state")
  PROVE  FrameLayout'
<1>1. PICK f, argc, scope, escaped :
        f = frame_index /\ argc = arg_count /\ scope = frame_scope /\ escaped = scope_escaped'
  OBVIOUS
<1>2. OwnScope(f, argc, scope, escaped)'
  BY <1>1, OwnScopeKept
<1> QED
  BY <1>1, <1>2, LayoutOfOperands

-----------------------------------------------------------------------------
(* Variables.                                                              *)

\* A scope on the stack that an instruction reaches describes a frame.
LEMMA TargetFrame ==
  ASSUME BalancedCode, TypeOK, FrameLayout, status = "running", OuterFrameAlive,
         Current.offset > 0 => ScopeId(Current.offset) \in DOMAIN scopes,
         TargetScope(Current.offset).type = "stack"
  PROVE  LET scope == TargetScope(Current.offset)
         IN  IsFrame(scope.frame_index, StateSlot(scope.frame_index, scope.arg_count))
<1> DEFINE scope == TargetScope(Current.offset)
<1>1. IsFrame(frame_index, StateSlot(frame_index, arg_count))
  BY RunningFrameIsFrame DEF OwnStateSlot
<1>2. CASE Current.offset = 0
  BY <1>1, <1>2 DEF TargetScope, ThisScope, StackScope
<1>3. CASE Current.offset # 0
  <2> DEFINE s == ScopeId(Current.offset)
  <2>1. Current.offset > 0 /\ s \in DOMAIN scopes /\ scope = scopes[s]
    BY <1>3, InLoop DEF Instruction, TargetScope
  <2>2. s \in LiveScopes
    BY <2>1 DEF OuterFrameAlive
  <2>3. s # NULL
    BY <2>1 DEF TypeOK, NULL
  <2>4. CASE s = frame_scope
    <3>1. OwnScope(frame_index, arg_count, frame_scope, scope_escaped)
      BY DEF FrameLayout, CurrentFrame
    <3>2. scope.frame_index = frame_index /\ scope.arg_count = arg_count
      BY <2>1, <2>3, <2>4, <3>1 DEF OwnScope
    <3> QED
      BY <1>1, <3>2
  <2>5. ASSUME NEW k \in DOMAIN stack, IsType(stack[k], "interpreter_state"),
               s = stack[k].frame_scope
        PROVE  IsFrame(scope.frame_index, StateSlot(scope.frame_index, scope.arg_count))
    <3>1. IsState(k)
      BY <2>5 DEF IsState
    <3>2. SavedFrame(k) /\ IsFrame(CallerFrame(k), CallerStateSlot(k))
      BY <3>1, SavedFrameFacts
    <3>3. OwnScope(stack[k].fp_index, stack[k].arg_count, stack[k].frame_scope, stack[k].scope_escaped)
      BY <3>2 DEF SavedFrame
    <3>4. scope.frame_index = stack[k].fp_index /\ scope.arg_count = stack[k].arg_count
      BY <2>1, <2>3, <2>5, <3>3 DEF OwnScope
    <3> QED
      BY <3>2, <3>4 DEF CallerFrame, CallerStateSlot
  <2> QED
    BY <2>2, <2>4, <2>5 DEF LiveScopes
<1> QED
  BY <1>2, <1>3

\* A variable lies between the lambda and the saved state of its frame.
LEMMA VariableInFrame ==
  ASSUME BalancedCode, TypeOK, FrameLayout, status = "running", OuterFrameAlive,
         HasVariable(Current), TargetScope(Current.offset).type = "stack"
  PROVE  LET scope == TargetScope(Current.offset)
             f == scope.frame_index
             k == StateSlot(f, scope.arg_count)
             j == f + VariableSlot(Current) - 1
         IN  IsFrame(f, k) /\ j \in DOMAIN stack /\ f < j /\ j < k
<1> DEFINE scope == TargetScope(Current.offset)
           f == scope.frame_index
           k == StateSlot(f, scope.arg_count)
           j == f + VariableSlot(Current) - 1
<1>1. IsFrame(f, k)
  BY TargetFrame DEF HasVariable
<1>2. f \in Nat /\ k \in Nat /\ f \in DOMAIN stack
  BY <1>1, FrameBounds
<1>3. /\ Current.offset \in Nat /\ Current.arg \in Int /\ Current.arg >= 0
      /\ j \in DOMAIN stack
  BY InLoop DEF Instruction, HasVariable, SlotExists
<1>4. scope.arg_count \in Nat
  BY <1>3, TargetScopeType DEF HasVariable, Scope, ScopeOver, EnvScope
<1>5. k = f + 1 + scope.arg_count + Compiled(stack[f]).var_count
  BY DEF StateSlot
<1>6. CASE Current.op = "LOAD_ARG"
  <2>1. Current.arg < scope.arg_count /\ j = f + Current.arg + 1
    BY <1>2, <1>3, <1>6 DEF HasVariable, VariableSlot
  <2>2. Compiled(stack[f]).var_count \in Nat
    <3>1. IsType(stack[f], "runtime_lambda")
      <4>1. CASE f = 1
        BY <4>1, BottomFrame
      <4>2. CASE IsState(k) /\ f = CalleeFrame(stack[k])
        <5>1. SavedFrame(k)
          BY <4>2, SavedFrameFacts DEF IsState
        <5> QED
          BY <4>2, <5>1 DEF SavedFrame
      <4> QED
        BY <1>1, <4>1, <4>2 DEF IsFrame
    <3> QED
      BY <1>2, <3>1, LambdaOnStack DEF TypeOK
  <2> QED
    BY <1>1, <1>2, <1>3, <1>4, <1>5, <2>1, <2>2
<1>7. CASE Current.op # "LOAD_ARG"
  <2>1. HasFrame(Current.offset) /\ Current.arg < TargetLambda(Current.offset).var_count
          /\ j = f + scope.arg_count + Current.arg + 1
    BY <1>2, <1>3, <1>4, <1>7 DEF HasVariable, VariableSlot
  <2>2. Slot(scope, 1) = stack[f]
    BY <1>2 DEF Slot
  <2>3. TargetLambda(Current.offset) = Compiled(stack[f])
    BY <2>2 DEF TargetLambda
  <2>4. TargetLambda(Current.offset).var_count \in Nat
    BY <1>3, <2>1, TargetLambdaType
  <2> QED
    BY <1>1, <1>2, <1>3, <1>4, <1>5, <2>1, <2>3, <2>4
<1> QED
  BY <1>6, <1>7

\* ... and is no lambda and no state of any frame.
LEMMA VariableApart ==
  ASSUME BalancedCode, TypeOK, FrameLayout, status = "running",
         NEW f, NEW k, IsFrame(f, k), NEW j \in Nat, f < j, j < k
  PROVE  /\ ~IsState(j)
         /\ \A g, m : IsFrame(g, m) => j # g /\ j # m
<1>1. ASSUME NEW g, NEW m, IsFrame(g, m)
      PROVE  j # g /\ j # m
  <2>1. f \in Nat /\ k \in Nat /\ g \in Nat /\ m \in Nat /\ g < m
    BY <1>1, FrameBounds
  <2> QED
    BY <1>1, <2>1, FramesDisjoint
<1>2. ~IsState(j)
  <2> SUFFICES ASSUME IsState(j) PROVE FALSE
    OBVIOUS
  <2>1. IsFrame(CalleeFrame(stack[j]), j)
    BY DEF IsFrame
  <2> QED
    BY <1>1, <2>1
<1> QED
  BY <1>1, <1>2

\* The atoms on top of the saved state are none.
LEMMA OperandsHidden ==
  ASSUME BalancedCode, TypeOK, FrameLayout, status = "running", Executable,
         NEW i \in 0..(Operands(Current) - 1)
  PROVE  /\ i < Len(stack)
         /\ Top(i) \in Atom
         /\ ~IsType(Top(i), "interpreter_state")
<1>1. /\ OwnStateSlot \in Nat /\ StackDepth[rl.cl][ip] \in Nat
      /\ Len(stack) = OwnStateSlot + StackDepth[rl.cl][ip]
      /\ Balanced(Code, StackDepth[rl.cl])
      /\ \A k \in (OwnStateSlot + 1)..Len(stack) : ~IsState(k)
  BY RunningFrame
<1>2. Operands(Current) \in 0..StackDepth[rl.cl][ip]
  BY <1>1, InLoop DEF Balanced, Current
<1>3. Len(stack) - i \in (OwnStateSlot + 1)..Len(stack)
  BY <1>1, <1>2, SMTT(30)
<1>4. /\ Len(stack) - i \in 1..Len(stack) /\ i < Len(stack) /\ i \in Nat
      /\ Operands(Current) \in Nat
  BY <1>1, <1>2, SMTT(30)
<1>5. Len(stack) - i \in DOMAIN stack /\ stack \in Seq(Atom)
  BY <1>4 DEF TypeOK
<1>6. ~IsState(Len(stack) - i)
  BY <1>1, <1>3
<1> QED
  BY <1>4, <1>5, <1>6 DEF Top, IsState

\* No load finds a saved state.
LEMMA VariableHidden ==
  ASSUME BalancedCode, IInv, status = "running", OuterFrameAlive, HasVariable(Current)
  PROVE  ~IsType(Slot(TargetScope(Current.offset), VariableSlot(Current)), "interpreter_state")
<1> DEFINE scope == TargetScope(Current.offset)
           i == VariableSlot(Current)
<1>0. TypeOK /\ FrameLayout /\ SavedStateHidden
  BY DEF IInv
<1>1. CASE scope.type = "stack"
  <2> DEFINE f == scope.frame_index
             k == StateSlot(f, scope.arg_count)
             j == f + i - 1
  <2>1. IsFrame(f, k) /\ j \in DOMAIN stack /\ f < j /\ j < k
    BY <1>0, <1>1, VariableInFrame
  <2>2. j \in Nat
    BY <1>0, <2>1 DEF TypeOK
  <2>3. Slot(scope, i) = stack[j]
    BY <1>1 DEF Slot
  <2> HIDE DEF f, k, j
  <2>4. ~IsState(j)
    BY <1>0, <2>1, <2>2, VariableApart
  <2> QED
    BY <2>1, <2>3, <2>4 DEF IsState
<1>2. CASE scope.type # "stack"
  <2>1. Current.offset # 0
    BY <1>2 DEF TargetScope, ThisScope, StackScope
  <2>2. ScopeId(Current.offset) \in DOMAIN scopes /\ scope = scopes[ScopeId(Current.offset)]
    BY <1>0, <2>1, InLoop DEF Instruction, HasVariable, TargetScope
  <2>3. i \in DOMAIN scope.atoms /\ Slot(scope, i) = scope.atoms[i]
    BY <1>2 DEF HasVariable, SlotExists, Slot
  <2>4. ~IsType(Slot(scope, i), "interpreter_state")
    <3> HIDE DEF scope, i
    <3> QED
      BY <1>0, <2>2, <2>3 DEF SavedStateHidden
  <2> QED
    BY <2>4
<1> QED
  BY <1>1, <1>2

-----------------------------------------------------------------------------
(* One instruction at a time.                                              *)

LEMMA HiddenUnchanged ==
  ASSUME SavedStateHidden, UNCHANGED <<env, scopes, pairs, result>>
  PROVE  SavedStateHidden'
  BY DEF SavedStateHidden, IsType

\* The stack when the operands have been replaced by one atom.
LEMMA ReplacedOperands ==
  ASSUME stack \in Seq(Atom), stack' \in Seq(Atom), NEW n \in 0..Len(stack),
         NEW a, stack' = Append(Pop(n), a)
  PROVE  /\ a \in Atom
         /\ Len(stack') = Len(stack) - n + 1
         /\ \A k \in 1..(Len(stack) - n) : stack'[k] = stack[k]
         /\ stack'[Len(stack) - n + 1] = a
<1>1. PICK kept \in Seq(Atom) :
        /\ kept = Pop(n) /\ Len(kept) = Len(stack) - n
        /\ \A i \in 1..(Len(stack) - n) : kept[i] = stack[i]
  BY PopProperties
<1>2. stack' = Append(kept, a)
  BY <1>1
<1>3. Len(stack) \in Nat /\ a \in Atom
  <2>1. Len(kept) \in Nat /\ Append(kept, a)[Len(kept) + 1] = a
          /\ Len(kept) + 1 \in DOMAIN Append(kept, a)
    OBVIOUS
  <2>2. stack'[Len(kept) + 1] = a /\ Len(kept) + 1 \in DOMAIN stack'
    BY <1>2, <2>1
  <2> QED
    BY <2>2
<1> QED
  BY <1>1, <1>2, <1>3

\* The operands are replaced by one atom.
LEMMA ReplacementInv ==
  ASSUME BalancedCode, IInv, TypeOK', SavedStateHidden', status = "running", Executable,
         Current.op # "RETURN", ~(Current.op = "CALL" /\ IsType(Callee, "runtime_lambda")),
         NEW n, n = Operands(Current), Pushes(Current) = 1,
         NEW a, ~IsType(a, "interpreter_state"), stack' = Append(Pop(n), a),
         ip' = NextIp, scopes' = scopes,
         UNCHANGED <<registers, session, status>>
  PROVE  IInv'
<1>1. TypeOK /\ FrameLayout /\ stack \in Seq(Atom) /\ n \in 0..Len(stack) /\ stack' \in Seq(Atom)
  BY DEF IInv, TypeOK, Executable
<1>2. /\ Len(stack') = Len(stack) - n + 1
      /\ \A k \in 1..(Len(stack) - n) : stack'[k] = stack[k]
      /\ stack'[Len(stack) - n + 1] = a
  BY <1>1, ReplacedOperands
<1>3. Len(stack) \in Nat
  BY <1>1
<1>4. /\ frame_index' = frame_index /\ arg_count' = arg_count /\ rl' = rl /\ args' = args
      /\ frame_scope' = frame_scope /\ scope_escaped' = scope_escaped
  BY DEF registers, session
<1>5. frame_scope = NULL => ~scope_escaped'
  BY <1>1, <1>4 DEF FrameLayout, CurrentFrame, OwnScope
<1>6. \A k \in (Len(stack) - n + 1)..Len(stack') : ~IsType(stack'[k], "interpreter_state")
  <2>1. \A k \in (Len(stack) - n + 1)..Len(stack') : k = Len(stack) - n + 1
    BY <1>1, <1>2, <1>3
  <2> QED
    BY <1>2, <2>1
<1>7. FrameLayout'
  BY <1>1, <1>2, <1>4, <1>5, <1>6, LayoutOfOperandStep
<1> QED
  BY <1>7 DEF IInv, WholeFrameGone

\* The operands are taken off the stack.
LEMMA RemovalInv ==
  ASSUME BalancedCode, IInv, TypeOK', status = "running", Executable,
         Current.op # "RETURN", Current.op # "CALL",
         NEW n, n = Operands(Current), Pushes(Current) = 0, stack' = Pop(n),
         ip' = NextIp,
         UNCHANGED <<memory, registers, session, result, status>>
  PROVE  IInv'
<1>1. TypeOK /\ FrameLayout /\ stack \in Seq(Atom) /\ n \in 0..Len(stack) /\ stack' \in Seq(Atom)
  BY DEF IInv, TypeOK, Executable
<1>2. /\ Len(stack') = Len(stack) - n
      /\ \A k \in 1..(Len(stack) - n) : stack'[k] = stack[k]
  BY <1>1, PopProperties
<1>3. /\ frame_index' = frame_index /\ arg_count' = arg_count /\ rl' = rl /\ args' = args
      /\ frame_scope' = frame_scope /\ scope_escaped' = scope_escaped /\ scopes' = scopes
  BY DEF registers, session, memory
<1>4. frame_scope = NULL => ~scope_escaped'
  BY <1>1, <1>3 DEF FrameLayout, CurrentFrame, OwnScope
<1>5. \A k \in (Len(stack) - n + 1)..Len(stack') : ~IsType(stack'[k], "interpreter_state")
  BY <1>1, <1>2
<1>6. FrameLayout'
  BY <1>1, <1>2, <1>3, <1>4, <1>5, LayoutOfOperandStep
<1>7. SavedStateHidden'
  BY HiddenUnchanged DEF IInv, memory
<1> QED
  BY <1>6, <1>7 DEF IInv, WholeFrameGone

\* A load pushes one atom.
LEMMA LoadInv ==
  ASSUME BalancedCode, IInv, TypeOK', NEW ops, Executing(ops),
         Operands(Current) = 0, Pushes(Current) = 1,
         Current.op # "RETURN", Current.op # "CALL",
         NEW a, ~IsType(a, "interpreter_state"), Push(a), ip' = NextIp,
         UNCHANGED <<memory, registers, session, result, status>>
  PROVE  IInv'
<1>1. stack \in Seq(Atom) /\ status = "running" /\ Executable
  BY DEF IInv, TypeOK, Executing
<1>2. stack' = Append(Pop(0), a)
  BY <1>1 DEF Push, Pop
<1>3. SavedStateHidden'
  BY HiddenUnchanged DEF IInv, memory
<1>4. scopes' = scopes
  BY DEF memory
<1> QED
  BY <1>1, <1>2, <1>3, <1>4, ReplacementInv

LEMMA LoadConstantInv ==
  ASSUME BalancedCode, IInv, LoadConstant
  PROVE  IInv'
<1>1. Current.op \in LoadConstantOp /\ TypeOK'
  BY LoadConstantType DEF LoadConstant, Executing, IInv
<1>2. Operands(Current) = 0 /\ Pushes(Current) = 1
  BY <1>1 DEF LoadConstantOp, Operands, Pushes, ArithmeticOp, CompareOp, PartOp
<1>3. PICK a \in {Nil, True, False, Num(Wrap(Current.arg))} : Push(a)
  BY <1>1 DEF LoadConstant, LoadConstantOp
<1>4. ~IsType(a, "interpreter_state")
  BY <1>3 DEF Nil, True, False, Num, IsType
<1> QED
  BY <1>1, <1>2, <1>3, <1>4, LoadInv DEF LoadConstant, LoadConstantOp

LEMMA LoadLiteralInv ==
  ASSUME BalancedCode, IInv, LoadLiteral
  PROVE  IInv'
<1> DEFINE literal == TargetLambda(Current.offset).literals[Current.arg + 1]
<1>1. Current.op = "LOAD_LITERAL" /\ TypeOK' /\ TypeOK /\ status = "running"
        /\ Current \in Instruction
  BY LoadLiteralType, InLoop DEF LoadLiteral, Executing, IInv
<1>2. Operands(Current) = 0 /\ Pushes(Current) = 1
  BY <1>1 DEF Operands, Pushes, ArithmeticOp, CompareOp, PartOp
<1>3. ~IsType(literal, "interpreter_state")
  <2>1. /\ HasFrame(Current.offset)
        /\ HasLiteral(TargetLambda(Current.offset), Current.arg)
    BY <1>1 DEF LoadLiteral, Executing, Executable
  <2>2. literal \in Literal
    BY <1>1, <2>1, TargetLambdaType DEF Instruction, HasLiteral
  <2> HIDE DEF literal
  <2> QED
    BY <2>2 DEF Literal, Value, ValueOver, IsType, Nil, True, False
<1> QED
  BY <1>1, <1>2, <1>3, LoadInv DEF LoadLiteral

LEMMA LoadVariableInv ==
  ASSUME BalancedCode, IInv, OuterFrameAlive, LoadVariable
  PROVE  IInv'
<1>1. Current.op \in LoadVariableOp /\ TypeOK' /\ status = "running" /\ HasVariable(Current)
  BY LoadVariableType DEF LoadVariable, Executing, Executable, IInv
<1>2. Operands(Current) = 0 /\ Pushes(Current) = 1
  BY <1>1 DEF LoadVariableOp, Operands, Pushes, ArithmeticOp, CompareOp, PartOp
<1>3. ~IsType(Slot(TargetScope(Current.offset), VariableSlot(Current)), "interpreter_state")
  BY <1>1, VariableHidden
<1> QED
  BY <1>1, <1>2, <1>3, LoadInv DEF LoadVariable, LoadVariableOp

LEMMA LoadEnvInv ==
  ASSUME BalancedCode, IInv, LoadEnv
  PROVE  IInv'
<1>1. Current.op = "LOAD_ENV" /\ TypeOK'
  BY LoadEnvType DEF LoadEnv, Executing, IInv
<1>2. Operands(Current) = 0 /\ Pushes(Current) = 1
  BY <1>1 DEF Operands, Pushes, ArithmeticOp, CompareOp, PartOp
<1>3. ASSUME Bound(env, Key.sym)
      PROVE  ~IsType(EnvGet(env, Key.sym), "interpreter_state")
  <2>1. FirstBinding(env, Key.sym) \in DOMAIN env
    BY <1>3, FirstBindingFound DEF IInv, TypeOK
  <2> QED
    BY <2>1 DEF IInv, SavedStateHidden, EnvGet
<1>4. PICK a : a = (IF Bound(env, Key.sym) THEN EnvGet(env, Key.sym) ELSE Nil)
  OBVIOUS
<1>5. ~IsType(a, "interpreter_state")
  BY <1>3, <1>4 DEF IsType, Nil
<1> QED
  BY <1>1, <1>2, <1>4, <1>5, LoadInv DEF LoadEnv

LEMMA DropInv ==
  ASSUME BalancedCode, IInv, Drop
  PROVE  IInv'
<1>1. Current.op = "DROP" /\ TypeOK' /\ status = "running" /\ Executable
  BY DropType DEF Drop, Executing, IInv
<1>2. Operands(Current) = 1 /\ Pushes(Current) = 0
  BY <1>1 DEF Operands, Pushes, ArithmeticOp, CompareOp, PartOp
<1> QED
  BY <1>1, <1>2, RemovalInv DEF Drop

LEMMA JumpInv ==
  ASSUME BalancedCode, IInv, Jump
  PROVE  IInv'
<1>1. Current.op = "JUMP" /\ TypeOK' /\ status = "running" /\ Executable
  BY JumpType DEF Jump, Executing, IInv
<1>2. Operands(Current) = 0 /\ Pushes(Current) = 0
  BY <1>1 DEF Operands, Pushes, ArithmeticOp, CompareOp, PartOp
<1>3. stack' = Pop(0)
  BY DEF Jump, Pop, IInv, TypeOK
<1> QED
  BY <1>1, <1>2, <1>3, RemovalInv DEF Jump

LEMMA JumpIfFalseInv ==
  ASSUME BalancedCode, IInv, JumpIfFalse
  PROVE  IInv'
<1>1. Current.op = "JUMP_IF_FALSE" /\ TypeOK' /\ status = "running" /\ Executable
  BY JumpIfFalseType DEF JumpIfFalse, Executing, IInv
<1>2. Operands(Current) = 1 /\ Pushes(Current) = 0
  BY <1>1 DEF Operands, Pushes, ArithmeticOp, CompareOp, PartOp
<1> QED
  BY <1>1, <1>2, RemovalInv DEF JumpIfFalse

LEMMA CallBuildinInv ==
  ASSUME BalancedCode, IInv, CallBuildin
  PROVE  IInv'
<1>1. Current.op = "CALL" /\ TypeOK' /\ status = "running" /\ Executable
        /\ ~IsType(Callee, "runtime_lambda")
  BY CallBuildinType DEF CallBuildin, Executing, IInv, IsType
<1>2. Operands(Current) = Current.arg + 1 /\ Pushes(Current) = 1
  BY <1>1 DEF Operands, Pushes, ArithmeticOp, CompareOp, PartOp
<1>3. PICK value \in BuildinResults(Callee.func, Actuals) :
        stack' = Append(Pop(Current.arg + 1), value)
  BY DEF CallBuildin
<1>4. ~IsType(value, "interpreter_state")
  <2>1. Callee.func \in {"print", "gc_heap_size", "plus"}
    <3>1. Callee \in Atom /\ Callee.type = "buildin"
      BY CalleeType DEF CallBuildin, IsType, IInv
    <3> QED
      BY DEF CallBuildin, SimpleFunc
  <2> QED
    BY <1>3, <2>1 DEF BuildinResults, IsType, Nil, Num
<1>5. SavedStateHidden'
  BY HiddenUnchanged DEF IInv, CallBuildin, memory
<1>6. scopes' = scopes /\ ip' = NextIp /\ UNCHANGED <<registers, session, status>>
  BY DEF CallBuildin, memory
<1> QED
  BY <1>1, <1>2, <1>3, <1>4, <1>5, <1>6, ReplacementInv

\* The scope that the first lambda of an activation allocates describes the
\* frame of the activation.
LEMMA LoadLambdaInv ==
  ASSUME BalancedCode, IInv, LoadLambda
  PROVE  IInv'
<1> DEFINE literal == TargetLambda(Current.offset).literals[Current.arg + 1]
<1>1. Current.op = "LOAD_LAMBDA" /\ TypeOK' /\ TypeOK /\ FrameLayout /\ status = "running"
        /\ Executable /\ stack \in Seq(Atom) /\ scopes \in Seq(Scope) /\ SavedStateHidden
        /\ ~(Current.op = "CALL" /\ IsType(Callee, "runtime_lambda"))
  BY LoadLambdaType DEF LoadLambda, Executing, IInv, TypeOK
<1>2. Operands(Current) = 0 /\ Pushes(Current) = 1
  BY <1>1 DEF Operands, Pushes, ArithmeticOp, CompareOp, PartOp
<1>3. PICK f, argc, scope, escaped :
        f = frame_index /\ argc = arg_count /\ scope = frame_scope' /\ escaped = scope_escaped'
  OBVIOUS
<1>4. /\ frame_index' = frame_index /\ arg_count' = arg_count /\ rl' = rl /\ args' = args
      /\ scope_escaped' = scope_escaped /\ env' = env /\ pairs' = pairs /\ result' = result
      /\ status' = status
  BY DEF LoadLambda, session
<1>5. /\ \A s \in DOMAIN scopes : s \in DOMAIN scopes' /\ scopes'[s] = scopes[s]
      /\ \A s \in DOMAIN scopes' : s \in DOMAIN scopes \/ scopes'[s].atoms = << >>
      /\ OwnScope(f, argc, scope, escaped)'
  <2>1. CASE frame_scope = NULL
    <3>1. scopes' = Append(scopes, ThisScope) /\ scope = Len(scopes) + 1
      BY <1>3, <2>1 DEF LoadLambda, NeedsScope
    <3>2. scopes' \in Seq(Scope)
      BY <1>1 DEF TypeOK
    <3>3. /\ Len(scopes') = Len(scopes) + 1 /\ scopes'[scope] = ThisScope
          /\ \A s \in 1..Len(scopes) : scopes'[s] = scopes[s]
      BY <1>1, <3>1
    <3>4. ThisScope.type = "stack" /\ ThisScope.frame_index = f /\ ThisScope.arg_count = argc
            /\ ThisScope.atoms = << >>
      BY <1>3 DEF ThisScope, StackScope
    <3>5. /\ \A s \in DOMAIN scopes : s \in DOMAIN scopes' /\ scopes'[s] = scopes[s]
          /\ \A s \in DOMAIN scopes' : s \in DOMAIN scopes \/ s = scope
      BY <1>1, <3>1, <3>2, <3>3
    <3> QED
      BY <1>1, <3>1, <3>2, <3>3, <3>4, <3>5 DEF OwnScope, NULL
  <2>2. CASE frame_scope # NULL
    <3>1. scopes' = scopes /\ frame_scope' = frame_scope
      BY <2>2 DEF LoadLambda, NeedsScope
    <3> QED
      BY <1>1, <1>3, <1>4, <2>2, <3>1, OwnScopeKept
  <2> QED
    BY <2>1, <2>2
<1>6. PICK a : a = RuntimeLambda(literal.id, frame_scope') /\ stack' = Append(stack, a)
  BY DEF LoadLambda, Push
<1>7. ~IsType(a, "interpreter_state")
  BY <1>6 DEF RuntimeLambda, IsType
<1>8. /\ stack' \in Seq(Atom) /\ Len(stack') = Len(stack) + 1
      /\ \A k \in 1..Len(stack) : stack'[k] = stack[k]
      /\ stack'[Len(stack) + 1] = a
  BY <1>1, <1>6 DEF TypeOK
<1>9. \A k \in (Len(stack) + 1)..Len(stack') : ~IsType(stack'[k], "interpreter_state")
  <2>1. \A k \in (Len(stack) + 1)..Len(stack') : k = Len(stack) + 1
    BY <1>1, <1>8
  <2> QED
    BY <1>7, <1>8, <2>1
<1>10. ip' = NextIp
  BY DEF LoadLambda
<1>11. FrameLayout'
  <2>1. /\ Len(stack') = Len(stack) - Operands(Current) + Pushes(Current)
        /\ Len(stack) - Operands(Current) = Len(stack)
    BY <1>1, <1>2, <1>8
  <2> QED
    BY <1>1, <1>3, <1>4, <1>5, <1>8, <1>9, <1>10, <2>1, LayoutOfOperands
<1>12. SavedStateHidden'
  BY <1>1, <1>4, <1>5 DEF SavedStateHidden
<1> QED
  BY <1>1, <1>4, <1>11, <1>12 DEF IInv, WholeFrameGone

LEMMA ArithmeticInv ==
  ASSUME BalancedCode, IInv, Arithmetic
  PROVE  IInv'
<1>1. Current.op \in ArithmeticOp /\ TypeOK' /\ status = "running" /\ Executable
  BY ArithmeticType DEF Arithmetic, Executing, IInv
<1>2. Operands(Current) = 2 /\ Pushes(Current) = 1
        /\ Current.op # "RETURN" /\ Current.op # "CALL"
  BY <1>1 DEF Operands, Pushes, ArithmeticOp, CompareOp, PartOp
<1>3. PICK a : a = ArithmeticResult(Current.op, Top(1).num, Top(0).num)
  OBVIOUS
<1>4. ~IsType(a, "interpreter_state")
  BY <1>3 DEF ArithmeticResult, Num, IsType
<1>5. stack' = Append(Pop(2), a) /\ ip' = NextIp /\ scopes' = scopes
        /\ UNCHANGED <<registers, session, status>>
  BY <1>3 DEF Arithmetic, memory
<1>6. SavedStateHidden'
  BY HiddenUnchanged DEF IInv, Arithmetic, memory
<1> QED
  BY <1>1, <1>2, <1>4, <1>5, <1>6, ReplacementInv

LEMMA CompareInv ==
  ASSUME BalancedCode, IInv, Compare
  PROVE  IInv'
<1>1. Current.op \in CompareOp /\ TypeOK' /\ status = "running" /\ Executable
  BY CompareType DEF Compare, Executing, IInv
<1>2. Operands(Current) = 2 /\ Pushes(Current) = 1
        /\ Current.op # "RETURN" /\ Current.op # "CALL"
  BY <1>1 DEF Operands, Pushes, ArithmeticOp, CompareOp, PartOp
<1>3. PICK a : a = CompareResult(Current.op, Top(1), Top(0))
  OBVIOUS
<1>4. ~IsType(a, "interpreter_state")
  BY <1>3 DEF CompareResult, True, False, IsType
<1>5. stack' = Append(Pop(2), a) /\ ip' = NextIp /\ scopes' = scopes
        /\ UNCHANGED <<registers, session, status>>
  BY <1>3 DEF Compare, memory
<1>6. SavedStateHidden'
  BY HiddenUnchanged DEF IInv, Compare, memory
<1> QED
  BY <1>1, <1>2, <1>4, <1>5, <1>6, ReplacementInv

LEMMA BuildPairInv ==
  ASSUME BalancedCode, IInv, BuildPair
  PROVE  IInv'
<1>1. Current.op = "CONS" /\ TypeOK' /\ TypeOK /\ status = "running" /\ Executable
        /\ FrameLayout /\ SavedStateHidden
  BY BuildPairType DEF BuildPair, Executing, IInv
<1>2. Operands(Current) = 2 /\ Pushes(Current) = 1
  BY <1>1 DEF Operands, Pushes, ArithmeticOp, CompareOp, PartOp
<1>3. PICK first, rest : first = Top(1) /\ rest = Top(0)
  OBVIOUS
<1>4. /\ ~IsType(first, "interpreter_state") /\ first \in Atom
      /\ ~IsType(rest, "interpreter_state") /\ rest \in Atom
  <2>1. 0 \in 0..(Operands(Current) - 1) /\ 1 \in 0..(Operands(Current) - 1)
    BY <1>2
  <2> QED
    BY <1>1, <1>3, <2>1, OperandsHidden
<1>5. PICK cell : cell = [first |-> first, rest |-> rest] /\ pairs' = Append(pairs, cell)
  BY <1>3 DEF BuildPair
<1>6. \A c \in DOMAIN pairs' : (c \in DOMAIN pairs /\ pairs'[c] = pairs[c]) \/ pairs'[c] = cell
  <2>1. pairs \in Seq(PairCell) /\ cell \in PairCell
    BY <1>1, <1>4, <1>5 DEF TypeOK, PairCell, PairOver, Atom
  <2> QED
    BY <1>5, <2>1
<1>7. SavedStateHidden'
  <2>1. env' = env /\ scopes' = scopes /\ result' = result
    BY DEF BuildPair
  <2>2. ~IsType(cell.first, "interpreter_state") /\ ~IsType(cell.rest, "interpreter_state")
    BY <1>4, <1>5
  <2> QED
    BY <1>1, <1>6, <2>1, <2>2 DEF SavedStateHidden, IsType
<1>8. PICK a : a = Pair(Len(pairs) + 1)
  OBVIOUS
<1>9. ~IsType(a, "interpreter_state")
  BY <1>8 DEF Pair, IsType
<1>10. stack' = Append(Pop(2), a) /\ ip' = NextIp /\ scopes' = scopes
        /\ UNCHANGED <<registers, session, status>>
  BY <1>8 DEF BuildPair
<1> QED
  BY <1>1, <1>2, <1>7, <1>9, <1>10, ReplacementInv

LEMMA TakePartInv ==
  ASSUME BalancedCode, IInv, TakePart
  PROVE  IInv'
<1>1. Current.op \in PartOp /\ TypeOK' /\ status = "running" /\ Executable /\ SavedStateHidden
  BY TakePartType DEF TakePart, Executing, IInv
<1>2. Operands(Current) = 1 /\ Pushes(Current) = 1
        /\ Current.op # "RETURN" /\ Current.op # "CALL"
  BY <1>1 DEF Operands, Pushes, ArithmeticOp, CompareOp, PartOp
<1>3. PICK a : a = IF Current.op = "FIRST" THEN pairs[Top(0).cell].first ELSE pairs[Top(0).cell].rest
  OBVIOUS
<1>4. ~IsType(a, "interpreter_state")
  <2>1. Top(0).cell \in DOMAIN pairs
    BY <1>1 DEF Executable
  <2> QED
    BY <1>1, <1>3, <2>1 DEF SavedStateHidden
<1>5. stack' = Append(Pop(1), a) /\ ip' = NextIp /\ scopes' = scopes
        /\ UNCHANGED <<registers, session, status>>
  BY <1>3 DEF TakePart, memory
<1>6. SavedStateHidden'
  BY HiddenUnchanged DEF IInv, TakePart, memory
<1> QED
  BY <1>1, <1>2, <1>4, <1>5, <1>6, ReplacementInv

\* A value is bound that is no saved state.
LEMMA StoreEnvInv ==
  ASSUME BalancedCode, IInv, StoreEnv
  PROVE  IInv'
<1>1. Current.op = "STORE_ENV" /\ TypeOK' /\ TypeOK /\ status = "running" /\ Executable
        /\ FrameLayout /\ SavedStateHidden
  BY StoreEnvType DEF StoreEnv, Executing, IInv
<1>2. Operands(Current) = 1 /\ Pushes(Current) = 1
  BY <1>1 DEF Operands, Pushes, ArithmeticOp, CompareOp, PartOp
<1>3. PICK a, key : a = Top(0) /\ key = Key.sym
  OBVIOUS
<1>4. ~IsType(a, "interpreter_state") /\ a \in Atom
  <2>1. 0 \in 0..(Operands(Current) - 1)
    BY <1>2
  <2> QED
    BY <1>1, <1>3, <2>1, OperandsHidden
<1>5. \A i \in DOMAIN env' : ~IsType(env'[i].value, "interpreter_state")
  <2>1. env' = EnvSet(env, key, a)
    BY <1>3 DEF StoreEnv
  <2>2. \A i \in DOMAIN env : ~IsType(env[i].value, "interpreter_state")
    BY <1>1 DEF SavedStateHidden
  <2>3. CASE ~Bound(env, key)
    BY <2>1, <2>2, <2>3 DEF EnvSet
  <2>4. CASE Bound(env, key)
    <3>1. PICK b : b = FirstBinding(env, key)
      OBVIOUS
    <3>2. env' = [env EXCEPT ![b].value = a]
      BY <2>1, <2>4, <3>1 DEF EnvSet
    <3>3. b \in DOMAIN env /\ env \in Seq(Binding)
      BY <1>1, <2>4, <3>1, FirstBindingFound, SMTT(30) DEF TypeOK
    <3>4. env'[b].value = a
      <4>1. env[b] \in [key : Symbol, value : Atom]
        <5>1. env[b] \in Binding
          BY <3>3
        <5> QED
          BY <5>1 DEF Binding, BindingOver, Atom
      <4> QED
        BY <3>2, <3>3, <4>1
    <3> QED
      BY <1>4, <2>2, <3>2, <3>3, <3>4
  <2> QED
    BY <2>3, <2>4
<1>6. /\ scopes' = scopes /\ pairs' = pairs /\ stack' = stack /\ result' = result /\ status' = status
      /\ frame_index' = frame_index /\ arg_count' = arg_count /\ rl' = rl /\ args' = args
      /\ frame_scope' = frame_scope /\ scope_escaped' = EscapedBy(Top(0)) /\ ip' = NextIp
  BY DEF StoreEnv, session
<1>7. SavedStateHidden'
  BY <1>1, <1>5, <1>6 DEF SavedStateHidden, IsType
<1>8. frame_scope = NULL => ~scope_escaped'
  <2>1. frame_scope = NULL => ~scope_escaped
    BY <1>1 DEF FrameLayout, CurrentFrame, OwnScope
  <2> QED
    BY <1>6, <2>1 DEF EscapedBy
<1>9. FrameLayout'
  <2>1. stack \in Seq(Atom) /\ Len(stack) \in Nat /\ 1 <= Len(stack)
    <3>1. 0 \in 0..(Operands(Current) - 1)
      BY <1>2
    <3>2. 0 < Len(stack) /\ stack \in Seq(Atom)
      BY <1>1, <3>1, OperandsHidden DEF TypeOK
    <3> QED
      BY <3>2
  <2>2. \A k \in (Len(stack) - 1 + 1)..Len(stack') : ~IsType(stack'[k], "interpreter_state")
    <3>1. \A k \in (Len(stack) - 1 + 1)..Len(stack') : k = Len(stack)
      BY <1>6, <2>1
    <3>2. stack[Len(stack)] = a
      BY <1>3, <2>1 DEF Top
    <3> QED
      BY <1>4, <1>6, <3>1, <3>2
  <2>3. \A k \in 1..(Len(stack) - 1) : k <= Len(stack') => stack'[k] = stack[k]
    BY <1>6
  <2>4. Len(stack') = Len(stack) - 1 + 1
    BY <1>6, <2>1
  <2> QED
    BY <1>1, <1>2, <1>6, <1>8, <2>1, <2>2, <2>3, <2>4, LayoutOfOperandStep
<1> QED
  BY <1>1, <1>6, <1>7, <1>9 DEF IInv, WholeFrameGone

\* A store overwrites a variable of a frame, on the stack or on the heap.
LEMMA StoreLocalInv ==
  ASSUME BalancedCode, IInv, OuterFrameAlive, StoreLocal
  PROVE  IInv'
<1>1. /\ Current.op = "STORE_LOCAL" /\ TypeOK' /\ TypeOK /\ status = "running" /\ Executable
      /\ FrameLayout /\ SavedStateHidden /\ HasVariable(Current) /\ stack \in Seq(Atom)
      /\ Current.offset > 0 => ScopeId(Current.offset) \in DOMAIN scopes
  BY StoreLocalType DEF StoreLocal, Executing, Executable, IInv, HasVariable, TypeOK
<1>2. Operands(Current) = 1 /\ Pushes(Current) = 1
  BY <1>1 DEF Operands, Pushes, ArithmeticOp, CompareOp, PartOp
<1>3. PICK a : a = Top(0)
  OBVIOUS
<1>4. ~IsType(a, "interpreter_state") /\ a \in Atom /\ 0 < Len(stack)
  <2>1. 0 \in 0..(Operands(Current) - 1)
    BY <1>2
  <2> QED
    BY <1>1, <1>3, <2>1, OperandsHidden
<1>5. /\ frame_index' = frame_index /\ arg_count' = arg_count /\ rl' = rl /\ args' = args
      /\ frame_scope' = frame_scope /\ ip' = NextIp /\ status' = status
      /\ env' = env /\ pairs' = pairs /\ result' = result
      /\ scope_escaped' = (IF Current.offset > 0 THEN EscapedBy(Top(0)) ELSE scope_escaped)
  BY DEF StoreLocal, session
<1>6. frame_scope = NULL => ~scope_escaped'
  <2>1. frame_scope = NULL => ~scope_escaped
    BY <1>1 DEF FrameLayout, CurrentFrame, OwnScope
  <2> QED
    BY <1>5, <2>1 DEF EscapedBy
<1>7. PICK f, argc, scope, escaped :
        f = frame_index /\ argc = arg_count /\ scope = frame_scope /\ escaped = scope_escaped'
  OBVIOUS
<1>8. CASE TargetScope(Current.offset).type = "stack"
  <2>1. PICK tf, tk, j :
          /\ tf = TargetScope(Current.offset).frame_index
          /\ tk = StateSlot(tf, TargetScope(Current.offset).arg_count)
          /\ j = tf + VariableSlot(Current) - 1
    OBVIOUS
  <2>2. IsFrame(tf, tk) /\ j \in DOMAIN stack /\ tf < j /\ j < tk
    BY <1>1, <1>8, <2>1, VariableInFrame
  <2>3. stack' = [stack EXCEPT ![j] = a] /\ scopes' = scopes
    BY <1>3, <1>8, <2>1 DEF StoreLocal
  <2>4. /\ stack' \in Seq(Atom) /\ Len(stack') = Len(stack) /\ DOMAIN stack' = DOMAIN stack
        /\ stack'[j] = a /\ \A k \in DOMAIN stack : k # j => stack'[k] = stack[k]
    BY <1>1, <2>2, <2>3, SMTT(30) DEF TypeOK
  <2>5. j \in Nat
    BY <1>1, <2>2
  <2>6. \A g, m : IsFrame(g, m) => j # g /\ j # m
    BY <1>1, <2>2, <2>5, VariableApart
  <2>7. \A k : IsState(k)' => IsState(k)
    BY <1>4, <2>4 DEF IsState, IsType
  <2>8. /\ OwnStateSlot \in Nat /\ StackDepth[rl.cl][ip] \in Nat
        /\ Len(stack) = OwnStateSlot + StackDepth[rl.cl][ip]
        /\ \A k \in (OwnStateSlot + 1)..Len(stack) : ~IsState(k)
    BY <1>1, RunningFrame
  <2>9. KeepsFrames(OwnStateSlot)
    <3>1. PICK n : n = OwnStateSlot
      OBVIOUS
    <3>2. n \in Nat /\ n <= Len(stack')
      BY <2>4, <2>8, <3>1
    <3>3. ASSUME NEW g, NEW m, IsFrame(g, m), m <= n
          PROVE  stack'[g] = stack[g] /\ stack'[m] = stack[m]
      <4>1. g \in Nat /\ m \in Nat /\ 0 < g /\ g < m /\ m <= Len(stack)
        BY <1>1, <2>8, <3>1, <3>2, <3>3, FrameBounds, SMTT(30)
      <4>2. g \in DOMAIN stack /\ m \in DOMAIN stack
        BY <1>1, <4>1
      <4> QED
        BY <2>4, <2>6, <3>3, <4>2
    <3>4. KeepsFrames(n)
      BY <1>5, <2>3, <2>4, <2>7, <3>2, <3>3 DEF KeepsFrames
    <3> QED
      BY <3>1, <3>4
  <2>10. \A k \in (OwnStateSlot + 1)..Len(stack') : ~IsState(k)'
    BY <2>4, <2>7, <2>8
  <2>11. ip' \in DOMAIN Code /\ Len(stack') = OwnStateSlot + StackDepth[rl.cl][ip']
    <3>1. /\ NextIp \in DOMAIN Code
          /\ StackDepth[rl.cl][NextIp] = StackDepth[rl.cl][ip] - 1 + 1
      BY <1>1, <1>2, DepthOfNext
    <3> QED
      BY <1>5, <2>4, <2>8, <3>1
  <2>12. OwnScope(f, argc, scope, escaped)'
    BY <1>1, <1>6, <1>7, <2>3, OwnScopeKept
  <2>13. FrameLayout'
    BY <1>1, <1>5, <1>7, <2>9, <2>10, <2>11, <2>12, SameActivation
  <2>14. SavedStateHidden'
    <3>1. UNCHANGED <<env, scopes, pairs, result>>
      BY <1>5, <2>3
    <3> QED
      BY <1>1, <3>1, HiddenUnchanged
  <2> QED
    BY <1>1, <1>5, <2>13, <2>14 DEF IInv, WholeFrameGone
<1>9. CASE TargetScope(Current.offset).type # "stack"
  <2>1. PICK s, i : s = ScopeId(Current.offset) /\ i = VariableSlot(Current)
    OBVIOUS
  <2>2. Current.offset # 0
    BY <1>9 DEF TargetScope, ThisScope, StackScope
  <2>3. /\ s \in DOMAIN scopes /\ TargetScope(Current.offset) = scopes[s]
        /\ scopes[s].type # "stack"
    BY <1>1, <1>9, <2>1, <2>2, InLoop DEF Instruction, TargetScope
  <2>4. i \in DOMAIN scopes[s].atoms
    BY <1>1, <1>9, <2>1, <2>3 DEF HasVariable, SlotExists
  <2>5. scopes' = [scopes EXCEPT ![s].atoms[i] = a] /\ stack' = stack
    BY <1>3, <1>9, <2>1 DEF StoreLocal
  <2>6. scopes \in Seq(Scope) /\ DOMAIN scopes' = DOMAIN scopes
    BY <1>1, <2>5 DEF TypeOK
  <2>7. /\ \A t \in DOMAIN scopes : t # s => scopes'[t] = scopes[t]
        /\ scopes'[s] = [scopes[s] EXCEPT !.atoms[i] = a]
    BY <2>3, <2>5, <2>6
  <2>8. scopes'[s].atoms = [scopes[s].atoms EXCEPT ![i] = a]
    <3>1. scopes[s] \in Scope
      BY <2>3, <2>6
    <3>2. "atoms" \in DOMAIN scopes[s]
      BY <3>1 DEF Scope, ScopeOver, EnvScope
    <3> QED
      BY <2>7, <3>2
  <2>9. \A x \in DOMAIN scopes[s].atoms : ~IsType(scopes'[s].atoms[x], "interpreter_state")
    BY <1>1, <1>4, <2>3, <2>8 DEF SavedStateHidden
  <2>10. SavedStateHidden'
    <3>1. DOMAIN scopes'[s].atoms = DOMAIN scopes[s].atoms
      BY <2>8
    <3>2. \A t \in DOMAIN scopes' : \A x \in DOMAIN scopes'[t].atoms :
            ~IsType(scopes'[t].atoms[x], "interpreter_state")
      <4> SUFFICES ASSUME NEW t \in DOMAIN scopes', NEW x \in DOMAIN scopes'[t].atoms
                   PROVE  ~IsType(scopes'[t].atoms[x], "interpreter_state")
        OBVIOUS
      <4>1. CASE t = s
        BY <2>9, <3>1, <4>1
      <4>2. CASE t # s
        BY <1>1, <2>6, <2>7, <4>2 DEF SavedStateHidden
      <4> QED
        BY <4>1, <4>2
    <3> QED
      BY <1>1, <1>5, <3>2 DEF SavedStateHidden, IsType
  <2>11. \A t \in DOMAIN scopes : scopes[t].type = "stack" =>
           t \in DOMAIN scopes' /\ scopes'[t] = scopes[t]
    BY <2>3, <2>6, <2>7
  <2>12. OwnScope(f, argc, scope, escaped)'
    BY <1>1, <1>6, <1>7, <2>11, OwnScopeKept
  <2>13. FrameLayout'
    <3>1. Len(stack') = Len(stack) - 1 + 1 /\ Len(stack) \in Nat
      BY <1>1, <2>5
    <3>2. \A k \in (Len(stack) - 1 + 1)..Len(stack') : ~IsType(stack'[k], "interpreter_state")
      <4>1. \A k \in (Len(stack) - 1 + 1)..Len(stack') : k = Len(stack)
        BY <2>5, <3>1
      <4>2. stack[Len(stack)] = a
        BY <1>3, <3>1 DEF Top
      <4> QED
        BY <1>4, <2>5, <4>1, <4>2
    <3>3. \A k \in 1..(Len(stack) - 1) : k <= Len(stack') => stack'[k] = stack[k]
      BY <2>5
    <3>4. stack' \in Seq(Atom)
      BY <1>1, <2>5
    <3> QED
      BY <1>1, <1>2, <1>5, <1>7, <2>11, <2>12, <3>1, <3>2, <3>3, <3>4, LayoutOfOperands
  <2> QED
    BY <1>1, <1>5, <2>5, <2>10, <2>13 DEF IInv, WholeFrameGone
<1> QED
  BY <1>8, <1>9

\* A call pushes a nil for each variable of the callee, and its own registers.
LEMMA CallPushes ==
  ASSUME TypeOK, TypeOK', CallRuntimeLambda,
         NEW locals, locals = Compiled(Callee).var_count,
         NEW k, k = Len(stack) + locals + 1,
         NEW state, state = InterpreterState(frame_index, ip, arg_count, scope_escaped, frame_scope)
  PROVE  /\ locals \in Nat /\ k \in Nat /\ Len(stack) < k
         /\ state \in Atom /\ IsType(state, "interpreter_state")
         /\ Len(stack') = k /\ stack' \in Seq(Atom) /\ stack'[k] = state
         /\ \A x \in 1..Len(stack) : stack'[x] = stack[x]
         /\ \A x \in (Len(stack) + 1)..(k - 1) : stack'[x] = Nil
<1>1. /\ stack \in Seq(Atom) /\ Len(stack) \in Nat
      /\ frame_index \in Nat /\ ip \in Nat /\ arg_count \in Nat /\ scope_escaped \in BOOLEAN
      /\ frame_scope \in Nat
  <2>1. status = "running"
    BY DEF CallRuntimeLambda, Executing
  <2>2. ip \in Nat
    BY <2>1, InLoop
  <2> QED
    BY <2>2 DEF TypeOK
<1>2. locals \in Nat
  <2>1. Callee \in Atom /\ IsType(Callee, "runtime_lambda")
    BY CalleeType DEF CallRuntimeLambda
  <2> QED
    BY <2>1, AtomFields, CompiledAssumption DEF Compiled, IsType
<1>3. PICK nils \in Seq(Atom) : nils = Nils(locals) /\ Len(nils) = locals /\ \A x \in 1..locals : nils[x] = Nil
  <2>1. Nils(locals) \in Seq(Value)
    BY <1>2, NilsProperties
  <2>2. Nils(locals) \in Seq(Atom)
    BY <2>1, ValueIsAtom
  <2> QED
    BY <1>2, <2>2, NilsProperties
<1>4. state \in Atom /\ IsType(state, "interpreter_state")
  BY <1>1, AtomsMade DEF IsType, InterpreterState
<1>5. stack' = stack \o nils \o <<state>>
  BY <1>3 DEF CallRuntimeLambda
<1>6. stack \in Seq(Atom) /\ nils \in Seq(Atom) /\ <<state>> \in Seq(Atom)
  BY <1>1, <1>3, <1>4
<1>7. stack' \in Seq(Atom) /\ Len(stack') = Len(stack) + locals + 1
  BY <1>3, <1>5, <1>6
<1>8. \A x \in (Len(stack) + 1)..(k - 1) : stack'[x] = nils[x - Len(stack)] /\ x - Len(stack) \in 1..locals
  BY <1>2, <1>3, <1>5, <1>6
<1>9. stack'[k] = state
  <2>1. stack \o nils \in Seq(Atom)
    BY <1>6
  <2>2. PICK lower \in Seq(Atom) : lower = stack \o nils
    BY <2>1
  <2>3. Len(lower) + 1 = k
    BY <1>3, <1>6, <2>2
  <2> QED
    BY <1>5, <1>6, <2>2, <2>3
<1>10. \A x \in 1..Len(stack) : stack'[x] = stack[x]
  BY <1>2, <1>3, <1>5, <1>6
<1>11. k \in Nat /\ Len(stack) < k
  BY <1>1, <1>2, SMTT(30)
<1> QED
  BY <1>2, <1>3, <1>4, <1>7, <1>8, <1>9, <1>10, <1>11

\* A call saves the registers in the slot above the variables of the callee;
\* the callee starts without operands.
LEMMA CallRuntimeLambdaInv ==
  ASSUME BalancedCode, IInv, CallRuntimeLambda
  PROVE  IInv'
<1>1. /\ Current.op = "CALL" /\ TypeOK' /\ TypeOK /\ status = "running" /\ Executable
      /\ FrameLayout /\ SavedStateHidden /\ stack \in Seq(Atom)
      /\ IsType(Callee, "runtime_lambda") /\ Current.arg \in Nat
  BY CallRuntimeLambdaType, CalleeType DEF CallRuntimeLambda, Executing, IInv, TypeOK
<1>2. Operands(Current) = Current.arg + 1
  BY <1>1 DEF Operands, ArithmeticOp, CompareOp, PartOp
<1>3. PICK f, argc, i, scope, escaped, code, slot :
        /\ f = frame_index /\ argc = arg_count /\ i = ip
        /\ scope = frame_scope /\ escaped = scope_escaped
        /\ code = Code /\ slot = OwnStateSlot
  OBVIOUS
<1>4. PICK callee, actuals, g, locals, k :
        /\ callee = Callee /\ actuals = Current.arg /\ g = Len(stack) - actuals
        /\ locals = Compiled(callee).var_count /\ k = Len(stack) + locals + 1
  OBVIOUS
<1>5. PICK state : state = InterpreterState(f, i, argc, escaped, scope)
  OBVIOUS
<1>6. /\ f \in 1..Len(stack) /\ stack[f] = rl /\ slot \in Nat
      /\ StackDepth[rl.cl][i] \in Nat /\ Len(stack) = slot + StackDepth[rl.cl][i]
      /\ Balanced(code, StackDepth[rl.cl])
      /\ \A j \in (slot + 1)..Len(stack) : ~IsState(j)
  BY <1>1, <1>3, RunningFrame
<1>7. /\ i \in DOMAIN code /\ Current = code[i] /\ IsType(rl, "runtime_lambda") /\ argc \in Nat
      /\ code = Compiled(rl).code /\ slot = StateSlot(f, argc)
      /\ Linked(f, argc) /\ OwnScope(f, argc, scope, escaped)
  BY <1>1, <1>3 DEF TypeOK, Current, FrameLayout, CurrentFrame, Code, OwnStateSlot
<1>8. actuals + 1 \in 0..StackDepth[rl.cl][i] /\ code[i].op = "CALL" /\ code[i].arg = actuals
  BY <1>1, <1>2, <1>4, <1>6, <1>7 DEF Balanced
<1>9. /\ IsFrame(f, slot) /\ f < slot /\ f \in Nat /\ 0 < f /\ StateSlot(1, Len(args)) <= slot
  BY <1>1, <1>3, RunningFrameIsFrame, FrameBounds
<1>10. /\ g \in DOMAIN stack /\ g \in Nat /\ slot < g /\ g <= Len(stack) /\ stack[g] = callee
       /\ actuals \in Nat /\ g = slot + StackDepth[rl.cl][i] - actuals /\ g # 1
       /\ Len(stack) = g + actuals
  <2>1. actuals \in Nat /\ Len(stack) \in Nat
    BY <1>1, <1>4
  <2>2. stack[g] = callee
    BY <1>4 DEF Callee, Top
  <2>3. PICK len, depth : len = Len(stack) /\ depth = StackDepth[rl.cl][i]
    OBVIOUS
  <2>4. /\ len \in Nat /\ depth \in Nat /\ slot \in Nat /\ len = slot + depth
        /\ g = len - actuals /\ actuals + 1 <= depth /\ 0 < slot
    BY <1>4, <1>6, <1>8, <1>9, <2>1, <2>3
  <2>5. /\ g \in 1..len /\ slot < g /\ g <= len /\ g = slot + depth - actuals /\ g # 1
        /\ len = g + actuals
    BY <2>1, <2>4
  <2>6. g \in DOMAIN stack
    <3>1. g \in 1..Len(stack)
      BY <2>3, <2>5
    <3> QED
      BY <1>1, <3>1
  <2>7. g \in Nat
    BY <2>5
  <2> QED
    BY <2>1, <2>2, <2>3, <2>5, <2>6, <2>7
<1>11. /\ locals \in Nat /\ Balanced(Compiled(callee).code, StackDepth[callee.cl])
       /\ IsType(callee, "runtime_lambda") /\ callee.cl \in LambdaId
  BY <1>1, <1>4, <1>10, LambdaOnStack
<1>12. k \in Nat /\ g < k /\ Len(stack) < k /\ k = g + 1 + actuals + locals
  <2>1. PICK len : len = Len(stack)
    OBVIOUS
  <2>2. len \in Nat /\ k = len + locals + 1 /\ len = g + actuals /\ g <= len
    BY <1>1, <1>4, <1>10, <2>1
  <2>3. g \in Nat /\ actuals \in Nat /\ locals \in Nat
    BY <1>10, <1>11
  <2>4. k \in Nat /\ g < k /\ len < k /\ k = g + 1 + actuals + locals
    BY <2>2, <2>3
  <2> QED
    BY <2>1, <2>4
<1>13. /\ state \in Atom /\ IsType(state, "interpreter_state")
       /\ Len(stack') = k /\ stack' \in Seq(Atom) /\ stack'[k] = state
       /\ \A x \in 1..Len(stack) : stack'[x] = stack[x]
       /\ \A x \in (Len(stack) + 1)..(k - 1) : stack'[x] = Nil
  BY <1>1, <1>3, <1>4, <1>5, CallPushes
<1>14. /\ rl' = callee /\ arg_count' = actuals /\ frame_index' = g /\ frame_scope' = NULL
       /\ scope_escaped' = FALSE /\ ip' = 1 /\ args' = args /\ scopes' = scopes /\ env' = env
       /\ pairs' = pairs /\ result' = result /\ status' = status
  BY <1>4 DEF CallRuntimeLambda, memory, session
<1>15. KeepsFrames(slot)
  <2>1. slot <= Len(stack) /\ slot <= Len(stack') /\ \A x \in 1..slot : stack'[x] = stack[x]
    <3>1. slot <= Len(stack) /\ Len(stack) \in Nat
      BY <1>1, <1>6
    <3> QED
      BY <1>6, <1>12, <1>13, <3>1
  <2> QED
    BY <1>1, <1>6, <1>13, <1>14, <2>1, PrefixKeepsFrames
<1>16. /\ stack'[f] = rl /\ StateSlot(f, argc)' = slot /\ Linked(f, argc)'
  BY <1>1, <1>6, <1>7, <1>9, <1>15, LinkedKept
<1>17. \A j \in (slot + 1)..(k - 1) : ~IsState(j)'
  <2> SUFFICES ASSUME NEW j \in (slot + 1)..(k - 1)
               PROVE  ~IsType(stack'[j], "interpreter_state")
    BY DEF IsState
  <2>1. CASE j <= Len(stack)
    <3>1. j \in 1..Len(stack) /\ j \in (slot + 1)..Len(stack)
      BY <1>6, <1>12, <2>1
    <3>2. stack'[j] = stack[j]
      BY <1>13, <3>1
    <3>3. ~IsState(j) /\ j \in DOMAIN stack
      BY <1>1, <1>6, <3>1
    <3> QED
      BY <3>2, <3>3 DEF IsState
  <2>2. CASE j > Len(stack)
    <3>1. j \in (Len(stack) + 1)..(k - 1)
      BY <1>1, <1>6, <1>12, <2>2
    <3> QED
      BY <1>13, <3>1 DEF IsType, Nil
  <2> QED
    BY <1>1, <1>6, <1>12, <2>1, <2>2, SMTT(30)
<1>18. stack'[g] = callee /\ StateSlot(g, actuals)' = k
  <2>1. stack'[g] = callee
    BY <1>1, <1>10, <1>13
  <2> QED
    BY <1>4, <1>12, <2>1 DEF StateSlot, Compiled
<1>19. RestoresFrame(k, f, i, argc, scope, escaped, code, slot, g)'
  <2>1. /\ state.fp_index = f /\ state.ip_index = i /\ state.arg_count = argc
        /\ state.frame_scope = scope /\ state.scope_escaped = escaped
    BY <1>5 DEF InterpreterState
  <2>2. f \in 1..(k - 1)
    <3>1. f \in Nat /\ 0 < f /\ f < slot /\ slot \in Nat /\ slot < g /\ g \in Nat /\ g < k /\ k \in Nat
      BY <1>6, <1>9, <1>10, <1>12
    <3> QED
      BY <3>1
  <2>3. IsType(stack[f], "runtime_lambda")' /\ IsType(stack[g], "runtime_lambda")'
    BY <1>7, <1>11, <1>16, <1>18 DEF IsType
  <2>4. (code = Compiled(stack[f]).code)'
    BY <1>7, <1>16 DEF Compiled
  <2>5. (g = slot + StackDepth[stack[f].cl][i] - code[i].arg)'
    BY <1>8, <1>10, <1>16 DEF StackDepth
  <2>6. OwnScope(f, argc, scope, escaped)'
    BY <1>7, <1>14 DEF OwnScope
  <2> QED
    BY <1>7, <1>8, <1>10, <1>12, <1>13, <1>16, <1>17, <1>18, <2>1, <2>2, <2>3, <2>4, <2>5, <2>6
       DEF RestoresFrame
<1>20. IsState(k)'
  BY <1>12, <1>13 DEF IsState
<1>21. SavedFrame(k)' /\ Linked(g, actuals)'
  <2>1. FieldsDecide'
    BY SavedFrameByFields, PTL
  <2> QED
    BY <1>8, <1>10, <1>19, <1>20, <2>1 DEF FieldsDecide
<1>22. RunsFrame(g, actuals, NULL, FALSE, k)'
  <2>1. IsType(rl, "runtime_lambda")' /\ (ip \in DOMAIN Code)'
    BY <1>1, <1>14 DEF TypeOK
  <2>2. (Len(stack) = k + StackDepth[rl.cl][ip])'
    <3>1. StackDepth[callee.cl][1] = 0
      BY <1>11 DEF Balanced
    <3> QED
      BY <1>12, <1>13, <1>14, <3>1 DEF StackDepth
  <2>3. \A x \in (k + 1)..Len(stack') : ~IsState(x)'
    <3>1. (k + 1)..k = {}
      BY <1>12
    <3> QED
      BY <1>13, <3>1
  <2>4. g \in DOMAIN stack'
    <3>1. g \in 1..k
      <4>1. PICK len : len = Len(stack)
        OBVIOUS
      <4>2. len \in Nat /\ k \in Nat /\ slot \in Nat /\ g \in Nat /\ slot < g /\ g < k
        BY <1>1, <1>6, <1>9, <1>10, <1>12, <4>1
      <4> QED
        BY <4>2
    <3>2. DOMAIN stack' = 1..k
      BY <1>13
    <3> QED
      BY <3>1, <3>2
  <2>5. OwnScope(g, actuals, NULL, FALSE)'
    BY DEF OwnScope
  <2> QED
    BY <1>14, <1>18, <1>21, <2>1, <2>2, <2>3, <2>4, <2>5 DEF RunsFrame
<1>23. \A x \in (slot + 1)..Len(stack') : IsState(x)' => SavedFrame(x)'
  <2>1. \A x \in (slot + 1)..Len(stack') : x \in (slot + 1)..(k - 1) \/ x = k
    BY <1>6, <1>12, <1>13
  <2> QED
    BY <1>17, <1>21, <2>1
<1>24. FrameLayout'
  BY <1>1, <1>6, <1>9, <1>15, <1>22, <1>23, LayoutKept
<1>25. SavedStateHidden'
  BY <1>1, <1>14 DEF SavedStateHidden, IsType
<1> QED
  BY <1>1, <1>14, <1>24, <1>25 DEF IInv, WholeFrameGone

-----------------------------------------------------------------------------
(* The return.                                                             *)

\* RETURN finds its value right above the saved state.
LEMMA ReturnFacts ==
  ASSUME BalancedCode, TypeOK, FrameLayout, status = "running", Executable,
         Current.op = "RETURN"
  PROVE  /\ Len(stack) = OwnStateSlot + 1
         /\ Top(1) = stack[OwnStateSlot]
         /\ ~IsType(Top(0), "interpreter_state") /\ Top(0) \in Atom
         /\ OwnStateSlot = frame_index + FrameSize
         /\ OwnStateSlot \in Nat /\ frame_index \in Nat /\ 0 < frame_index /\ FrameSize \in Nat
         /\ frame_index < OwnStateSlot
         /\ Len(Pop(FrameSize + 2)) = frame_index - 1
         /\ Pop(FrameSize + 2) \in Seq(Atom)
         /\ \A x \in 1..(frame_index - 1) : Pop(FrameSize + 2)[x] = stack[x]
<1>1. /\ frame_index \in 1..Len(stack)
      /\ OwnStateSlot = frame_index + 1 + arg_count + Compiled(rl).var_count
      /\ OwnStateSlot \in Nat
      /\ Len(stack) = OwnStateSlot + StackDepth[rl.cl][ip]
      /\ Balanced(Code, StackDepth[rl.cl])
  BY RunningFrame
<1>2. StackDepth[rl.cl][ip] = 1
  BY <1>1, InLoop, SMTT(30) DEF Balanced, Current
<1>3. Operands(Current) = 1
  BY DEF Operands, ArithmeticOp, CompareOp, PartOp
<1>4. ~IsType(Top(0), "interpreter_state") /\ Top(0) \in Atom
  <2>1. 0 \in 0..(Operands(Current) - 1)
    BY <1>3
  <2> QED
    BY <2>1, OperandsHidden
<1>5. /\ FrameSize = 1 + arg_count + Compiled(rl).var_count
      /\ arg_count \in Nat /\ Compiled(rl).var_count \in Nat /\ stack \in Seq(Atom)
  BY InLoop DEF FrameSize, TypeOK
<1>6. PICK len, own, size, fi, argc, locals :
        /\ len = Len(stack) /\ own = OwnStateSlot /\ size = FrameSize /\ fi = frame_index
        /\ argc = arg_count /\ locals = Compiled(rl).var_count
  OBVIOUS
<1>7. /\ len = OwnStateSlot + 1 /\ frame_index \in Nat /\ 0 < frame_index /\ FrameSize \in Nat
      /\ OwnStateSlot = frame_index + FrameSize /\ frame_index < OwnStateSlot
      /\ len - (FrameSize + 2) = frame_index - 1 /\ FrameSize + 2 \in 0..len
  <2>1. /\ size \in Nat /\ own \in Nat /\ len = own + 1 /\ fi \in Nat /\ 0 < fi
        /\ own = fi + size /\ 0 < size
    <3>1. size = 1 + argc + locals /\ argc \in Nat /\ locals \in Nat
      BY <1>5, <1>6
    <3>2. len \in Nat /\ len = own + 1 /\ own \in Nat /\ own = fi + 1 + argc + locals
      BY <1>1, <1>2, <1>5, <1>6
    <3>3. fi \in 1..len
      BY <1>1, <1>6
    <3> QED
      BY <3>1, <3>2, <3>3
  <2>2. fi < own /\ len - (size + 2) = fi - 1 /\ size + 2 \in 0..len
    BY <2>1
  <2> QED
    BY <1>6, <2>1, <2>2
<1>8. Top(1) = stack[OwnStateSlot]
  <2>1. Len(stack) - 1 = OwnStateSlot
    BY <1>1, <1>6, <1>7
  <2> QED
    BY <2>1 DEF Top
<1>9. /\ Pop(FrameSize + 2) \in Seq(Atom)
      /\ Len(Pop(FrameSize + 2)) = frame_index - 1
      /\ \A x \in 1..(frame_index - 1) : Pop(FrameSize + 2)[x] = stack[x]
  BY <1>5, <1>6, <1>7, PopProperties
<1> QED
  BY <1>1, <1>4, <1>6, <1>7, <1>8, <1>9

\* The frame that is copied to the heap ends below the saved state.
LEMMA FrameAtomsHidden ==
  ASSUME BalancedCode, TypeOK, FrameLayout, status = "running", Executable,
         Current.op = "RETURN"
  PROVE  \A x \in DOMAIN FrameAtoms : ~IsType(FrameAtoms[x], "interpreter_state")
<1> SUFFICES ASSUME NEW x \in DOMAIN FrameAtoms
             PROVE  ~IsType(FrameAtoms[x], "interpreter_state")
  OBVIOUS
<1>1. PICK f, k : f = frame_index /\ k = OwnStateSlot
  OBVIOUS
<1>2. /\ f \in Nat /\ k \in Nat /\ 0 < f /\ f < k /\ Len(stack) = k + 1
      /\ f + FrameSize - 1 = k - 1
  BY <1>1, ReturnFacts
<1>3. FrameAtoms = SubSeq(stack, f, k - 1) /\ stack \in Seq(Atom)
  BY <1>1, <1>2 DEF FrameAtoms, TypeOK
<1>4. PICK j : j = f + x - 1
  OBVIOUS
<1>5. x \in Nat /\ 0 < x /\ j \in Nat /\ f <= j /\ j < k /\ FrameAtoms[x] = stack[j]
  BY <1>2, <1>3, <1>4
<1>6. CASE j = f
  <2>1. stack[f] = rl /\ IsType(rl, "runtime_lambda")
    BY <1>1, RunningFrame DEF TypeOK
  <2> QED
    BY <1>5, <1>6, <2>1 DEF IsType
<1>7. CASE f < j
  <2>1. IsFrame(f, k)
    BY <1>1, RunningFrameIsFrame
  <2>2. ~IsState(j)
    BY <1>2, <1>5, <1>7, <2>1, VariableApart
  <2>3. j \in DOMAIN stack
    BY <1>2, <1>3, <1>5
  <2> QED
    BY <1>5, <2>2, <2>3 DEF IsState
<1> QED
  BY <1>2, <1>5, <1>6, <1>7

\* Only the scope of the frame that is left changes.
LEMMA CaptureOfReturn ==
  ASSUME BalancedCode, IInv, Return
  PROVE  /\ DOMAIN scopes' = DOMAIN scopes
         /\ \A s \in DOMAIN scopes :
              scopes'[s] = scopes[s] \/ (scopes[s].type = "stack" /\ scopes[s].frame_index = frame_index)
         /\ \A s \in DOMAIN scopes' : \A x \in DOMAIN scopes'[s].atoms :
              ~IsType(scopes'[s].atoms[x], "interpreter_state")
<1>1. /\ Current.op = "RETURN" /\ TypeOK /\ status = "running" /\ Executable
      /\ FrameLayout /\ SavedStateHidden /\ scopes \in Seq(Scope)
  BY DEF Return, Executing, IInv, TypeOK
<1>2. CASE ~EscapedBy(Top(0))
  <2>1. scopes' = scopes
    BY <1>2 DEF Return
  <2> QED
    BY <1>1, <2>1 DEF SavedStateHidden
<1>3. CASE EscapedBy(Top(0))
  <2>1. PICK s, frame : s = frame_scope /\ frame = FrameAtoms
    OBVIOUS
  <2>2. OwnScope(frame_index, arg_count, frame_scope, scope_escaped)
    BY <1>1 DEF FrameLayout, CurrentFrame
  <2>3. s # NULL
    BY <1>3, <2>1, <2>2 DEF OwnScope, EscapedBy
  <2>4. s \in DOMAIN scopes /\ scopes[s].type = "stack" /\ scopes[s].frame_index = frame_index
    BY <2>1, <2>2, <2>3 DEF OwnScope
  <2>5. scopes' = [scopes EXCEPT ![s] = Captured(scopes[s], frame)]
    BY <1>3, <2>1 DEF Return
  <2>6. /\ DOMAIN scopes' = DOMAIN scopes
        /\ scopes'[s] = Captured(scopes[s], frame)
        /\ \A t \in DOMAIN scopes : t # s => scopes'[t] = scopes[t]
    BY <1>1, <2>4, <2>5
  <2>7. Captured(scopes[s], frame).atoms = frame
    <3>1. scopes[s] \in Scope
      BY <1>1, <2>4
    <3>2. "atoms" \in DOMAIN scopes[s]
      BY <3>1 DEF Scope, ScopeOver, EnvScope
    <3> QED
      BY <3>2 DEF Captured
  <2>8. \A x \in DOMAIN frame : ~IsType(frame[x], "interpreter_state")
    BY <1>1, <2>1, FrameAtomsHidden
  <2>9. \A t \in DOMAIN scopes' : \A x \in DOMAIN scopes'[t].atoms :
          ~IsType(scopes'[t].atoms[x], "interpreter_state")
    <3> SUFFICES ASSUME NEW t \in DOMAIN scopes', NEW x \in DOMAIN scopes'[t].atoms
                 PROVE  ~IsType(scopes'[t].atoms[x], "interpreter_state")
      OBVIOUS
    <3>1. CASE t = s
      BY <2>6, <2>7, <2>8, <3>1
    <3>2. CASE t # s
      BY <1>1, <2>6, <3>2 DEF SavedStateHidden
    <3> QED
      BY <3>1, <3>2
  <2> QED
    BY <2>4, <2>6, <2>9
<1> QED
  BY <1>2, <1>3

\* bci_eval itself returns.
LEMMA ReturnFromEvalInv ==
  ASSUME BalancedCode, IInv, Return, ~IsType(Top(1), "interpreter_state")
  PROVE  IInv' /\ stack' = << >>
<1>1. /\ Current.op = "RETURN" /\ TypeOK /\ TypeOK' /\ status = "running" /\ Executable
      /\ FrameLayout /\ SavedStateHidden
  BY ReturnType DEF Return, Executing, IInv
<1>2. /\ result' = Top(0) /\ status' = "returned" /\ stack' = Pop(FrameSize + 2)
      /\ env' = env /\ pairs' = pairs
  BY DEF Return
<1>3. ~IsType(result', "interpreter_state")
  BY <1>1, <1>2, ReturnFacts
<1>4. SavedStateHidden'
  BY <1>1, <1>2, <1>3, CaptureOfReturn DEF SavedStateHidden, IsType
<1>5. stack' = << >>
  <2>1. frame_index = 1
    <3> SUFFICES ASSUME frame_index # 1 PROVE FALSE
      OBVIOUS
    <3>1. IsState(OwnStateSlot)
      BY <1>1 DEF FrameLayout, CurrentFrame, Linked, OwnStateSlot
    <3> QED
      BY <1>1, <3>1, ReturnFacts DEF IsState
  <2>2. stack' \in Seq(Atom) /\ Len(stack') = 0
    BY <1>1, <1>2, <2>1, ReturnFacts
  <2> QED
    BY <2>2
<1> QED
  BY <1>1, <1>2, <1>4, <1>5 DEF IInv, WholeFrameGone, FrameLayout

\* The caller finds its registers in the saved state and its operands below
\* the frame of the callee, where the return value replaces them.
LEMMA ReturnToCallerInv ==
  ASSUME BalancedCode, IInv, Return, IsType(Top(1), "interpreter_state")
  PROVE  IInv'
<1>1. /\ Current.op = "RETURN" /\ TypeOK /\ TypeOK' /\ status = "running" /\ Executable
      /\ FrameLayout /\ SavedStateHidden /\ stack \in Seq(Atom)
  BY ReturnType DEF Return, Executing, IInv, TypeOK
<1>2. PICK k, g, state, value :
        /\ k = OwnStateSlot /\ g = frame_index /\ state = stack[k] /\ value = Top(0)
  OBVIOUS
<1>3. PICK lower \in Seq(Atom) : lower = Pop(FrameSize + 2)
  BY <1>1, ReturnFacts
<1>4. /\ Len(stack) = k + 1 /\ Top(1) = state
      /\ ~IsType(value, "interpreter_state") /\ value \in Atom
      /\ k \in Nat /\ g \in Nat /\ 0 < g /\ g < k
      /\ Len(lower) = g - 1 /\ \A x \in 1..(g - 1) : lower[x] = stack[x]
  BY <1>1, <1>2, <1>3, ReturnFacts
<1>5. IsState(k) /\ k \in DOMAIN stack
  <2>1. k \in 1..Len(stack)
    BY <1>4
  <2>2. k \in DOMAIN stack
    BY <1>1, <2>1
  <2> QED
    BY <1>2, <1>4, <2>2 DEF IsState
<1>6. PICK f, i, argc, scope, escaped, n, actuals, code :
        /\ f = state.fp_index /\ i = state.ip_index /\ argc = state.arg_count
        /\ scope = state.frame_scope /\ escaped = state.scope_escaped
        /\ n = CallerStateSlot(k) /\ actuals = PendingCall(state).arg
        /\ code = Compiled(stack[f]).code
  OBVIOUS
<1>7. CalleeFrame(state) = g /\ actuals = arg_count
  <2>1. Linked(frame_index, arg_count)
    BY <1>1 DEF FrameLayout, CurrentFrame
  <2>2. frame_index # 1
    <3> SUFFICES ASSUME frame_index = 1 PROVE FALSE
      OBVIOUS
    <3>1. stack[OwnStateSlot] = Nil
      BY <2>1 DEF Linked, OwnStateSlot
    <3> QED
      BY <1>2, <1>5, <3>1 DEF IsState, IsType, Nil
  <2> QED
    BY <1>2, <1>6, <2>1, <2>2 DEF Linked, OwnStateSlot
<1>8. /\ argc \in Nat /\ i \in Nat /\ n \in Nat /\ n < g
      /\ IsFrame(f, n) /\ f \in DOMAIN stack /\ IsType(stack[f], "runtime_lambda")
      /\ i \in DOMAIN code /\ code[i].op = "CALL" /\ code[i].arg = actuals
      /\ n = StateSlot(f, argc) /\ Linked(f, argc) /\ OwnScope(f, argc, scope, escaped)
      /\ g = n + StackDepth[stack[f].cl][i] - actuals
      /\ \A j \in (n + 1)..(k - 1) : ~IsState(j)
  <2>1. /\ SavedFrame(k) /\ argc \in Nat /\ i \in Nat /\ n \in Nat /\ n < g
        /\ IsFrame(f, n) /\ f \in DOMAIN stack
        /\ \A j \in (n + 1)..(k - 1) : ~IsState(j)
    BY <1>1, <1>2, <1>5, <1>6, <1>7, SavedFrameFacts DEF CallerFrame
  <2>2. /\ IsType(stack[f], "runtime_lambda") /\ i \in DOMAIN code
        /\ PendingCall(state).op = "CALL" /\ Linked(f, argc) /\ OwnScope(f, argc, scope, escaped)
    BY <1>2, <1>6, <2>1 DEF SavedFrame
  <2>3. PendingCall(state) = code[i]
    BY <1>6 DEF PendingCall
  <2>4. n = StateSlot(f, argc)
    BY <1>2, <1>6 DEF CallerStateSlot
  <2>5. g = n + StackDepth[stack[f].cl][i] - actuals
    BY <1>6, <1>7, <2>4 DEF CalleeFrame
  <2> QED
    BY <1>6, <2>1, <2>2, <2>3, <2>4, <2>5
<1>9. f \in Nat /\ 0 < f /\ f < n /\ StateSlot(1, Len(args)) <= n
  BY <1>1, <1>8, FrameBounds
<1>10. /\ stack' = Append(lower, value) /\ arg_count' = argc /\ frame_index' = f
       /\ rl' = stack[f] /\ ip' = i + 1 /\ frame_scope' = scope /\ scope_escaped' = escaped
       /\ result' = result /\ status' = status /\ args' = args /\ env' = env /\ pairs' = pairs
  BY <1>2, <1>3, <1>4, <1>6 DEF Return, session
<1>11. /\ stack' \in Seq(Atom) /\ Len(stack') = g /\ stack'[g] = value
       /\ \A x \in 1..(g - 1) : stack'[x] = stack[x]
  BY <1>4, <1>10
<1>12. /\ DOMAIN scopes' = DOMAIN scopes
       /\ \A s \in DOMAIN scopes : scopes'[s] = scopes[s] \/ (scopes[s].type = "stack" /\ scopes[s].frame_index = g)
  BY <1>2, CaptureOfReturn
<1>13. KeepsFrames(n)
  <2>1. n <= Len(stack) /\ n <= Len(stack') /\ \A x \in 1..n : stack'[x] = stack[x]
    <3>1. n \in Nat /\ n < g /\ g \in Nat /\ g < k /\ k \in Nat /\ Len(stack) = k + 1 /\ Len(stack') = g
      BY <1>4, <1>8, <1>11
    <3>2. \A x \in 1..n : x \in 1..(g - 1)
      BY <3>1
    <3> QED
      BY <1>11, <3>1, <3>2
  <2>2. \A s \in DOMAIN scopes : scopes[s].type = "stack" /\ scopes[s].frame_index < n =>
          s \in DOMAIN scopes' /\ scopes'[s] = scopes[s]
    BY <1>4, <1>8, <1>12
  <2> QED
    BY <1>1, <1>8, <1>10, <1>11, <2>1, <2>2, PrefixKeepsFrames
<1>14. /\ stack'[f] = stack[f] /\ StateSlot(f, argc)' = n /\ Linked(f, argc)'
  BY <1>1, <1>8, <1>13, LinkedKept
<1>15. OwnScope(f, argc, scope, escaped)'
  <2>1. scope # NULL => scopes'[scope] = scopes[scope] /\ scope \in DOMAIN scopes'
    <3> SUFFICES ASSUME scope # NULL PROVE scopes'[scope] = scopes[scope] /\ scope \in DOMAIN scopes'
      OBVIOUS
    <3>1. scope \in DOMAIN scopes /\ scopes[scope].frame_index = f
      BY <1>8 DEF OwnScope
    <3>2. f # g
      BY <1>4, <1>8, <1>9
    <3> QED
      BY <1>12, <3>1, <3>2
  <2> QED
    BY <1>8, <2>1 DEF OwnScope
<1>16. g = n + StackDepth[stack[f].cl][i + 1]
  <2>1. Balanced(code, StackDepth[stack[f].cl])
    BY <1>1, <1>6, <1>8, LambdaOnStack
  <2>2. i + 1 \in DOMAIN code
    <3>1. ip' \in DOMAIN Code'
      BY <1>1, <1>10 DEF TypeOK
    <3> QED
      BY <1>6, <1>10, <3>1 DEF Code, Compiled
  <2>3. i + 1 \in Successors(code, i)
    BY <1>8 DEF Successors
  <2>4. StackDepth[stack[f].cl][i + 1] = DepthAfter(code, i, StackDepth[stack[f].cl][i])
    BY <1>8, <2>1, <2>2, <2>3 DEF Balanced
  <2>5. Operands(code[i]) = actuals + 1 /\ Pushes(code[i]) = 1
    BY <1>8 DEF Operands, Pushes, ArithmeticOp, CompareOp, PartOp
  <2>6. StackDepth[stack[f].cl][i] \in Nat /\ actuals \in Nat
    BY <1>1, <1>7, <1>8, <2>1 DEF Balanced, TypeOK
  <2>7. StackDepth[stack[f].cl][i + 1] = StackDepth[stack[f].cl][i] - (actuals + 1) + 1
    BY <2>4, <2>5 DEF DepthAfter
  <2>8. PICK before, after : before = StackDepth[stack[f].cl][i]
                               /\ after = StackDepth[stack[f].cl][i + 1]
    OBVIOUS
  <2>9. n \in Nat /\ g = n + before - actuals
    BY <1>8, <2>8
  <2>10. before \in Nat /\ actuals \in Nat /\ after = before - (actuals + 1) + 1
    BY <2>6, <2>7, <2>8
  <2>11. g = n + after
    BY <2>9, <2>10
  <2> QED
    BY <2>8, <2>11
<1>17. \A x \in (n + 1)..Len(stack') : ~IsState(x)'
  <2>0. Len(stack') = g
    BY <1>11
  <2> SUFFICES ASSUME NEW x \in (n + 1)..g
               PROVE  ~IsType(stack'[x], "interpreter_state")
    BY <2>0 DEF IsState
  <2>1. CASE x = g
    BY <1>4, <1>11, <2>1
  <2>2. CASE x # g
    <3>1. x \in 1..(g - 1) /\ x \in (n + 1)..(k - 1) /\ x \in 1..Len(stack)
      <4>1. n \in Nat /\ g \in Nat /\ k \in Nat /\ g < k
        BY <1>4, <1>8
      <4>2. Len(stack) = k + 1
        BY <1>4
      <4> QED
        BY <2>2, <4>1, <4>2
    <3>2. stack'[x] = stack[x]
      BY <1>11, <3>1
    <3>3. ~IsState(x)
      BY <1>8, <3>1
    <3>4. x \in DOMAIN stack
      BY <1>1, <3>1
    <3> QED
      BY <3>2, <3>3, <3>4 DEF IsState
  <2> QED
    BY <2>1, <2>2
<1>18. RunsFrame(f, argc, scope, escaped, n)'
  <2>1. IsType(rl, "runtime_lambda")' /\ (ip \in DOMAIN Code)'
    BY <1>1, <1>10 DEF TypeOK
  <2>2. (Len(stack) = n + StackDepth[rl.cl][ip])'
    BY <1>10, <1>11, <1>16 DEF StackDepth
  <2>3. f \in DOMAIN stack'
    <3>1. f \in 1..Len(stack')
      BY <1>8, <1>9, <1>11
    <3> QED
      BY <1>11, <3>1
  <2> QED
    BY <1>10, <1>14, <1>15, <1>17, <2>1, <2>2, <2>3 DEF RunsFrame
<1>19. FrameLayout'
  <2>1. \A x \in (n + 1)..Len(stack') : IsState(x)' => SavedFrame(x)'
    BY <1>17
  <2> QED
    BY <1>1, <1>8, <1>9, <1>13, <1>18, <2>1, LayoutKept
<1>20. SavedStateHidden'
  BY <1>1, <1>10, CaptureOfReturn DEF SavedStateHidden, IsType
<1> QED
  BY <1>1, <1>10, <1>19, <1>20 DEF IInv, WholeFrameGone

LEMMA ReturnInv ==
  ASSUME BalancedCode, IInv, Return
  PROVE  IInv'
  BY ReturnFromEvalInv, ReturnToCallerInv

-----------------------------------------------------------------------------
(* The top level.                                                          *)

\* bci_eval builds the frame at the bottom of the stack.
LEMMA EnterLoopInv ==
  ASSUME BalancedCode, IInv, TypeOK', status = "idle",
         NEW lambda \in Atom, lambda.type = "runtime_lambda",
         NEW actuals \in Seq(Value), EnterLoop(lambda, actuals)
  PROVE  FrameLayout' /\ WholeFrameGone' /\ status' # "idle" /\ result' = Nil
<1>1. stack = << >>
  BY DEF IInv
<1>2. PICK locals, argc, k :
        locals = Compiled(lambda).var_count /\ argc = Len(actuals) /\ k = argc + locals + 2
  OBVIOUS
<1>3. /\ lambda.cl \in LambdaId /\ locals \in Nat /\ argc \in Nat
      /\ Balanced(Compiled(lambda).code, StackDepth[lambda.cl])
  <2>1. lambda.cl \in LambdaId
    BY AtomFields
  <2> QED
    BY <1>2, <2>1, CompiledAssumption DEF Compiled, BalancedCode
<1>4. /\ rl' = lambda /\ args' = actuals /\ frame_index' = 1 /\ arg_count' = argc
      /\ frame_scope' = NULL /\ scope_escaped' = FALSE /\ ip' = 1 /\ result' = Nil
  <2>1. frame_index' = Len(stack) + 1
    BY DEF EnterLoop
  <2> QED
    BY <1>1, <1>2, <2>1 DEF EnterLoop
<1>5. CASE argc # Compiled(lambda).arg_count
  <2>1. status' = "returned"
    BY <1>2, <1>5 DEF EnterLoop
  <2>2. Len(args') # (Compiled(rl).arg_count)'
    BY <1>2, <1>4, <1>5 DEF Compiled
  <2> QED
    BY <1>4, <2>1, <2>2 DEF FrameLayout, WholeFrameGone
<1>6. CASE argc = Compiled(lambda).arg_count
  <2>1. status' = "running"
    BY <1>2, <1>6 DEF EnterLoop
  <2>2. PICK nils \in Seq(Value) : nils = Nils(locals + 1) /\ Len(nils) = locals + 1
                                     /\ \A x \in 1..(locals + 1) : nils[x] = Nil
    BY <1>3, NilsProperties, SMTT(30)
  <2>3. stack' = Append(stack, lambda) \o actuals \o nils
    BY <1>2, <1>6, <2>2 DEF EnterLoop
  <2>4. Append(stack, lambda) = <<lambda>>
    BY <1>1
  <2>5. lambda \in Value
    BY DEF Atom, AtomOver, SavedState, Value
  <2>6. PICK base \in Seq(Value) : base = <<lambda>> /\ Len(base) = 1 /\ base[1] = lambda
    <3>1. <<lambda>> \in Seq(Value) /\ Len(<<lambda>>) = 1 /\ <<lambda>>[1] = lambda
      BY <2>5
    <3> QED
      BY <3>1
  <2>7. stack' = base \o actuals \o nils
    BY <2>3, <2>4, <2>6
  <2>8. base \o actuals \in Seq(Value)
    BY <2>6
  <2>9. PICK lower \in Seq(Value) : lower = base \o actuals
    BY <2>8
  <2>10. Len(lower) = 1 + argc /\ lower[1] = lambda
    BY <1>2, <2>6, <2>9
  <2>11. stack' \in Seq(Value) /\ Len(stack') = k /\ stack'[1] = lambda /\ stack'[k] = Nil
    <3>1. stack' = lower \o nils
      BY <2>7, <2>9
    <3>2. stack' \in Seq(Value) /\ Len(stack') = k /\ stack'[1] = lambda
      <4>1. /\ lower \o nils \in Seq(Value) /\ Len(lower \o nils) = Len(lower) + Len(nils)
            /\ (1 <= Len(lower) => (lower \o nils)[1] = lower[1])
        BY <2>2, <2>9
      <4>2. argc \in Nat /\ locals \in Nat /\ k = argc + locals + 2
        BY <1>2, <1>3
      <4>3. Len(lower) = 1 + argc /\ Len(nils) = locals + 1
        BY <2>2, <2>10
      <4>4. 1 <= Len(lower) /\ Len(lower) + Len(nils) = k
        BY <4>2, <4>3
      <4> QED
        BY <2>10, <3>1, <4>1, <4>4
    <3>3. stack'[k] = nils[locals + 1]
      <4>1. /\ argc \in Nat /\ locals \in Nat /\ k = argc + locals + 2
            /\ Len(lower) = 1 + argc /\ Len(nils) = locals + 1
        BY <1>2, <1>3, <2>2, <2>10
      <4>2. k \in 1..(Len(lower) + Len(nils)) /\ k > Len(lower)
        BY <4>1
      <4>3. (lower \o nils)[k] = nils[k - Len(lower)]
        BY <2>2, <2>9, <4>2
      <4>4. k - Len(lower) = locals + 1
        BY <4>1
      <4> QED
        BY <3>1, <4>3, <4>4
    <3> QED
      BY <1>3, <2>2, <3>2, <3>3
  <2>12. k \in Nat /\ 0 < k
    BY <1>2, <1>3, SMTT(30)
  <2>13. \A x \in DOMAIN stack' : ~IsType(stack'[x], "interpreter_state")
    BY <2>11 DEF Value, ValueOver, IsType, Nil, True, False
  <2>14. \A x : ~IsState(x)'
    BY <2>13 DEF IsState
  <2>15. StateSlot(1, argc)' = k
    <3>1. StateSlot(1, argc)' = 1 + 1 + argc + locals
      BY <1>2, <2>11 DEF StateSlot, Compiled
    <3> QED
      BY <1>2, <1>3, <3>1, SMTT(30)
  <2>16. Linked(1, argc)'
    BY <1>2, <1>4, <2>11, <2>15 DEF Linked
  <2>17. OwnScope(1, argc, NULL, FALSE)'
    BY DEF OwnScope
  <2>18. RunsFrame(1, argc, NULL, FALSE, k)'
    <3>1. IsType(rl, "runtime_lambda")' /\ (ip \in DOMAIN Code)'
      BY <2>1 DEF TypeOK
    <3>2. (Len(stack) = k + StackDepth[rl.cl][ip])'
      <4>1. StackDepth[lambda.cl][1] = 0
        BY <1>3 DEF Balanced
      <4> QED
        BY <1>4, <2>11, <2>12, <4>1, SMTT(30) DEF StackDepth
    <3>3. 1 \in DOMAIN stack'
      BY <2>11, <2>12
    <3> QED
      BY <1>4, <2>11, <2>14, <2>15, <2>16, <2>17, <3>1, <3>2, <3>3 DEF RunsFrame
  <2>19. IsType(stack[1], "runtime_lambda")' /\ (k = StateSlot(1, Len(args)))'
    BY <1>2, <1>4, <2>11, <2>15 DEF IsType
  <2>20. FrameLayout'
    <3>1. RegistersDecide'
      BY LayoutByRegisters, PTL
    <3> QED
      BY <2>14, <2>18, <2>19, <3>1 DEF RegistersDecide
  <2> QED
    BY <1>4, <2>1, <2>20 DEF WholeFrameGone
<1> QED
  BY <1>5, <1>6

LEMMA DefineLambdaInv ==
  ASSUME BalancedCode, IInv, DefineLambda
  PROVE  IInv'
<1>1. TypeOK' /\ TypeOK /\ SavedStateHidden /\ status = "idle" /\ stack = << >>
  BY DefineLambdaType DEF IInv, DefineLambda, Enter
<1>2. PICK f \in Form :
        /\ scopes' = Append(scopes, EnvScope)
        /\ env' = EnvDef(env, f.sym, RuntimeLambda(f.cl, Len(scopes) + 1))
        /\ UNCHANGED <<pairs, stack, registers, ip, args, result, status>>
  BY DEF DefineLambda
<1>3. \A i \in DOMAIN env' : ~IsType(env'[i].value, "interpreter_state")
  <2>1. PICK binding : binding = [key |-> f.sym, value |-> RuntimeLambda(f.cl, Len(scopes) + 1)]
    OBVIOUS
  <2>2. env' = Append(env, binding) /\ env \in Seq(Binding) /\ env' \in Seq(Binding)
    BY <1>1, <1>2, <2>1 DEF EnvDef, TypeOK
  <2>3. \A i \in DOMAIN env' : env'[i] = binding \/ (i \in DOMAIN env /\ env'[i] = env[i])
    BY <2>2
  <2>4. ~IsType(binding.value, "interpreter_state")
    BY <2>1 DEF RuntimeLambda, IsType
  <2> QED
    BY <1>1, <2>3, <2>4 DEF SavedStateHidden
<1>4. \A s \in DOMAIN scopes' : \A x \in DOMAIN scopes'[s].atoms :
        ~IsType(scopes'[s].atoms[x], "interpreter_state")
  <2>1. scopes \in Seq(Scope) /\ scopes' \in Seq(Scope)
    BY <1>1 DEF TypeOK
  <2>2. \A s \in DOMAIN scopes' : scopes'[s] = EnvScope \/ (s \in DOMAIN scopes /\ scopes'[s] = scopes[s])
    BY <1>2, <2>1
  <2>3. DOMAIN EnvScope.atoms = {}
    BY DEF EnvScope
  <2> QED
    BY <1>1, <2>2, <2>3 DEF SavedStateHidden
<1>5. SavedStateHidden'
  BY <1>1, <1>2, <1>3, <1>4 DEF SavedStateHidden, IsType
<1> QED
  BY <1>1, <1>2, <1>5 DEF IInv, FrameLayout, WholeFrameGone

LEMMA CallGlobalInv ==
  ASSUME BalancedCode, IInv, CallGlobal
  PROVE  IInv'
<1>1. TypeOK' /\ TypeOK /\ SavedStateHidden /\ status = "idle"
  BY CallGlobalType DEF IInv, CallGlobal, Enter
<1>2. PICK f \in Form :
        /\ f.form = "call"
        /\ Bound(env, f.func)
        /\ IsType(EnvGet(env, f.func), "runtime_lambda")
        /\ EnterLoop(EnvGet(env, f.func), f.args)
        /\ UNCHANGED memory
  BY DEF CallGlobal
<1>3. f.args \in Seq(Value)
  BY <1>2, FormAssumption DEF FormRecord
<1>4. EnvGet(env, f.func) \in Atom /\ EnvGet(env, f.func).type = "runtime_lambda"
  BY <1>1, <1>2, EnvGetType DEF TypeOK, IsType
<1> HIDE DEF EnterLoop
<1>5. FrameLayout' /\ WholeFrameGone' /\ status' # "idle" /\ result' = Nil
  BY <1>1, <1>2, <1>3, <1>4, EnterLoopInv
<1>6. ~IsType(result', "interpreter_state")
  BY <1>5 DEF IsType, Nil
<1>7. SavedStateHidden'
  BY <1>1, <1>2, <1>6 DEF SavedStateHidden, memory, IsType
<1> QED
  BY <1>1, <1>5, <1>7 DEF IInv

LEMMA RunFileInv ==
  ASSUME BalancedCode, IInv, RunFile
  PROVE  IInv'
<1>1. TypeOK' /\ TypeOK /\ SavedStateHidden /\ status = "idle"
  BY RunFileType DEF IInv, RunFile, Enter
<1>2. PICK f \in Form :
        /\ f.form = "file"
        /\ scopes' = Append(scopes, EnvScope)
        /\ EnterLoop(RuntimeLambda(f.cl, Len(scopes) + 1), << >>)
        /\ UNCHANGED <<env, pairs>>
  BY DEF RunFile
<1>3. PICK lambda : lambda = RuntimeLambda(f.cl, Len(scopes) + 1)
  OBVIOUS
<1>4. lambda \in Atom /\ lambda.type = "runtime_lambda"
  <2>1. f.cl \in LambdaId
    BY <1>2, FormAssumption DEF FormRecord
  <2>2. lambda.type = "runtime_lambda"
    BY <1>3 DEF RuntimeLambda
  <2> QED
    <3>1. Len(scopes) + 1 \in Nat
      BY <1>1 DEF TypeOK
    <3> QED
      BY <1>3, <2>1, <2>2, <3>1, AtomsMade, ValueIsAtom
<1>5. << >> \in Seq(Value) /\ EnterLoop(lambda, << >>)
  BY <1>2, <1>3
<1> HIDE DEF EnterLoop
<1>6. FrameLayout' /\ WholeFrameGone' /\ status' # "idle" /\ result' = Nil
  BY <1>1, <1>4, <1>5, EnterLoopInv
<1>7. ~IsType(result', "interpreter_state")
  BY <1>6 DEF IsType, Nil
<1>8. \A s \in DOMAIN scopes' : \A x \in DOMAIN scopes'[s].atoms :
        ~IsType(scopes'[s].atoms[x], "interpreter_state")
  <2>1. scopes \in Seq(Scope) /\ scopes' \in Seq(Scope)
    BY <1>1 DEF TypeOK
  <2>2. \A s \in DOMAIN scopes' : scopes'[s] = EnvScope \/ (s \in DOMAIN scopes /\ scopes'[s] = scopes[s])
    BY <1>2, <2>1
  <2>3. DOMAIN EnvScope.atoms = {}
    BY DEF EnvScope
  <2> QED
    BY <1>1, <2>2, <2>3 DEF SavedStateHidden
<1>9. SavedStateHidden'
  BY <1>1, <1>2, <1>7, <1>8 DEF SavedStateHidden, IsType
<1> QED
  BY <1>1, <1>6, <1>9 DEF IInv

LEMMA FinishInv ==
  ASSUME IInv, Finish
  PROVE  IInv'
<1>1. TypeOK' /\ TypeOK /\ SavedStateHidden
  BY FinishType DEF IInv
<1>2. /\ stack' = << >> /\ status' = "idle" /\ scopes' = scopes /\ pairs' = pairs /\ result' = result
      /\ env' = (IF form.sym = NoName THEN env ELSE EnvDef(env, form.sym, result))
  BY DEF Finish
<1>3. \A i \in DOMAIN env' : ~IsType(env'[i].value, "interpreter_state")
  <2>1. CASE form.sym = NoName
    BY <1>1, <1>2, <2>1 DEF SavedStateHidden
  <2>2. CASE form.sym # NoName
    <3>1. PICK binding : binding = [key |-> form.sym, value |-> result]
      OBVIOUS
    <3>2. env' = Append(env, binding) /\ env \in Seq(Binding) /\ env' \in Seq(Binding)
      BY <1>1, <1>2, <2>2, <3>1 DEF EnvDef, TypeOK
    <3>3. \A i \in DOMAIN env' : env'[i] = binding \/ (i \in DOMAIN env /\ env'[i] = env[i])
      BY <3>2
    <3>4. binding.value = result
      BY <3>1
    <3> QED
      BY <1>1, <3>3, <3>4 DEF SavedStateHidden
  <2> QED
    BY <2>1, <2>2
<1>4. SavedStateHidden'
  BY <1>1, <1>2, <1>3 DEF SavedStateHidden, IsType
<1> QED
  BY <1>1, <1>2, <1>4 DEF IInv, FrameLayout, WholeFrameGone

LEMMA IInvInit == Init => IInv
<1> SUFFICES ASSUME Init PROVE IInv
  OBVIOUS
<1>1. TypeOK
  BY TypeOKInit
<1>2. FrameLayout /\ WholeFrameGone /\ stack = << >>
  BY DEF Init, FrameLayout, WholeFrameGone
<1>3. SavedStateHidden
  <2>1. \A i \in DOMAIN env : ~IsType(env[i].value, "interpreter_state")
    BY ValueAssumption DEF Init, Value, ValueOver, IsType, Nil, True, False
  <2>2. \A c \in DOMAIN pairs : ~IsType(pairs[c].first, "interpreter_state")
                                  /\ ~IsType(pairs[c].rest, "interpreter_state")
    <3> SUFFICES ASSUME NEW c \in DOMAIN QuotedPair
                 PROVE  ~IsType(QuotedPair[c].first, "interpreter_state")
                          /\ ~IsType(QuotedPair[c].rest, "interpreter_state")
      BY DEF Init
    <3>1. QuotedPair[c].first \in Value /\ QuotedPair[c].rest \in Value
      <4>1. QuotedPair[c] \in [first : Value, rest : Value]
        BY ValueAssumption
      <4> QED
        BY <4>1
    <3> QED
      BY <3>1 DEF Value, ValueOver, IsType, Nil, True, False
  <2>3. scopes = << >> /\ ~IsType(result, "interpreter_state")
    BY DEF Init, IsType, Nil
  <2> QED
    BY <2>1, <2>2, <2>3 DEF SavedStateHidden
<1> QED
  BY <1>1, <1>2, <1>3 DEF IInv

LEMMA IInvStep ==
  ASSUME BalancedCode, IInv, OuterFrameAlive, [Next]_vars
  PROVE  IInv'
<1>1. CASE LoadConstant
  BY <1>1, LoadConstantInv
<1>2. CASE LoadLiteral
  BY <1>2, LoadLiteralInv
<1>3. CASE LoadLambda
  BY <1>3, LoadLambdaInv
<1>4. CASE LoadVariable
  BY <1>4, LoadVariableInv
<1>5. CASE LoadEnv
  BY <1>5, LoadEnvInv
<1>6. CASE StoreLocal
  BY <1>6, StoreLocalInv
<1>7. CASE StoreEnv
  BY <1>7, StoreEnvInv
<1>8. CASE Drop
  BY <1>8, DropInv
<1>9. CASE Jump
  BY <1>9, JumpInv
<1>10. CASE JumpIfFalse
  BY <1>10, JumpIfFalseInv
<1>11. CASE CallRuntimeLambda
  BY <1>11, CallRuntimeLambdaInv
<1>12. CASE CallBuildin
  BY <1>12, CallBuildinInv
<1>13. CASE Return
  BY <1>13, ReturnInv
<1>14. CASE Arithmetic
  BY <1>14, ArithmeticInv
<1>15. CASE Compare
  BY <1>15, CompareInv
<1>16. CASE BuildPair
  BY <1>16, BuildPairInv
<1>17. CASE TakePart
  BY <1>17, TakePartInv
<1>18. CASE Fault
  <2>1. TypeOK'
    BY <1>18, TypeOKStep DEF IInv, Next, Execute
  <2>2. SavedStateHidden'
    BY <1>18, HiddenUnchanged DEF Fault, memory, IInv
  <2>3. status' = "crashed"
    BY <1>18 DEF Fault
  <2> QED
    BY <2>1, <2>2, <2>3 DEF IInv, FrameLayout, WholeFrameGone
<1>19. CASE DefineLambda
  BY <1>19, DefineLambdaInv
<1>20. CASE CallGlobal
  BY <1>20, CallGlobalInv
<1>21. CASE RunFile
  BY <1>21, RunFileInv
<1>22. CASE Finish
  BY <1>22, FinishInv
<1>23. CASE UNCHANGED vars
  <2>1. TypeOK' /\ SavedStateHidden'
    BY <1>23, TypeOKStep, HiddenUnchanged DEF IInv, vars, memory
  <2>2. FrameLayout'
    <3>1. /\ stack' = stack /\ scopes' = scopes /\ args' = args /\ status' = status /\ rl' = rl /\ ip' = ip
          /\ frame_index' = frame_index /\ arg_count' = arg_count
          /\ frame_scope' = frame_scope /\ scope_escaped' = scope_escaped
      BY <1>23 DEF vars, memory, registers, session
    <3> SUFFICES ASSUME status = "running" PROVE FrameLayout'
      BY <3>1 DEF FrameLayout
    <3>2. TypeOK /\ FrameLayout /\ stack \in Seq(Atom)
      BY DEF IInv, TypeOK
    <3>3. PICK n, f, argc, scope, escaped :
            /\ n = OwnStateSlot /\ f = frame_index /\ argc = arg_count
            /\ scope = frame_scope /\ escaped = scope_escaped
      OBVIOUS
    <3>4. /\ n \in Nat /\ StackDepth[rl.cl][ip] \in Nat /\ Len(stack) = n + StackDepth[rl.cl][ip]
          /\ \A k \in (n + 1)..Len(stack) : ~IsState(k)
      BY <3>2, <3>3, RunningFrame
    <3>5. KeepsFrames(n)
      BY <3>1, <3>2, <3>4, PrefixKeepsFrames
    <3>6. OwnScope(f, argc, scope, escaped)'
      BY <3>1, <3>2, <3>3, OwnScopeKept DEF FrameLayout, CurrentFrame, OwnScope
    <3>7. \A k \in (n + 1)..Len(stack') : ~IsState(k)'
      BY <3>1, <3>4 DEF IsState
    <3>8. ip \in DOMAIN Code
      BY <3>2 DEF TypeOK
    <3> QED
      BY <3>1, <3>2, <3>3, <3>4, <3>5, <3>6, <3>7, <3>8, SameActivation
  <2>3. (status = "idle" => stack = << >>)' /\ WholeFrameGone'
    BY <1>23 DEF vars, session, registers, IInv, WholeFrameGone, Compiled
  <2> QED
    BY <2>1, <2>2, <2>3 DEF IInv
<1> QED
  BY <1>1, <1>2, <1>3, <1>4, <1>5, <1>6, <1>7, <1>8, <1>9, <1>10, <1>11, <1>12, <1>13,
     <1>14, <1>15, <1>16, <1>17, <1>18, <1>19, <1>20, <1>21, <1>22, <1>23
     DEF Next, Execute, TopLevel, Done

-----------------------------------------------------------------------------
(* What a call with the wrong number of arguments leaves.                  *)

\* bci_eval only enters its loop for as many arguments as the lambda has: that
\* lambda stays at the bottom of the stack until bci_eval returns.
ArityInv ==
  /\ status = "running" => Len(args) = Compiled(stack[1]).arg_count
  /\ status = "returned" /\ Len(args) # Compiled(rl).arg_count => stack = <<rl>> \o args

\* The operands of an instruction lie above the bottom of the stack.
LEMMA AboveBottom ==
  ASSUME BalancedCode, IInv, status = "running", Executable,
         Current.op # "RETURN", ~(Current.op = "CALL" /\ IsType(Callee, "runtime_lambda"))
  PROVE  Len(stack) \in Nat /\ 1 \in 1..(Len(stack) - Operands(Current))
           /\ Operands(Current) \in 0..Len(stack)
<1>1. TypeOK /\ FrameLayout /\ stack \in Seq(Atom)
  BY DEF IInv, TypeOK
<1>2. Operands(Current) \in 0..StackDepth[rl.cl][ip]
  BY <1>1, DepthOfNext
<1>3. /\ OwnStateSlot = frame_index + 1 + arg_count + Compiled(rl).var_count
      /\ OwnStateSlot \in Nat /\ StackDepth[rl.cl][ip] \in Nat
      /\ Len(stack) = OwnStateSlot + StackDepth[rl.cl][ip]
      /\ frame_index \in 1..Len(stack)
  BY <1>1, RunningFrame
<1>4. arg_count \in Nat /\ Compiled(rl).var_count \in Nat /\ Len(stack) \in Nat
  BY <1>1, InLoop DEF TypeOK
<1>5. 2 <= OwnStateSlot
  BY <1>3, <1>4
<1> QED
  BY <1>2, <1>3, <1>4, <1>5

\* Neither a replacement of operands ...
LEMMA BottomUnderOperands ==
  ASSUME BalancedCode, IInv, status = "running", Executable,
         Current.op # "RETURN", ~(Current.op = "CALL" /\ IsType(Callee, "runtime_lambda")),
         stack' \in Seq(Atom), NEW n, n = Operands(Current),
         \/ \E a : stack' = Append(Pop(n), a)
         \/ stack' = Pop(n)
  PROVE  stack'[1] = stack[1]
<1>1. stack \in Seq(Atom) /\ n \in 0..Len(stack) /\ 1 \in 1..(Len(stack) - n)
  BY AboveBottom DEF IInv, TypeOK
<1>2. CASE stack' = Pop(n)
  BY <1>1, <1>2, PopProperties
<1>3. ASSUME NEW a, stack' = Append(Pop(n), a)
      PROVE  stack'[1] = stack[1]
  BY <1>1, <1>3, ReplacedOperands
<1> QED
  BY <1>2, <1>3

\* ... nor a store into a variable ...
LEMMA BottomUnderStore ==
  ASSUME BalancedCode, IInv, OuterFrameAlive, StoreLocal
  PROVE  stack'[1] = stack[1]
<1>1. /\ TypeOK /\ FrameLayout /\ status = "running" /\ stack \in Seq(Atom) /\ HasVariable(Current)
      /\ Current.op = "STORE_LOCAL"
  BY DEF StoreLocal, Executing, Executable, IInv, TypeOK
<1>2. CASE TargetScope(Current.offset).type = "stack"
  <2>1. PICK tf, tk, j :
          /\ tf = TargetScope(Current.offset).frame_index
          /\ tk = StateSlot(tf, TargetScope(Current.offset).arg_count)
          /\ j = tf + VariableSlot(Current) - 1
    OBVIOUS
  <2>2. IsFrame(tf, tk) /\ j \in DOMAIN stack /\ tf < j
    BY <1>1, <1>2, <2>1, VariableInFrame
  <2>3. j \in Nat /\ tf \in Nat /\ 0 < tf
    BY <1>1, <2>2, FrameBounds
  <2>4. j # 1
    BY <2>2, <2>3
  <2>5. stack' = [stack EXCEPT ![j] = Top(0)]
    BY <1>2, <2>1 DEF StoreLocal
  <2> QED
    BY <2>4, <2>5
<1>3. CASE TargetScope(Current.offset).type # "stack"
  BY <1>3 DEF StoreLocal
<1> QED
  BY <1>2, <1>3

\* ... nor a return to a caller reaches down to it.
LEMMA BottomUnderReturn ==
  ASSUME BalancedCode, IInv, Return, IsType(Top(1), "interpreter_state")
  PROVE  stack'[1] = stack[1]
<1>1. /\ TypeOK /\ FrameLayout /\ status = "running" /\ Executable /\ Current.op = "RETURN"
  BY DEF Return, Executing, IInv
<1>2. PICK lower \in Seq(Atom) :
        /\ lower = Pop(FrameSize + 2) /\ Len(lower) = frame_index - 1
        /\ \A x \in 1..(frame_index - 1) : lower[x] = stack[x]
  BY <1>1, ReturnFacts
<1>3. frame_index \in Nat /\ 1 < frame_index
  <2>1. frame_index \in Nat /\ 0 < frame_index /\ Top(1) = stack[OwnStateSlot]
    BY <1>1, ReturnFacts
  <2>2. frame_index # 1
    <3> SUFFICES ASSUME frame_index = 1 PROVE FALSE
      OBVIOUS
    <3>1. stack[OwnStateSlot] = Nil
      BY <1>1 DEF FrameLayout, CurrentFrame, Linked, OwnStateSlot
    <3> QED
      BY <2>1, <3>1 DEF IsType, Nil
  <2> QED
    BY <2>1, <2>2
<1>4. stack' = Append(lower, Top(0)) /\ Top(0) \in Atom
  BY <1>1, <1>2, ReturnFacts DEF Return
<1>5. 1 \in 1..Len(lower) /\ lower[1] = stack[1]
  BY <1>2, <1>3
<1> QED
  BY <1>2, <1>4, <1>5

\* While bci_eval runs, the lambda at the bottom of the stack is the one that it
\* was called with.
LEMMA BottomStays ==
  ASSUME BalancedCode, IInv, OuterFrameAlive, Execute, status' = "running"
  PROVE  stack'[1] = stack[1] /\ args' = args
<1>1. TypeOK /\ TypeOK' /\ stack \in Seq(Atom) /\ stack' \in Seq(Atom)
  <2>1. TypeOK /\ TypeOK'
    BY TypeOKStep DEF IInv, Next
  <2> QED
    BY <2>1 DEF TypeOK
<1>2. CASE LoadConstant \/ LoadLiteral \/ LoadLambda \/ LoadVariable \/ LoadEnv
  <2>1. PICK a : stack' = Append(stack, a) /\ args' = args
    BY <1>2 DEF LoadConstant, LoadLiteral, LoadLambda, LoadVariable, LoadEnv, Push, session
  <2>2. stack' = Append(Pop(0), a)
    BY <1>1, <2>1 DEF Pop
  <2>3. /\ status = "running" /\ Executable /\ Operands(Current) = 0
        /\ Current.op # "RETURN" /\ Current.op # "CALL"
    BY <1>2 DEF LoadConstant, LoadLiteral, LoadLambda, LoadVariable, LoadEnv, Executing,
                LoadConstantOp, LoadVariableOp, Operands, ArithmeticOp, CompareOp, PartOp
  <2> QED
    BY <1>1, <2>1, <2>2, <2>3, BottomUnderOperands
<1>3. CASE StoreLocal
  BY <1>3, BottomUnderStore DEF StoreLocal, session
<1>4. CASE StoreEnv \/ Jump
  BY <1>4 DEF StoreEnv, Jump, session
<1>5. CASE Drop \/ JumpIfFalse
  <2>1. /\ status = "running" /\ Executable /\ Operands(Current) = 1
        /\ Current.op # "RETURN" /\ Current.op # "CALL"
    BY <1>5 DEF Drop, JumpIfFalse, Executing, Operands, ArithmeticOp, CompareOp, PartOp
  <2>2. stack' = Pop(1) /\ args' = args
    BY <1>5 DEF Drop, JumpIfFalse, session
  <2> QED
    BY <1>1, <2>1, <2>2, BottomUnderOperands
<1>6. CASE CallRuntimeLambda
  <2>1. /\ \A x \in 1..Len(stack) : stack'[x] = stack[x]
    BY <1>1, <1>6, CallPushes
  <2>2. 1 \in 1..Len(stack)
    BY <1>1, <1>6, BottomFrame DEF CallRuntimeLambda, Executing, IInv
  <2> QED
    BY <1>6, <2>1, <2>2 DEF CallRuntimeLambda, session
<1>7. CASE CallBuildin
  <2>1. /\ status = "running" /\ Executable /\ Current.op = "CALL"
        /\ ~IsType(Callee, "runtime_lambda") /\ args' = args
    BY <1>7 DEF CallBuildin, Executing, IsType, session
  <2>2. Operands(Current) = Current.arg + 1
    BY <2>1 DEF Operands, ArithmeticOp, CompareOp, PartOp
  <2>3. \E a : stack' = Append(Pop(Current.arg + 1), a)
    BY <1>7 DEF CallBuildin
  <2> QED
    BY <1>1, <2>1, <2>2, <2>3, BottomUnderOperands
<1>8. CASE Return
  <2>1. IsType(Top(1), "interpreter_state")
    BY <1>8 DEF Return
  <2> QED
    BY <1>8, <2>1, BottomUnderReturn DEF Return, session
<1>9. CASE Arithmetic \/ Compare \/ BuildPair
  <2>1. /\ status = "running" /\ Executable /\ Operands(Current) = 2 /\ args' = args
        /\ Current.op # "RETURN" /\ Current.op # "CALL"
    BY <1>9 DEF Arithmetic, Compare, BuildPair, Executing, Operands, ArithmeticOp, CompareOp, PartOp,
                session
  <2>2. \E a : stack' = Append(Pop(2), a)
    BY <1>9 DEF Arithmetic, Compare, BuildPair
  <2> QED
    BY <1>1, <2>1, <2>2, BottomUnderOperands
<1>10. CASE TakePart
  <2>1. /\ status = "running" /\ Executable /\ Operands(Current) = 1 /\ args' = args
        /\ Current.op # "RETURN" /\ Current.op # "CALL"
    BY <1>10 DEF TakePart, Executing, Operands, ArithmeticOp, CompareOp, PartOp, session
  <2>2. \E a : stack' = Append(Pop(1), a)
    BY <1>10 DEF TakePart
  <2> QED
    BY <1>1, <2>1, <2>2, BottomUnderOperands
<1>11. CASE Fault
  BY <1>11 DEF Fault
<1> QED
  BY <1>2, <1>3, <1>4, <1>5, <1>6, <1>7, <1>8, <1>9, <1>10, <1>11 DEF Execute

\* bci_eval returns from the lambda at the bottom of the stack.
LEMMA ReturnsFromBottom ==
  ASSUME BalancedCode, IInv, Return, ~IsType(Top(1), "interpreter_state")
  PROVE  rl = stack[1] /\ rl' = rl /\ args' = args
<1>1. /\ TypeOK /\ FrameLayout /\ status = "running" /\ Executable /\ Current.op = "RETURN"
  BY DEF Return, Executing, IInv
<1>2. frame_index = 1
  <2>1. stack' = << >> /\ stack' = Pop(FrameSize + 2)
    BY ReturnFromEvalInv DEF Return
  <2>2. Len(Pop(FrameSize + 2)) = frame_index - 1 /\ frame_index \in Nat
    BY <1>1, ReturnFacts
  <2> QED
    BY <2>1, <2>2
<1> QED
  BY <1>1, <1>2, RunningFrame DEF Return, session

LEMMA EnterLoopArity ==
  ASSUME IInv, status = "idle", NEW lambda \in Atom, lambda.type = "runtime_lambda",
         NEW actuals \in Seq(Value), EnterLoop(lambda, actuals)
  PROVE  ArityInv'
<1>1. stack = << >> /\ args' = actuals /\ rl' = lambda
  BY DEF IInv, EnterLoop
<1>2. PICK base \in Seq(Atom) : base = <<lambda>> /\ Len(base) = 1 /\ base[1] = lambda
  <2>1. <<lambda>> \in Seq(Atom) /\ Len(<<lambda>>) = 1 /\ <<lambda>>[1] = lambda
    OBVIOUS
  <2> QED
    BY <2>1
<1>3. Append(stack, lambda) = base
  BY <1>1, <1>2
<1>4. CASE Len(actuals) = Compiled(lambda).arg_count
  <2>1. Compiled(lambda).var_count + 1 \in Nat
    BY AtomFields, CompiledAssumption DEF Compiled
  <2>2. PICK nils \in Seq(Atom) : nils = Nils(Compiled(lambda).var_count + 1)
    <3>1. Nils(Compiled(lambda).var_count + 1) \in Seq(Value)
      BY <2>1, NilsProperties
    <3> QED
      BY <3>1, ValueIsAtom
  <2>3. actuals \in Seq(Atom)
    BY ValueIsAtom
  <2>4. status' = "running" /\ stack' = base \o actuals \o nils
    BY <1>3, <1>4, <2>2 DEF EnterLoop
  <2>5. PICK lower \in Seq(Atom) : lower = base \o actuals /\ Len(lower) >= 1 /\ lower[1] = lambda
    <3>1. base \o actuals \in Seq(Atom) /\ Len(base \o actuals) >= 1 /\ (base \o actuals)[1] = lambda
      BY <1>2, <2>3
    <3> QED
      BY <3>1
  <2>6. stack' = lower \o nils
    BY <2>4, <2>5
  <2>7. stack'[1] = lambda
    BY <2>2, <2>5, <2>6
  <2> QED
    BY <1>1, <1>4, <2>4, <2>7 DEF ArityInv, Compiled
<1>5. CASE Len(actuals) # Compiled(lambda).arg_count
  <2>1. status' = "returned" /\ stack' = base \o actuals
    BY <1>3, <1>5 DEF EnterLoop
  <2>2. stack' = <<rl'>> \o args'
    BY <1>1, <1>2, <2>1
  <2> QED
    BY <2>1, <2>2 DEF ArityInv
<1> QED
  BY <1>4, <1>5

LEMMA ArityInvStep ==
  ASSUME BalancedCode, IInv, OuterFrameAlive, ArityInv, [Next]_vars
  PROVE  ArityInv'
<1>1. CASE Execute /\ status' = "running"
  <2>1. status = "running"
    BY <1>1 DEF Execute, LoadConstant, LoadLiteral, LoadLambda, LoadVariable, LoadEnv, StoreLocal,
                StoreEnv, Drop, Jump, JumpIfFalse, CallRuntimeLambda, CallBuildin, Return, Arithmetic,
                Compare, BuildPair, TakePart, Fault, Executing
  <2>2. stack'[1] = stack[1] /\ args' = args
    BY <1>1, BottomStays
  <2> QED
    BY <1>1, <2>1, <2>2 DEF ArityInv, Compiled
<1>2. CASE Execute /\ status' # "running"
  <2>1. CASE Return
    <3>1. status = "running" /\ ~IsType(Top(1), "interpreter_state")
      BY <1>2, <2>1 DEF Return, Executing
    <3>2. rl = stack[1] /\ rl' = rl /\ args' = args
      BY <2>1, <3>1, ReturnsFromBottom
    <3> QED
      BY <1>2, <3>1, <3>2 DEF ArityInv, Compiled
  <2>2. CASE ~Return
    <3>1. (status' = status /\ status = "running") \/ status' = "crashed"
      BY <1>2, <2>2
         DEF Execute, LoadConstant, LoadLiteral, LoadLambda, LoadVariable, LoadEnv, StoreLocal,
             StoreEnv, Drop, Jump, JumpIfFalse, CallRuntimeLambda, CallBuildin, Arithmetic,
             Compare, BuildPair, TakePart, Fault, Executing
    <3> QED
      BY <1>2, <3>1 DEF ArityInv
  <2> QED
    BY <2>1, <2>2
<1>3. CASE DefineLambda
  BY <1>3 DEF DefineLambda, Enter, ArityInv
<1>4. CASE CallGlobal
  <2>1. PICK f \in Form :
          /\ f.form = "call" /\ status = "idle"
          /\ Bound(env, f.func)
          /\ IsType(EnvGet(env, f.func), "runtime_lambda")
          /\ EnterLoop(EnvGet(env, f.func), f.args)
    BY <1>4 DEF CallGlobal, Enter
  <2>2. f.args \in Seq(Value)
    BY <2>1, FormAssumption DEF FormRecord
  <2>3. EnvGet(env, f.func) \in Atom /\ EnvGet(env, f.func).type = "runtime_lambda"
    BY <2>1, EnvGetType DEF IInv, TypeOK, IsType
  <2> HIDE DEF EnterLoop
  <2> QED
    BY <2>1, <2>2, <2>3, EnterLoopArity
<1>5. CASE RunFile
  <2>1. PICK f \in Form :
          /\ f.form = "file" /\ status = "idle"
          /\ EnterLoop(RuntimeLambda(f.cl, Len(scopes) + 1), << >>)
    BY <1>5 DEF RunFile, Enter
  <2>2. PICK lambda : lambda = RuntimeLambda(f.cl, Len(scopes) + 1)
    OBVIOUS
  <2>3. lambda \in Atom /\ lambda.type = "runtime_lambda"
    <3>1. f.cl \in LambdaId
      BY <2>1, FormAssumption DEF FormRecord
    <3>2. Len(scopes) + 1 \in Nat
      BY DEF IInv, TypeOK
    <3> QED
      BY <2>2, <3>1, <3>2, AtomsMade, ValueIsAtom DEF RuntimeLambda
  <2>4. << >> \in Seq(Value) /\ EnterLoop(lambda, << >>)
    BY <2>1, <2>2
  <2> HIDE DEF EnterLoop
  <2> QED
    BY <2>1, <2>3, <2>4, EnterLoopArity
<1>6. CASE Finish
  BY <1>6 DEF Finish, ArityInv
<1>7. CASE UNCHANGED vars
  BY <1>7 DEF vars, session, registers, ArityInv, Compiled
<1> QED
  BY <1>1, <1>2, <1>3, <1>4, <1>5, <1>6, <1>7 DEF Next, TopLevel, Done

-----------------------------------------------------------------------------
(* The theorems.                                                           *)

LEMMA IInvHolds ==
  BalancedCode => (Spec /\ []OuterFrameAlive => []IInv)
<1> SUFFICES ASSUME BalancedCode
             PROVE  Spec /\ []OuterFrameAlive => []IInv
  OBVIOUS
<1>1. Init => IInv
  BY IInvInit
<1>2. IInv /\ OuterFrameAlive /\ [Next]_vars => IInv'
  BY IInvStep
<1> QED
  BY <1>1, <1>2, PTL DEF Spec

LEMMA ArityInvHolds ==
  BalancedCode => (Spec /\ []OuterFrameAlive => []ArityInv)
<1> SUFFICES ASSUME BalancedCode
             PROVE  Spec /\ []OuterFrameAlive => []ArityInv
  OBVIOUS
<1>1. Init => ArityInv
  BY DEF Init, ArityInv
<1>2. IInv /\ OuterFrameAlive /\ ArityInv /\ [Next]_vars => ArityInv'
  BY ArityInvStep
<1> QED
  BY <1>1, <1>2, IInvHolds, PTL DEF Spec

LEMMA ReleasedStack ==
  IInv /\ ArityInv => StackReleased
BY DEF IInv, WholeFrameGone, ArityInv, StackReleased

\* For every program of balanced code, whatever it calls, stores or captures:
\* frames follow one another on the stack and every return finds the registers
\* of its caller, as long as outer variables are looked for in living frames.
THEOREM FrameLayoutKept ==
  BalancedCode => (Spec /\ []OuterFrameAlive => []FrameLayout)
<1>1. IInv => FrameLayout
  BY DEF IInv
<1> QED
  BY <1>1, IInvHolds, PTL

\* ... no value that the program can get hold of is a saved state ...
THEOREM SavedStateStaysHidden ==
  BalancedCode => (Spec /\ []OuterFrameAlive => []SavedStateHidden)
<1>1. IInv => SavedStateHidden
  BY DEF IInv
<1> QED
  BY <1>1, IInvHolds, PTL

\* ... and a call with the right number of arguments gives the whole stack back,
\* while one with another number leaves its lambda and its arguments, and nothing
\* else.
THEOREM StackIsReleased ==
  BalancedCode => (Spec /\ []OuterFrameAlive => []StackReleased)
BY ReleasedStack, IInvHolds, ArityInvHolds, PTL

\* No instruction names a variable, a literal or a lambda of an outer function.
FlatCode ==
  \A id \in LambdaId : \A i \in DOMAIN CompiledLambda[id].code :
    CompiledLambda[id].code[i].offset = 0

\* A program without closures needs no assumption on what its code reaches:
\* balanced code is enough for all of it.
THEOREM FlatCodeKeepsLayout ==
  BalancedCode /\ FlatCode => (Spec => [](FrameLayout /\ SavedStateHidden /\ StackReleased))
<1> SUFFICES ASSUME BalancedCode, FlatCode
             PROVE  Spec => [](FrameLayout /\ SavedStateHidden /\ StackReleased)
  OBVIOUS
<1>1. TypeOK => OuterFrameAlive
  <2> SUFFICES ASSUME TypeOK, status = "running", Current.offset > 0
               PROVE  FALSE
    BY DEF OuterFrameAlive
  <2>1. rl.cl \in LambdaId /\ ip \in DOMAIN CompiledLambda[rl.cl].code
    BY InLoop DEF TypeOK, Code, Compiled
  <2>2. Current.offset = 0
    BY <2>1 DEF FlatCode, Current, Code, Compiled
  <2> QED
    BY <2>2
<1>2. IInv => FrameLayout /\ SavedStateHidden
  BY DEF IInv
<1> QED
  BY <1>1, <1>2, TypeCorrect, IInvHolds, StackIsReleased, PTL
=============================================================================
