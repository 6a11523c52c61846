------------------------ MODULE BytecodeInterpreter ------------------------
(***************************************************************************)
(* bci_eval (bytecode_interpreter.c): the virtual machine that runs        *)
(* compiled lambdas on one execution stack, together with the top level    *)
(* that feeds it (eval.c, lisp.c, buildin_lambda and buildin_define).      *)
(*                                                                         *)
(* Sequences count from 1 where the code counts from 0: frame_index, ip    *)
(* and the cells of the heaps are the code's value plus one.               *)
(*                                                                         *)
(* One action executes one instruction, the ip++ that ends the loop's body *)
(* and its assertion included.  An instruction whose assertion fails, or   *)
(* that reads a slot above the top of the stack (a NULL pointer there), is *)
(* not Executable and ends the process (Fault).                            *)
(***************************************************************************)
EXTENDS LispMemory

CONSTANTS
  CompiledLambda,  \* the compiled lambdas: [code, literals, arg_count, var_count]
  Form,            \* what can be entered at the top level
  MaxForms,        \* bound: number of forms of one session
  Global,          \* the environment that main() prepares (register_buildins_in)
  QuotedPair,      \* the pairs the reader built: the quoted lists of the program
  HeapSize         \* numbers (gc_heap_size) may return

LambdaId == DOMAIN CompiledLambda
Value == ValueOver(LambdaId)
Atom == AtomOver(LambdaId)
Scope == ScopeOver(LambdaId)
PairCell == PairOver(LambdaId)
Binding == BindingOver(LambdaId)

LoadConstantOp == {"LOAD_NIL", "LOAD_TRUE", "LOAD_FALSE", "LOAD_NUM"}
LoadVariableOp == {"LOAD_ARG", "LOAD_LOCAL"}
ArithmeticOp == {"ADD", "SUB", "MUL", "DIV", "MOD"}
CompareOp == {"EQ", "LT", "GT"}
PartOp == {"FIRST", "REST"}
Op == LoadConstantOp \cup LoadVariableOp \cup ArithmeticOp \cup CompareOp \cup PartOp
        \cup {"LOAD_LITERAL", "LOAD_LAMBDA", "STORE_LOCAL", "LOAD_ENV", "STORE_ENV",
              "DROP", "JUMP", "JUMP_IF_FALSE", "CALL", "RETURN", "CONS"}

\* `arg` is the union of index, num and jump_offset.
Instruction == [op : Op, offset : Nat, arg : Int]
Literal == Value \cup [type : {"compiled_lambda"}, id : LambdaId]

\* (lambda ...) bound by (define sym ...), (define sym (func args ...)) or
\* (func args ...), and a whole file in compile mode.
NoName == ""
FormRecord ==
  [form : {"lambda"}, sym : Symbol, cl : LambdaId]
    \cup [form : {"call"}, sym : Symbol \cup {NoName}, func : Symbol, args : Seq(Value)]
    \cup [form : {"file"}, sym : {NoName}, cl : LambdaId]

ASSUME CompiledAssumption ==
  \A id \in LambdaId :
    /\ CompiledLambda[id] \in [code : Seq(Instruction), literals : Seq(Literal),
                               arg_count : Nat, var_count : Nat]
    /\ CompiledLambda[id].code # << >>
ASSUME FormAssumption == Form \subseteq FormRecord
ASSUME SizeAssumption ==
  /\ MaxForms \in Nat
  /\ Global \in Seq(Binding)
  /\ QuotedPair \in Seq(PairCell)
  /\ HeapSize \subseteq NumValue
ASSUME ValueAssumption ==
  /\ \A i \in DOMAIN Global : Global[i].value \in Value
  /\ \A i \in DOMAIN QuotedPair : QuotedPair[i] \in [first : Value, rest : Value]

\* What the reader built and what main() prepared: no lambdas, and pairs that
\* exist.
IsData(atom) ==
  ~IsType(atom, "runtime_lambda") /\ (IsType(atom, "pair") => atom.cell \in DOMAIN QuotedPair)

ASSUME DataAssumption ==
  /\ \A i \in DOMAIN Global : IsData(Global[i].value)
  /\ \A i \in DOMAIN QuotedPair : IsData(QuotedPair[i].first) /\ IsData(QuotedPair[i].rest)
  /\ \A f \in Form : f.form = "call" => \A i \in DOMAIN f.args : IsData(f.args[i])

\* The reader builds a list from atoms it has read, never a list around itself:
\* the pairs can be numbered from the inside out.
Older(atom, cell) == IsType(atom, "pair") => atom.cell < cell

ASSUME ListAssumption ==
  \A i \in DOMAIN QuotedPair : Older(QuotedPair[i].first, i) /\ Older(QuotedPair[i].rest, i)

VARIABLES
  env, scopes, pairs,  \* memory: the global environment, and the two heaps
  stack,               \* interp->stack
  frame_index, arg_count, rl, ip, frame_scope, scope_escaped,  \* locals of bci_eval
  args,                \* its arguments
  result,              \* what it returned
  form,                \* the form being evaluated
  forms,               \* number of forms read
  status

memory == <<env, scopes, pairs>>
registers == <<frame_index, arg_count, rl, frame_scope, scope_escaped>>
session == <<args, form, forms>>
vars == <<memory, stack, registers, ip, session, result, status>>

-----------------------------------------------------------------------------
(* The execution stack.                                                    *)

Top(n) == stack[Len(stack) - n]
Pop(n) == SubSeq(stack, 1, Len(stack) - n)
Nils(n) == [i \in 1..n |-> Nil]

\* Operands an instruction takes off the stack, or looks at.
Operands(instruction) ==
  CASE instruction.op \in ArithmeticOp \cup CompareOp \cup {"CONS"} -> 2
    [] instruction.op \in PartOp
         \cup {"STORE_LOCAL", "STORE_ENV", "DROP", "JUMP_IF_FALSE", "RETURN"} -> 1
    [] instruction.op = "CALL" -> instruction.arg + 1
    [] OTHER -> 0

-----------------------------------------------------------------------------
(* The scope `offset` lambdas out, and the frame that it stands for.       *)

Compiled(lambda) == CompiledLambda[lambda.cl]
Code == Compiled(rl).code
Current == Code[ip]

ScopeId(offset) ==
  LET id[n \in 1..offset] ==
        IF n = 1 THEN rl.scopes
        ELSE IF id[n - 1] = NULL THEN NULL ELSE scopes[id[n - 1]].next
  IN  id[offset]

\* slip: the lambda around is left out of the chain
ThisScopeSkipping == StackScope(scopes[rl.scopes].next, arg_count, frame_index)

ThisScope == StackScope(rl.scopes, arg_count, frame_index)

TargetScope(offset) == IF offset = 0 THEN ThisScope ELSE scopes[ScopeId(offset)]

\* frame_pointer[i - 1], on the stack or in the captured frame.
SlotExists(scope, i) ==
  IF scope.type = "stack"
  THEN scope.frame_index + i - 1 \in DOMAIN stack
  ELSE i \in DOMAIN scope.atoms

Slot(scope, i) ==
  IF scope.type = "stack" THEN stack[scope.frame_index + i - 1] ELSE scope.atoms[i]

\* frame_pointer[0] is a runtime lambda.
HasFrame(offset) ==
  LET scope == TargetScope(offset)
  IN  /\ offset > 0 => ScopeId(offset) \in DOMAIN scopes
      /\ scope.type # "env"
      /\ SlotExists(scope, 1)
      /\ IsType(Slot(scope, 1), "runtime_lambda")

TargetLambda(offset) == Compiled(Slot(TargetScope(offset), 1))

\* slip: the running frame's number of arguments for the outer frame's
VariableSlotByRunningFrame(instruction) ==
  instruction.arg + 2 + IF instruction.op = "LOAD_ARG" THEN 0 ELSE arg_count

\* Where the variable `instruction` names lies in its frame.
VariableSlot(instruction) ==
  IF instruction.op = "LOAD_ARG"
  THEN instruction.arg + 2
  ELSE TargetScope(instruction.offset).arg_count + instruction.arg + 2

HasVariable(instruction) ==
  LET scope == TargetScope(instruction.offset)
  IN  /\ instruction.offset > 0 => ScopeId(instruction.offset) \in DOMAIN scopes
      /\ scope.type # "env"
      /\ instruction.arg >= 0
      /\ IF instruction.op = "LOAD_ARG"
         THEN instruction.arg < scope.arg_count
         ELSE HasFrame(instruction.offset)
                /\ instruction.arg < TargetLambda(instruction.offset).var_count
      /\ SlotExists(scope, VariableSlot(instruction))

\* slips: an escape that was seen earlier is forgotten; a lambda that is not
\* the atom itself is not seen
EscapedNow(subject) == frame_scope # NULL /\ Mentions(scopes, pairs, subject, frame_scope)
EscapedItself(subject) ==
  scope_escaped \/ (IsType(subject, "runtime_lambda") /\ subject.scopes = frame_scope /\ frame_scope # NULL)

\* check_atom_for_escaped_scope(subject)
EscapedBy(subject) ==
  scope_escaped \/ (frame_scope # NULL /\ Mentions(scopes, pairs, subject, frame_scope))

\* The global environment hangs off the end of the scope chain.
HasEnv ==
  LET end[s \in 0..Len(scopes)] ==
        s # NULL /\ IF scopes[s].next = NULL THEN scopes[s].type = "env" ELSE end[scopes[s].next]
  IN  end[rl.scopes]

Key == Compiled(rl).literals[Current.arg + 1]

HasLiteral(lambda, index) == index + 1 \in DOMAIN lambda.literals

-----------------------------------------------------------------------------
(* Calling a C function: the arguments have been evaluated once, and the   *)
(* function evaluates them again (eval_atom).  Here are the calls that     *)
(* need no other code to run: of three functions, without a pair among the *)
(* arguments.  TreeWalker has all of them, and the calls of walked lambdas *)
(* (type "lambda"), which it makes.                                        *)

EvalAtom(atom) ==
  CASE IsType(atom, "sym") -> IF Bound(env, atom.sym) THEN EnvGet(env, atom.sym) ELSE Nil
    [] atom.type \in {"nil", "true", "false", "num"} -> atom
    [] OTHER -> Nil

\* How many arguments a builtin takes out of the list without a look at its
\* end.
BuildinArity(func) ==
  CASE func \in ArithmeticFunc \cup CompareFunc -> 2
    [] func \in {"begin", "gc_heap_size"} -> 0
    [] OTHER -> 1

SimpleFunc == {"print", "gc_heap_size", "plus"}

BuildinResults(func, actuals) ==
  LET value(i) == EvalAtom(actuals[i])
  IN  CASE func = "print" -> {Nil}
        [] func = "gc_heap_size" -> {Num(n) : n \in HeapSize}
        [] func = "plus" ->
             IF IsType(value(1), "num") /\ IsType(value(2), "num")
             THEN {Num(Wrap(value(1).num + value(2).num))}
             ELSE {Nil}

Callee == Top(Current.arg)
Actuals == SubSeq(stack, Len(stack) - Current.arg + 1, Len(stack))

-----------------------------------------------------------------------------
(* What an instruction needs so that the process survives it.              *)

Computes(op, a, b) ==
  /\ IsType(a, "num") /\ IsType(b, "num")
  /\ op \in {"DIV", "MOD"} => ~DivisionTraps(a.num, b.num)

\* Comparing atoms of one type is only implemented for numbers.
Compares(a, b) == a.type = b.type => IsType(a, "num")

\* slip: the local variables stay on the stack
FrameWithoutVariables == 1 + arg_count

\* The end of the function: what lies under the return value.
FrameSize == 1 + arg_count + Compiled(rl).var_count

\* slip: one atom too many, the saved state
FrameAndState == SubSeq(stack, frame_index, frame_index + FrameSize)

\* What is copied to the heap of a frame that escapes.
FrameAtoms == SubSeq(stack, frame_index, frame_index + FrameSize - 1)

Returns ==
  LET state == Top(1)
  IN  /\ Len(stack) >= FrameSize + 2
      /\ EscapedBy(Top(0)) =>
           frame_scope \in DOMAIN scopes /\ frame_index + FrameSize - 1 <= Len(stack) - 2
      /\ IsType(state, "interpreter_state") =>
           /\ state.fp_index \in 1..(Len(stack) - FrameSize - 2)
           /\ IsType(stack[state.fp_index], "runtime_lambda")
           /\ state.ip_index + 1 \in DOMAIN Compiled(stack[state.fp_index]).code

\* The jump is taken.
IsTaken == Current.op = "JUMP" \/ (Current.op = "JUMP_IF_FALSE" /\ Top(0) = False)

\* slips: the jump counts from the instruction after the next one; a store
\* leaves the loop's body before its ip++
NextIpTwice == IF IsTaken THEN ip + Current.arg + 2 ELSE ip + 1
NextIpStuck ==
  IF Current.op = "STORE_LOCAL" THEN ip ELSE IF IsTaken THEN ip + Current.arg + 1 ELSE ip + 1

\* Jumps are relative to the instruction after the jump.
NextIp == IF IsTaken THEN ip + Current.arg + 1 ELSE ip + 1

Executable ==
  LET op == Current.op
  IN  /\ Operands(Current) \in 0..Len(stack)
      /\ op \in {"LOAD_LITERAL", "LOAD_LAMBDA"} =>
           /\ HasFrame(Current.offset)
           /\ HasLiteral(TargetLambda(Current.offset), Current.arg)
           /\ IsType(TargetLambda(Current.offset).literals[Current.arg + 1], "compiled_lambda")
                <=> op = "LOAD_LAMBDA"
      /\ op \in LoadVariableOp \cup {"STORE_LOCAL"} => HasVariable(Current)
      /\ op \in {"LOAD_ENV", "STORE_ENV"} =>
           HasEnv /\ HasLiteral(Compiled(rl), Current.arg) /\ IsType(Key, "sym")
      /\ op \in ArithmeticOp => Computes(op, Top(1), Top(0))
      /\ op \in CompareOp => Compares(Top(1), Top(0))
      /\ op \in PartOp => IsType(Top(0), "pair") /\ Top(0).cell \in DOMAIN pairs
      /\ op = "CALL" =>
           /\ Current.arg >= 0
           /\ Callee.type \in {"runtime_lambda", "buildin", "lambda"}
           /\ IsType(Callee, "buildin") => Current.arg >= BuildinArity(Callee.func)
      /\ op = "RETURN" => Returns
      /\ op = "RETURN" \/ (op = "CALL" /\ IsType(Callee, "runtime_lambda")) \/ NextIp \in DOMAIN Code

Executing(ops) == status = "running" /\ Current.op \in ops /\ Executable

-----------------------------------------------------------------------------
(* Loads.                                                                  *)

Push(atom) == stack' = Append(stack, atom)

LoadConstant ==
  /\ Executing(LoadConstantOp)
  /\ Push(CASE Current.op = "LOAD_NIL" -> Nil
            [] Current.op = "LOAD_TRUE" -> True
            [] Current.op = "LOAD_FALSE" -> False
            [] Current.op = "LOAD_NUM" -> Num(Wrap(Current.arg)))
  /\ ip' = NextIp
  /\ UNCHANGED <<memory, registers, session, result, status>>

LoadLiteral ==
  /\ Executing({"LOAD_LITERAL"})
  /\ Push(TargetLambda(Current.offset).literals[Current.arg + 1])
  /\ ip' = NextIp
  /\ UNCHANGED <<memory, registers, session, result, status>>

\* slip: a scope for each lambda
ScopePerLambda == TRUE

\* The first lambda an activation builds allocates the scope of its frame;
\* the others share it.
NeedsScope == frame_scope = NULL

LoadLambda ==
  /\ Executing({"LOAD_LAMBDA"})
  /\ IF NeedsScope
     THEN /\ scopes' = Append(scopes, ThisScope)
          /\ frame_scope' = Len(scopes) + 1
     ELSE UNCHANGED <<scopes, frame_scope>>
  /\ Push(RuntimeLambda(TargetLambda(Current.offset).literals[Current.arg + 1].id, frame_scope'))
  /\ ip' = NextIp
  /\ UNCHANGED <<env, pairs, frame_index, arg_count, rl, scope_escaped, session, result, status>>

LoadVariable ==
  /\ Executing(LoadVariableOp)
  /\ Push(Slot(TargetScope(Current.offset), VariableSlot(Current)))
  /\ ip' = NextIp
  /\ UNCHANGED <<memory, registers, session, result, status>>

LoadEnv ==
  /\ Executing({"LOAD_ENV"})
  /\ Push(IF Bound(env, Key.sym) THEN EnvGet(env, Key.sym) ELSE Nil)
  /\ ip' = NextIp
  /\ UNCHANGED <<memory, registers, session, result, status>>

-----------------------------------------------------------------------------
(* Stores leave the value on the stack.                                    *)

\* The escape check is made for a store into another frame, and looks for the
\* scope of the running activation only.
StoreLocal ==
  /\ Executing({"STORE_LOCAL"})
  /\ scope_escaped' = IF Current.offset > 0 THEN EscapedBy(Top(0)) ELSE scope_escaped
  /\ LET scope == TargetScope(Current.offset)
     IN  IF scope.type = "stack"
         THEN /\ stack' = [stack EXCEPT ![scope.frame_index + VariableSlot(Current) - 1] = Top(0)]
              /\ UNCHANGED scopes
         ELSE /\ scopes' = [scopes EXCEPT ![ScopeId(Current.offset)].atoms[VariableSlot(Current)] = Top(0)]
              /\ UNCHANGED stack
  /\ ip' = NextIp
  /\ UNCHANGED <<env, pairs, frame_index, arg_count, rl, frame_scope, session, result, status>>

StoreEnv ==
  /\ Executing({"STORE_ENV"})
  /\ scope_escaped' = EscapedBy(Top(0))
  /\ env' = EnvSet(env, Key.sym, Top(0))
  /\ ip' = NextIp
  /\ UNCHANGED <<scopes, pairs, stack, frame_index, arg_count, rl, frame_scope, session, result, status>>

-----------------------------------------------------------------------------
(* Control.                                                                *)

Drop ==
  /\ Executing({"DROP"})
  /\ stack' = Pop(1)
  /\ ip' = NextIp
  /\ UNCHANGED <<memory, registers, session, result, status>>

Jump ==
  /\ Executing({"JUMP"})
  /\ ip' = NextIp
  /\ UNCHANGED <<memory, stack, registers, session, result, status>>

JumpIfFalse ==
  /\ Executing({"JUMP_IF_FALSE"})
  /\ stack' = Pop(1)
  /\ ip' = NextIp
  /\ UNCHANGED <<memory, registers, session, result, status>>

\* The callee's frame starts at the callee itself, which the caller pushed
\* before the arguments.  Their number is not checked.
CallRuntimeLambda ==
  /\ Executing({"CALL"})
  /\ IsType(Callee, "runtime_lambda")
  /\ rl' = Callee
  /\ arg_count' = Current.arg
  /\ frame_index' = Len(stack) - Current.arg
  /\ frame_scope' = NULL
  /\ scope_escaped' = FALSE
  /\ ip' = 1
  /\ stack' = stack \o Nils(Compiled(Callee).var_count)
                \o <<InterpreterState(frame_index, ip, arg_count, scope_escaped, frame_scope)>>
  /\ UNCHANGED <<memory, session, result, status>>

CallBuildin ==
  /\ Executing({"CALL"})
  /\ IsType(Callee, "buildin")
  /\ Callee.func \in SimpleFunc
  /\ \A i \in DOMAIN Actuals : ~IsType(Actuals[i], "pair")
  /\ \E value \in BuildinResults(Callee.func, Actuals) :
       stack' = Append(Pop(Current.arg + 1), value)
  /\ ip' = NextIp
  /\ UNCHANGED <<memory, registers, session, result, status>>

\* A frame whose scope escaped is copied to the heap before it is popped.
\* What lies under the return value tells a nested call from bci_eval's own.
Return ==
  /\ Executing({"RETURN"})
  /\ scopes' = IF EscapedBy(Top(0))
               THEN [scopes EXCEPT ![frame_scope] = Captured(@, FrameAtoms)]
               ELSE scopes
  /\ LET state == Top(1)
         caller == stack[state.fp_index]
     IN  IF IsType(state, "interpreter_state")
         THEN /\ arg_count' = state.arg_count
              /\ frame_index' = state.fp_index
              /\ rl' = caller
              /\ ip' = state.ip_index + 1
              /\ frame_scope' = state.frame_scope
              /\ scope_escaped' = state.scope_escaped
              /\ stack' = Append(Pop(FrameSize + 2), Top(0))
              /\ UNCHANGED <<result, status>>
         ELSE /\ result' = Top(0)
              /\ status' = "returned"
              /\ stack' = Pop(FrameSize + 2)
              /\ scope_escaped' = EscapedBy(Top(0))
              /\ UNCHANGED <<frame_index, arg_count, rl, ip, frame_scope>>
  /\ UNCHANGED <<env, pairs, session>>

-----------------------------------------------------------------------------
(* Computation.                                                            *)

ArithmeticResult(op, a, b) ==
  Num(Wrap(CASE op = "ADD" -> a + b
             [] op = "SUB" -> a - b
             [] op = "MUL" -> a * b
             [] op = "DIV" -> Quotient(a, b)
             [] op = "MOD" -> Remainder(a, b)))

Arithmetic ==
  /\ Executing(ArithmeticOp)
  /\ stack' = Append(Pop(2), ArithmeticResult(Current.op, Top(1).num, Top(0).num))
  /\ ip' = NextIp
  /\ UNCHANGED <<memory, registers, session, result, status>>

CompareResult(op, a, b) ==
  IF /\ a.type = b.type
     /\ CASE op = "EQ" -> a.num = b.num
          [] op = "LT" -> a.num < b.num
          [] op = "GT" -> a.num > b.num
  THEN True ELSE False

Compare ==
  /\ Executing(CompareOp)
  /\ stack' = Append(Pop(2), CompareResult(Current.op, Top(1), Top(0)))
  /\ ip' = NextIp
  /\ UNCHANGED <<memory, registers, session, result, status>>

BuildPair ==
  /\ Executing({"CONS"})
  /\ pairs' = Append(pairs, [first |-> Top(1), rest |-> Top(0)])
  /\ stack' = Append(Pop(2), Pair(Len(pairs) + 1))
  /\ ip' = NextIp
  /\ UNCHANGED <<env, scopes, registers, session, result, status>>

TakePart ==
  /\ Executing(PartOp)
  /\ LET cell == pairs[Top(0).cell]
     IN  stack' = Append(Pop(1), IF Current.op = "FIRST" THEN cell.first ELSE cell.rest)
  /\ ip' = NextIp
  /\ UNCHANGED <<memory, registers, session, result, status>>

\* A failed assertion or a NULL pointer: the process is gone.
Fault ==
  /\ status = "running"
  /\ ~Executable
  /\ status' = "crashed"
  /\ UNCHANGED <<memory, stack, registers, ip, session, result>>

Execute ==
  \/ LoadConstant \/ LoadLiteral \/ LoadLambda \/ LoadVariable \/ LoadEnv
  \/ StoreLocal \/ StoreEnv
  \/ Drop \/ Jump \/ JumpIfFalse \/ CallRuntimeLambda \/ CallBuildin \/ Return
  \/ Arithmetic \/ Compare \/ BuildPair \/ TakePart
  \/ Fault

-----------------------------------------------------------------------------
(* The top level.                                                          *)

\* bci_eval(bci_new(...), lambda, actuals, env) up to the loop.
EnterLoop(lambda, actuals) ==
  /\ rl' = lambda
  /\ args' = actuals
  /\ frame_index' = Len(stack) + 1
  /\ arg_count' = Len(actuals)
  /\ frame_scope' = NULL
  /\ scope_escaped' = FALSE
  /\ ip' = 1
  /\ result' = Nil
  /\ IF Len(actuals) = Compiled(lambda).arg_count
     THEN /\ stack' = Append(stack, lambda) \o actuals \o Nils(Compiled(lambda).var_count + 1)
          /\ status' = "running"
     ELSE /\ stack' = Append(stack, lambda) \o actuals
          /\ status' = "returned"

Enter(f) ==
  /\ status = "idle"
  /\ forms < MaxForms
  /\ forms' = forms + 1
  /\ form' = f

\* (define sym (lambda ...)) while __compile_lambdas is true
DefineLambda ==
  \E f \in Form :
    /\ f.form = "lambda"
    /\ Enter(f)
    /\ scopes' = Append(scopes, EnvScope)
    /\ env' = EnvDef(env, f.sym, RuntimeLambda(f.cl, Len(scopes) + 1))
    /\ UNCHANGED <<pairs, stack, registers, ip, args, result, status>>

\* eval_atom hands the arguments over as they were read.
CallGlobal ==
  \E f \in Form :
    /\ f.form = "call"
    /\ Enter(f)
    /\ Bound(env, f.func)
    /\ IsType(EnvGet(env, f.func), "runtime_lambda")
    /\ EnterLoop(EnvGet(env, f.func), f.args)
    /\ UNCHANGED memory

\* interprete_files: the file is the body of one lambda without arguments.
RunFile ==
  \E f \in Form :
    /\ f.form = "file"
    /\ Enter(f)
    /\ scopes' = Append(scopes, EnvScope)
    /\ EnterLoop(RuntimeLambda(f.cl, Len(scopes) + 1), << >>)
    /\ UNCHANGED <<env, pairs>>

\* bci_destroy, and the binding of (define sym (func ...)).
Finish ==
  /\ status = "returned"
  /\ stack' = << >>
  /\ env' = IF form.sym = NoName THEN env ELSE EnvDef(env, form.sym, result)
  /\ status' = "idle"
  /\ UNCHANGED <<scopes, pairs, registers, ip, session, result>>

TopLevel == DefineLambda \/ CallGlobal \/ RunFile \/ Finish

\* The input ends, or the process is gone.
Done ==
  /\ status \in {"idle", "crashed"}
  /\ UNCHANGED vars

Init ==
  /\ env = Global
  /\ scopes = << >>
  /\ pairs = QuotedPair
  /\ stack = << >>
  /\ frame_index = 0 /\ arg_count = 0 /\ frame_scope = NULL /\ scope_escaped = FALSE
  /\ rl = Nil
  /\ ip = 0
  /\ args = << >>
  /\ result = Nil
  /\ form = [form |-> "none", sym |-> NoName]
  /\ forms = 0
  /\ status = "idle"

Next == Execute \/ TopLevel \/ Done

\* The loop of bci_eval and the read-eval loop run until they are done.
Spec == Init /\ [][Next]_vars /\ WF_vars(Execute \/ TopLevel)

-----------------------------------------------------------------------------
(* Types.                                                                  *)

Status == {"idle", "running", "returned", "crashed"}

\* Every variable has its type; while the loop runs, rl is a runtime lambda
\* and ip is inside its code (the assertion at the end of the loop, which
\* does not look below the first instruction, and the run of CALL past it).
TypeOK ==
  /\ env \in Seq(Binding)
  /\ scopes \in Seq(Scope)
  /\ pairs \in Seq(PairCell)
  /\ stack \in Seq(Atom)
  /\ frame_index \in Nat /\ arg_count \in Nat /\ frame_scope \in Nat
  /\ scope_escaped \in BOOLEAN
  /\ rl \in Atom
  /\ ip \in Int
  /\ args \in Seq(Value)
  /\ result \in Atom
  /\ form.sym \in Symbol \cup {NoName}
  /\ forms \in 0..MaxForms
  /\ status \in Status
  /\ status = "running" =>
       IsType(rl, "runtime_lambda") /\ frame_index > 0 /\ ip \in DOMAIN Code

-----------------------------------------------------------------------------
(* Closures.                                                               *)

\* The scopes of the activations on the stack: the running one and those whose
\* registers a saved state holds.
LiveScopes ==
  IF status # "running" THEN {}
  ELSE ({frame_scope} \cup
          {stack[k].frame_scope : k \in {j \in DOMAIN stack : IsType(stack[j], "interpreter_state")}})
         \ {NULL}

\* The scopes that an atom keeps alive by itself.
ScopesOf(atom) == {s \in DOMAIN scopes : Mentions(scopes, pairs, atom, s)}

\* ... and all that can be reached, through the frames on the heap too.
ReachableScopes(roots) ==
  LET more[n \in 0..Len(scopes)] ==
        IF n = 0 THEN UNION {ScopesOf(a) : a \in roots}
        ELSE LET known == more[n - 1]
                 held(s) == {scopes[s].atoms[i] : i \in DOMAIN scopes[s].atoms}
             IN  known \cup UNION {ScopesOf(a) : a \in UNION {held(s) : s \in known}}
  IN  more[Len(scopes)]

Roots ==
  {env[i].value : i \in DOMAIN env} \cup {stack[i] : i \in DOMAIN stack}
    \cup (IF status = "returned" THEN {result} ELSE {})

\* A closure that can still be called never refers to the stack frame of an
\* activation that is gone: every frame was copied to the heap in time
\* (README: "Stack frames are copied to GC heap space if they were captured
\* by one or more lambdas (recursively)").
NoDanglingScope ==
  status # "crashed" =>
    \A s \in ReachableScopes(Roots) : scopes[s].type = "stack" => s \in LiveScopes

\* An instruction that reaches out of its own frame finds the frame of a
\* living activation, or one on the heap.
OuterFrameAlive ==
  status = "running" /\ Current.offset > 0 /\ ScopeId(Current.offset) \in DOMAIN scopes =>
    LET s == ScopeId(Current.offset)
    IN  scopes[s].type = "stack" => s \in LiveScopes

\* The frames on the stack that an atom refers to, and the scopes that a closure
\* over the scope s finds.
FramesIn(atom) == {s \in ScopesOf(atom) : scopes[s].type = "stack"}
ChainOf(s) == {u \in DOMAIN scopes : OnChain(scopes, s, u)}

\* What leaves an activation, by a store or in a captured frame, refers to no
\* frame on the stack but the activation's own, the one that
\* check_atom_for_escaped_scope looks for, and those that the place it goes to
\* refers to already.
EscapesSeen ==
  status = "running" /\ Executable =>
    /\ Current.op = "STORE_ENV" => FramesIn(Top(0)) \subseteq {frame_scope}
    /\ Current.op = "STORE_LOCAL" /\ Current.offset > 0 =>
         FramesIn(Top(0)) \subseteq {frame_scope} \cup ChainOf(ScopeId(Current.offset))
    /\ Current.op = "RETURN" /\ EscapedBy(Top(0)) =>
         \A i \in DOMAIN FrameAtoms : FramesIn(FrameAtoms[i]) \subseteq ChainOf(frame_scope)

\* The registers that BC_CALL saves lie between the variables and the operands
\* of a frame, and never leave it: no load reads them, and no frame that is
\* copied, no store and no result contains them.
SavedStateHidden ==
  LET hidden(atom) == ~IsType(atom, "interpreter_state")
  IN  /\ \A i \in DOMAIN env : hidden(env[i].value)
      /\ \A c \in DOMAIN pairs : hidden(pairs[c].first) /\ hidden(pairs[c].rest)
      /\ \A s \in DOMAIN scopes : \A i \in DOMAIN scopes[s].atoms : hidden(scopes[s].atoms[i])
      /\ hidden(result)

\* A function that was given as many arguments as it has leaves nothing on the
\* stack, however deep its calls went: each frame is taken off whole, variables
\* and saved state included.  With another number of arguments it has not run,
\* and the half of its frame that was built is all that it leaves.
StackReleased ==
  status = "returned" =>
    stack = IF Len(args) = Compiled(rl).arg_count THEN << >> ELSE <<rl>> \o args

\* What a program can do wrong by itself: a type error, a division that traps,
\* a variable of a call that passed too few arguments.
ProgramFault ==
  LET op == Current.op
  IN  \/ op \in ArithmeticOp /\ ~Computes(op, Top(1), Top(0))
      \/ op \in CompareOp /\ ~Compares(Top(1), Top(0))
      \/ op \in PartOp /\ ~IsType(Top(0), "pair")
      \/ op = "CALL" /\ IF IsType(Callee, "buildin")
                        THEN Current.arg < BuildinArity(Callee.func)
                        ELSE Callee.type \notin {"runtime_lambda", "lambda"}
      \/ /\ op = "LOAD_ARG"
         /\ HasFrame(Current.offset)
         /\ TargetScope(Current.offset).arg_count < TargetLambda(Current.offset).arg_count

\* The process only ends by an assertion or a signal for such a fault: never
\* because the stack ran empty, because a frame, a variable or a saved state
\* is not where the code looks for it, or because ip left the code.
FaultsExplained == status = "crashed" => ProgramFault

\* Every evaluation ends: the machine always makes progress.
EvaluationEnds == status = "running" ~> status # "running"
=============================================================================
