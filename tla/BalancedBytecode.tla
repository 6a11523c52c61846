-------------------------- MODULE BalancedBytecode --------------------------
(***************************************************************************)
(* The frame layout that bytecode_interpreter.c documents above bci_eval,  *)
(* and the condition on compiled code under which it is kept: "right now   *)
(* we're done for if a function does not pop as many values as it pushes". *)
(* Then the names of the source: the scope in which an instruction that    *)
(* reaches out by its offset finds what it names.                          *)
(***************************************************************************)
EXTENDS BytecodeInterpreter

\* Values an instruction leaves in place of its operands.
Pushes(instruction) ==
  IF instruction.op \in {"DROP", "JUMP", "JUMP_IF_FALSE"} THEN 0 ELSE 1

\* The instructions of the same lambda that can run after instruction i.
Successors(code, i) ==
  CASE code[i].op = "RETURN" -> {}
    [] code[i].op = "JUMP" -> {i + 1 + code[i].arg}
    [] code[i].op = "JUMP_IF_FALSE" -> {i + 1, i + 1 + code[i].arg}
    [] OTHER -> {i + 1}

DepthAfter(code, i, depth) == depth - Operands(code[i]) + Pushes(code[i])

\* Number of operands on the stack before each instruction of a lambda,
\* following the jumps forward (the compiler emits no other ones).
DepthsOf(code) ==
  LET depth[i \in DOMAIN code] ==
        LET before == {j \in 1..(i - 1) : i \in Successors(code, j)}
        IN  IF before = {} THEN 0
            ELSE LET j == CHOOSE j \in before : TRUE IN DepthAfter(code, j, depth[j])
  IN  depth

StackDepth == [id \in LambdaId |-> DepthsOf(CompiledLambda[id].code)]

\* Every path to an instruction leaves the same number of operands, enough
\* for it, and RETURN finds exactly the return value.
Balanced(code, depth) ==
  /\ depth \in [DOMAIN code -> Nat]
  /\ depth[1] = 0
  /\ \A i \in DOMAIN code :
       /\ Operands(code[i]) \in 0..depth[i]
       /\ code[i].op = "RETURN" => depth[i] = 1
       /\ \A j \in Successors(code, i) \cap DOMAIN code :
            depth[j] = DepthAfter(code, i, depth[i])

BalancedCode == \A id \in LambdaId : Balanced(CompiledLambda[id].code, StackDepth[id])

\* The code that runs leaves each frame as many operands as it documents: one
\* per CALL and RETURN, whatever way its jumps took.
RunsBalancedCode == status = "running" => Balanced(Code, StackDepth[rl.cl])

-----------------------------------------------------------------------------
(* Names.  The compiler turns a name into an offset, the number of lambdas *)
(* between its use and the one that has it, and an index there.            *)

\* The lambdas around each lambda, innermost first: a lambda is a literal of
\* the one around it.
OuterLambdas ==
  LET holders(id) ==
        {h \in LambdaId : \E i \in DOMAIN CompiledLambda[h].literals :
           CompiledLambda[h].literals[i] = [type |-> "compiled_lambda", id |-> id]}
      outer[id \in LambdaId] ==
        IF holders(id) = {} THEN << >>
        ELSE LET h == CHOOSE h \in holders(id) : TRUE IN <<h>> \o outer[h]
  IN  [id \in LambdaId |-> outer[id]]

\* The lambda that a scope of `id` is built in, if any.
Around(id) == IF OuterLambdas[id] = << >> THEN {} ELSE {OuterLambdas[id][1]}

LambdaAt(id, offset) == IF offset = 0 THEN id ELSE OuterLambdas[id][offset]

\* An instruction names an argument, a variable or a literal that the lambda
\* `offset` lambdas out has, and is followed by instructions of its own lambda.
\* A lambda is only loaded by the one around it.
ScopedInstruction(id, i) ==
  LET code == CompiledLambda[id].code
      instruction == code[i]
      op == instruction.op
      own == CompiledLambda[id].literals
      target == CompiledLambda[LambdaAt(id, instruction.offset)]
      literal == target.literals[instruction.arg + 1]
  IN  /\ Successors(code, i) \subseteq DOMAIN code
      /\ instruction.offset \in 0..Len(OuterLambdas[id])
      /\ op = "LOAD_ARG" => instruction.arg \in 0..(target.arg_count - 1)
      /\ op \in {"LOAD_LOCAL", "STORE_LOCAL"} => instruction.arg \in 0..(target.var_count - 1)
      /\ op = "LOAD_LITERAL" =>
           /\ HasLiteral(target, instruction.arg)
           /\ ~IsType(literal, "compiled_lambda") /\ IsData(literal)
      /\ op = "LOAD_LAMBDA" =>
           /\ HasLiteral(target, instruction.arg)
           /\ IsType(literal, "compiled_lambda") /\ Around(literal.id) = {id}
      /\ op \in {"LOAD_ENV", "STORE_ENV"} =>
           instruction.arg + 1 \in DOMAIN own /\ IsType(own[instruction.arg + 1], "sym")
      /\ op = "CALL" => instruction.arg >= 0

Scoped(id) ==
  /\ OuterLambdas[id] \in Seq(LambdaId)
  /\ \A n \in 1..(Len(OuterLambdas[id]) - 1) :
       Around(OuterLambdas[id][n]) = {OuterLambdas[id][n + 1]}
  /\ \A i \in DOMAIN CompiledLambda[id].code : ScopedInstruction(id, i)

\* Lambdas of the top level have none around them.
ScopedCode ==
  /\ \A id \in LambdaId : Scoped(id)
  /\ \A f \in Form : f.form \in {"lambda", "file"} => OuterLambdas[f.cl] = << >>

\* What the compiler hands to the machine names only what exists: an argument,
\* a variable or a literal that the lambda `offset` lambdas out really has.
RunsScopedCode == status = "running" => Scoped(rl.cl)

\* Scoping is lexical: whoever called the running lambda and whatever became of
\* the activation it was made in, an instruction that reaches out by `offset`
\* lambdas finds a frame of the lambda that is that far out in the text.
FindsNamedLambda ==
  status = "running" =>
    /\ HasFrame(Current.offset)
    /\ Slot(TargetScope(Current.offset), 1).cl = LambdaAt(rl.cl, Current.offset)

-----------------------------------------------------------------------------
(* The layout.  An activation is described by what BC_CALL saves of it.    *)

\* The slot of the saved state of the frame at index fi.
StateSlot(fi, argc) == fi + 1 + argc + Compiled(stack[fi]).var_count

IsState(k) == k \in DOMAIN stack /\ IsType(stack[k], "interpreter_state")

\* In the frame that starts at fi, the operands end at index `top` when
\* instruction i is about to run.
OperandsEndAt(fi, argc, i, top) ==
  /\ IsType(stack[fi], "runtime_lambda")
  /\ i \in DOMAIN Compiled(stack[fi]).code
  /\ top = StateSlot(fi, argc) + StackDepth[stack[fi].cl][i]

\* The call that the activation saved in `state` is waiting for, and the frame
\* of its callee.
PendingCall(state) == Compiled(stack[state.fp_index]).code[state.ip_index]

CalleeFrame(state) ==
  StateSlot(state.fp_index, state.arg_count)
    + StackDepth[stack[state.fp_index].cl][state.ip_index] - PendingCall(state).arg

\* The frame at fi is bci_eval's own, marked by a nil, or was entered by the
\* call that its saved state stands for.
Linked(fi, argc) ==
  IF fi = 1
  THEN /\ argc = Len(args)
       /\ stack[StateSlot(fi, argc)] = Nil
  ELSE /\ IsState(StateSlot(fi, argc))
       /\ LET state == stack[StateSlot(fi, argc)]
          IN  CalleeFrame(state) = fi /\ PendingCall(state).arg = argc

\* The scope that an activation built for its lambdas describes its frame.
OwnScope(fi, argc, scope, escaped) ==
  IF scope = NULL
  THEN ~escaped
  ELSE /\ scope \in DOMAIN scopes
       /\ scopes[scope].type = "stack"
       /\ scopes[scope].frame_index = fi
       /\ scopes[scope].arg_count = argc

\* The running activation: lambda, arguments, variables, saved state and then
\* its operands up to the top of the stack, with no saved state among them.
CurrentFrame ==
  /\ frame_index \in DOMAIN stack
  /\ stack[frame_index] = rl
  /\ OperandsEndAt(frame_index, arg_count, ip, Len(stack))
  /\ Linked(frame_index, arg_count)
  /\ OwnScope(frame_index, arg_count, frame_scope, scope_escaped)
  /\ \A k \in (StateSlot(frame_index, arg_count) + 1)..Len(stack) : ~IsState(k)

\* A saved state in slot k restores an activation whose frame lies below that
\* of its callee, with no saved state in between.
SavedFrame(k) ==
  LET state == stack[k]
      slot == StateSlot(state.fp_index, state.arg_count)
  IN  /\ state.fp_index \in 1..(k - 1)
      /\ IsType(stack[state.fp_index], "runtime_lambda")
      /\ state.ip_index \in DOMAIN Compiled(stack[state.fp_index]).code
      /\ PendingCall(state).op = "CALL"
      /\ slot < CalleeFrame(state)
      /\ CalleeFrame(state) < k
      /\ IsType(stack[CalleeFrame(state)], "runtime_lambda")
      /\ k = StateSlot(CalleeFrame(state), PendingCall(state).arg)
      /\ Linked(state.fp_index, state.arg_count)
      /\ OwnScope(state.fp_index, state.arg_count, state.frame_scope, state.scope_escaped)
      /\ \A j \in (slot + 1)..(k - 1) : ~IsState(j)

\* "Frame layout on stack": the frames of all activations follow one another,
\* each saved state restores exactly the registers its caller had, and the
\* operands of every activation are those its code left there.
FrameLayout ==
  status = "running" =>
    /\ CurrentFrame
    /\ IsType(stack[1], "runtime_lambda")
    /\ \A k \in 1..StateSlot(1, Len(args)) : ~IsState(k)
    /\ \A k \in DOMAIN stack : IsState(k) => SavedFrame(k)
=============================================================================
