------------------------------ MODULE TreeWalker ------------------------------
(***************************************************************************)
(* eval_atom (eval.c) and the eval functions of the builtins (buildins.c)  *)
(* as steps of the C stack, so that they can call bci_eval and be called   *)
(* by it.  Each bci_eval that eval_atom starts has an execution stack of   *)
(* its own (bci_new(0)).                                                   *)
(*                                                                         *)
(* BytecodeInterpreter's variables are those of the bci_eval that runs;    *)
(* the ones of a bci_eval that waits for a C function are in its place on  *)
(* the C stack, and `status` is idle meanwhile.  Code is an expression, as *)
(* in BytecodeCompiler and AstInterpreter; on the heap it is pairs.        *)
(*                                                                         *)
(* Left out: lambdas compiled by a walked lambda (__compile_lambdas is     *)
(* turned off once, and not on again), divisions that trap, gc_heap_size.  *)
(***************************************************************************)
EXTENDS BytecodeInterpreter, AstInterpreter
LOCAL INSTANCE SequencesExt

CONSTANT Source  \* the lambdas of the programs before compilation: [names, body]

VARIABLES
  locals,   \* environments 2, 3, ... of walked calls; environment 1 is env
  calls,    \* the C functions that wait for a call to return, innermost last
  control   \* what the C function that runs is about to do

walker == <<locals, calls, control>>

-----------------------------------------------------------------------------
(* Control.                                                                *)

AtPrompt == [at |-> "prompt"]
Entering(expr, e) == [at |-> "eval", expr |-> expr, env |-> e]
Answering(value) == [at |-> "answer", value |-> value]
InBuildin == [at |-> "buildin"]
InMachine(e) == [at |-> "machine", env |-> e]

\* eval_atom evaluates the function slot; a builtin evaluates the first of its
\* `pending` operands; eval_atom evaluates an argument for the first of `names`.
SlotCall(e, operands) == [call |-> "slot", env |-> e, operands |-> operands]
BuildinCall(func, e, operands, pending) ==
  [call |-> "buildin", func |-> func, env |-> e, operands |-> operands,
   pending |-> pending, values |-> << >>]
LambdaCall(lambda, own, e, operands) ==
  [call |-> "lambda", names |-> lambda.args, body |-> lambda.body, own |-> own,
   env |-> e, operands |-> operands]

\* slip: the function and its arguments stay on the stack
MachineCallUnpopped(rest) ==
  [call |-> "bci_eval", env |-> control.env, stack |-> stack, ip |-> ip, args |-> args,
   frame_index |-> frame_index, arg_count |-> arg_count, rl |-> rl,
   frame_scope |-> frame_scope, scope_escaped |-> scope_escaped]

\* bci_eval, in BC_CALL of a C function, with the `rest` of its stack.
MachineCall(rest) ==
  [call |-> "bci_eval", env |-> control.env, stack |-> rest, ip |-> ip, args |-> args,
   frame_index |-> frame_index, arg_count |-> arg_count, rl |-> rl,
   frame_scope |-> frame_scope, scope_escaped |-> scope_escaped]

Waiting(call) == control.at = "answer" /\ calls # << >> /\ Last(calls).call = call

-----------------------------------------------------------------------------
(* Environments and code.                                                  *)

Chain == <<[parent |-> NULL, bindings |-> env]>> \o locals
KeepChain(chain) == env' = chain[1].bindings /\ locals' = Tail(chain)

\* The environment a walked call gets.
NewEnv == Len(locals) + 2

\* Code as an atom, its pairs being on the heap.
RECURSIVE Built(_, _)
Built(cells, expr) ==
  IF expr.type # "list" THEN [pairs |-> cells, atom |-> expr]
  ELSE FoldRight(
         LAMBDA item, rest :
           LET first == Built(rest.pairs, item)
           IN  [pairs |-> Append(first.pairs, [first |-> first.atom, rest |-> rest.atom]),
                atom |-> Pair(Len(first.pairs) + 1)],
         expr.items, [pairs |-> cells, atom |-> Nil])

BuiltAll(cells, exprs) ==
  FoldLeft(LAMBDA done, expr :
             LET one == Built(done.pairs, expr)
             IN  [pairs |-> one.pairs, atoms |-> Append(done.atoms, one.atom)],
           [pairs |-> cells, atoms |-> << >>], exprs)

\* ... and an atom as code.
RECURSIVE AsCode(_)
AsCode(atom) ==
  IF ~IsType(atom, "pair") THEN atom
  ELSE [type |-> "list",
        items |-> <<AsCode(pairs[atom.cell].first)>> \o Items(AsCode(pairs[atom.cell].rest))]

-----------------------------------------------------------------------------
(* eval_atom.                                                              *)

EvalSelfOrSymbol ==
  /\ control.at = "eval" /\ control.expr.type # "list"
  /\ LET expr == control.expr
     IN  control' = Answering(
           CASE expr.type = "sym" /\ EnvWith(Chain, control.env, expr.sym) # NULL ->
                  ChainGet(Chain, control.env, expr.sym)
             [] expr.type \in {"nil", "true", "false", "num"} -> expr
             [] OTHER -> Nil)
  /\ UNCHANGED <<vars, locals, calls>>

EvalSlot ==
  /\ control.at = "eval" /\ control.expr.type = "list"
  /\ LET items == control.expr.items
     IN  /\ calls' = Append(calls, SlotCall(control.env, Tail(items)))
         /\ control' = Entering(Head(items), control.env)
  /\ UNCHANGED <<vars, locals>>

\* The operands a builtin evaluates, in this order.  C leaves the one of cons
\* open.
ToEvaluate(func, operands) ==
  CASE func \in {"define", "set"} -> <<operands[2]>>
    [] func = "begin" -> operands
    [] func = "cons" -> IF ConsFromRight THEN Reverse(operands) ELSE operands
    [] func \in {"if", "first", "rest", "print"} -> <<operands[1]>>
    [] func \in {"quote", "lambda"} -> << >>
    [] OTHER -> SubSeq(operands, 1, 2)

\* A builtin evaluates its next operand, or has evaluated all.
GoOn(outer, frame) ==
  IF frame.pending = << >>
  THEN calls' = Append(outer, frame) /\ control' = InBuildin
  ELSE /\ calls' = Append(outer, [frame EXCEPT !.pending = Tail(@)])
       /\ control' = Entering(Head(frame.pending), frame.env)

EnterBuildin(outer, func, e, operands) ==
  IF AcceptsToEval(func, operands)
  THEN GoOn(outer, BuildinCall(func, e, operands, ToEvaluate(func, operands)))
  ELSE calls' = outer /\ control' = Answering(Nil)

\* A walked lambda evaluates its next argument, as long as it has both names
\* and operands, and then its body.
GoOnBinding(outer, frame) ==
  IF frame.names # << >> /\ frame.operands # << >>
  THEN calls' = Append(outer, frame) /\ control' = Entering(Head(frame.operands), frame.env)
  ELSE calls' = outer /\ control' = Entering(frame.body, frame.own)

Function == control.value
Slot0 == Last(calls)

ApplyBuildin ==
  /\ Waiting("slot") /\ IsType(Function, "buildin")
  /\ EnterBuildin(Front(calls), Function.func, Slot0.env, Slot0.operands)
  /\ UNCHANGED <<vars, locals>>

ApplyLambda ==
  /\ Waiting("slot") /\ IsType(Function, "lambda")
  /\ locals' = Append(locals, [parent |-> Function.env, bindings |-> << >>])
  /\ GoOnBinding(Front(calls), LambdaCall(Function, NewEnv, Slot0.env, Slot0.operands))
  /\ UNCHANGED vars

\* The operands become arguments as they are.
ApplyRuntimeLambda ==
  /\ Waiting("slot") /\ IsType(Function, "runtime_lambda")
  /\ LET built == BuiltAll(pairs, Slot0.operands)
     IN  pairs' = built.pairs /\ EnterLoop(Function, built.atoms)
  /\ calls' = Front(calls)
  /\ control' = InMachine(Slot0.env)
  /\ UNCHANGED <<env, scopes, form, forms, locals>>

ApplyOther ==
  /\ Waiting("slot") /\ Function.type \notin {"buildin", "lambda", "runtime_lambda"}
  /\ calls' = Front(calls)
  /\ control' = Answering(Nil)
  /\ UNCHANGED <<vars, locals>>

BindArgument ==
  /\ Waiting("lambda")
  /\ LET frame == Last(calls)
     IN  /\ KeepChain(ChainDef(Chain, frame.own, Head(frame.names), control.value))
         /\ GoOnBinding(Front(calls), [frame EXCEPT !.names = Tail(@), !.operands = Tail(@)])
  /\ UNCHANGED <<scopes, pairs, stack, registers, ip, session, result, status>>

-----------------------------------------------------------------------------
(* The builtins, after they have evaluated their operands.                 *)

TakeOperand ==
  /\ Waiting("buildin")
  /\ GoOn(Front(calls), [Last(calls) EXCEPT !.values = Append(@, control.value)])
  /\ UNCHANGED <<vars, locals>>

Running(funcs) == control.at = "buildin" /\ Last(calls).func \in funcs
Operand(i) == Last(calls).operands[i]
Evaluated(i) == Last(calls).values[i]

\* slip: a builtin works in the global environment, wherever it is called
HereGlobal == 1

Here == Last(calls).env

ReturnFromBuildin(value) == calls' = Front(calls) /\ control' = Answering(value)

buildin_define ==
  /\ Running({"define"})
  /\ KeepChain(ChainDef(Chain, Here, Operand(1).sym, Evaluated(1)))
  /\ ReturnFromBuildin(Evaluated(1))
  /\ UNCHANGED <<scopes, pairs, stack, registers, ip, session, result, status>>

set_eval ==
  /\ Running({"set"})
  /\ KeepChain(ChainSet(Chain, Here, Operand(1).sym, Evaluated(1)))
  /\ ReturnFromBuildin(Evaluated(1))
  /\ UNCHANGED <<scopes, pairs, stack, registers, ip, session, result, status>>

buildin_if ==
  /\ Running({"if"})
  /\ calls' = Front(calls)
  /\ control' = Entering(Operand(IF Evaluated(1) = True THEN 2 ELSE 3), Here)
  /\ UNCHANGED <<vars, locals>>

buildin_quote ==
  /\ Running({"quote"})
  /\ LET built == Built(pairs, Operand(1))
     IN  pairs' = built.pairs /\ ReturnFromBuildin(built.atom)
  /\ UNCHANGED <<env, scopes, stack, registers, ip, session, result, status, locals>>

\* With __compile_lambdas, a lambda with an env scope.
buildin_lambda ==
  /\ Running({"lambda"})
  /\ LET names == ArgNames(Operand(1))
         body == Body(Last(calls).operands)
         name == CHOOSE n \in DOMAIN Source : Source[n] = [names |-> names, body |-> body]
     IN  IF ChainGet(Chain, Here, "__compile_lambdas") = True
         THEN /\ scopes' = Append(scopes, EnvScope)
              /\ ReturnFromBuildin(RuntimeLambda(<<name>>, Len(scopes) + 1))
         ELSE /\ ReturnFromBuildin(AstLambda(names, body, Here))
              /\ UNCHANGED scopes
  /\ UNCHANGED <<env, pairs, stack, registers, ip, session, result, status, locals>>

buildin_cons ==
  /\ Running({"cons"})
  /\ LET first == Evaluated(IF ConsFromRight THEN 2 ELSE 1)
         rest == Evaluated(IF ConsFromRight THEN 1 ELSE 2)
     IN  pairs' = Append(pairs, [first |-> first, rest |-> rest])
  /\ ReturnFromBuildin(Pair(Len(pairs) + 1))
  /\ UNCHANGED <<env, scopes, stack, registers, ip, session, result, status, locals>>

\* The builtins that only compute a value.
BuildinValue(func, values) ==
  CASE func = "begin" -> IF values = << >> THEN Nil ELSE Last(values)
    [] func = "print" -> Nil
    [] func \in {"first", "rest"} ->
         IF ~IsType(values[1], "pair") THEN Nil
         ELSE LET cell == pairs[values[1].cell] IN IF func = "first" THEN cell.first ELSE cell.rest
    [] func \in {"equal", "lt", "gt"} -> Decide(func, values[1], values[2])
    [] OTHER -> Calculate(func, values[1], values[2])

ComputeValue ==
  /\ control.at = "buildin"
  /\ Last(calls).func \notin {"define", "set", "if", "quote", "lambda", "cons"}
  /\ ReturnFromBuildin(BuildinValue(Last(calls).func, Last(calls).values))
  /\ UNCHANGED <<vars, locals>>

-----------------------------------------------------------------------------
(* bci_eval, its calls of C functions, and its return.                     *)

CallsOut == Executing({"CALL"}) /\ ~IsType(Callee, "runtime_lambda")

RunMachine ==
  /\ control.at = "machine"
  /\ ~CallsOut
  /\ Execute
  /\ UNCHANGED walker

\* slip: a bci_eval started meanwhile works on the same stack
SuspendSharing == stack' = stack /\ status' = "idle"

\* bci_eval gives up its variables until the C function returns.
Suspend == stack' = << >> /\ status' = "idle"

CallOutBuildin ==
  /\ control.at = "machine" /\ CallsOut /\ IsType(Callee, "buildin")
  /\ EnterBuildin(Append(calls, MachineCall(Pop(Current.arg + 1))), Callee.func, control.env,
                  [i \in DOMAIN Actuals |-> AsCode(Actuals[i])])
  /\ Suspend
  /\ UNCHANGED <<memory, registers, ip, session, result, locals>>

\* The arguments on the stack are bound without being evaluated again.
CallWalkedLambda ==
  /\ control.at = "machine" /\ CallsOut /\ IsType(Callee, "lambda")
  /\ LET count == IF Current.arg < Len(Callee.args) THEN Current.arg ELSE Len(Callee.args)
         chain == Append(Chain, [parent |-> Callee.env, bindings |-> << >>])
     IN  KeepChain(BindArgs(chain, NewEnv, SubSeq(Callee.args, 1, count), Actuals))
  /\ calls' = Append(calls, MachineCall(Pop(Current.arg + 1)))
  /\ control' = Entering(Callee.body, NewEnv)
  /\ Suspend
  /\ UNCHANGED <<scopes, pairs, registers, ip, session, result>>

\* slip: the instruction is run again, as after the call of a compiled lambda
RestartAt(machine) == machine.ip

GoOnAt(machine) == machine.ip + 1

Resume ==
  /\ Waiting("bci_eval")
  /\ LET machine == Last(calls)
     IN  /\ stack' = Append(machine.stack, control.value)
         /\ ip' = GoOnAt(machine)
         /\ args' = machine.args
         /\ frame_index' = machine.frame_index
         /\ arg_count' = machine.arg_count
         /\ rl' = machine.rl
         /\ frame_scope' = machine.frame_scope
         /\ scope_escaped' = machine.scope_escaped
         /\ control' = InMachine(machine.env)
  /\ status' = "running"
  /\ calls' = Front(calls)
  /\ UNCHANGED <<memory, form, forms, result, locals>>

\* A file is one bci_eval that eval_atom did not call.
IsFile == form.form = "file" /\ calls = << >>

\* bci_destroy, for a bci_eval that eval_atom called.
ReturnFromMachine ==
  /\ control.at = "machine" /\ status = "returned" /\ ~IsFile
  /\ stack' = << >>
  /\ status' = "idle"
  /\ control' = Answering(result)
  /\ UNCHANGED <<memory, registers, ip, session, result, locals, calls>>

WalkerStep ==
  \/ EvalSelfOrSymbol \/ EvalSlot
  \/ ApplyBuildin \/ ApplyLambda \/ ApplyRuntimeLambda \/ ApplyOther \/ BindArgument
  \/ TakeOperand \/ buildin_define \/ set_eval \/ buildin_if \/ buildin_quote
  \/ buildin_lambda \/ buildin_cons \/ ComputeValue
  \/ RunMachine \/ CallOutBuildin \/ CallWalkedLambda \/ Resume \/ ReturnFromMachine
=============================================================================
