---------------------------- MODULE AstInterpreter ----------------------------
(***************************************************************************)
(* eval_atom (eval.c) and the eval functions of the builtins (buildins.c), *)
(* with __compile_lambdas off: the interpreter that walks the expression.  *)
(*                                                                         *)
(* Evaluation is one recursive C function without any concurrency, and is  *)
(* an operator here.  Environments are cells of `envs`, parent 0 being     *)
(* NULL; the operators return the environments along with the value.       *)
(* Pairs are never written to and are values.                              *)
(***************************************************************************)
EXTENDS LispMemory, BytecodeCompiler
LOCAL INSTANCE SequencesExt

CONSTANT
  ConsFromRight  \* C leaves the order of buildin_cons' two calls of eval_atom open

\* Atoms only this interpreter makes.
AstPair(first, rest) == [type |-> "pair", first |-> first, rest |-> rest]
AstLambda(names, body, e) == [type |-> "lambda", args |-> names, body |-> body, env |-> e]

Answer(envs, value) == [envs |-> envs, value |-> value]

-----------------------------------------------------------------------------
(* Chains of environments.                                                 *)

EnvAlloc(envs, parent) == Append(envs, [parent |-> parent, bindings |-> << >>])

\* The first environment from e outwards with a binding for the key, or 0.
EnvWith(envs, e, key) ==
  LET with[i \in 0..Len(envs)] ==
        IF i = 0 \/ Bound(envs[i].bindings, key) THEN i ELSE with[envs[i].parent]
  IN  with[e]

ChainGet(envs, e, key) == EnvGet(envs[EnvWith(envs, e, key)].bindings, key)

ChainDef(envs, e, key, value) == [envs EXCEPT ![e].bindings = EnvDef(@, key, value)]

ChainSet(envs, e, key, value) ==
  LET found == EnvWith(envs, e, key)
  IN  IF found = 0 THEN envs ELSE [envs EXCEPT ![found].bindings = EnvSet(@, key, value)]

BindArgs(envs, e, names, values) ==
  [envs EXCEPT ![e].bindings = [i \in DOMAIN names |-> [key |-> names[i], value |-> values[i]]]]

-----------------------------------------------------------------------------
(* Builtins without evaluation of their own.                               *)

\* A quoted list is a chain of pairs that ends in nil.
RECURSIVE Quoted(_)
Quoted(expr) ==
  IF expr.type # "list" THEN expr
  ELSE FoldRight(LAMBDA item, rest : AstPair(Quoted(item), rest), expr.items, Nil)

\* Divisions that trap have no answer: the process is gone.
Calculate(func, a, b) ==
  IF ~(IsType(a, "num") /\ IsType(b, "num")) THEN Nil
  ELSE Num(Wrap(CASE func = "plus" -> a.num + b.num
                  [] func = "minus" -> a.num - b.num
                  [] func = "multiply" -> a.num * b.num
                  [] func = "divide" /\ ~DivisionTraps(a.num, b.num) -> Quotient(a.num, b.num)
                  [] func = "modulo" /\ ~DivisionTraps(a.num, b.num) -> Remainder(a.num, b.num)))

Decide(func, a, b) ==
  IF ~(IsType(a, "num") /\ IsType(b, "num")) THEN Nil
  ELSE IF CASE func = "equal" -> a.num = b.num
            [] func = "lt" -> a.num < b.num
            [] func = "gt" -> a.num > b.num
       THEN True ELSE False

PartOf(func, a) ==
  IF ~IsType(a, "pair") THEN Nil ELSE IF func = "first" THEN a.first ELSE a.rest

-----------------------------------------------------------------------------
(* Evaluation.                                                             *)

RECURSIVE Eval(_, _, _), EvalAll(_, _, _), EvalBuildin(_, _, _, _), Invoke(_, _, _, _)

Eval(envs, e, expr) ==
  CASE expr.type \in {"nil", "true", "false", "num"} -> Answer(envs, expr)
    [] expr.type = "sym" ->
         Answer(envs, IF EnvWith(envs, e, expr.sym) = 0 THEN Nil ELSE ChainGet(envs, e, expr.sym))
    [] expr.type = "list" ->
         LET slot == Eval(envs, e, Head(expr.items))
             operands == Tail(expr.items)
         IN  CASE slot.value.type = "buildin" -> EvalBuildin(slot.envs, e, slot.value.func, operands)
               [] slot.value.type = "lambda" -> Invoke(slot.envs, e, slot.value, operands)
               [] OTHER -> Answer(slot.envs, Nil)
    [] OTHER -> Answer(envs, Nil)

\* One after the other; value is the sequence of values.
EvalAll(envs, e, exprs) ==
  IF exprs = << >> THEN Answer(envs, << >>)
  ELSE LET first == Eval(envs, e, Head(exprs))
           others == EvalAll(first.envs, e, Tail(exprs))
       IN  Answer(others.envs, <<first.value>> \o others.value)

\* As many operands are evaluated and bound as there are names for.
Invoke(envs, e, lambda, operands) ==
  LET count == IF Len(operands) < Len(lambda.args) THEN Len(operands) ELSE Len(lambda.args)
      own == Len(envs) + 1
      actuals == EvalAll(EnvAlloc(envs, lambda.env), e, SubSeq(operands, 1, count))
      bound == BindArgs(actuals.envs, own, SubSeq(lambda.args, 1, count), actuals.value)
  IN  Eval(bound, own, lambda.body)

EvalCons(envs, e, operands) ==
  IF ConsFromRight
  THEN LET rest == Eval(envs, e, operands[2])
           first == Eval(rest.envs, e, operands[1])
       IN  Answer(first.envs, AstPair(first.value, rest.value))
  ELSE LET first == Eval(envs, e, operands[1])
           rest == Eval(first.envs, e, operands[2])
       IN  Answer(rest.envs, AstPair(first.value, rest.value))

\* Takes any condition but true for false.
EvalIf(envs, e, operands) ==
  LET cond == Eval(envs, e, operands[1])
  IN  Eval(cond.envs, e, IF cond.value = True THEN operands[2] ELSE operands[3])

\* Arithmetic takes two operands, without counting them.
AcceptsToEval(func, operands) ==
  CASE func \in {"plus", "minus", "multiply", "divide", "modulo", "print"} -> TRUE
    [] func = "begin" -> TRUE
    [] func = "lambda" -> Len(operands) >= 2
    [] OTHER -> Accepts(func, operands)

EvalBuildin(envs, e, func, operands) ==
  IF ~AcceptsToEval(func, operands) THEN Answer(envs, Nil)
  ELSE CASE func = "define" ->
              LET r == Eval(envs, e, operands[2])
              IN  Answer(ChainDef(r.envs, e, operands[1].sym, r.value), r.value)
         [] func = "set" ->
              LET r == Eval(envs, e, operands[2])
              IN  Answer(ChainSet(r.envs, e, operands[1].sym, r.value), r.value)
         [] func = "if" -> EvalIf(envs, e, operands)
         [] func = "quote" -> Answer(envs, Quoted(operands[1]))
         [] func = "begin" ->
              LET r == EvalAll(envs, e, operands)
              IN  Answer(r.envs, IF operands = << >> THEN Nil ELSE Last(r.value))
         [] func = "lambda" -> Answer(envs, AstLambda(ArgNames(operands[1]), Body(operands), e))
         [] func = "cons" -> EvalCons(envs, e, operands)
         [] func \in {"first", "rest"} ->
              LET r == Eval(envs, e, operands[1]) IN Answer(r.envs, PartOf(func, r.value))
         [] func = "print" -> Answer(Eval(envs, e, operands[1]).envs, Nil)
         [] func \in {"equal", "lt", "gt"} ->
              LET r == EvalAll(envs, e, SubSeq(operands, 1, 2))
              IN  Answer(r.envs, Decide(func, r.value[1], r.value[2]))
         [] OTHER ->
              LET r == EvalAll(envs, e, SubSeq(operands, 1, 2))
              IN  Answer(r.envs, Calculate(func, r.value[1], r.value[2]))
=============================================================================
