--------------------------- MODULE BytecodeCompiler ---------------------------
(***************************************************************************)
(* bcc_compile_to_lambda (bytecode_compiler.c), the compile functions of   *)
(* the builtins (buildins.c) and the generator under them                  *)
(* (bytecode_generator.c).                                                 *)
(*                                                                         *)
(* An expression is an atom as the reader builds it, with a list of one    *)
(* element or more as [type |-> "list", items |-> elements].  A compiled   *)
(* lambda under construction is a record of what compiled_lambda_atom and  *)
(* its compiler_data hold; `chain` are all of them, the innermost last.    *)
(*                                                                         *)
(* The C functions call each other for the parts of an expression.  Here   *)
(* they are cut at these calls: `todo` is what the functions that work on  *)
(* a lambda have still to do, in this order, and CompileStep does the      *)
(* first of it.                                                            *)
(***************************************************************************)
EXTENDS Integers, Sequences

CONSTANTS
  BuildinFor,  \* the builtins that symbols are bound to in the environment
  MinInt16, MaxInt16  \* numbers that are embedded into an instruction

NilExpr == [type |-> "nil"]
SymExpr(name) == [type |-> "sym", sym |-> name]
NumExpr(n) == [type |-> "num", num |-> n]
ListExpr(items) == IF items = << >> THEN NilExpr ELSE [type |-> "list", items |-> items]
Apply(name, operands) == ListExpr(<<SymExpr(name)>> \o operands)

IsSym(expr) == expr.type = "sym"

\* The elements of a list, and the argument names of a lambda.
Items(expr) == IF expr.type = "list" THEN expr.items ELSE << >>
ArgNames(expr) == [i \in DOMAIN Items(expr) |-> Items(expr)[i].sym]

\* The body of (lambda args expr ...): more than one are wrapped into a begin.
Body(operands) ==
  IF Len(operands) = 2 THEN operands[2] ELSE Apply("begin", Tail(operands))

\* print, gc_heap_size and mod_load have no compile function.
CompiledBuildin == {"define", "set", "if", "quote", "begin", "lambda", "cons", "first", "rest",
                    "plus", "minus", "multiply", "divide", "modulo", "equal", "lt", "gt"}

-----------------------------------------------------------------------------
(* Generating code.                                                        *)

\* A nested lambda is named by the way to it: the name of the lambda around it
\* and the literal that it becomes there.
NewLambda(id, names, todo) ==
  [id |-> id, code |-> << >>, literals |-> << >>, names |-> names,
   arg_count |-> Len(names), var_count |-> 0, todo |-> todo]

Gen(cl, instruction) == [cl EXCEPT !.code = Append(@, instruction)]
GenOp(cl, op) == Gen(cl, [op |-> op, offset |-> 0, arg |-> 0])
GenArg(cl, op, arg) == Gen(cl, [op |-> op, offset |-> 0, arg |-> arg])

\* The jump at index i goes to the instruction that is generated next.
BackpatchTarget(cl, i) == [cl EXCEPT !.code[i].arg = Len(cl.code) - i]

AddLiteral(cl, literal) == [cl EXCEPT !.literals = Append(@, literal)]
GenLiteral(cl, op, literal) == GenArg(AddLiteral(cl, literal), op, Len(cl.literals))

AddVariable(cl, name) ==
  [cl EXCEPT !.names = Append(@, name), !.var_count = @ + 1]

\* What a C function has still to do for the lambda.
ToCompile(expr) == [do |-> "compile", expr |-> expr]
ToGenerate(op, arg) == [do |-> "generate", op |-> op, arg |-> arg]
ToStore(name) == [do |-> "store", sym |-> name]
ToStoreNewest == [do |-> "store_newest"]
ToBranch(true_case, false_case) == [do |-> "branch", true_case |-> true_case, false_case |-> false_case]
ToElse(false_offset, false_case) == [do |-> "else", at |-> false_offset, false_case |-> false_case]
ToJoin(end_offset) == [do |-> "join", at |-> end_offset]

Then(cl, tasks) == [cl EXCEPT !.todo = tasks \o @]

-----------------------------------------------------------------------------
(* Variables: the first lambda outwards that has the name, and the first   *)
(* of its names that matches.                                              *)

Positions(cl, name) == {i \in DOMAIN cl.names : cl.names[i] = name}

NameIndex(cl, name) ==
  (CHOOSE i \in Positions(cl, name) : \A j \in Positions(cl, name) : i <= j) - 1

LevelsWith(chain, name) == {k \in DOMAIN chain : Positions(chain[k], name) # {}}

IsKnown(chain, name) == LevelsWith(chain, name) # {}

LevelOf(chain, name) ==
  CHOOSE k \in LevelsWith(chain, name) : \A j \in LevelsWith(chain, name) : j <= k

\* slip: takes the first variable for an argument
IsArgumentOrFirst(cl, name) == NameIndex(cl, name) <= cl.arg_count

IsArgument(cl, name) == NameIndex(cl, name) < cl.arg_count

\* Both generate into `cl`, the lambda that `chain` ends with.
CompileSymbol(cl, chain, name) ==
  LET level == LevelOf(chain, name)
      found == chain[level]
      index == NameIndex(found, name)
      offset == Len(chain) - level
  IN  IF ~IsKnown(chain, name) THEN GenLiteral(cl, "LOAD_ENV", SymExpr(name))
      ELSE Gen(cl, IF IsArgument(found, name)
                   THEN [op |-> "LOAD_ARG", offset |-> offset, arg |-> index]
                   ELSE [op |-> "LOAD_LOCAL", offset |-> offset, arg |-> index - found.arg_count])

\* Generated after the code of the value.  Nothing is stored into an argument;
\* for an unknown name a nil is pushed on top of the value.
StoreSymbol(cl, chain, name) ==
  LET level == LevelOf(chain, name)
      found == chain[level]
  IN  IF ~IsKnown(chain, name) THEN GenOp(cl, "LOAD_NIL")
      ELSE IF IsArgument(found, name) THEN cl
      ELSE Gen(cl, [op |-> "STORE_LOCAL", offset |-> Len(chain) - level,
                    arg |-> NameIndex(found, name) - found.arg_count])

CompileNum(cl, expr) ==
  IF expr.num \in MinInt16..MaxInt16
  THEN GenArg(cl, "LOAD_NUM", expr.num)
  ELSE GenLiteral(cl, "LOAD_LITERAL", expr)

-----------------------------------------------------------------------------
(* Builtins.                                                               *)

ArithmeticOpOf(func) ==
  CASE func = "plus" -> "ADD" [] func = "minus" -> "SUB" [] func = "multiply" -> "MUL"
    [] func = "divide" -> "DIV" [] func = "modulo" -> "MOD" [] OTHER -> "none"
CompareOpOf(func) ==
  CASE func = "equal" -> "EQ" [] func = "lt" -> "LT" [] func = "gt" -> "GT" [] OTHER -> "none"

\* The operands a compile function asks for; it warns and generates a nil for
\* a list that does not match.  (Each follows args->rest of the operands
\* without looking at args: there is at least one.)
Accepts(func, operands) ==
  CASE func \in {"define", "set"} -> Len(operands) = 2 /\ IsSym(operands[1])
    [] func = "if" -> Len(operands) = 3
    [] func = "quote" -> Len(operands) = 1
    [] func \in {"first", "rest"} -> Len(operands) = 1
    [] func \in {"cons", "plus", "minus", "multiply", "divide", "modulo"} -> Len(operands) = 2
    [] func \in {"begin", "lambda"} -> Len(operands) >= 1
    [] func \in {"equal", "lt", "gt"} -> TRUE

CompileUnary(cl, op, operands) == Then(cl, <<ToCompile(operands[1]), ToGenerate(op, 0)>>)
CompileBinary(cl, op, operands) ==
  Then(cl, <<ToCompile(operands[1]), ToCompile(operands[2]), ToGenerate(op, 0)>>)

\* The name is known before the value is compiled, and the value is stored into
\* the variable that is the last one then.
CompileDefine(cl, operands) ==
  Then(AddVariable(cl, operands[1].sym), <<ToCompile(operands[2]), ToStoreNewest>>)

CompileSet(cl, operands) == Then(cl, <<ToCompile(operands[2]), ToStore(operands[1].sym)>>)

CompileIf(cl, operands) ==
  Then(cl, <<ToCompile(operands[1]), ToBranch(operands[2], operands[3])>>)

CompileBranch(cl, true_case, false_case) ==
  LET jump_false == GenOp(cl, "JUMP_IF_FALSE")
  IN  Then(jump_false, <<ToCompile(true_case), ToElse(Len(jump_false.code), false_case)>>)

CompileElse(cl, false_offset, false_case) ==
  LET jump_end == GenOp(cl, "JUMP")
  IN  Then(BackpatchTarget(jump_end, false_offset),
           <<ToCompile(false_case), ToJoin(Len(jump_end.code))>>)

\* slip: all values are left
CompileBeginUndropped(cl, operands) == Then(cl, [i \in DOMAIN operands |-> ToCompile(operands[i])])

\* All but the last value are dropped.
CompileBegin(cl, operands) ==
  Then(cl, [i \in 1..(2 * Len(operands) - 1) |->
              IF i % 2 = 1 THEN ToCompile(operands[(i + 1) \div 2]) ELSE ToGenerate("DROP", 0)])

CompileBuildin(cl, func, operands) ==
  IF ~Accepts(func, operands) THEN GenOp(cl, "LOAD_NIL")
  ELSE CASE func = "define" -> CompileDefine(cl, operands)
         [] func = "set" -> CompileSet(cl, operands)
         [] func = "if" -> CompileIf(cl, operands)
         [] func = "quote" -> GenLiteral(cl, "LOAD_LITERAL", operands[1])
         [] func = "begin" -> CompileBegin(cl, operands)
         [] func = "cons" -> CompileBinary(cl, "CONS", operands)
         [] func = "first" -> CompileUnary(cl, "FIRST", operands)
         [] func = "rest" -> CompileUnary(cl, "REST", operands)
         [] func \in {"equal", "lt", "gt"} -> CompileBinary(cl, CompareOpOf(func), operands)
         [] OTHER -> CompileBinary(cl, ArithmeticOpOf(func), operands)

-----------------------------------------------------------------------------
(* Expressions and lambdas.                                                *)

\* The builtin whose compile function is called for a list.
IsInlined(expr) ==
  LET function_slot == expr.items[1]
  IN  /\ expr.type = "list"
      /\ IsSym(function_slot)
      /\ function_slot.sym \in DOMAIN BuildinFor
      /\ BuildinFor[function_slot.sym] \in CompiledBuildin

Inlined(expr) == BuildinFor[expr.items[1].sym]

\* From left to right, each leaving its value.
CompileCall(cl, items) ==
  Then(cl, Append([i \in DOMAIN items |-> ToCompile(items[i])], ToGenerate("CALL", Len(items) - 1)))

\* Whatever is no lambda.
CompileExpr(cl, chain, expr) ==
  CASE expr.type = "nil" -> GenOp(cl, "LOAD_NIL")
    [] expr.type = "true" -> GenOp(cl, "LOAD_TRUE")
    [] expr.type = "false" -> GenOp(cl, "LOAD_FALSE")
    [] expr.type = "num" -> CompileNum(cl, expr)
    [] expr.type = "sym" -> CompileSymbol(cl, chain, expr.sym)
    [] expr.type = "list" ->
         IF IsInlined(expr) THEN CompileBuildin(cl, Inlined(expr), Tail(expr.items))
         ELSE CompileCall(cl, expr.items)

\* (lambda names expr ...)
IsLambda(expr) == IsInlined(expr) /\ Inlined(expr) = "lambda" /\ Len(expr.items) >= 2

ChildOf(cl, operands) ==
  NewLambda(Append(cl.id, Len(cl.literals) + 1), ArgNames(operands[1]), <<ToCompile(Body(operands))>>)

CompileTask(cl, chain, task) ==
  CASE task.do = "compile" -> CompileExpr(cl, chain, task.expr)
    [] task.do = "generate" -> GenArg(cl, task.op, task.arg)
    [] task.do = "store" -> StoreSymbol(cl, chain, task.sym)
    [] task.do = "store_newest" -> GenArg(cl, "STORE_LOCAL", cl.var_count - 1)
    [] task.do = "branch" -> CompileBranch(cl, task.true_case, task.false_case)
    [] task.do = "else" -> CompileElse(cl, task.at, task.false_case)
    [] task.do = "join" -> BackpatchTarget(cl, task.at)

\* The lambda that is finished gets its RETURN, and becomes a literal of the
\* one around it.
Finished(cl) ==
  [code |-> GenOp(cl, "RETURN").code, literals |-> cl.literals,
   arg_count |-> cl.arg_count, var_count |-> cl.var_count]

LambdaLiteral(id) == [type |-> "compiled_lambda", id |-> id]

AddLambda(table, cl) ==
  [id \in DOMAIN table \cup {cl.id} |-> IF id = cl.id THEN Finished(cl) ELSE table[id]]

FinishLambda(chain) ==
  LET outer == SubSeq(chain, 1, Len(chain) - 1)
  IN  IF outer = << >> THEN outer
      ELSE [outer EXCEPT ![Len(outer)] = GenLiteral(@, "LOAD_LAMBDA", LambdaLiteral(chain[Len(chain)].id))]

\* One step of the compiler: `chain` as above, and the lambdas that are finished.
CompileStep(c) ==
  LET chain == c.chain
      n == Len(chain)
      cl == [chain[n] EXCEPT !.todo = Tail(@)]
      task == Head(chain[n].todo)
  IN  IF chain[n].todo = << >>
      THEN [chain |-> FinishLambda(chain), table |-> AddLambda(c.table, chain[n])]
      ELSE IF task.do = "compile" /\ IsLambda(task.expr)
      THEN [c EXCEPT !.chain = Append([chain EXCEPT ![n] = cl], ChildOf(cl, Tail(task.expr.items)))]
      ELSE [c EXCEPT !.chain[n] = CompileTask(cl, chain, task)]

\* bcc_compile_to_lambda, for a lambda without one around it.
CompileStart(name, program) ==
  [chain |-> <<NewLambda(<<name>>, program.names, <<ToCompile(program.body)>>)>>, table |-> << >>]

IsCompiled(c) == c.chain = << >>

\* All lambdas of the programs, given the tables of each.
ProgramTable(compiled) ==
  [id \in UNION {DOMAIN compiled[name] : name \in DOMAIN compiled} |-> compiled[id[1]][id]]
=============================================================================
