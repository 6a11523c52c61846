--------------------------- MODULE CompiledPrograms ---------------------------
(***************************************************************************)
(* What the machine runs: the lambdas that bcc_compile_to_lambda makes of  *)
(* a program.  CompiledLambda is a constant of the machine; here is what   *)
(* it is when it was compiled from a given source.                         *)
(***************************************************************************)
EXTENDS BytecodeCompiler, BalancedBytecode

\* A set of expressions as the reader builds them, with all their parts: a
\* comparison has two operands, and the arguments of a lambda have names.
Expressions(E) ==
  /\ E \subseteq [type : {"nil", "true", "false"}] \cup [type : {"num"}, num : Int]
                   \cup [type : {"sym"}, sym : STRING]
                   \cup [type : {"list"}, items : Seq(E) \ {<< >>}]
  /\ \A expr \in E :
       /\ expr.type = "list" /\ IsInlined(expr) /\ CompareOpOf(Inlined(expr)) # "none" => Len(expr.items) >= 3
       /\ IsLambda(expr) =>
            /\ Body(Tail(expr.items)) \in E
            /\ \A i \in DOMAIN Items(expr.items[2]) : IsSym(Items(expr.items[2])[i])

\* (set! name value) names a variable or an argument of a lambda around it.
SetsKnownName(c) ==
  LET old == c.chain[Len(c.chain)]
      task == Head(old.todo)
  IN  old.todo # << >> /\ task.do = "store" => IsKnown(c.chain, task.sym)

\* The states of the compiler, from the first to the last.
CompilerRun(run, name, program) ==
  /\ Len(run) \in Nat \ {0}
  /\ run[1] = CompileStart(name, program)
  /\ \A i \in 1..(Len(run) - 1) :
       ~IsCompiled(run[i]) /\ SetsKnownName(run[i]) /\ run[i + 1] = CompileStep(run[i])
  /\ IsCompiled(run[Len(run)])

\* A list is the pair that the reader built.
InMemory(atom, literal) ==
  IF literal.type = "list" THEN IsType(atom, "pair") /\ atom.cell \in DOMAIN QuotedPair
  ELSE atom = literal

IsLoaded(table) ==
  /\ LambdaId = DOMAIN table
  /\ \A id \in LambdaId :
       /\ CompiledLambda[id].code = table[id].code
       /\ CompiledLambda[id].arg_count = table[id].arg_count
       /\ CompiledLambda[id].var_count = table[id].var_count
       /\ Len(CompiledLambda[id].literals) = Len(table[id].literals)
       /\ \A j \in 1..Len(table[id].literals) :
            InMemory(CompiledLambda[id].literals[j], table[id].literals[j])

Tables(runs) == [name \in DOMAIN runs |-> runs[name][Len(runs[name])].table]

\* The machine has the lambdas of these programs, and enters the outermost ones.
CompiledFrom(E, source, runs) ==
  /\ Expressions(E)
  /\ DOMAIN runs = DOMAIN source
  /\ \A name \in DOMAIN source :
       /\ source[name].names \in Seq(STRING) /\ source[name].body \in E
       /\ CompilerRun(runs[name], name, source[name])
  /\ IsLoaded(ProgramTable(Tables(runs)))
  /\ \A f \in Form : f.form \in {"lambda", "file"} => f.cl \in {<<name>> : name \in DOMAIN source}
=============================================================================
