----------------------- MODULE MCBytecodeInterpreter -----------------------
(***************************************************************************)
(* Programs for the bytecode interpreter, as bytecode_compiler.c compiles  *)
(* them or as the tests assemble them by hand.                             *)
(***************************************************************************)
EXTENDS BalancedBytecode

I(op) == [op |-> op, offset |-> 0, arg |-> 0]
A(op, arg) == [op |-> op, offset |-> 0, arg |-> arg]
O(op, offset, arg) == [op |-> op, offset |-> offset, arg |-> arg]
Lambda(argc, varc, literals, code) ==
  [code |-> code, literals |-> literals, arg_count |-> argc, var_count |-> varc]
Ref(id) == [type |-> "compiled_lambda", id |-> id]

DefineForm(sym, cl) == [form |-> "lambda", sym |-> sym, cl |-> cl]
CallForm(sym, func, actuals) == [form |-> "call", sym |-> sym, func |-> func, args |-> actuals]
FileForm(cl) == [form |-> "file", sym |-> NoName, cl |-> cl]

MinByte == -128
MaxByte == 127
Globals == << [key |-> "print", value |-> BuildinAtom("print")],
              [key |-> "gc_heap_size", value |-> BuildinAtom("gc_heap_size")],
              [key |-> "+", value |-> BuildinAtom("plus")] >>

-----------------------------------------------------------------------------
(* The programs of bytecode_interpreter_test.c and                         *)
(* bytecode_execution_test.c, with the results they expect.                *)

TestCode == [
  \* test_lexical_scoping
  ret_first_outer_local |-> Lambda(0, 0, << >>, << O("LOAD_LOCAL", 1, 0), I("RETURN") >>),
  stack_polluter |-> Lambda(0, 1, << >>,
    << A("LOAD_NUM", 17), A("STORE_LOCAL", 0), I("DROP"),
       O("LOAD_LOCAL", 1, 1), A("CALL", 0), I("RETURN") >>),
  lexical_scoping |-> Lambda(0, 3, <<Ref("ret_first_outer_local"), Ref("stack_polluter")>>,
    << A("LOAD_NUM", 45), A("STORE_LOCAL", 0), I("DROP"),
       A("LOAD_LAMBDA", 0), A("STORE_LOCAL", 1), I("DROP"),
       A("LOAD_LAMBDA", 1), A("STORE_LOCAL", 2), I("DROP"),
       A("LOAD_LOCAL", 2), A("CALL", 0), I("RETURN") >>),
  \* test_capturing
  adder |-> Lambda(1, 0, << >>,
    << A("LOAD_ARG", 0), O("LOAD_ARG", 1, 0), I("ADD"), I("RETURN") >>),
  generate_adders |-> Lambda(1, 0, <<Ref("adder")>>,
    << A("LOAD_ARG", 0), A("LOAD_NUM", 0), I("EQ"), A("JUMP_IF_FALSE", 2),
       I("LOAD_NIL"), A("JUMP", 7),
       A("LOAD_LAMBDA", 0), O("LOAD_LOCAL", 1, 0),
       A("LOAD_ARG", 0), A("LOAD_NUM", 1), I("SUB"), A("CALL", 1), I("CONS"),
       I("RETURN") >>),
  capturing |-> Lambda(0, 4, <<Ref("generate_adders")>>,
    << A("LOAD_LAMBDA", 0), A("STORE_LOCAL", 0), I("DROP"),
       A("LOAD_LOCAL", 0), A("LOAD_NUM", 3), A("CALL", 1), A("STORE_LOCAL", 1), I("DROP"),
       A("LOAD_LOCAL", 1), I("FIRST"), A("STORE_LOCAL", 2), I("DROP"),
       A("LOAD_LOCAL", 1), I("REST"), I("FIRST"), A("STORE_LOCAL", 3), I("DROP"),
       A("LOAD_LOCAL", 3), A("LOAD_LOCAL", 2), A("LOAD_NUM", 7), A("CALL", 1), A("CALL", 1),
       I("RETURN") >>),
  \* (define fac (lambda (n) (if (= n 1) 1 (* n (fac (- n 1))))))
  fac |-> Lambda(1, 0, <<Sym("fac")>>,
    << A("LOAD_ARG", 0), A("LOAD_NUM", 1), I("EQ"), A("JUMP_IF_FALSE", 2),
       A("LOAD_NUM", 1), A("JUMP", 7),
       A("LOAD_ARG", 0), A("LOAD_ENV", 0), A("LOAD_ARG", 0), A("LOAD_NUM", 1), I("SUB"),
       A("CALL", 1), I("MUL"), I("RETURN") >>)]

TestSymbols == {"fac", "print", "gc_heap_size", "+"}

TestCases ==
  { <<FileForm("lexical_scoping"), Num(45)>>, <<FileForm("capturing"), Num(12)>> }
    \cup { <<CallForm(NoName, "fac", <<Num(c[1])>>), Num(c[2])>> : c \in {<<2, 2>>, <<4, 24>>, <<7, Wrap(5040)>>} }

TestForms == {DefineForm("fac", "fac")} \cup {c[1] : c \in TestCases}

\* Each program of the tests returns what its test expects, as far as the
\* numbers of the model reach, and none ends the process
\* (bytecode_interpreter_test.c: test_lexical_scoping, test_capturing and the
\* factorial of 2 and 4; bytecode_execution_test.c: the factorial of 7).
ResultAsTested ==
  /\ status = "crashed" => \A c \in TestCases : c[1] # form
  /\ status = "returned" => \A c \in TestCases : c[1] = form => result = c[2]

-----------------------------------------------------------------------------
(* Closures that live in the global environment, and calls of builtins.    *)

\* Does BC_STORE_ENV, which no compiled code contains, see the escape of the
\* closure it stores?  keep: (lambda (n) (set! kept (lambda () n)) n)
\* make: (lambda (start) (define total start) (lambda (step) (set! total (+ total step))))
EnvSymbols == {"make", "c", "keep", "kept", "say", "sum", "size", "peek", "print", "gc_heap_size", "+", "x", "unbound"}

EnvCode == [
  make |-> Lambda(1, 1, <<Ref("tick")>>,
    << A("LOAD_ARG", 0), A("STORE_LOCAL", 0), I("DROP"), A("LOAD_LAMBDA", 0), I("RETURN") >>),
  tick |-> Lambda(1, 0, << >>,
    << O("LOAD_LOCAL", 1, 0), A("LOAD_ARG", 0), I("ADD"), O("STORE_LOCAL", 1, 0), I("RETURN") >>),
  get_n |-> Lambda(0, 0, << >>, << O("LOAD_ARG", 1, 0), I("RETURN") >>),
  keep |-> Lambda(1, 0, <<Ref("get_n"), Sym("kept")>>,
    << A("LOAD_LAMBDA", 0), A("STORE_ENV", 1), I("DROP"), A("LOAD_ARG", 0), I("RETURN") >>),
  \* (print (quote x)), evaluated a second time by print
  say |-> Lambda(0, 0, <<Sym("print"), Sym("x")>>,
    << A("LOAD_ENV", 0), A("LOAD_LITERAL", 1), A("CALL", 1), I("RETURN") >>),
  \* (p a b) where p is bound to +
  sum |-> Lambda(2, 0, <<Sym("+")>>,
    << A("LOAD_ENV", 0), A("LOAD_ARG", 0), A("LOAD_ARG", 1), A("CALL", 2), I("RETURN") >>),
  size |-> Lambda(0, 0, <<Sym("gc_heap_size"), Sym("unbound")>>,
    << A("LOAD_ENV", 1), I("DROP"), A("LOAD_ENV", 0), A("CALL", 0), I("RETURN") >>),
  \* a literal of the outer lambda, and one of its own: (quote (1 . nil))
  outer_literal |-> Lambda(0, 0, << Pair(1) >>,
    << O("LOAD_LITERAL", 1, 1), A("LOAD_LITERAL", 0), I("FIRST"), I("EQ"), I("RETURN") >>),
  peek |-> Lambda(0, 0, <<Ref("outer_literal"), Num(1)>>,
    << A("LOAD_LAMBDA", 0), A("CALL", 0), I("RETURN") >>)]

EnvForms == {
  DefineForm("make", "make"), CallForm("c", "make", <<Num(5)>>), CallForm(NoName, "c", <<Num(2)>>),
  DefineForm("keep", "keep"), DefineForm("kept", "peek"), DefineForm("sum", "sum"),
  DefineForm("size", "size"), DefineForm("say", "say"), DefineForm("peek", "peek"),
  CallForm(NoName, "keep", <<Num(3)>>), CallForm(NoName, "keep", <<Num(4)>>),
  CallForm("x", "kept", << >>), CallForm(NoName, "say", << >>),
  CallForm("x", "sum", <<Num(100), Num(100)>>), CallForm("x", "sum", <<Num(1), Sym("x")>>),
  CallForm(NoName, "size", << >>), CallForm("x", "peek", << >>),
  \* too few arguments, and too many
  CallForm("x", "keep", << >>), CallForm("x", "c", <<Num(2), Sym("x")>>) }

OnePair == << [first |-> Num(1), rest |-> Nil] >>

MachineCode == [id \in DOMAIN TestCode \cup DOMAIN EnvCode |->
                  IF id \in DOMAIN TestCode THEN TestCode[id] ELSE EnvCode[id]]
MachineForms == TestForms \cup EnvForms
MachineSymbols == TestSymbols \cup EnvSymbols
=============================================================================
