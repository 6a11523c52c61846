---------------------------- MODULE SamplePrograms ----------------------------
(***************************************************************************)
(* Lambdas and files as source, and the compiler's output for them: those  *)
(* of the repository's samples and README, and generated ones.             *)
(*                                                                         *)
(* TLC computes a definition once, but not a CONSTANT: hence a second name *)
(* for each table that a configuration gives to a constant (with a LET, so *)
(* that its coverage statistics do not expand the compiler at every use).  *)
(***************************************************************************)
EXTENDS BytecodeCompiler, TLC

BuildinTable ==
  ("define" :> "define") @@ ("set!" :> "set") @@ ("if" :> "if") @@ ("quote" :> "quote")
    @@ ("begin" :> "begin") @@ ("lambda" :> "lambda") @@ ("cons" :> "cons")
    @@ ("first" :> "first") @@ ("rest" :> "rest") @@ ("+" :> "plus") @@ ("-" :> "minus")
    @@ ("*" :> "multiply") @@ ("/" :> "divide") @@ ("%" :> "modulo") @@ ("=" :> "equal")
    @@ ("<" :> "lt") @@ (">" :> "gt") @@ ("print" :> "print")
Buildins == BuildinTable

S(name) == SymExpr(name)
N(n) == NumExpr(n)
E(name, operands) == Apply(name, operands)
Fn(names, body) == E("lambda", <<ListExpr([i \in DOMAIN names |-> S(names[i])]), body>>)
Do(exprs) == E("begin", exprs)
Def(name, expr) == E("define", <<S(name), expr>>)
Set(name, expr) == E("set!", <<S(name), expr>>)
Call(function, operands) == ListExpr(<<function>> \o operands)

-----------------------------------------------------------------------------
(* (lambda (a) (define x START) (define g CLOSURE) USE): every way to      *)
(* combine a local variable, a lambda that captures it and a use of both.  *)

Start == <<
  N(3), S("a"), E("+", <<S("a"), N(100)>>),
  E("if", <<E("<", <<S("a"), N(2)>>), E("*", <<S("a"), N(5)>>), N(0)>>),
  Call(Fn(<<"n">>, E("-", <<S("n"), S("a")>>)), <<N(9)>>) >>

Closure == <<
  Fn(<<"y">>, E("+", <<S("x"), S("y")>>)),
  Fn(<<"y">>, Set("x", E("+", <<S("x"), S("y")>>))),
  Fn(<<"y">>, Do(<<Def("z", E("*", <<S("y"), N(2)>>)), Set("x", S("z")), E("-", <<S("z"), S("a")>>)>>)),
  Fn(<<"y">>, Do(<<Def("h", Fn(<<"z">>, Set("x", E("+", <<S("x"), E("*", <<S("y"), S("z")>>)>>)))),
                   Call(S("h"), <<N(2)>>)>>)),
  Fn(<<"y">>, E("if", <<E("=", <<S("y"), N(0)>>), S("x"),
                        Do(<<Set("x", E("+", <<S("x"), S("y")>>)),
                             Call(S("g"), <<E("-", <<S("y"), N(1)>>)>>)>>)>>)) >>

\* ... ending in a closure,
ClosureUse == <<
  S("g"),
  Fn(<<"y">>, Do(<<Call(S("g"), <<S("y")>>), Set("x", E("-", <<S("x"), S("y")>>))>>)),
  E("if", <<E(">", <<Call(S("g"), <<N(1)>>), S("x")>>), Fn(<<"y">>, S("y")), Fn(<<"y">>, S("x"))>>) >>

\* ... or in a value.
ValueUse == <<
  Do(<<Call(S("g"), <<N(1)>>), S("x")>>),
  E("+", <<Call(S("g"), <<S("a")>>), Call(S("g"), <<N(2)>>)>>),
  E("cons", <<S("g"), E("cons", <<Call(S("g"), <<N(2)>>), E("quote", <<S("x")>>)>>)>>),
  Call(E("first", <<E("cons", <<S("g"), NilExpr>>)>>), <<N(2)>>) >>

UseOf == ClosureUse \o ValueUse

\* Program <<i, j, k>> starts, closes over and uses its variable in way i, j, k.
Combinations ==
  [n \in (DOMAIN Start) \X (DOMAIN Closure) \X (DOMAIN UseOf) |->
     [names |-> <<"a">>, body |-> Do(<<Def("x", Start[n[1]]), Def("g", Closure[n[2]]), UseOf[n[3]]>>)]]

-----------------------------------------------------------------------------
(* Programs of the repository, and programs whose answers the two          *)
(* interpreters do not agree on.                                           *)

Lambda(names, exprs) == [names |-> names, body |-> IF Len(exprs) = 1 THEN exprs[1] ELSE Do(exprs)]

FacBody == E("if", <<E("=", <<S("n"), N(1)>>), N(1),
                     E("*", <<S("n"), Call(S("fac"), <<E("-", <<S("n"), N(1)>>)>>)>>)>>)

GenAddersBody ==
  E("if", <<E("=", <<S("n"), N(0)>>), NilExpr,
            E("cons", <<Fn(<<"x">>, E("+", <<S("x"), S("n")>>)),
                        Call(S("gen_adders"), <<E("-", <<S("n"), N(1)>>)>>)>>)>>)

LooperBody ==
  E("if", <<E("=", <<S("n"), N(0)>>), NilExpr,
            Do(<<Set("foo", E("quote", <<S("kept")>>)), Call(S("looper"), <<E("-", <<S("n"), N(1)>>)>>)>>)>>)

NamedProgram == [
  \* samples/fac.l, samples/capturing.l and samples/gc_test.l as files
  fac_file |-> Lambda(<< >>, << Def("fac", Fn(<<"n">>, FacBody)), Call(S("fac"), <<N(5)>>) >>),
  capturing_file |-> Lambda(<< >>, <<
    Def("gen_adders", Fn(<<"n">>, GenAddersBody)),
    Def("adders", Call(S("gen_adders"), <<N(3)>>)),
    Def("add3", E("first", <<S("adders")>>)),
    Def("add2", E("first", <<E("rest", <<S("adders")>>)>>)),
    E("print", <<S("add2")>>),
    Call(S("add2"), <<Call(S("add3"), <<N(7)>>)>>) >>),
  gc_test_file |-> Lambda(<< >>, <<
    Def("foo", NilExpr), Def("looper", Fn(<<"n">>, LooperBody)), Call(S("looper"), <<N(3)>>), S("foo") >>),
  \* ... and entered at the prompt
  fac |-> Lambda(<<"n">>, <<FacBody>>),
  gen_adders |-> Lambda(<<"n">>, <<GenAddersBody>>),
  remember |-> Lambda(<<"n">>, <<Set("foo", S("n"))>>),
  call_first |-> Lambda(<<"l">>, <<Call(E("first", <<Call(S("gen_adders"), <<N(2)>>)>>), <<S("l")>>)>>),
  \* (lambda (n) (define half (begin (define rest n) (- rest 1))) half)
  nested_define |-> Lambda(<<"n">>, <<
    Def("half", Do(<<Def("other", S("n")), E("-", <<S("other"), N(1)>>)>>)), S("half") >>),
  \* (lambda (first) (first 1)) applied to a lambda
  shadowing |-> Lambda(<<"n">>, <<
    Call(Fn(<<"first">>, Call(S("first"), <<S("n")>>)), <<Fn(<<"x">>, E("+", <<S("x"), N(1)>>))>>) >>),
  \* a closure that only another closure holds
  wrap |-> Lambda(<<"x">>, <<Fn(<< >>, S("x"))>>),
  compose |-> Lambda(<<"n">>, << Def("get", Fn(<< >>, S("n"))), Call(S("wrap"), <<S("get")>>) >>),
  double |-> Lambda(<<"n">>, << E("+", <<S("n"), S("n")>>) >>),
  \* compiled lambdas that call others through a variable: builtins, and the
  \* walked lambdas of a session that turned the compiler off
  apply2 |-> Lambda(<<"f", "a", "b">>, << Call(S("f"), <<S("a"), S("b")>>) >>),
  use_minus |-> Lambda(<<"n">>, << Call(S("apply2"), <<S("-"), S("n"), N(1)>>) >>),
  use_cons |-> Lambda(<<"n">>, << Call(S("apply2"), <<S("cons"), S("n"), NilExpr>>) >>),
  use_print |-> Lambda(<<"n">>, <<
    Call(S("apply2"), <<S("print"), E("cons", <<E("quote", <<S("+")>>),
      E("cons", <<S("n"), E("cons", <<N(2), NilExpr>>)>>)>>), S("n")>>) >>),
  use_less |-> Lambda(<<"n">>, <<
    E("if", <<Call(S("apply2"), <<S("<"), S("n"), N(3)>>),
              Call(S("apply2"), <<S("*"), S("n"), S("n")>>),
              Call(S("apply2"), <<S("begin"), S("n"), N(0)>>)>>) >>),
  adder |-> Lambda(<<"n">>, << Fn(<<"x">>, E("+", <<S("x"), S("n")>>)) >>),
  use_half |-> Lambda(<<"n">>, << E("+", <<Call(S("half"), <<S("n"), N(9)>>), N(1)>>) >>),
  use_again |-> Lambda(<<"n">>, << E("*", <<Call(S("again"), <<S("n")>>), S("n")>>) >>),
  use_make |-> Lambda(<<"n">>, << Call(Call(S("make"), <<S("n")>>), <<N(2)>>) >>),
  use_counter |-> Lambda(<<"n">>, <<
    Def("count", Call(S("counter"), <<S("n")>>)),
    Call(S("count"), <<N(1)>>), Call(S("count"), <<S("n")>>) >>),
  use_apply |-> Lambda(<<"n">>, << Call(S("apply1"), <<Call(S("adder"), <<S("n")>>)>>) >>),
  use_both |-> Lambda(<<"n">>, <<
    Def("x", S("n")),
    Def("g", Fn(<<"y">>, Set("x", E("+", <<S("x"), S("y")>>)))),
    Def("r", Call(S("remember_adder"), <<S("n")>>)),
    Call(S("g"), <<S("r")>>),
    E("cons", <<S("x"), E("cons", <<S("r"), S("g")>>)>>) >>)]

\* Lambdas that are walked in the sessions that turn the compiler off.
WalkedProgram == [
  half |-> Lambda(<<"m">>, << E("/", <<S("m"), N(2)>>) >>),
  again |-> Lambda(<<"m">>, << E("+", <<Call(S("use_half"), <<N(6)>>), S("m")>>) >>),
  make |-> Lambda(<<"k">>, << Fn(<<"x">>, E("+", <<S("x"), S("k")>>)) >>),
  counter |-> Lambda(<<"k">>, << Fn(<<"y">>, Set("k", E("+", <<S("k"), S("y")>>))) >>),
  apply1 |-> Lambda(<<"h">>, << Call(S("h"), <<N(1)>>) >>),
  \* starts two more machines and keeps what the first one returned
  remember_adder |-> Lambda(<<"m">>, <<
    Set("kept", Call(S("adder"), <<N(4)>>)),
    E("+", <<Call(S("kept"), <<N(2)>>), S("m")>>) >>)]

\* bcc_compile_to_lambda runs to its end.
RECURSIVE Completed(_)
Completed(c) == IF IsCompiled(c) THEN c.table ELSE Completed(CompileStep(c))

CompiledSource(source) == [name \in DOMAIN source |-> Completed(CompileStart(name, source[name]))]

NamedSource == [n \in {<<name>> : name \in DOMAIN NamedProgram} |-> NamedProgram[n[1]]]
NamedCompiled == CompiledSource(NamedSource)
NamedTable == ProgramTable(NamedCompiled)
NamedCode == LET table == NamedTable IN table
\* The samples run together with the generated programs.
SampleSource ==
  [n \in {<<"fac_file">>, <<"capturing_file">>, <<"gc_test_file">>,
           <<"fac">>, <<"gen_adders">>, <<"call_first">>, <<"double">>, <<"apply2">>,
           <<"use_minus">>, <<"use_cons">>, <<"use_print">>, <<"use_less">>, <<"adder">>,
           <<"use_half">>, <<"use_again">>, <<"use_make">>, <<"use_counter">>, <<"use_apply">>, <<"use_both">>} |-> NamedSource[n]]
AgreementPrograms == Combinations @@ SampleSource
AgreementSource == AgreementPrograms
AgreementCompiled == CompiledSource(AgreementPrograms)
AgreementTable == ProgramTable(AgreementCompiled)
AgreementCode == LET table == AgreementTable IN table
=============================================================================
