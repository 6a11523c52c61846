------------------------------ MODULE MCSessions ------------------------------
(***************************************************************************)
(* Sessions over generated programs, and the sessions of the samples and   *)
(* of the README.                                                          *)
(***************************************************************************)
EXTENDS SamplePrograms, Sessions, BalancedBytecode

MinByte == -128
MaxByte == 127
MinSmall == -8
MaxSmall == 7

NoPairs == << >>
NoNumbers == {}
AllBuildins == BuildinFunc \ {"gc_heap_size"}

\* register_buildins_in, and __compile_lambdas as main sets it
GlobalBindings == EnvDef(BuildinBindings, "__compile_lambdas", True)
Globals == GlobalBindings

-----------------------------------------------------------------------------
(* What is entered.                                                        *)

Expr(expr) == [form |-> "expr", sym |-> NoName, expr |-> expr]
FileForm(name) == [form |-> "file", sym |-> NoName, cl |-> <<name>>]
FnOf(program) == Fn(program.names, program.body)

\* (define sym (lambda ...)) for a sample that is called sym, or for a program
DefineSample(sym) == Expr(Def(sym, FnOf(NamedProgram[sym])))
DefineWalked(sym) == Expr(Def(sym, FnOf(WalkedProgram[sym])))
DefineFn(sym, program) == Expr(Def(sym, FnOf(program)))
Enters(func, operands) == Expr(Call(S(func), operands))
Keeps(sym, func, operands) == Expr(Def(sym, Call(S(func), operands)))

CompilerOff == Expr(Set("__compile_lambdas", False))

-----------------------------------------------------------------------------
(* Sessions.                                                               *)

\* Two activations of the lambda; the closures they return live on together.
CombinationScript ==
  LET activations(n) == <<DefineFn("f", Combinations[n]),
                          Keeps("c", "f", <<N(1)>>), Keeps("d", "f", <<N(2)>>)>>
      uses == <<Enters("c", <<N(2)>>), Enters("d", <<N(1)>>), Enters("c", <<N(1)>>)>>
  IN  {activations(n) \o IF n[3] \in DOMAIN ClosureUse THEN uses ELSE << >> : n \in DOMAIN Combinations}

SampleScripts == {
  <<FileForm(<<"fac_file">>)>>, <<FileForm(<<"capturing_file">>)>>, <<FileForm(<<"gc_test_file">>)>>,
  <<DefineSample("fac"), Keeps("c", "fac", <<N(4)>>), Enters("fac", <<N(1)>>)>>,
  <<DefineSample("gen_adders"), Keeps("adders", "gen_adders", <<N(2)>>),
    DefineFn("c", NamedProgram.call_first), Enters("c", <<N(3)>>)>> }

\* Expressions around calls of compiled lambdas.
ExprScripts == {
  <<DefineSample("fac"),
    Expr(E("+", <<Call(S("fac"), <<N(3)>>), N(1)>>)),
    Expr(E("print", <<Call(S("fac"), <<N(4)>>)>>)),
    Expr(E("if", <<E("<", <<Call(S("fac"), <<N(2)>>), N(1)>>), S("fac"), E("quote", <<E("f", <<N(1)>>)>>)>>)),
    Expr(Do(<<Def("c", Call(S("fac"), <<N(3)>>)), E("cons", <<S("c"), E("quote", <<S("x")>>)>>)>>)),
    Expr(E("first", <<E("rest", <<E("cons", <<N(1), E("cons", <<S("c"), NilExpr>>)>>)>>)>>)),
    Expr(Call(FnOf(NamedProgram.double), <<N(2)>>)),
    Expr(E("if", <<E("=", <<S("c"), N(6)>>), S("unbound"), N(1)>>)),
    Expr(Call(N(1), <<N(2)>>)), Expr(E("define", <<N(1), N(2)>>)) >>,
  <<DefineSample("apply2"), DefineSample("use_minus"), DefineSample("use_cons"), DefineSample("use_print"),
    DefineSample("use_less"), Enters("use_less", <<N(2)>>), Enters("use_less", <<N(4)>>),
    Enters("use_minus", <<N(5)>>), Enters("use_cons", <<N(2)>>), Enters("use_print", <<N(1)>>)>> }

\* "previously compiled lambdas still work": they call walked lambdas, which
\* call compiled ones again.
MixedScripts == {
  <<DefineSample("use_half"), DefineSample("use_again"), CompilerOff,
    DefineWalked("half"), DefineWalked("again"), Enters("use_half", <<N(7)>>), Enters("use_again", <<N(2)>>),
    Expr(E("-", <<Call(S("use_half"), <<N(6)>>), Call(S("half"), <<Call(S("use_half"), <<N(2)>>)>>)>>))>>,
  <<DefineSample("use_make"), DefineSample("use_counter"), CompilerOff,
    DefineWalked("make"), DefineWalked("counter"),
    Enters("use_make", <<N(3)>>), Enters("use_counter", <<N(5)>>), Enters("use_counter", <<N(2)>>)>>,
  <<DefineSample("adder"), DefineSample("use_apply"), DefineSample("use_both"), Expr(Def("kept", NilExpr)),
    CompilerOff, DefineWalked("apply1"), DefineWalked("remember_adder"),
    Enters("use_apply", <<N(3)>>), Enters("use_both", <<N(3)>>), Enters("kept", <<N(1)>>),
    Keeps("c", "use_both", <<N(1)>>), Enters("apply1", <<S("kept")>>),
    Expr(Call(E("rest", <<E("rest", <<S("c")>>)>>), <<N(5)>>)) >> }

AgreementScriptSet == CombinationScript \cup SampleScripts \cup ExprScripts \cup MixedScripts
AgreementScripts == AgreementScriptSet
FileForms == {FileForm(n) : n \in {<<"fac_file">>, <<"capturing_file">>, <<"gc_test_file">>}}

GlobalSymbols ==
  DOMAIN BuildinTable \cup DOMAIN NamedProgram \cup DOMAIN WalkedProgram
    \cup {"__compile_lambdas", "foo", "adders", "add2", "add3", "c", "d", "f", "g", "h",
          "x", "y", "kept", "unbound"}
Symbols == GlobalSymbols

SetGlobalScripts == {<<Expr(Def("foo", N(1))), DefineSample("remember"), Enters("remember", <<N(2)>>)>>}
NestedDefineScripts == {<<DefineFn("h", NamedProgram.nested_define), Enters("h", <<N(4)>>)>>}
ShadowingScripts == {<<DefineFn("h", NamedProgram.shadowing), Enters("h", <<N(4)>>)>>}
ComposeScripts == {<<DefineSample("wrap"), DefineSample("compose"), Keeps("h", "compose", <<N(7)>>)>>}

\* samples/capturing.l, entered at the prompt
CapturingScripts == {
  <<DefineSample("gen_adders"), Keeps("adders", "gen_adders", <<N(3)>>),
    Expr(Def("add3", E("first", <<S("adders")>>))),
    Expr(Def("add2", E("first", <<E("rest", <<S("adders")>>)>>))),
    Enters("add2", <<N(10)>>), Expr(E("print", <<Call(S("add2"), <<Call(S("add3"), <<N(7)>>)>>)>>)) >>}

-----------------------------------------------------------------------------
\* README, BC_SAVE_VAR and BC_SAVE_ENV: the atom is "left on the stack as the
\* return value of `define` or `set!`".
ReturnValueOfSet ==
  status = "returned" /\ rl.cl = <<<<"remember">>>> => result = args[1]

\* buildins.c, compile_define: "Compile value expr and store the initial value
\* afterwards".
InitialValueStored ==
  status = "returned" /\ rl.cl = <<<<"nested_define">>>> => result = Num(args[1].num - 1)
=============================================================================
