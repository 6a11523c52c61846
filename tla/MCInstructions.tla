--------------------------- MODULE MCInstructions ---------------------------
(***************************************************************************)
(* Every instruction that computes, over all numbers of a three bit        *)
(* machine and over the operands no number instruction is made for.        *)
(***************************************************************************)
EXTENDS BalancedBytecode, TLC

MinTiny == -4
MaxTiny == 3
LoadOp(op) == [op |-> op, offset |-> 0, arg |-> 0]
LoadFrom(op, arg) == [op |-> op, offset |-> 0, arg |-> arg]
Function(argc, literals, code) ==
  [code |-> Append(code, LoadOp("RETURN")), literals |-> literals, arg_count |-> argc, var_count |-> 0]
First == LoadFrom("LOAD_ARG", 0)
Second == LoadFrom("LOAD_ARG", 1)

ComputeOp == ArithmeticOp \cup CompareOp

\* (lambda (a b) (op a b)) for each operation, and
\*   divide   (lambda (a b) (+ (* (/ a b) b) (% a b)))
\*   part     (lambda (p) (first (rest p)))
\*   apply    (lambda (f) (f))
\*   forgets  (lambda (a) (if a (forgets) 1))   calls itself without an argument
\*   sum      (lambda (a b) (p a b)) and  sum_one  (lambda (a) (p a))  where p is +
InstructionCode ==
  [op \in ComputeOp |-> Function(2, << >>, <<First, Second, LoadOp(op)>>)] @@ [
    divide |-> Function(2, << >>, << First, Second, LoadOp("DIV"), Second, LoadOp("MUL"),
                                     First, Second, LoadOp("MOD"), LoadOp("ADD") >>),
    part |-> Function(1, << >>, << First, LoadOp("REST"), LoadOp("FIRST") >>),
    apply |-> Function(1, << >>, << First, LoadFrom("CALL", 0) >>),
    forgets |-> Function(1, << Sym("forgets") >>,
                         << First, LoadFrom("JUMP_IF_FALSE", 3), LoadFrom("LOAD_ENV", 0),
                            LoadFrom("CALL", 0), LoadFrom("JUMP", 1), LoadFrom("LOAD_NUM", 1) >>),
    sum |-> Function(2, << Sym("p") >>,
                     << LoadFrom("LOAD_ENV", 0), First, Second, LoadFrom("CALL", 2) >>),
    sum_one |-> Function(1, << Sym("p") >>,
                         << LoadFrom("LOAD_ENV", 0), First, LoadFrom("CALL", 1) >>)]

InstructionSymbols == DOMAIN InstructionCode \cup {"p"}
\* (1 2), as the reader builds it
TinyList == << [first |-> Num(2), rest |-> Nil], [first |-> Num(1), rest |-> Pair(1)] >>
TinyGlobals == << [key |-> "p", value |-> BuildinAtom("plus")] >>

Operand == {Num(n) : n \in MinTiny..MaxTiny}
NoNumber == {Nil, True, Pair(2)}
Calling(func, actuals) == [form |-> "call", sym |-> NoName, func |-> func, args |-> actuals]
InstructionForms ==
  {[form |-> "lambda", sym |-> name, cl |-> name] : name \in DOMAIN InstructionCode}
    \cup {Calling(op, <<a, b>>) : op \in {"divide", "sum"} \cup ComputeOp,
                                  a \in Operand, b \in Operand}
    \cup {Calling(op, <<a, b>>) : op \in ComputeOp, a \in NoNumber, b \in NoNumber \cup {Num(1)}}
    \cup {Calling("sum", <<a, Num(1)>>) : a \in {Nil, Sym("p"), Sym("sum")}}
    \cup {Calling("part", <<a>>) : a \in {Pair(1), Pair(2), Nil}}
    \cup {Calling("apply", <<a>>) : a \in {Num(1), Sym("p")}}
    \cup {Calling("forgets", <<a>>) : a \in {Num(1), False}}
    \cup {Calling("sum_one", <<a>>) : a \in {Num(1)}}

-----------------------------------------------------------------------------
\* The quotient and the remainder belong together, as C defines / and %: the
\* program `divide` gives back its first argument, whatever the signs, unless
\* the division traps; wrapping around never loses it.
DivisionLaw ==
  status = "returned" /\ form.func = "divide" /\ Len(args) = 2 => result = args[1]
=============================================================================
