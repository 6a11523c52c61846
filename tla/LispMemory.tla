------------------------------ MODULE LispMemory ------------------------------
(***************************************************************************)
(* The data of the interpreter (memory.h, memory.c): atoms, the scopes     *)
(* that lambdas hold on to, and environments.                              *)
(*                                                                         *)
(* Two kinds of C objects are told apart by their address and are cells of *)
(* a heap here: pairs (an atom [type |-> "pair", cell |-> c] stands for    *)
(* pairs[c]) and scopes (scope s stands for scopes[s], and 0 for NULL).    *)
(* Both heaps only grow, and a cell only refers to older cells: atoms are  *)
(* built bottom up, no operation of the language writes into a pair, and   *)
(* `next` is fixed when a scope is allocated.                              *)
(***************************************************************************)
EXTENDS Integers, Sequences

CONSTANTS
  Symbol,    \* names of bindings
  Buildin,   \* the C functions that are bound: a subset of BuildinFunc
  MinNum,    \* smallest and
  MaxNum     \* largest value of a number atom (int64_t in the code)

ArithmeticFunc == {"plus", "minus", "multiply", "divide", "modulo"}
CompareFunc == {"equal", "lt", "gt"}
BuildinFunc == {"define", "set", "if", "quote", "begin", "lambda", "cons", "first", "rest",
                "print", "gc_heap_size"} \cup ArithmeticFunc \cup CompareFunc

ASSUME NumAssumption == MinNum \in Int /\ MaxNum \in Int /\ MinNum <= 0 /\ 0 < MaxNum
ASSUME BuildinAssumption == Buildin \subseteq BuildinFunc

NULL == 0

-----------------------------------------------------------------------------
(* Atoms.  A compiled lambda is named by its index in the program's table. *)

Nil == [type |-> "nil"]
True == [type |-> "true"]
False == [type |-> "false"]
Num(n) == [type |-> "num", num |-> n]
Sym(s) == [type |-> "sym", sym |-> s]
Pair(c) == [type |-> "pair", cell |-> c]
BuildinAtom(f) == [type |-> "buildin", func |-> f]
RuntimeLambda(cl, s) == [type |-> "runtime_lambda", cl |-> cl, scopes |-> s]
InterpreterState(fp, i, argc, escaped, scope) ==
  [type |-> "interpreter_state", fp_index |-> fp, ip_index |-> i,
   arg_count |-> argc, scope_escaped |-> escaped, frame_scope |-> scope]

NumValue == MinNum..MaxNum

\* Atoms a program can get hold of when the interpreter works as intended.
ValueOver(lambdas) ==
  {Nil, True, False}
    \cup [type : {"num"}, num : NumValue]
    \cup [type : {"sym"}, sym : Symbol]
    \cup [type : {"pair"}, cell : Nat]
    \cup [type : {"buildin"}, func : Buildin]
    \cup [type : {"runtime_lambda"}, cl : lambdas, scopes : Nat]

\* The atom that only ever lives in the saved state slot of a stack frame.
SavedState ==
  [type : {"interpreter_state"}, fp_index : Nat, ip_index : Nat,
   arg_count : Nat, scope_escaped : BOOLEAN, frame_scope : Nat]

AtomOver(lambdas) == ValueOver(lambdas) \cup SavedState

IsType(atom, type) == atom.type = type

-----------------------------------------------------------------------------
(* Numbers: two's complement arithmetic and C's division.                  *)

\* slip: the result does not fit into the number it is stored in
Widened(n) == n

Wrap(n) == MinNum + ((n - MinNum) % (MaxNum - MinNum + 1))

Abs(n) == IF n < 0 THEN -n ELSE n

\* slip: rounds down
FlooredQuotient(a, b) == IF b > 0 THEN a \div b ELSE (-a) \div (-b)

\* C rounds a quotient towards zero; a remainder has the dividend's sign.
Quotient(a, b) ==
  IF (a < 0) = (b < 0) THEN Abs(a) \div Abs(b) ELSE -(Abs(a) \div Abs(b))

Remainder(a, b) == IF a < 0 THEN -(Abs(a) % Abs(b)) ELSE Abs(a) % Abs(b)

\* The two divisions that raise SIGFPE.
DivisionTraps(a, b) == b = 0 \/ (a = MinNum /\ b = -1)

-----------------------------------------------------------------------------
(* Scopes.  `frame_index`, `atoms` and `env` share their bytes in the      *)
(* code; the one that `type` selects is meaningful.                        *)

StackScope(next, argc, fi) ==
  [type |-> "stack", next |-> next, arg_count |-> argc, frame_index |-> fi, atoms |-> << >>]

EnvScope == [type |-> "env", next |-> NULL, arg_count |-> 0, frame_index |-> 0, atoms |-> << >>]

\* BC_RETURN turns a stack scope into a heap scope that owns its frame.
Captured(scope, frame) ==
  [scope EXCEPT !.type = "heap", !.frame_index = 0, !.atoms = frame]

ScopeOver(lambdas) ==
  [type : {"stack"}, next : Nat, arg_count : Nat, frame_index : Nat \ {0}, atoms : {<< >>}]
    \cup [type : {"heap"}, next : Nat, arg_count : Nat, frame_index : {0},
          atoms : Seq(AtomOver(lambdas))]
    \cup {EnvScope}

\* Whether the scope s is on the chain that starts at scope `from`.
OnChain(scopes, from, s) ==
  LET on[i \in 0..Len(scopes)] == i # NULL /\ (i = s \/ on[scopes[i].next])
  IN  on[from]

\* slip: lambdas inside of pairs are not looked for
MentionsDirectly(scopes, pairs, subject, s) ==
  subject.type = "runtime_lambda" /\ OnChain(scopes, subject.scopes, s)

\* Whether check_atom_for_escaped_scope(subject) finds the scope s: it
\* follows pairs and the scope chains of runtime lambdas, nothing else.
Mentions(scopes, pairs, subject, s) ==
  LET cell[c \in DOMAIN pairs] ==
        \E part \in {pairs[c].first, pairs[c].rest} :
          \/ part.type = "pair" /\ cell[part.cell]
          \/ part.type = "runtime_lambda" /\ OnChain(scopes, part.scopes, s)
  IN  \/ subject.type = "pair" /\ cell[subject.cell]
      \/ subject.type = "runtime_lambda" /\ OnChain(scopes, subject.scopes, s)

-----------------------------------------------------------------------------
(* The environment of compiled code: the one global env_t.                 *)

EnvDef(env, key, value) == Append(env, [key |-> key, value |-> value])

Bindings(env, key) == {i \in DOMAIN env : env[i].key = key}

Bound(env, key) == Bindings(env, key) # {}

\* Both walk the bindings from the oldest one: a redefinition is shadowed by
\* the definition it was meant to replace.
FirstBinding(env, key) ==
  CHOOSE i \in Bindings(env, key) : \A j \in Bindings(env, key) : i <= j

EnvGet(env, key) == env[FirstBinding(env, key)].value

EnvSet(env, key, value) ==
  IF Bound(env, key) THEN [env EXCEPT ![FirstBinding(env, key)].value = value] ELSE env

BindingOver(lambdas) == [key : Symbol, value : AtomOver(lambdas)]

PairOver(lambdas) == [first : AtomOver(lambdas), rest : AtomOver(lambdas)]
=============================================================================
