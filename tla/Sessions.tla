------------------------------- MODULE Sessions -------------------------------
(***************************************************************************)
(* One session, entered twice: at a prompt that compiles lambdas, where    *)
(* TreeWalker and BytecodeInterpreter run, and with the compiler off       *)
(* (lisp -i), where AstInterpreter's Eval walks everything.  README: "Only *)
(* the bytecode compiler is disabled, not the interpreter."                *)
(*                                                                         *)
(* The session may turn the compiler off half way: the README says that    *)
(* "previously compiled lambdas still work".  The walked session keeps its *)
(* own environments, and answers each form in the step that reads it.      *)
(***************************************************************************)
EXTENDS TreeWalker, TLC
LOCAL INSTANCE FiniteSetsExt
LOCAL INSTANCE SequencesExt

CONSTANT Script   \* the sessions: sequences of expressions and files

VARIABLES
  script,    \* the session that is entered
  envs,      \* environments of the walked session; 1 is the global one
  expected   \* its answer to the form that is evaluated

reference == <<script, envs, expected>>
sessionVars == <<vars, walker, reference>>

-----------------------------------------------------------------------------
(* The loop of repl, and the file mode.                                    *)

Walk(expr) ==
  LET r == Eval(envs, 1, expr)
  IN  envs' = r.envs /\ expected' = r.value

\* read_atom, and the call of eval_atom in the global environment.
ReadExpr ==
  /\ control.at = "prompt" /\ forms < Len(script)
  /\ LET next == script[forms + 1]
     IN  /\ next.form = "expr"
         /\ form' = next
         /\ control' = Entering(next.expr, 1)
         /\ Walk(next.expr)
  /\ forms' = forms + 1
  /\ UNCHANGED <<memory, stack, registers, ip, args, result, status, locals, calls, script>>

\* The answer is printed.
PrintAnswer ==
  /\ control.at = "answer" /\ calls = << >>
  /\ control' = AtPrompt
  /\ UNCHANGED <<vars, locals, calls, reference>>

ReadFile ==
  /\ control.at = "prompt" /\ forms < Len(script)
  /\ RunFile
  /\ form' = script[forms + 1]
  /\ Walk(Source[form'.cl[1]].body)
  /\ control' = InMachine(1)
  /\ UNCHANGED <<locals, calls, script>>

FinishFile ==
  /\ control.at = "machine" /\ IsFile
  /\ Finish
  /\ control' = AtPrompt
  /\ UNCHANGED <<locals, calls, reference>>

\* Nothing else may stop a session.
EndOfScript ==
  /\ control.at = "prompt" /\ forms = Len(script)
  /\ UNCHANGED sessionVars

\* register_buildins_in
BuildinBindings ==
  FoldSet(LAMBDA name, bindings : EnvDef(bindings, name, BuildinAtom(BuildinFor[name])),
          << >>, DOMAIN BuildinFor)

SessionInit ==
  /\ Init
  /\ locals = << >>
  /\ calls = << >>
  /\ control = AtPrompt
  /\ script \in Script
  /\ envs = << [parent |-> NULL, bindings |-> EnvDef(BuildinBindings, "__compile_lambdas", False)] >>
  /\ expected = Nil

Work ==
  \/ PrintAnswer \/ FinishFile
  \/ WalkerStep /\ UNCHANGED reference

SessionNext == ReadExpr \/ ReadFile \/ Work \/ EndOfScript

\* One thread, which waits for nothing but what is entered.
SessionSpec == SessionInit /\ [][SessionNext]_sessionVars /\ WF_sessionVars(Work)

-----------------------------------------------------------------------------
\* The same value, once with pairs on the heap and once without.  A lambda is
\* only known by what it answers when the session calls it.
RECURSIVE SameValue(_, _)
SameValue(atom, value) ==
  CASE IsType(atom, "pair") ->
         /\ IsType(value, "pair")
         /\ SameValue(pairs[atom.cell].first, value.first)
         /\ SameValue(pairs[atom.cell].rest, value.rest)
    [] atom.type \in {"runtime_lambda", "lambda"} -> IsType(value, "lambda")
    [] OTHER -> atom = value

\* A session with compiled lambdas answers what the walked session answers:
\* slots, scopes and copied frames stand for the environments of eval_atom,
\* whether a lambda was compiled or not, and no form that the walked session
\* answers ends the process.
Agreement ==
  /\ status # "crashed"
  /\ control.at = "answer" /\ calls = << >> => SameValue(control.value, expected)
  /\ status = "returned" /\ IsFile => SameValue(result, expected)

\* The prompt comes back after every form, however many builtins, walked
\* lambdas and interpreters call each other for it.
EveryFormIsAnswered == control.at # "prompt" ~> control.at = "prompt"

-----------------------------------------------------------------------------
(* Several execution stacks.                                               *)

Waiters == {calls[i] : i \in DOMAIN calls}
Suspended == {c \in Waiters : c.call = "bci_eval"}

\* Frames on a stack that the atoms keep alive.
StackScopesOf(atoms) == {s \in ReachableScopes(atoms) : scopes[s].type = "stack"}

\* The scopes of the activations on one stack.
ScopesOn(stk, own) ==
  ({own} \cup {stk[k].frame_scope : k \in {j \in DOMAIN stk : IsType(stk[j], "interpreter_state")}})
    \ {NULL}

\* What C functions and walked lambdas hold.
WalkedAtoms ==
  UNION {{locals[i].bindings[j].value : j \in DOMAIN locals[i].bindings} : i \in DOMAIN locals}
    \cup UNION {{c.values[i] : i \in DOMAIN c.values} : c \in {w \in Waiters : w.call = "buildin"}}
    \cup (IF control.at = "answer" THEN {control.value} ELSE {})
    \cup (IF status = "returned" THEN {result} ELSE {})

\* A scope on a stack is an index into it, and says nothing of which stack it
\* is: a closure over a frame that was not copied yet stays with the bci_eval
\* that runs the frame, and never gets to walked code or to another bci_eval.
ScopesStayOnTheirStack ==
  /\ status = "running" => StackScopesOf(ToSet(stack)) \subseteq ScopesOn(stack, frame_scope)
  /\ \A machine \in Suspended :
       StackScopesOf(ToSet(machine.stack)) \subseteq ScopesOn(machine.stack, machine.frame_scope)
  /\ StackScopesOf(WalkedAtoms) = {}
  /\ StackScopesOf({env[i].value : i \in DOMAIN env}) \subseteq
       UNION ({ScopesOn(machine.stack, machine.frame_scope) : machine \in Suspended}
                \cup (IF status = "running" THEN {ScopesOn(stack, frame_scope)} ELSE {}))
=============================================================================
