# Specifications of lisp.c

lisp.c is a small Lisp: a reader builds atoms, an interpreter walks them
(`eval.c`), and a compiler turns lambdas into bytecode for a virtual machine
(`bytecode_compiler.c`, `bytecode_interpreter.c`). This directory holds TLA+
models of that program, configurations that check them with TLC, and theorems
about them with proofs for TLAPS.

## Inventory

| part | state | operations | talks to |
|---|---|---|---|
| main program, `lisp.c` | the global environment | prompt (`repl`), file mode (`interprete_files`), options | reader, eval, compiler, machine, printer |
| scanner, `scanner.c` | buffer, position, line and column, file descriptor | `scan_peek`, `scan_until`, `scan_while`, `scan_one_of` | `read(2)` |
| reader, `reader.c` | none of its own | `read_atom`, `read_list`, `read_sym` | scanner, atoms |
| atoms, scopes, environments, `memory.c` | heap objects | allocation, `env_get`, `env_def`, `env_set` | collector |
| AST interpreter, `eval.c` | none of its own: environments | `eval_atom` | builtins, machine |
| builtins, `buildins.c` | none | an eval and, for most, a compile function each | eval, compiler |
| compiler, `bytecode_compiler.c`, and generator | the lambda under construction: code, literals, names | `bcc_compile_to_lambda`, `bcc_compile_expr`, backpatching | builtins, atoms |
| virtual machine, `bytecode_interpreter.c` | execution stack, registers, scopes | one case per instruction in `bci_eval` | builtins, eval, environments |
| execution stack, same file | length, allocated, atoms | push, push_n, pop, pop_n, peek | collector |
| printer, `printer.c` | none | `print_atom`, `print_list` | output stream |
| output stream, `output_stream.c` | a file, or a block and how much of it is filled | `os_new`, `os_new_capture`, `os_printf`, `os_clear`, `os_destroy` | stdio |
| logger, `logger.c` | level, stream | `log_setup`, `log_printf` | output stream, stderr |
| collector, `gc.c`; modules, `mod_hello.c` | external libraries | allocation; `dlopen` | |

The program has one thread. It is hard for other reasons:

- **Frames that move.** Activations live on one execution stack. A lambda built
  in an activation refers to its frame by a *scope*; when the activation
  returns, the frame is popped, and must first be copied to the heap if a lambda
  that refers to it survives. Whether one does is found out by looking at the
  return value and at values stored outwards. It takes several activations and
  stores to get this wrong, and then a variable silently names a slot of some
  other frame.
- **A machine that trusts its code.** RETURN finds the saved registers of the
  caller because the function left exactly one operand; nothing checks it. The
  compiler has to keep the balance over branches, `begin`, definitions and
  calls.
- **Two interpreters, one language.** A lambda means the same whether it is
  walked or compiled. Names become pairs of a scope distance and an index.
- **Assertions.** Type errors end the process when compiled, and give nil when
  walked.

What makes each part correct: for the machine, that its stack keeps the layout
that the comment above `bci_eval` documents, that closures never refer to dead
frames, that it ends, and that it only ends the process for a fault of the
program; for the compiler, that its code is balanced; for both together, that
the machine answers what the AST interpreter answers; for the stack, that no
atom is read or written outside of the allocated part; for scanner and reader,
that tokens do not depend on how `read` cuts the input, and that reading ends;
for the output stream, that its block always is the C string that the tests
compare, and that nothing is written behind it or after it was freed.

## Modules

| module | models | lines |
|---|---|---|
| `LispMemory` | atoms, scopes, the global environment (`memory.h`, `memory.c`), arithmetic | state-free operators |
| `BytecodeInterpreter` | `bci_eval`, one action per instruction or group of instructions that share a case, and the top level that feeds it | the machine |
| `BalancedBytecode` | the frame layout of the comment above `bci_eval`, the balance of code it needs, and code that names only what the lambdas around it have | properties |
| `BytecodeCompiler` | compiler, generator, the compile functions of the builtins | pure operators: a state of the compiler, its first one and the next one |
| `CompiledPrograms` | what the machine runs if it was compiled: a run of the compiler for each program, and the loading of what it leaves | premises of theorems |
| `AstInterpreter` | `eval_atom` and the eval functions of the builtins, with the compiler off | pure operators |
| `TreeWalker` | the same functions step by step on a C stack, calling `bci_eval` and called by it | state machine around `BytecodeInterpreter` |
| `Sessions` | a session entered at a prompt or a file, with compiled lambdas and walked, side by side | composes them all |
| `SamplePrograms` | programs as source: the repository's samples, and 175 generated ones | inputs |
| `ExecutionStack` | the block under the stack: growing, shrinking, clearing | state machine |
| `AtomStack` | the sequence that `BytecodeInterpreter` takes for the stack | what `ExecutionStack` implements |
| `Scanner` | `scanner.c` on a file descriptor or a string | state machine |
| `TextScanner` | each scanner function as one step on the whole text | what `Scanner` implements |
| `Reader` | `reader.c` and the reading loops of `lisp.c` | state machine above `TextScanner` |
| `AtomTrees` | atoms as trees, and the texts that reader and printer both know | state-free operators |
| `Printer` | `print_atom` and `print_list` | pure operators |
| `OutputStream` | `output_stream.c`, on stdio and on a block | state machine |
| `Logger` | `logger.c` over an output stream that the program also prints to | state machine above `OutputStream` |
| `TextSink` | a text that grows up to a limit | what `OutputStream` and `Logger` implement |
| `BytecodeInterpreterProofs`, `FaultProofs`, `EscapeProofs` | theorems about `BytecodeInterpreter`, each module on top of the one before | proofs |
| `CompilerProofs` | theorems about `BytecodeCompiler`; `EscapeProofs` puts both together | proofs |
| `ExecutionStackProofs`, `ScannerProofs`, `ReaderProofs`, `OutputStreamProofs` | theorems about the module each is named for | proofs |
| `MCBytecodeInterpreter`, `MCInstructions`, `MCSessions`, `MCAgreement`, `MCExecutionStack`, `MCScanner`, `MCReader`, `MCOutput` | instances for TLC | constants |

There are three towers. From text to atoms: `Scanner` implements `TextScanner`,
and `Reader` runs on `TextScanner`. From programs to results: `Sessions`
composes `BytecodeCompiler`, `AstInterpreter`, and `TreeWalker` above
`BytecodeInterpreter`, whose stack is the sequence of `AtomStack`, which
`ExecutionStack` implements. From prints to what arrives: `Logger` prints into
`OutputStream`, and both implement `TextSink`.

`BytecodeInterpreter` keeps the locals of `bci_eval` as variables under their
names: `frame_index`, `arg_count`, `rl`, `ip`, `frame_scope`, `scope_escaped`.
`stack` is `interp->stack`, a sequence. Atoms that are only compared by value
are records; pairs and scopes, which the code compares by address or changes in
place, are cells of two heaps, `pairs` and `scopes`. Indices count from 1.
`Executable` is the conjunction of what an instruction asserts or needs so as
not to dereference a NULL pointer; without it, the only step is `Fault`, which
ends the process. Numbers wrap around at `MinNum` and `MaxNum` and the two
divisions that trap are faults.

`status` says whether the top level reads (`idle`), `bci_eval` runs
(`running`), has returned (`returned`) or the process is gone (`crashed`).
`DefineLambda`, `CallGlobal`, `RunFile` and `Finish` are the ways from the
prompt or a file into `bci_eval` and back, `bci_destroy` and the binding of a
result by `define` included.

The compile functions of `BytecodeCompiler` call each other for the parts of an
expression, and a lambda inside of a lambda starts a new one. In the model they
are cut at these calls. A state of the compiler is the chain of lambdas under
construction, the innermost last (`comp_data->parent` is the one before), and
the table of those that are finished. Each lambda under construction has its
code, literals and names so far, and in `todo` what the C functions that work
on it have still to do, in that order: compile an expression, generate an
instruction, store into a variable, give a jump its target. `CompileStep` does
the first of it. Lambdas are named by their way in the text: the literals, from
the outermost one on, that they become. That is a number and not a pointer, and
two lambdas that are the same text stay two.

`AstInterpreter` is one recursive C function that nothing interrupts; it is an
operator that returns the environments along with the value, for sessions in
which nothing is compiled. In `TreeWalker` the same C functions take steps,
because `bci_eval` and they call each other: a prompt evaluates
`(+ (f 1) (g 1))`, both compiled, with an interpreter for each; BC_CALL of a builtin or of a walked
lambda leaves `bci_eval` in the middle of an instruction. `control` is what the
C function that runs is about to do: evaluate an expression, return a value,
work in a builtin, or loop in `bci_eval`. `calls` is the C stack: each record
is a function that waits, with its locals. `bci_eval` is one of them: its
registers and its execution stack (each interpreter that `eval_atom` starts
has its own) are put into its record while it waits, so that the variables of
`BytecodeInterpreter` always are those of the `bci_eval` that runs. `locals`
are the environments of walked calls. `env`, `scopes` and `pairs` are common
to all.

`Sessions` evaluates each form with `AstInterpreter` in the step that reads it,
keeping environments of its own for that, and compares when the prompt gets its
answer. A session may turn the compiler off half way; "previously compiled
lambdas still work" (README.md of the repository), and then compiled and walked
lambdas call each other.

`ExecutionStack` keeps `length`, `allocated` and `atoms` of the struct, one
action per `stack_*` function with `stack_reallocate_if_neccessary` under it,
and two for the reads and writes of `bci_eval` through a frame pointer. The
collector's `realloc` clears new memory. `MaxLength` and `MaxN` bound the
lengths.

`Scanner` makes one step of each call of `read` and of each character that is
looked at. `buffer` is the filled part of the memory, `BytesRead` the results
`read` may have. `TextScanner` says what the calls mean; `position` and
`consumed` become the buffer's offsets plus what has been thrown away before.
`scan_one_of` leaves a character that does not match read but not consumed:
both modules say so, and `Reader` meets it behind `(a . b c)`.

In `Reader`, `frames` is the C stack. A frame is named for the place in the
code that waits for a call to return; `read_list` is a tail call of `read_atom`
and shares its frame, `items` are the pairs it has linked. `MaxProgram` bounds
the atoms the main program gets, for with a parenthesis too many it gets empty
symbols for ever. `Lex` is the reference for the parentheses of a text: it
tells code, strings and comments apart one character at a time.

`OutputStream` is one record, `os`, together with the file behind it or the
bytes of its block; `printed` is the history that the block is compared with.
`vsnprintf` is modelled by what it does: it writes as many characters as leave
room for the terminator, wherever it is told to, and returns the length of the
whole text. Formatting is left out; a text is formatted when it gets here.
`Logger` drops messages below its level, and prints the others in three parts.
A stream stays registered after `os_destroy`, as in the code.

Comments that begin with *slip* mark variants of a definition, as an oversight
in the code would make it; each breaks a property, which shows that the
property looks at that code.

## Runs

| run | what is checked |
|---|---|
| `Machine.cfg` | `TypeOK`; `FrameLayout`; `NoDanglingScope`: no closure refers to a dead frame, whether it is called or not; `EscapesSeen`: what an instruction lets out of an activation refers to no other frame than the one the escape check looks for; `SavedStateHidden`: no program gets hold of saved registers; `StackReleased`: a call leaves nothing behind, or what was built of its frame if its number of arguments was wrong; `ResultAsTested`: the results of `bytecode_interpreter_test.c` and `bytecode_execution_test.c` (5040 for `(fac 7)`, in eight bits); `EvaluationEnds` |
| `Instructions.cfg` | `FaultsExplained`: the process ends only for a type error, a trapping division or a missing argument; `DivisionLaw`: quotient and remainder belong together |
| `Agreement.cfg` | `RunsBalancedCode` and `RunsScopedCode`: the compiler's output is balanced, and names only what the lambdas around it have; `FrameLayout`, `EscapesSeen` and `OuterFrameAlive`, in every interpreter; `FindsNamedLambda`: scoping is lexical; `ScopesStayOnTheirStack`: a closure over a frame on one execution stack never gets to another interpreter or to walked code; `Agreement`: a session answers what the AST interpreter alone answers; `EveryFormIsAnswered`: the prompt comes back |
| `Stack.cfg` | `TypeOK` with the assertions; `OnlyLiveAtoms`: a slot holds an atom if and only if it is in use; `ImplementsAtomStack`; `NoThrashing`: the block is not moved back and forth |
| `Scan.cfg` | `TypeOK`; `LineAndColumn`; `ImplementsTextScanner`: tokens do not depend on the pieces `read` delivers; `CallsReturn`: only a search in vain does not return |
| `Output.cfg` | `TypeOK`, with nothing behind the block; `CapturesPrefix`: the block is a C string, the beginning of what was printed since it was cleared; `FreedBlockUntouched`; `ImplementsTextSink`: the three parts of a message are one print of its line |
| `Read.cfg` | `ReadsWhatIsPrinted`: what is read back for a printed atom is `ReadBack`, the atom with two named losses; `NestingFollowsText`: the activations of `read_list` are the open lists; `TokensClean`; `ReadingEnds`; `OnlyRegularTextsEnd`: the program only gets to the end of texts that close what they open |

Bounds. `Machine.cfg` enters any three of twenty-five forms, one after the other;
three are enough to define a closure maker, to make a closure and to call it,
and recursion goes as deep as `(fac 7)`. Two of the forms call with too few and
too many arguments. Numbers have eight bits, so that `(+ 100 100)` overflows. `Instructions.cfg` enumerates all pairs of numbers of
three bits, where every sign, zero, overflow and the two traps occur.
`Agreement.cfg` combines 5 ways to start a variable, 5 closures over it and 7
uses of both into 175 programs, each with two activations whose closures are
called alternately; nesting, recursion through a captured variable, definitions
inside of closures, `if` around and in closures, and closures in pairs occur.
Ten more sessions are the samples, expressions around calls of compiled
lambdas, all that compiled code does to builtins it calls through a variable,
and three sessions with the compiler turned off half way, in which up to two
interpreters wait for walked code.
The number embedded into an instruction has a smaller range than a number
(`MaxInt16` is 7), so that both ways of loading one are used.

`Stack.cfg` starts with blocks of 0 to 4 slots and goes up to 9 atoms, 4 at
once: the block grows from every length and shrinks several times in a row,
and sizes that are not divisible by 2 or 3 occur. `Scan.cfg` has all texts of up to four characters of three
kinds and a block of 2, so that a token is longer than the buffer, the buffer is
moved, expanded, and full at the end of the text. `Read.cfg` has all texts of up
to four of eight characters, dotted lists that are closed, not closed, or go on,
files that start with `#`, and what the printer writes for 544 atoms, alone and
behind a comment: 7027 texts. Among the atoms are negative numbers and lists that
start with `quote` and have one, two or no elements behind it.

`Output.cfg` prints texts of up to one character, and messages of one to three,
into blocks of 0, 1 and 3 bytes with any first content, up to 5 characters
between two clears: texts fit, leave no room for their terminator, and meet a
full block; messages are cut in each of their parts.

`EvaluationEnds` assumes weak fairness of `Execute \/ TopLevel`: the loop of
`bci_eval` and the loop of the prompt run on one thread without waiting for
anything but input. The programs of that run end; a recursion without an end
would not.

`EveryFormIsAnswered` assumes weak fairness of `Work`, everything that happens
between reading a form and printing its answer, and nothing about what is
entered.

`CallsReturn` assumes weak fairness of `Step`: the functions only wait for
input, which comes some time. `ReadingEnds` assumes it of the reader, one
thread as well. It is about texts whose strings and comments end and which
close no list that is not open. The other texts make `scan_until` or the main
loop go on for ever: that is `OnlyRegularTextsEnd`, about the texts which, as
`ReadingEnds` and `NestingFollowsText` need for `Lex`, have no dotted list and no
line for the shell (`IsPlain`). For this reason, and because the program is over
at the end of the file, `Read.cfg` does not look for deadlocks.

The other five configurations look at one session each in which the code does
not do what the documentation, a comment or a test says; TLC finds the
violation.

| run | what happens |
|---|---|
| `SetGlobal.cfg` | `(lambda (n) (set! foo n))`, `foo` being global, compiles to a nil pushed on top of the value: it returns nil, `foo` is unchanged, and RETURN finds a number where the saved registers should be |
| `NestedDefine.cfg` | in `(define half (begin (define other n) (- other 1)))` the value goes into the slot of `other` |
| `Shadowing.cfg` | `((lambda (first) (first n)) (lambda (x) (+ x 1)))` is compiled to FIRST |
| `Compose.cfg` | `wrap` returns a closure over its argument, a closure of the caller `compose`; the frame of `compose` is not copied |
| `Capturing.cfg` | the last line of `samples/capturing.l`, entered at a prompt: `eval_atom` gives `add2` the pair `(add3 7)`, not its value, and the addition ends the process |

The sessions of `Agreement.cfg` avoid these. Where the two interpreters differ
by design, they keep to what both do alike: conditions are comparisons (only
`true` is true for the one, only `false` is false for the other), there is no
type error (nil here, an assertion there), calls have as many arguments as the
lambda has, `eval_atom` calls compiled lambdas with literals, and builtins that
are called through a variable, which evaluate their arguments once more, get
symbols and pairs only where that makes no difference.

They also avoid one pattern on which `Agreement`, `OuterFrameAlive` and
`ScopesStayOnTheirStack` fail: with `h` being the compiled
`(lambda (n) (apply1 (lambda (y) (+ y n))))` and `apply1` a walked lambda that
calls its argument with 1, `(h 5)` gives 2 and not 6. The frame of `h` is not
copied, for `h` has not returned; `eval_atom` calls the closure on a new stack
(`eval.c:43`), where the index of that frame names the closure's own. It is not
a run of its own, because no text of the repository speaks of it.

## Proofs

`BytecodeInterpreterProofs` proves `TypeCorrect`, `Spec => []TypeOK`, for every
program table, environment and set of forms that satisfy the assumptions of
`BytecodeInterpreter`. `TypeOK` is inductive. Besides the types of the
variables it says that a running machine stands on an instruction of the code
of a runtime lambda, which is what the assertion at the end of the loop and the
guards of RETURN are for. There is one lemma per action; before them come
lemmas about the operators: what popping leaves (`PopProperties`), that slots and
literals hold atoms, what wrapping returns. `DivisionBelongsTogether` is about
C's division, for numbers of any width in two's complement: one that does not
trap does not overflow, and quotient and remainder make up the dividend.

The same module proves that the layout of the comment above `bci_eval` is
kept. `IInv`, which is inductive, is `TypeOK`, `FrameLayout`,
`SavedStateHidden`, `WholeFrameGone` (a call with the right number of arguments
leaves an empty stack) and that an idle machine has an empty stack. None of the parts would do alone: RETURN restores the caller only
because a saved state is where the layout says (`FrameLayout`), a program that
could load or return one (`SavedStateHidden`) could put it elsewhere, and a
first frame starts at the bottom because the last call left nothing
(`WholeFrameGone`). Frames are pairs of a first and last slot that do not
overlap, and most instructions write above all of them; `KeepsFrames` says that
these keep the layout. STORE_LOCAL writes into a frame, that of another
activation maybe, and needs that the scope it goes through names one.
So there are two premises: the code is balanced, and outer frames are alive
when they are used. `FrameLayoutKept`, `SavedStateStaysHidden` and
`StackIsReleased` are `BalancedCode => (Spec /\ []OuterFrameAlive => []...)`
with the assumption `ValueAssumption` (no global or quoted pair starts out as a
saved state). `StackReleased` also says what a call with a wrong number of arguments leaves:
its lambda and its arguments. That needs a second invariant, `ArityInv`, on top
of the first: `bci_eval` is only in its loop for as many arguments as the lambda
at the bottom of the stack has, and nothing the program does reaches the bottom
before the last RETURN, so a return with a wrong number comes from the check at
the beginning. The three are about one interpreter at a time; with several, the layout
is checked in `Agreement.cfg`. `FlatCodeKeepsLayout` has no premise but balance:
it is about code that names nothing of an outer function.

`FaultProofs` proves that the process ends only for a fault of the program. Most
of what `Executable` asks for follows from the layout, but not that the frame at
the end of a scope chain belongs to the lambda whose name the compiler resolved.
The code does not record whose frame a scope is, so the proof does: `Owned(o)`
says of a history `o`, which gives each scope the lambda whose frame it is and
none to the environment's, that the next scope on a chain belongs to the lambda
around, that a copied frame has the size of its owner's, and that every closure
on the stack or the heap was made over a frame of the lambda around its code.
`Faultless`, the inductive invariant, says that there is such a history, besides
`IInv`. `ScopingIsLexical` says that an instruction finds the lambda it names,
`FaultsAreExplained` is `FaultsExplained` for all programs, calls and widths of
numbers. They have a third premise, `ScopedCode`: code names no more arguments,
variables and enclosing lambdas than there are. `HasEnv` and the lookup of a
scope are recursive functions; that they exist follows from chains being finite,
by looking at the shortest one for which the equation would fail
(`FiniteSetTheorems` has no induction that the provers could use). For
`FlatCodeFaultsAreExplained`, about code that names nothing of an outer
function, nothing need be known of outer frames.

`EscapeProofs` proves what that is: that frames are copied in time. `bci_eval`
looks for one scope only, that of the running activation, in what is stored
outwards or returned, and does not look into captured frames. `EscapesSeen` says
that this is enough for the instruction at hand: a store into the environment
refers to no frame but the activation's own, a store into an outer frame to no
other that this place does not lead to already, and a frame that is copied
leads nowhere that its own chain does not. It is a condition on single
instructions, which `Machine.cfg` and `Agreement.cfg` check. It is false for the
program of `Compose.cfg`, as it must be: the finding of that run is that the
code lacks this. `CapturedFramesAreCopied` shows that it suffices:
`BalancedCode /\ ScopedCode => (Spec /\ []EscapesSeen => []NoDanglingScope)`,
and `NoDanglingScope` is about everything that can be reached, over any number of
lists, frames and closures. `OuterFramesAreAlive` discharges the premise of the
two modules above, so that `EscapesSeenSuffices` has all their results.

The inductive invariant, `EscapeInv`, is about what atoms lead to. Two more
histories remember that: `chain[s]`, the scopes from `s` to the environment, and
`held[c]`, those that the pair `c` leads to. Neither changes once a cell is
allocated, which is why a pair made of a closure needs no second look after more
code has run. `Contained` says where references to frames on the stack may be.
On the heap they are to frames whose activation has its flag `scope_escaped`
set, or to frames on the chain of the very scope that holds them; in a slot of
the stack they are to frames of living activations that are flagged or lie
further down, so that a return finds nothing above it; `LiveChained` says that
living frames lead to living ones. STORE_LOCAL and RETURN are the hard steps:
the one may set a flag and puts an atom below, the other copies the frame, if
its flag is set or the value refers to it, and moves everything that refers to
it to the heap at once. `ListAssumption` says that quoted lists are not
circular.

`CompilerProofs` proves that what the compiler generates is balanced and scoped,
`CompiledCode`: `CompiledFrom(E, source, runs)` implies `BalancedCode` and
`ScopedCode`, for any number of programs of any length and depth. `CompiledFrom`
says that `E` are expressions as the reader builds them, with all their parts;
that `runs` are runs of `CompileStep` from the sources to the end; that the
machine has the lambdas that they leave, with quoted lists as pairs in memory;
and that the top level enters only outermost ones. Three things about sources
are asked for: the arguments of a lambda are named by symbols (the compiler
asserts it), a comparison has its two operands (the compiler reads them without
looking), and `set!` names an argument or a variable of a lambda around it.
The last one is what `SetGlobal.cfg` finds a counterexample without.

The proof is by induction on the run. `Compiling` is about the state of the
compiler. For each lambda under construction, there are operand counts for each
of its instructions which are right so far (`Built`, `Working`), and the list of
what is still to do brings the count at the end of the code to 1 (`Plan`): each
task takes and leaves what `Takes` and `Leaves` say, a branch of `if` that is
still to come finds what the jump to it left, and each jump without a target
belongs to exactly one task that will give it one. When a compile function is
called, its task is replaced by others with the same effect (`Produce`,
`Expanded`); that is the one place for each kind of expression to be looked at.
`Textual` says that each instruction names what is there: a literal, an
argument or a variable of the lambda `offset` further out, all of which only
grow until the last one is finished (`Continues`), and a nested lambda that is
finished or under construction. A run that is at its end leaves a table that is
`Complete`, which says both in terms of the table alone. `DepthsOf` is
recursive; its solution is unique, because jumps go forward, and therefore is
the count that the proof built up (`DepthsUnique`).

So the premises about code of the three modules before are no longer premises for
compiled programs. The last section of `EscapeProofs` says it:
`CompiledProgramsAreBalanced` and `CompiledProgramsAreScoped` are
`Spec => []RunsBalancedCode` and `Spec => []RunsScopedCode` for whatever was
compiled, `CompiledProgramsRunAsDocumented` has layout, hidden saved states,
released stack, lexical scoping, explained faults and copied frames from
`[]EscapesSeen` alone, and `CompiledFlatPrograms` has what programs without
lambdas inside of lambdas need from nothing at all. That the premise is met is
evaluated by TLC: `AgreementAssumption` in `MCAgreement` is `CompiledFrom` for
the 175 programs and the samples of `Agreement.cfg`. What numbers in an
instruction have as width (32 bits; 16 for `offset`) is not in the model, nor in
the theorem: it is about programs with fewer than 2^31 instructions in a lambda,
and lambdas nested less than 2^15 deep.

What is left of premises is `EscapesSeen`, which TLC checks over the programs of
`Machine.cfg` and `Agreement.cfg`. The theorems are about one interpreter; with
several, `Agreement.cfg` checks the same properties.

`ExecutionStackProofs` proves what `Stack.cfg` checks, for every set of first
sizes, and every bound. `IInv`, which is inductive, is `TypeOK` and
`OnlyLiveAtoms`: only together do they show that a pop returns an atom and that
a smaller block loses none. `CapacityFits` and `ReallocKeeps` say it for the
operators, `GrowInv` and `ResizeInv` for all functions that push and pop.
`BlockImplementsAtomStack` maps every step to a step of `AtomStack`, and so
justifies that `BytecodeInterpreter` computes with a sequence.

`ScannerProofs` proves, for every text, block size and way in which `read`
delivers the text: `ScannerTypeCorrect`; `BufferImplementsText`, the
implementation of `TextScanner`; and `LineAndColumnCorrect`. The inductive
invariant adds three parts to the types. `Window`: the buffer and what is unread
are a part and the end of the text. `EndKnown`: the flag `eof` is set at the end
of the text only. `Seen`: the characters from the start of the running call to
the position are ones that the call goes on over. A call of `read` changes
neither the position in the text nor the consumed part of it (`RefillInv`), so
it is a stutter.

`ReaderProofs` proves `TokensAreClean` for every text and set of characters, and
`NestingIsThatOfText` and `EndsOfRegularTexts` for the texts without dotted
lists, of any length and depth. `ReaderInv` says what the reader knows at each place: which scanner call
belongs to it, which frames may wait below, what the next character is after a
peek, and where the token began; and that `Lex`, which counts parentheses with
no knowledge of the reader, is in code, at the reader's depth, and has met no
parenthesis too many whenever the reader is between tokens. The last holds
because a closing parenthesis is consumed by `read_list` only, of which there is
an activation for each open list; `read_sym` stops before it. `EndInv` adds that
the program is only over at the end of the text (`KindsOfSteps`: no function of
the reader returns into nothing), which together is `OnlyRegularTextsEnd`; that
regular texts do end is `ReadingEnds`, which is liveness. `TokensClean` needs that a character that
`scan_one_of` has read but not consumed never starts a token. `Reader` names the
characters that the provers cannot take from a string, such as `Semicolon`.

`OutputStreamProofs` proves what `Output.cfg` checks for every block size, text
and label. `CapturesPrefix` is not inductive: `IInv` adds that
`buffer_filled` is the length of all that was printed, or the size of the block
if that is smaller, so that the next text starts where the last one ended, and
that a destroyed stream has size 0. A full block counts its terminator as
text, which is why the sink has one character less than the block.

Only model-checked:

- liveness (`EvaluationEnds`, `EveryFormIsAnswered`, `CallsReturn`,
  `ReadingEnds`), which the proof system does not handle under fairness;
- the AST interpreter, and what is composed of it and the machine (`Agreement`,
  `ScopesStayOnTheirStack`, the layout with several interpreters): it is
  recursive over programs;
- that the compiler comes to an end, for which the theorems ask, and that its
  code means what the program means, which is `Agreement`;
- `ResultAsTested`, which is about given programs;
- `ReadsWhatIsPrinted`, since the printer is recursive over atoms;
- `DivisionLaw`, about one program; what it says of the operators is the
  theorem `DivisionBelongsTogether`;
- `EscapesSeen`, the premise above: it is false for some programs.

## Not modelled

Strings in the machine, which no modelled operation looks into; custom atoms and
`mod_load`, which need a shared object; lambdas that a walked lambda compiles,
which exist if a program turns `__compile_lambdas` off and on again; divisions
that trap in walked code; `gc_heap_size` outside of `Machine.cfg`, for no two
interpreters agree on it;
the formatting of printed texts; the collector
(an external library). Of the scanner: a `read` that fails, whose result is taken for
data; the byte 255, which is taken for the end of the file; `scan_close`. Of the
reader: white space other than blank and line break, and numbers too large for
64 bits. Of the printer: atoms that the reader does not build, such as
lambdas and builtins, whose texts hold addresses. Two kinds of atoms that it
does print are not read back: of `(quote a b)`, printed as `'a`, only the second
element, and a negative number as a symbol; `ReadBack` in `MCReader` says so.

README.md:120 says that comments generate a nil. The reader, as modelled, goes
on behind a comment with the next atom. Only if white space follows, `read_sym`
returns a symbol without a name, and at the end of the file, nil.

## Plan

1. `FrameLayout` with several interpreters, proved over `TreeWalker`: the
   registers and the stack that wait in `calls` satisfy what those that run do.
2. What of a program's text suffices for `EscapesSeen`, and a proof that it does:
   closures that are not stored into frames further out, for example.
3. A `read` that fails.
