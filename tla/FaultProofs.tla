---------------------------- MODULE FaultProofs ----------------------------
(***************************************************************************)
(* For every program whose code is balanced and names only what the        *)
(* lambdas around it have: as long as outer variables are looked for in    *)
(* frames that are alive, the process ends for no other reason than a      *)
(* fault of the program.                                                   *)
(*                                                                         *)
(* The proof remembers whose frame each scope is: `owner` has an entry for *)
(* each scope, {id} for one that an activation of the lambda id built, and *)
(* {} for one that only holds the environment.  A closure over id is made  *)
(* with a scope that belongs to the lambda around id; from there on the    *)
(* chain of scopes follows the nesting of the text.                        *)
(***************************************************************************)
EXTENDS BytecodeInterpreterProofs

-----------------------------------------------------------------------------
(* Whose scope is whose.                                                   *)

\* The atom refers to nothing that does not exist, and a closure to a scope of
\* the lambda around it.
Fits(owner, cells, atom) ==
  /\ IsType(atom, "pair") => atom.cell \in 1..cells
  /\ IsType(atom, "runtime_lambda") =>
       atom.scopes \in DOMAIN owner /\ owner[atom.scopes] = Around(atom.cl)

\* A copied frame has the shape of a frame of its lambda.
CopiedFrame(scope, id) ==
  /\ Len(scope.atoms) = 1 + scope.arg_count + CompiledLambda[id].var_count
  /\ IsType(scope.atoms[1], "runtime_lambda") /\ scope.atoms[1].cl = id

FrameScope(owner, s, scope, id) ==
  /\ owner[s] = {id}
  /\ scope.next \in 1..(s - 1)
  /\ owner[scope.next] = Around(id)
  /\ scope.type = "heap" => CopiedFrame(scope, id)

OwnedScope(owner, cells, s, scope) ==
  /\ \A i \in DOMAIN scope.atoms : Fits(owner, cells, scope.atoms[i])
  /\ IF scope.type = "env" THEN owner[s] = {}
     ELSE \E id \in LambdaId : FrameScope(owner, s, scope, id)

\* What a register or a saved state has for frame_scope.
OwnedBy(owner, s, lambda) == s # NULL => s \in DOMAIN owner /\ owner[s] = {lambda.cl}

HeapFits(owner, cells) ==
  /\ \A i \in DOMAIN env : Fits(owner, cells, env[i].value)
  /\ \A c \in DOMAIN pairs :
       Fits(owner, cells, pairs[c].first) /\ Fits(owner, cells, pairs[c].rest)
  /\ \A s \in DOMAIN scopes : OwnedScope(owner, cells, s, scopes[s])
  /\ Fits(owner, cells, result)

StackFits(owner, cells) == \A k \in DOMAIN stack : Fits(owner, cells, stack[k])

FramesOwned(owner) ==
  status = "running" =>
    /\ OwnedBy(owner, frame_scope, rl)
    /\ \A k \in DOMAIN stack :
         IsState(k) => OwnedBy(owner, stack[k].frame_scope, stack[stack[k].fp_index])

Owned(owner) ==
  /\ owner \in Seq(SUBSET LambdaId) /\ Len(owner) = Len(scopes)
  /\ Len(QuotedPair) <= Len(pairs)
  /\ HeapFits(owner, Len(pairs))
  /\ StackFits(owner, Len(pairs))
  /\ FramesOwned(owner)

-----------------------------------------------------------------------------
(* The scope chain.  ScopeId and HasEnv are recursive functions, which     *)
(* have to be shown to exist first.                                        *)

LEMMA ScopeIdExists ==
  ASSUME NEW m \in Nat
  PROVE  \E f : f = [n \in 1..m |->
                       IF n = 1 THEN rl.scopes
                       ELSE IF f[n - 1] = NULL THEN NULL ELSE scopes[f[n - 1]].next]
<1> DEFINE Def(f, n) == IF n = 1 THEN rl.scopes
                        ELSE IF f[n - 1] = NULL THEN NULL ELSE scopes[f[n - 1]].next
           Defines(f, k) == f = [n \in 1..k |-> Def(f, n)]
           Bad == {k \in Nat : ~ \E f : Defines(f, k)}
<1> SUFFICES ASSUME Bad # {}
             PROVE  FALSE
  OBVIOUS
<1>1. Bad \subseteq Nat
  OBVIOUS
<1>2. PICK k \in Bad : \A j \in Bad : k <= j
  <2> HIDE DEF Bad
  <2> QED
    BY <1>1, LeastElement
<1>3. k # 0
  <2>1. Defines(<< >>, 0)
    OBVIOUS
  <2> HIDE DEF Defines
  <2> QED
    BY <2>1
<1>4. k - 1 \in Nat /\ k - 1 \notin Bad
  <2>1. k \in Nat
    BY <1>1
  <2> HIDE DEF Bad
  <2> QED
    BY <2>1, <1>2, <1>3
<1>5. PICK f : Defines(f, k - 1)
  BY <1>4
<1> DEFINE g == [n \in 1..k |-> Def(f, n)]
<1>6. ASSUME NEW n \in 1..k
      PROVE  Def(f, n) = Def(g, n)
  <2>1. CASE n = 1
    BY <2>1
  <2>2. CASE n > 1
    <3>1. n - 1 \in 1..(k - 1)
      BY <2>2
    <3>2. f[n - 1] = Def(f, n - 1)
      BY <3>1, <1>5
    <3>3. g[n - 1] = Def(f, n - 1)
      BY <3>1
    <3> QED
      BY <3>2, <3>3, <2>2
  <2> QED
    BY <2>1, <2>2
<1>7. Defines(g, k)
  <2> HIDE DEF Def
  <2> QED
    BY <1>6
<1> QED
  <2>1. k \notin Bad
    <3> HIDE DEF Defines, g
    <3> QED
      BY <1>7
  <2> QED
    BY <2>1

\* The scopes on the way to the one `offset` lambdas out.
LEMMA ScopeIdSteps ==
  ASSUME NEW offset \in Nat \ {0}
  PROVE  \E id :
           /\ ScopeId(offset) = id[offset]
           /\ id[1] = rl.scopes
           /\ \A n \in 2..offset :
                id[n] = IF id[n - 1] = NULL THEN NULL ELSE scopes[id[n - 1]].next
<1> DEFINE Def(f, n) == IF n = 1 THEN rl.scopes
                        ELSE IF f[n - 1] = NULL THEN NULL ELSE scopes[f[n - 1]].next
           id == CHOOSE f : f = [n \in 1..offset |-> Def(f, n)]
<1>1. ScopeId(offset) = id[offset]
  BY DEF ScopeId
<1>2. id = [n \in 1..offset |-> Def(id, n)]
  BY ScopeIdExists
<1> HIDE DEF id
<1>3. \A n \in 1..offset : id[n] = Def(id, n)
  BY <1>2
<1>4. id[1] = rl.scopes
  BY <1>3
<1>5. \A n \in 2..offset :
         id[n] = IF id[n - 1] = NULL THEN NULL ELSE scopes[id[n - 1]].next
  BY <1>3
<1> QED
  BY <1>1, <1>4, <1>5

\* Following the chain, an instruction gets to the scope of the lambda that
\* the compiler counted to.
LEMMA ScopeOfOuterLambda ==
  ASSUME TypeOK, status = "running", ScopedCode, NEW owner, Owned(owner), Fits(owner, Len(pairs), rl),
         NEW offset \in 1..Len(OuterLambdas[rl.cl])
  PROVE  /\ ScopeId(offset) \in DOMAIN scopes
         /\ owner[ScopeId(offset)] = {OuterLambdas[rl.cl][offset]}
<1> DEFINE outer == OuterLambdas[rl.cl]
<1>1. /\ rl.cl \in LambdaId /\ outer \in Seq(LambdaId)
      /\ \A n \in 1..(Len(outer) - 1) : Around(outer[n]) = {outer[n + 1]}
  BY InLoop DEF ScopedCode, Scoped
<1> HIDE DEF outer
<1>2. PICK id : /\ ScopeId(offset) = id[offset]
                /\ id[1] = rl.scopes
                /\ \A n \in 2..offset :
                     id[n] = IF id[n - 1] = NULL THEN NULL ELSE scopes[id[n - 1]].next
  BY <1>1, ScopeIdSteps DEF outer
<1> DEFINE Found(n) == id[n] \in DOMAIN scopes /\ owner[id[n]] = {outer[n]}
           Missed == {n \in 1..offset : ~Found(n)}
<1>3. ASSUME Missed # {}
      PROVE  FALSE
  <2>1. Missed \subseteq Nat
    OBVIOUS
  <2>2. PICK n \in Missed : \A m \in Missed : n <= m
    <3> HIDE DEF Missed
    <3> QED
      BY <1>3, <2>1, LeastElement
  <2>3. n \in 1..offset /\ ~Found(n)
    OBVIOUS
  <2>4. DOMAIN owner = DOMAIN scopes
    BY DEF Owned, TypeOK
  <2>5. CASE n = 1
    <3>1. rl.scopes \in DOMAIN owner /\ owner[rl.scopes] = Around(rl.cl)
      BY DEF Fits, TypeOK
    <3>2. Around(rl.cl) = {outer[1]}
      BY <1>1 DEF Around, outer
    <3> QED
      BY <1>2, <2>3, <2>4, <2>5, <3>1, <3>2
  <2>6. CASE n # 1
    <3>1. n - 1 \in 1..offset /\ n \in 2..offset /\ n - 1 \in 1..(Len(outer) - 1)
      BY <1>1, <2>3, <2>6 DEF outer
    <3>2. Found(n - 1)
      <4>1. n - 1 \notin Missed
        <5> HIDE DEF Missed
        <5> QED
          BY <2>2, <3>1
      <4> QED
        BY <3>1, <4>1
    <3>3. PICK s : s = id[n - 1]
      OBVIOUS
    <3>4. s \in DOMAIN scopes /\ owner[s] = {outer[n - 1]}
      BY <3>2, <3>3
    <3>5. OwnedScope(owner, Len(pairs), s, scopes[s])
      BY <3>4 DEF Owned, HeapFits
    <3>6. PICK l \in LambdaId : FrameScope(owner, s, scopes[s], l)
      BY <3>4, <3>5 DEF OwnedScope
    <3>7. l = outer[n - 1]
      BY <3>4, <3>6 DEF FrameScope
    <3>8. s \in 1..Len(scopes) /\ scopes[s].next \in 1..(s - 1)
      BY <3>4, <3>6 DEF FrameScope, TypeOK
    <3>9. scopes[s].next \in DOMAIN scopes
      BY <3>8 DEF TypeOK
    <3>10. owner[scopes[s].next] = {outer[n]}
      <4>1. owner[scopes[s].next] = Around(outer[n - 1])
        BY <3>6, <3>7 DEF FrameScope
      <4>2. Around(outer[n - 1]) = {outer[(n - 1) + 1]}
        BY <1>1, <3>1
      <4> QED
        BY <4>1, <4>2, <3>1
    <3>11. id[n] = scopes[s].next
      BY <1>2, <3>1, <3>3, <3>8 DEF NULL
    <3> QED
      BY <2>3, <3>9, <3>10, <3>11
  <2> QED
    BY <2>5, <2>6
<1>4. Found(offset)
  BY <1>3
<1> QED
  BY <1>2, <1>4 DEF outer

\* Every chain ends at the environment: `next` leads to an older scope.
LEMMA ChainEndsAtEnv ==
  ASSUME TypeOK, status = "running", NEW owner, Owned(owner), Fits(owner, Len(pairs), rl)
  PROVE  HasEnv
<1> DEFINE Def(f, s) ==
             s # NULL /\ IF scopes[s].next = NULL THEN scopes[s].type = "env" ELSE f[scopes[s].next]
           end == CHOOSE f : f = [s \in 0..Len(scopes) |-> Def(f, s)]
<1>1. HasEnv = end[rl.scopes]
  BY DEF HasEnv
<1>2. ASSUME NEW s \in 1..Len(scopes)
      PROVE  IF scopes[s].type = "env" THEN scopes[s].next = NULL ELSE scopes[s].next \in 1..(s - 1)
  <2>1. s \in DOMAIN scopes /\ scopes[s] \in Scope
    BY DEF TypeOK
  <2>2. OwnedScope(owner, Len(pairs), s, scopes[s])
    BY <2>1 DEF Owned, HeapFits
  <2>3. scopes[s].type = "env" => scopes[s].next = NULL
    BY <2>1 DEF Scope, ScopeOver, EnvScope
  <2> QED
    BY <2>2, <2>3 DEF OwnedScope, FrameScope
<1>3. \E f : f = [s \in 0..Len(scopes) |-> Def(f, s)]
  <2> DEFINE f == [s \in 0..Len(scopes) |-> s # NULL]
  <2>1. ASSUME NEW s \in 0..Len(scopes)
        PROVE  (s # NULL) = Def(f, s)
    <3>1. CASE s = NULL
      BY <3>1
    <3>2. CASE s # NULL /\ scopes[s].type = "env"
      <4>1. scopes[s].next = NULL
        BY <1>2, <3>2, SMTT(30) DEF NULL, TypeOK
      <4> QED
        BY <3>2, <4>1
    <3>3. CASE s # NULL /\ scopes[s].type # "env"
      <4>1. scopes[s].next \in 1..(s - 1) /\ s \in 1..Len(scopes)
        BY <1>2, <3>3 DEF NULL, TypeOK
      <4>2. scopes[s].next \in 0..Len(scopes) /\ scopes[s].next # NULL
        BY <4>1 DEF NULL, TypeOK
      <4>3. f[scopes[s].next] = TRUE
        BY <4>2
      <4> QED
        BY <3>3, <4>2, <4>3
    <3> QED
      BY <3>1, <3>2, <3>3
  <2>2. f = [s \in 0..Len(scopes) |-> Def(f, s)]
    <3> HIDE DEF Def
    <3> QED
      BY <2>1
  <2> QED
    BY <2>2
<1>4. end = [s \in 0..Len(scopes) |-> Def(end, s)]
  BY <1>3
<1> HIDE DEF end
<1> DEFINE Lost == {s \in 1..Len(scopes) : ~end[s]}
<1>5. ASSUME Lost # {}
      PROVE  FALSE
  <2>1. Lost \subseteq Nat
    OBVIOUS
  <2>2. PICK s \in Lost : \A t \in Lost : s <= t
    <3> HIDE DEF Lost
    <3> QED
      BY <1>5, <2>1, LeastElement
  <2>3. s \in 1..Len(scopes) /\ s \in 0..Len(scopes) /\ s # NULL
    BY DEF NULL
  <2>4. end[s] = Def(end, s)
    BY <1>4, <2>3
  <2>5. CASE scopes[s].type = "env"
    BY <1>2, <2>3, <2>4, <2>5
  <2>6. CASE scopes[s].type # "env"
    <3>1. scopes[s].next \in 1..(s - 1)
      BY <1>2, <2>3, <2>6
    <3>2. scopes[s].next \in 1..Len(scopes) /\ scopes[s].next # NULL /\ scopes[s].next < s
      BY <2>3, <3>1 DEF NULL
    <3>3. scopes[s].next \notin Lost
      <4> HIDE DEF Lost
      <4> QED
        BY <2>2, <2>3, <3>2
    <3>4. end[scopes[s].next]
      BY <3>2, <3>3
    <3> QED
      BY <2>3, <2>4, <3>2, <3>4
  <2> QED
    BY <2>5, <2>6
<1>6. rl.scopes \in 1..Len(scopes)
  BY DEF Fits, TypeOK, Owned
<1> QED
  BY <1>1, <1>5, <1>6

-----------------------------------------------------------------------------
(* What a step keeps.  The heaps grow, and nothing that was said of their  *)
(* cells changes.                                                          *)

Grown(o1, o2) ==
  /\ o1 \in Seq(SUBSET LambdaId) /\ o2 \in Seq(SUBSET LambdaId)
  /\ Len(o1) <= Len(o2)
  /\ \A s \in DOMAIN o1 : o2[s] = o1[s]

\* An atom that refers to existing cells still does when there are more.
LEMMA FitsGrown ==
  ASSUME NEW o1, NEW o2, Grown(o1, o2), NEW c1 \in Nat, NEW c2 \in Nat, c1 <= c2,
         NEW a, Fits(o1, c1, a)
  PROVE  Fits(o2, c2, a)
<1>1. DOMAIN o1 \subseteq DOMAIN o2
  BY DEF Grown
<1>2. \A cell : cell \in 1..c1 => cell \in 1..c2
  OBVIOUS
<1> QED
  BY <1>1, <1>2 DEF Fits, Grown

\* So does a scope.
LEMMA ScopeGrown ==
  ASSUME NEW o1, NEW o2, Grown(o1, o2), NEW c1 \in Nat, NEW c2 \in Nat, c1 <= c2,
         NEW s \in DOMAIN o1, NEW scope, OwnedScope(o1, c1, s, scope)
  PROVE  OwnedScope(o2, c2, s, scope)
<1>1. \A i \in DOMAIN scope.atoms : Fits(o2, c2, scope.atoms[i])
  BY FitsGrown DEF OwnedScope
<1>2. CASE scope.type = "env"
  BY <1>1, <1>2 DEF OwnedScope, Grown
<1>3. CASE scope.type # "env"
  <2>1. PICK id \in LambdaId : FrameScope(o1, s, scope, id)
    BY <1>3 DEF OwnedScope
  <2>2. s \in 1..Len(o1) /\ scope.next \in 1..(s - 1)
    BY <2>1 DEF FrameScope, Grown
  <2>3. scope.next \in DOMAIN o1
    BY <2>2 DEF Grown
  <2>4. FrameScope(o2, s, scope, id)
    BY <2>1, <2>3 DEF FrameScope, Grown
  <2> QED
    BY <1>1, <1>3, <2>4 DEF OwnedScope
<1> QED
  BY <1>2, <1>3

\* And all of the memory.
LEMMA MemoryGrown ==
  ASSUME TypeOK, NEW o1, Owned(o1), NEW o2, Grown(o1, o2), NEW c \in Nat, Len(pairs) <= c
  PROVE  HeapFits(o2, c) /\ StackFits(o2, c)
<1>1. Len(pairs) \in Nat /\ HeapFits(o1, Len(pairs)) /\ StackFits(o1, Len(pairs))
  BY DEF Owned, TypeOK
<1>2. \A a : Fits(o1, Len(pairs), a) => Fits(o2, c, a)
  BY <1>1, FitsGrown
<1>3. DOMAIN o1 = DOMAIN scopes
  BY DEF Owned, TypeOK
<1>4. \A s \in DOMAIN scopes : OwnedScope(o2, c, s, scopes[s])
  BY <1>1, <1>3, ScopeGrown DEF HeapFits
<1> QED
  BY <1>1, <1>2, <1>4 DEF HeapFits, StackFits

\* Frames that a step leaves alone, and whose saved states it leaves alone,
\* have the scopes that they had.
LEMMA FramesKept ==
  ASSUME BalancedCode, TypeOK, FrameLayout, status = "running", stack' \in Seq(Atom),
         NEW o1, Owned(o1), NEW o2, Grown(o1, o2),
         NEW n \in Nat, n <= Len(stack), n <= Len(stack'),
         \A k \in 1..n : stack'[k] = stack[k],
         \A k \in (n + 1)..Len(stack') :
           IsState(k)' => OwnedBy(o2, stack'[k].frame_scope, stack'[stack'[k].fp_index]),
         OwnedBy(o2, frame_scope', rl')
  PROVE  FramesOwned(o2)'
<1> SUFFICES ASSUME NEW k \in DOMAIN stack', IsState(k)'
             PROVE  OwnedBy(o2, stack'[k].frame_scope, stack'[stack'[k].fp_index])
  BY DEF FramesOwned
<1>1. CASE k \in (n + 1)..Len(stack')
  BY <1>1
<1>2. CASE k \in 1..n
  <2>1. k \in DOMAIN stack /\ stack'[k] = stack[k] /\ IsState(k)
    BY <1>2 DEF TypeOK, IsState
  <2>2. CallerFrame(k) \in 1..(k - 1)
    BY <2>1 DEF FrameLayout, SavedFrame, CallerFrame
  <2>3. stack'[CallerFrame(k)] = stack[CallerFrame(k)]
    BY <1>2, <2>2
  <2>4. OwnedBy(o1, stack[k].frame_scope, stack[CallerFrame(k)])
    BY <2>1 DEF Owned, FramesOwned, CallerFrame
  <2> QED
    BY <2>1, <2>3, <2>4 DEF OwnedBy, Grown, CallerFrame
<1> QED
  BY <1>1, <1>2

\* A sequence of owners is one that it has grown to.
LEMMA GrownReflexive ==
  ASSUME NEW o, Owned(o)
  PROVE  Grown(o, o)
BY DEF Grown, Owned

\* A new scope has an owner of its own.
LEMMA GrownByOne ==
  ASSUME NEW o1 \in Seq(SUBSET LambdaId), NEW id \in SUBSET LambdaId, NEW o2, o2 = Append(o1, id)
  PROVE  /\ Grown(o1, o2)
         /\ Len(o2) = Len(o1) + 1
         /\ o2[Len(o1) + 1] = id
BY DEF Grown

-----------------------------------------------------------------------------
(* What an instruction finds where it looks.                               *)

\* The frames of the activations lie on the stack as a whole.
LEMMA FrameOnStack ==
  ASSUME BalancedCode, TypeOK, FrameLayout, status = "running", NEW f, NEW k, IsFrame(f, k)
  PROVE  /\ f \in Nat /\ 0 < f /\ f < k
         /\ k \in DOMAIN stack
<1>1. f \in Nat /\ k \in Nat /\ 0 < f /\ f < k
  BY FrameBounds
<1>2. k <= Len(stack)
  <2>1. CASE IsState(k)
    BY <2>1 DEF IsState, TypeOK
  <2>2. CASE f = 1 /\ k = StateSlot(1, Len(args))
    <3>1. OwnStateSlot \in Nat /\ OwnStateSlot <= Len(stack)
      <4>1. /\ OwnStateSlot \in Nat /\ StackDepth[rl.cl][ip] \in Nat
            /\ Len(stack) = OwnStateSlot + StackDepth[rl.cl][ip]
        BY RunningFrame
      <4> QED
        BY <4>1
    <3>2. CASE frame_index = 1
      <4>1. arg_count = Len(args)
        BY <3>2 DEF FrameLayout, CurrentFrame, Linked
      <4> QED
        BY <2>2, <3>1, <3>2, <4>1 DEF OwnStateSlot
    <3>3. CASE frame_index # 1
      <4>1. IsState(OwnStateSlot)
        BY <3>3 DEF FrameLayout, CurrentFrame, Linked, OwnStateSlot
      <4>2. StateSlot(1, Len(args)) < OwnStateSlot
        BY <4>1, BottomFrame DEF IsState
      <4> QED
        BY <1>1, <2>2, <3>1, <4>2 DEF TypeOK
    <3> QED
      BY <3>2, <3>3
  <2> QED
    BY <2>1, <2>2 DEF IsFrame
<1> QED
  BY <1>1, <1>2 DEF TypeOK

\* The running lambda, like all that lies on the stack, fits.
LEMMA RunningFits ==
  ASSUME BalancedCode, TypeOK, FrameLayout, status = "running", NEW o, Owned(o)
  PROVE  Fits(o, Len(pairs), rl)
<1>1. frame_index \in DOMAIN stack /\ stack[frame_index] = rl
  BY DEF FrameLayout, CurrentFrame
<1> QED
  BY <1>1 DEF Owned, StackFits

\* What the compiler knows of the current instruction.
LEMMA CurrentScoped ==
  ASSUME TypeOK, status = "running", ScopedCode
  PROVE  /\ ScopedInstruction(rl.cl, ip)
         /\ Current.offset \in 0..Len(OuterLambdas[rl.cl])
         /\ OuterLambdas[rl.cl] \in Seq(LambdaId)
         /\ LambdaAt(rl.cl, Current.offset) \in LambdaId
<1>1. rl.cl \in LambdaId /\ ip \in DOMAIN CompiledLambda[rl.cl].code /\ Scoped(rl.cl)
  BY InLoop DEF ScopedCode, Code, Compiled
<1>2. ScopedInstruction(rl.cl, ip) /\ OuterLambdas[rl.cl] \in Seq(LambdaId)
  BY <1>1 DEF Scoped
<1>3. Current.offset \in 0..Len(OuterLambdas[rl.cl])
  BY <1>2 DEF ScopedInstruction, Current, Code, Compiled
<1>4. LambdaAt(rl.cl, Current.offset) \in LambdaId
  BY <1>1, <1>2, <1>3 DEF LambdaAt
<1> QED
  BY <1>2, <1>3, <1>4

\* The scope an instruction reaches for is there, belongs to a lambda, and on
\* the heap it has the whole frame.
LEMMA OuterScope ==
  ASSUME BalancedCode, ScopedCode, TypeOK, FrameLayout, status = "running",
         NEW o, Owned(o), Current.offset > 0,
         NEW s, s = ScopeId(Current.offset)
  PROVE  /\ s \in DOMAIN scopes
         /\ o[s] = {LambdaAt(rl.cl, Current.offset)}
         /\ scopes[s] \in Scope
         /\ OwnedScope(o, Len(pairs), s, scopes[s])
         /\ FrameScope(o, s, scopes[s], LambdaAt(rl.cl, Current.offset))
         /\ scopes[s].type # "env"
<1>1. s \in DOMAIN scopes /\ o[s] = {OuterLambdas[rl.cl][Current.offset]}
  BY CurrentScoped, RunningFits, ScopeOfOuterLambda
<1>2. LambdaAt(rl.cl, Current.offset) = OuterLambdas[rl.cl][Current.offset]
  BY DEF LambdaAt
<1>3. scopes[s] \in Scope
  BY <1>1 DEF TypeOK
<1>4. OwnedScope(o, Len(pairs), s, scopes[s])
  BY <1>1 DEF Owned, HeapFits
<1>5. scopes[s].type # "env" /\ \E id \in LambdaId : FrameScope(o, s, scopes[s], id)
  BY <1>1, <1>4 DEF OwnedScope
<1>6. PICK id \in LambdaId : FrameScope(o, s, scopes[s], id)
  BY <1>5
<1>7. id = OuterLambdas[rl.cl][Current.offset]
  BY <1>1, <1>6 DEF FrameScope
<1> QED
  BY <1>1, <1>2, <1>3, <1>4, <1>5, <1>6, <1>7

\* A scope on the stack that is alive describes a frame of its lambda.
LEMMA LiveScopeFrame ==
  ASSUME BalancedCode, TypeOK, FrameLayout, status = "running",
         NEW o, Owned(o), NEW s \in LiveScopes
  PROVE  LET f == scopes[s].frame_index
         IN  /\ IsFrame(f, StateSlot(f, scopes[s].arg_count))
             /\ f \in DOMAIN stack
             /\ IsType(stack[f], "runtime_lambda")
             /\ o[s] = {stack[f].cl}
<1>1. CASE s = frame_scope /\ s # NULL
  <2>1. scopes[s].frame_index = frame_index /\ scopes[s].arg_count = arg_count
    BY <1>1 DEF FrameLayout, CurrentFrame, OwnScope
  <2>2. frame_index \in DOMAIN stack /\ stack[frame_index] = rl /\ IsType(rl, "runtime_lambda")
    BY DEF FrameLayout, CurrentFrame, TypeOK
  <2>3. IsFrame(frame_index, StateSlot(frame_index, arg_count))
    BY RunningFrameIsFrame DEF OwnStateSlot
  <2>4. o[s] = {rl.cl}
    BY <1>1 DEF Owned, FramesOwned, OwnedBy
  <2> QED
    BY <2>1, <2>2, <2>3, <2>4
<1>2. ASSUME NEW k \in DOMAIN stack, IsState(k), s = stack[k].frame_scope, s # NULL
      PROVE  LET f == scopes[s].frame_index
             IN  /\ IsFrame(f, StateSlot(f, scopes[s].arg_count))
                 /\ f \in DOMAIN stack
                 /\ IsType(stack[f], "runtime_lambda")
                 /\ o[s] = {stack[f].cl}
  <2>1. SavedFrame(k) /\ CallerFrame(k) \in DOMAIN stack /\ IsFrame(CallerFrame(k), CallerStateSlot(k))
    BY <1>2, SavedFrameFacts
  <2>2. scopes[s].frame_index = CallerFrame(k) /\ scopes[s].arg_count = stack[k].arg_count
    BY <1>2, <2>1 DEF SavedFrame, OwnScope, CallerFrame
  <2>3. IsType(stack[CallerFrame(k)], "runtime_lambda")
    BY <2>1 DEF SavedFrame, CallerFrame
  <2>4. o[s] = {stack[CallerFrame(k)].cl}
    BY <1>2 DEF Owned, FramesOwned, OwnedBy, CallerFrame
  <2>5. CallerStateSlot(k) = StateSlot(CallerFrame(k), stack[k].arg_count)
    BY DEF CallerStateSlot, CallerFrame
  <2> QED
    BY <2>1, <2>2, <2>3, <2>4, <2>5
<1> QED
  BY <1>1, <1>2 DEF LiveScopes, IsState

\* An instruction reaches for the frame of the lambda that the compiler counted
\* to, and finds the lambda, its arguments and its variables there.
LEMMA TargetFound ==
  ASSUME BalancedCode, ScopedCode, TypeOK, FrameLayout, status = "running", OuterFrameAlive,
         NEW o, Owned(o),
         NEW offset, offset = Current.offset, NEW id, id = LambdaAt(rl.cl, offset),
         NEW scope, scope = TargetScope(offset)
  PROVE  /\ HasFrame(offset)
         /\ scope \in Scope /\ scope.type # "env"
         /\ Slot(scope, 1).cl = id /\ TargetLambda(offset) = CompiledLambda[id]
         /\ \A i \in 1..(1 + scope.arg_count + CompiledLambda[id].var_count) : SlotExists(scope, i)
         /\ offset > 0 => ScopeId(offset) \in DOMAIN scopes
<1>1. id \in LambdaId /\ offset \in Nat /\ CompiledLambda[id].var_count \in Nat
  BY CurrentScoped, CompiledAssumption DEF LambdaId
<1>2. offset > 0 => ScopeId(offset) \in DOMAIN scopes
  BY OuterScope
<1>3. scope \in Scope
  BY <1>1, <1>2, TargetScopeType
<1>4. scope.arg_count \in Nat
  BY <1>3 DEF Scope, ScopeOver, EnvScope
<1>5. scope.type = "stack" =>
        /\ IsFrame(scope.frame_index, StateSlot(scope.frame_index, scope.arg_count))
        /\ scope.frame_index \in DOMAIN stack
        /\ IsType(stack[scope.frame_index], "runtime_lambda")
        /\ stack[scope.frame_index].cl = id
  <2>1. CASE offset = 0
    <3>1. scope = StackScope(rl.scopes, arg_count, frame_index)
      BY <2>1 DEF TargetScope, ThisScope
    <3>2. scope.frame_index = frame_index /\ scope.arg_count = arg_count
      BY <3>1 DEF StackScope
    <3>3. frame_index \in DOMAIN stack /\ stack[frame_index] = rl /\ IsType(rl, "runtime_lambda")
      BY DEF FrameLayout, CurrentFrame, TypeOK
    <3>4. IsFrame(frame_index, StateSlot(frame_index, arg_count))
      BY RunningFrameIsFrame DEF OwnStateSlot
    <3>5. id = rl.cl
      BY <2>1 DEF LambdaAt
    <3> QED
      BY <3>2, <3>3, <3>4, <3>5
  <2>2. CASE offset > 0 /\ scope.type = "stack"
    <3> DEFINE s == ScopeId(offset)
    <3>1. s \in DOMAIN scopes /\ o[s] = {id} /\ scope = scopes[s]
      BY <2>2, OuterScope DEF TargetScope
    <3>2. s \in LiveScopes
      BY <2>2, <3>1 DEF OuterFrameAlive
    <3> HIDE DEF s
    <3>3. /\ IsFrame(scope.frame_index, StateSlot(scope.frame_index, scope.arg_count))
          /\ scope.frame_index \in DOMAIN stack
          /\ IsType(stack[scope.frame_index], "runtime_lambda")
          /\ o[s] = {stack[scope.frame_index].cl}
      BY <3>1, <3>2, LiveScopeFrame
    <3> QED
      BY <3>1, <3>3
  <2> QED
    BY <1>1, <2>1, <2>2
<1>6. CASE scope.type = "stack"
  <2>1. Slot(scope, 1) = stack[scope.frame_index] /\ SlotExists(scope, 1)
    BY <1>5, <1>6 DEF Slot, SlotExists, TypeOK
  <2>2. HasFrame(offset) /\ Slot(scope, 1).cl = id /\ TargetLambda(offset) = CompiledLambda[id]
    BY <1>2, <1>5, <1>6, <2>1 DEF HasFrame, TargetLambda, Compiled
  <2> DEFINE k == StateSlot(scope.frame_index, scope.arg_count)
  <2>3. k = scope.frame_index + 1 + scope.arg_count + CompiledLambda[id].var_count
    BY <1>5, <1>6 DEF StateSlot, Compiled
  <2>4. scope.frame_index \in Nat /\ 0 < scope.frame_index /\ k \in DOMAIN stack
    BY <1>5, <1>6, FrameOnStack
  <2>5. DOMAIN stack = 1..Len(stack) /\ Len(stack) \in Nat
    BY DEF TypeOK
  <2> HIDE DEF k
  <2>6. \A i \in 1..(1 + scope.arg_count + CompiledLambda[id].var_count) :
          scope.frame_index + i - 1 \in DOMAIN stack
    <3>1. PICK f \in Nat, a \in Nat, v \in Nat :
            f = scope.frame_index /\ a = scope.arg_count /\ v = CompiledLambda[id].var_count
      BY <1>1, <1>4, <2>4
    <3>2. 0 < f /\ f + 1 + a + v \in 1..Len(stack)
      BY <2>3, <2>4, <2>5, <3>1
    <3>3. \A i \in 1..(1 + a + v) : f + i - 1 \in 1..Len(stack)
      BY <2>5, <3>2
    <3> QED
      BY <2>5, <3>1, <3>3
  <2> QED
    BY <1>2, <1>3, <1>6, <2>2, <2>6 DEF SlotExists
<1>7. CASE scope.type # "stack"
  <2>1. offset > 0
    BY <1>1, <1>7 DEF TargetScope, ThisScope, StackScope
  <2>2. scope.type # "env" /\ FrameScope(o, ScopeId(offset), scope, id)
    BY <2>1, OuterScope DEF TargetScope
  <2>3. scope.type = "heap" /\ scope.atoms \in Seq(Atom)
    BY <1>3, <1>7, <2>2 DEF Scope, ScopeOver, EnvScope, Atom
  <2>4. CopiedFrame(scope, id)
    BY <2>2, <2>3 DEF FrameScope
  <2>5. DOMAIN scope.atoms = 1..(1 + scope.arg_count + CompiledLambda[id].var_count)
    BY <2>3, <2>4 DEF CopiedFrame
  <2>6. SlotExists(scope, 1) /\ Slot(scope, 1) = scope.atoms[1]
    BY <1>1, <1>4, <1>7, <2>5 DEF SlotExists, Slot
  <2>7. HasFrame(offset) /\ Slot(scope, 1).cl = id /\ TargetLambda(offset) = CompiledLambda[id]
    BY <1>2, <2>2, <2>4, <2>6 DEF HasFrame, TargetLambda, Compiled, CopiedFrame
  <2> QED
    BY <1>2, <1>3, <1>7, <2>2, <2>5, <2>7 DEF SlotExists
<1> QED
  BY <1>6, <1>7

\* A variable that an instruction reads fits.
LEMMA VariableFits ==
  ASSUME BalancedCode, ScopedCode, TypeOK, FrameLayout, status = "running", OuterFrameAlive,
         NEW o, Owned(o), HasVariable(Current)
  PROVE  Fits(o, Len(pairs), Slot(TargetScope(Current.offset), VariableSlot(Current)))
<1> DEFINE scope == TargetScope(Current.offset)
           i == VariableSlot(Current)
<1>1. SlotExists(scope, i) /\ scope.type # "env"
  BY DEF HasVariable
<1>2. CASE scope.type = "stack"
  BY <1>1, <1>2 DEF SlotExists, Slot, Owned, StackFits
<1>3. CASE scope.type # "stack"
  <2>1. Current.offset > 0
    BY <1>3, CurrentScoped DEF TargetScope, ThisScope, StackScope
  <2>2. OwnedScope(o, Len(pairs), ScopeId(Current.offset), scope)
    BY <2>1, OuterScope DEF TargetScope
  <2> QED
    BY <1>1, <1>3, <2>2 DEF SlotExists, Slot, OwnedScope
<1> QED
  BY <1>2, <1>3

-----------------------------------------------------------------------------
(* Each step keeps an owner for each scope.                                *)

\* An instruction that replaces its operands by `a`, whatever it does to the
\* memory.
LEMMA ReplacementOwned ==
  ASSUME BalancedCode, TypeOK, TypeOK', FrameLayout, status = "running", Executable,
         NEW o1, Owned(o1), NEW o2, Grown(o1, o2), Len(o2) = Len(scopes'),
         NEW n, n = Operands(Current),
         NEW a, ~IsType(a, "interpreter_state"), stack' = Append(Pop(n), a),
         NEW c \in Nat, c = Len(pairs'), Len(pairs) <= c,
         Fits(o2, c, a), HeapFits(o2, c)', OwnedBy(o2, frame_scope', rl')
  PROVE  Owned(o2)'
<1>1. n \in 0..Len(stack) /\ stack \in Seq(Atom) /\ Len(stack) \in Nat
  BY DEF Executable, TypeOK
<1> DEFINE m == Len(stack) - n
<1>2. /\ m \in Nat /\ m <= Len(stack)
      /\ stack' \in Seq(Atom) /\ Len(stack') = m + 1
      /\ \A k \in 1..m : stack'[k] = stack[k]
      /\ stack'[m + 1] = a
  <2>1. stack' \in Seq(Atom)
    BY DEF TypeOK
  <2>2. /\ Len(stack') = Len(stack) - n + 1
        /\ \A k \in 1..(Len(stack) - n) : stack'[k] = stack[k]
        /\ stack'[Len(stack) - n + 1] = a
    BY <1>1, <2>1, ReplacedOperands
  <2> QED
    BY <1>1, <2>1, <2>2
<1> HIDE DEF m
<1>3. FramesOwned(o2)'
  <2>1. \A k \in (m + 1)..Len(stack') : ~IsState(k)'
    BY <1>2 DEF IsState
  <2> QED
    BY <1>2, <2>1, FramesKept, SMTT(30)
<1>4. StackFits(o2, c)'
  <2>1. StackFits(o2, c)
    BY MemoryGrown
  <2>2. \A k \in DOMAIN stack' : Fits(o2, c, stack'[k])
    BY <1>1, <1>2, <2>1 DEF StackFits
  <2> QED
    BY <2>2 DEF StackFits
<1>5. Len(QuotedPair) <= c
  BY SizeAssumption DEF Owned, TypeOK
<1> QED
  BY <1>3, <1>4, <1>5 DEF Owned, Grown

\* The memory stays as it was: a load, a computation.
LEMMA ComputationOwned ==
  ASSUME BalancedCode, TypeOK, TypeOK', FrameLayout, status = "running", Executable,
         NEW o, Owned(o),
         NEW n, n = Operands(Current),
         NEW a, ~IsType(a, "interpreter_state"), stack' = Append(Pop(n), a),
         Fits(o, Len(pairs), a),
         UNCHANGED <<memory, registers, result>>
  PROVE  Owned(o)'
<1>1. PICK c \in Nat : c = Len(pairs)
  BY DEF TypeOK
<1>2. HeapFits(o, c)
  BY <1>1 DEF Owned
<1>3. HeapFits(o, c)'
  BY <1>2 DEF HeapFits, memory
<1>4. OwnedBy(o, frame_scope', rl')
  BY DEF Owned, FramesOwned, registers
<1>5. Len(o) = Len(scopes') /\ c = Len(pairs')
  BY <1>1 DEF Owned, memory
<1> QED
  BY <1>1, <1>3, <1>4, <1>5, GrownReflexive, ReplacementOwned

\* An instruction that only pushes.
LEMMA LoadOwned ==
  ASSUME BalancedCode, TypeOK, TypeOK', FrameLayout, status = "running", Executable,
         NEW o, Owned(o), Operands(Current) = 0,
         NEW a, ~IsType(a, "interpreter_state"), Push(a),
         Fits(o, Len(pairs), a),
         UNCHANGED <<memory, registers, result>>
  PROVE  Owned(o)'
<1>1. stack' = Append(Pop(0), a)
  <2>1. stack \in Seq(Atom)
    BY DEF TypeOK
  <2> QED
    BY <2>1 DEF Push, Pop
<1> QED
  BY <1>1, ComputationOwned

\* An instruction that only takes operands off the stack.
LEMMA RemovalOwned ==
  ASSUME BalancedCode, TypeOK, FrameLayout, status = "running", Executable,
         NEW o, Owned(o),
         NEW n, n = Operands(Current), stack' = Pop(n),
         UNCHANGED <<memory, registers, result>>
  PROVE  Owned(o)'
<1>1. n \in 0..Len(stack) /\ stack \in Seq(Atom) /\ Len(stack) \in Nat
  BY DEF Executable, TypeOK
<1> DEFINE m == Len(stack) - n
<1>2. /\ m \in Nat /\ m <= Len(stack)
      /\ stack' \in Seq(Atom) /\ Len(stack') = m
      /\ \A k \in 1..m : stack'[k] = stack[k]
  <2>1. /\ Pop(n) \in Seq(Atom) /\ Len(Pop(n)) = Len(stack) - n
        /\ \A k \in 1..(Len(stack) - n) : Pop(n)[k] = stack[k]
    BY <1>1, PopProperties
  <2> QED
    BY <1>1, <2>1
<1> HIDE DEF m
<1>3. PICK c : c = Len(pairs)
  OBVIOUS
<1>4. FramesOwned(o)'
  <2>1. OwnedBy(o, frame_scope', rl')
    BY DEF Owned, FramesOwned, registers
  <2>2. \A k \in (m + 1)..Len(stack') : FALSE
    BY <1>2
  <2> QED
    <3>1. Grown(o, o)
      BY GrownReflexive
    <3>2. m <= Len(stack')
      BY <1>2
    <3> QED
      BY <1>2, <2>1, <2>2, <3>1, <3>2, FramesKept
<1>5. StackFits(o, c)'
  <2>1. \A k \in DOMAIN stack' : Fits(o, c, stack'[k])
    BY <1>1, <1>2, <1>3 DEF Owned, StackFits
  <2> QED
    BY <2>1 DEF StackFits
<1>6. HeapFits(o, c)'
  BY <1>3 DEF Owned, HeapFits, memory
<1>7. Len(o) = Len(scopes') /\ Len(pairs') = c /\ Len(QuotedPair) <= c
  BY <1>3 DEF Owned, memory
<1> QED
  BY <1>4, <1>5, <1>6, <1>7 DEF Owned

\* Constants refer to nothing.
LEMMA LoadConstantOwned ==
  ASSUME BalancedCode, IInv, TypeOK', NEW o, Owned(o), LoadConstant
  PROVE  Owned(o)'
<1>1. Current.op \in LoadConstantOp /\ TypeOK /\ FrameLayout /\ status = "running" /\ Executable
  BY DEF LoadConstant, Executing, IInv
<1>2. Operands(Current) = 0
  BY <1>1 DEF LoadConstantOp, Operands, ArithmeticOp, CompareOp, PartOp
<1>3. PICK a \in {Nil, True, False, Num(Wrap(Current.arg))} : Push(a)
  BY <1>1 DEF LoadConstant, LoadConstantOp
<1>4. ~IsType(a, "interpreter_state") /\ Fits(o, Len(pairs), a)
  BY <1>3 DEF Nil, True, False, Num, IsType, Fits
<1> QED
  BY <1>1, <1>2, <1>3, <1>4, LoadOwned DEF LoadConstant

\* A literal was there when the program was read.
LEMMA DataFits ==
  ASSUME TypeOK, NEW o, Owned(o), NEW a, IsData(a)
  PROVE  Fits(o, Len(pairs), a)
<1>1. DOMAIN QuotedPair \subseteq 1..Len(pairs)
  BY SizeAssumption DEF Owned, TypeOK
<1> QED
  BY <1>1 DEF IsData, Fits

LEMMA LoadLiteralOwned ==
  ASSUME BalancedCode, ScopedCode, IInv, TypeOK', OuterFrameAlive, NEW o, Owned(o), LoadLiteral
  PROVE  Owned(o)'
<1> DEFINE literal == TargetLambda(Current.offset).literals[Current.arg + 1]
<1>1. Current.op = "LOAD_LITERAL" /\ TypeOK /\ FrameLayout /\ status = "running" /\ Executable
  BY DEF LoadLiteral, Executing, IInv
<1>2. Operands(Current) = 0
  BY <1>1 DEF Operands, ArithmeticOp, CompareOp, PartOp
<1>3. TargetLambda(Current.offset) = CompiledLambda[LambdaAt(rl.cl, Current.offset)]
  BY <1>1, TargetFound
<1>4. IsData(literal)
  BY <1>1, <1>3, CurrentScoped DEF ScopedInstruction, Current, Code, Compiled
<1>5. ~IsType(literal, "interpreter_state")
  <2>1. Current \in Instruction /\ LambdaAt(rl.cl, Current.offset) \in LambdaId
    BY <1>1, InLoop, CurrentScoped
  <2>2. HasLiteral(TargetLambda(Current.offset), Current.arg) /\ HasFrame(Current.offset)
    BY <1>1 DEF Executable
  <2>3. literal \in Literal
    BY <1>1, <2>1, <2>2, TargetLambdaType DEF Instruction, HasLiteral
  <2> HIDE DEF literal
  <2> QED
    BY <2>3 DEF Literal, Value, ValueOver, IsType, Nil, True, False
<1>6. Fits(o, Len(pairs), literal)
  BY <1>1, <1>4, DataFits
<1>7. Push(literal)
  BY DEF LoadLiteral
<1> HIDE DEF literal
<1> QED
  BY <1>1, <1>2, <1>5, <1>6, <1>7, LoadOwned DEF LoadLiteral

LEMMA LoadVariableOwned ==
  ASSUME BalancedCode, ScopedCode, IInv, TypeOK', OuterFrameAlive, NEW o, Owned(o), LoadVariable
  PROVE  Owned(o)'
<1>1. Current.op \in LoadVariableOp /\ TypeOK /\ FrameLayout /\ status = "running" /\ Executable
        /\ HasVariable(Current)
  BY DEF LoadVariable, Executing, Executable, IInv
<1>2. Operands(Current) = 0
  BY <1>1 DEF LoadVariableOp, Operands, ArithmeticOp, CompareOp, PartOp
<1>3. PICK a : a = Slot(TargetScope(Current.offset), VariableSlot(Current))
  OBVIOUS
<1>4. ~IsType(a, "interpreter_state") /\ Fits(o, Len(pairs), a)
  BY <1>1, <1>3, VariableHidden, VariableFits
<1> QED
  BY <1>1, <1>2, <1>3, <1>4, LoadOwned DEF LoadVariable

LEMMA LoadEnvOwned ==
  ASSUME BalancedCode, IInv, TypeOK', NEW o, Owned(o), LoadEnv
  PROVE  Owned(o)'
<1>1. Current.op = "LOAD_ENV" /\ TypeOK /\ FrameLayout /\ status = "running" /\ Executable
        /\ SavedStateHidden
  BY DEF LoadEnv, Executing, IInv
<1>2. Operands(Current) = 0
  BY <1>1 DEF Operands, ArithmeticOp, CompareOp, PartOp
<1>3. PICK a : a = (IF Bound(env, Key.sym) THEN EnvGet(env, Key.sym) ELSE Nil)
  OBVIOUS
<1>4. ~IsType(a, "interpreter_state") /\ Fits(o, Len(pairs), a)
  <2>1. CASE Bound(env, Key.sym)
    <3>1. FirstBinding(env, Key.sym) \in DOMAIN env
      BY <1>1, <2>1, FirstBindingFound, SMTT(30) DEF TypeOK
    <3> QED
      BY <1>1, <1>3, <2>1, <3>1 DEF SavedStateHidden, EnvGet, Owned, HeapFits
  <2>2. CASE ~Bound(env, Key.sym)
    BY <1>3, <2>2 DEF Nil, IsType, Fits
  <2> QED
    BY <2>1, <2>2
<1> QED
  BY <1>1, <1>2, <1>3, <1>4, LoadOwned DEF LoadEnv

LEMMA DropOwned ==
  ASSUME BalancedCode, IInv, TypeOK', NEW o, Owned(o), Drop
  PROVE  Owned(o)'
<1>1. Current.op = "DROP" /\ TypeOK /\ FrameLayout /\ status = "running" /\ Executable
  BY DEF Drop, Executing, IInv
<1>2. Operands(Current) = 1
  BY <1>1 DEF Operands, ArithmeticOp, CompareOp, PartOp
<1> QED
  BY <1>1, <1>2, RemovalOwned DEF Drop

LEMMA JumpOwned ==
  ASSUME BalancedCode, IInv, TypeOK', NEW o, Owned(o), Jump
  PROVE  Owned(o)'
<1>1. Current.op = "JUMP" /\ TypeOK /\ FrameLayout /\ status = "running" /\ Executable
        /\ stack \in Seq(Atom)
  BY DEF Jump, Executing, IInv, TypeOK
<1>2. Operands(Current) = 0
  BY <1>1 DEF Operands, ArithmeticOp, CompareOp, PartOp
<1>3. stack' = Pop(0)
  BY <1>1 DEF Jump, Pop
<1> QED
  BY <1>1, <1>2, <1>3, RemovalOwned DEF Jump

LEMMA JumpIfFalseOwned ==
  ASSUME BalancedCode, IInv, TypeOK', NEW o, Owned(o), JumpIfFalse
  PROVE  Owned(o)'
<1>1. Current.op = "JUMP_IF_FALSE" /\ TypeOK /\ FrameLayout /\ status = "running" /\ Executable
  BY DEF JumpIfFalse, Executing, IInv
<1>2. Operands(Current) = 1
  BY <1>1 DEF Operands, ArithmeticOp, CompareOp, PartOp
<1> QED
  BY <1>1, <1>2, RemovalOwned DEF JumpIfFalse

LEMMA CallBuildinOwned ==
  ASSUME BalancedCode, IInv, TypeOK', NEW o, Owned(o), CallBuildin
  PROVE  Owned(o)'
<1>1. Current.op = "CALL" /\ TypeOK /\ FrameLayout /\ status = "running" /\ Executable
  BY DEF CallBuildin, Executing, IInv
<1>2. Operands(Current) = Current.arg + 1
  BY <1>1 DEF Operands, ArithmeticOp, CompareOp, PartOp
<1>3. PICK value \in BuildinResults(Callee.func, Actuals) :
        stack' = Append(Pop(Current.arg + 1), value)
  BY DEF CallBuildin
<1>4. ~IsType(value, "interpreter_state") /\ Fits(o, Len(pairs), value)
  <2>1. Callee.func \in {"print", "gc_heap_size", "plus"}
    BY DEF CallBuildin, SimpleFunc
  <2> QED
    BY <1>3, <2>1 DEF BuildinResults, IsType, Nil, Num, Fits
<1>5. UNCHANGED <<memory, registers, result>>
  BY DEF CallBuildin
<1> QED
  BY <1>1, <1>2, <1>3, <1>4, <1>5, ComputationOwned

LEMMA ArithmeticOwned ==
  ASSUME BalancedCode, IInv, TypeOK', NEW o, Owned(o), Arithmetic
  PROVE  Owned(o)'
<1>1. Current.op \in ArithmeticOp /\ TypeOK /\ FrameLayout /\ status = "running" /\ Executable
  BY DEF Arithmetic, Executing, IInv
<1>2. Operands(Current) = 2
  BY <1>1 DEF Operands, ArithmeticOp, CompareOp, PartOp
<1>3. PICK a : a = ArithmeticResult(Current.op, Top(1).num, Top(0).num)
  OBVIOUS
<1>4. ~IsType(a, "interpreter_state") /\ Fits(o, Len(pairs), a)
  BY <1>3 DEF ArithmeticResult, Num, IsType, Fits
<1>5. stack' = Append(Pop(2), a) /\ UNCHANGED <<memory, registers, result>>
  BY <1>3 DEF Arithmetic
<1> QED
  BY <1>1, <1>2, <1>4, <1>5, ComputationOwned

LEMMA CompareOwned ==
  ASSUME BalancedCode, IInv, TypeOK', NEW o, Owned(o), Compare
  PROVE  Owned(o)'
<1>1. Current.op \in CompareOp /\ TypeOK /\ FrameLayout /\ status = "running" /\ Executable
  BY DEF Compare, Executing, IInv
<1>2. Operands(Current) = 2
  BY <1>1 DEF Operands, ArithmeticOp, CompareOp, PartOp
<1>3. PICK a : a = CompareResult(Current.op, Top(1), Top(0))
  OBVIOUS
<1>4. ~IsType(a, "interpreter_state") /\ Fits(o, Len(pairs), a)
  BY <1>3 DEF CompareResult, True, False, IsType, Fits
<1>5. stack' = Append(Pop(2), a) /\ UNCHANGED <<memory, registers, result>>
  BY <1>3 DEF Compare
<1> QED
  BY <1>1, <1>2, <1>4, <1>5, ComputationOwned

\* The parts of a pair fit, like everything in the memory.
LEMMA TakePartOwned ==
  ASSUME BalancedCode, IInv, TypeOK', NEW o, Owned(o), TakePart
  PROVE  Owned(o)'
<1>1. Current.op \in PartOp /\ TypeOK /\ FrameLayout /\ status = "running" /\ Executable
        /\ SavedStateHidden
  BY DEF TakePart, Executing, IInv
<1>2. Operands(Current) = 1
  BY <1>1 DEF Operands, ArithmeticOp, CompareOp, PartOp
<1>3. PICK a : a = IF Current.op = "FIRST" THEN pairs[Top(0).cell].first ELSE pairs[Top(0).cell].rest
  OBVIOUS
<1>4. ~IsType(a, "interpreter_state") /\ Fits(o, Len(pairs), a)
  <2>1. Top(0).cell \in DOMAIN pairs
    BY <1>1 DEF Executable
  <2> QED
    BY <1>1, <1>3, <2>1 DEF SavedStateHidden, Owned, HeapFits
<1>5. stack' = Append(Pop(1), a) /\ UNCHANGED <<memory, registers, result>>
  BY <1>3 DEF TakePart
<1> QED
  BY <1>1, <1>2, <1>4, <1>5, ComputationOwned

\* What lies on the stack as an operand fits.
LEMMA OperandFits ==
  ASSUME BalancedCode, TypeOK, FrameLayout, status = "running", Executable, NEW o, Owned(o),
         NEW i \in 0..(Operands(Current) - 1)
  PROVE  /\ Top(i) \in Atom /\ ~IsType(Top(i), "interpreter_state")
         /\ Fits(o, Len(pairs), Top(i))
<1>1. i < Len(stack) /\ Top(i) \in Atom /\ ~IsType(Top(i), "interpreter_state")
  BY OperandsHidden
<1>2. Len(stack) \in Nat /\ DOMAIN stack = 1..Len(stack) /\ i \in Nat
  BY DEF TypeOK, Executable
<1>3. Len(stack) - i \in DOMAIN stack
  BY <1>1, <1>2
<1> QED
  BY <1>1, <1>3 DEF Top, Owned, StackFits

\* The scope of an activation belongs to its lambda; the lambda that is built
\* in it is a literal of that lambda.
LEMMA LoadLambdaOwned ==
  ASSUME BalancedCode, ScopedCode, IInv, TypeOK', OuterFrameAlive, NEW o, Owned(o), LoadLambda
  PROVE  \E o2 : Owned(o2)'
<1> DEFINE literal == TargetLambda(Current.offset).literals[Current.arg + 1]
<1>1. Current.op = "LOAD_LAMBDA" /\ TypeOK /\ FrameLayout /\ status = "running" /\ Executable
  BY DEF LoadLambda, Executing, IInv
<1>2. Operands(Current) = 0
  BY <1>1 DEF Operands, ArithmeticOp, CompareOp, PartOp
<1>3. TargetLambda(Current.offset) = CompiledLambda[LambdaAt(rl.cl, Current.offset)]
  BY <1>1, TargetFound
<1>4. Around(literal.id) = {rl.cl}
  BY <1>1, <1>3, CurrentScoped DEF ScopedInstruction, Current, Code, Compiled
<1>5. rl.cl \in LambdaId /\ rl.scopes \in DOMAIN o /\ o[rl.scopes] = Around(rl.cl)
  BY <1>1, InLoop, RunningFits DEF Fits, TypeOK
<1>6. PICK a : a = RuntimeLambda(literal.id, frame_scope') /\ stack' = Append(stack, a)
  BY DEF LoadLambda, Push
<1>7. ~IsType(a, "interpreter_state") /\ stack' = Append(Pop(0), a)
  <2>1. stack \in Seq(Atom)
    BY <1>1 DEF TypeOK
  <2> QED
    BY <1>6, <2>1 DEF Pop, RuntimeLambda, IsType
<1>8. PICK c \in Nat : c = Len(pairs)
  BY <1>1 DEF TypeOK
<1>9. pairs' = pairs /\ env' = env /\ result' = result /\ rl' = rl
  BY DEF LoadLambda
<1>10. o \in Seq(SUBSET LambdaId) /\ Len(o) = Len(scopes) /\ DOMAIN o = DOMAIN scopes
  BY <1>1 DEF Owned, TypeOK
<1>11. CASE frame_scope = NULL
  <2>1. PICK o2 : o2 = Append(o, {rl.cl})
    OBVIOUS
  <2>2. Grown(o, o2) /\ Len(o2) = Len(scopes) + 1 /\ o2[Len(scopes) + 1] = {rl.cl}
    <3>1. PICK own \in SUBSET LambdaId : own = {rl.cl}
      BY <1>5
    <3>2. Grown(o, o2) /\ Len(o2) = Len(o) + 1 /\ o2[Len(o) + 1] = own
      BY <1>10, <2>1, <3>1, GrownByOne
    <3> QED
      BY <1>10, <3>1, <3>2
  <2>3. scopes' = Append(scopes, ThisScope) /\ frame_scope' = Len(scopes) + 1
    BY <1>11 DEF LoadLambda, NeedsScope
  <2>4. /\ scopes \in Seq(Scope) /\ scopes' \in Seq(Scope) /\ Len(scopes) \in Nat
        /\ Len(scopes') = Len(scopes) + 1 /\ scopes'[Len(scopes) + 1] = ThisScope
        /\ \A s \in DOMAIN scopes : scopes'[s] = scopes[s]
        /\ \A s \in DOMAIN scopes' : s \in DOMAIN scopes \/ s = Len(scopes) + 1
    <3>1. scopes \in Seq(Scope) /\ scopes' \in Seq(Scope)
      BY <1>1 DEF TypeOK
    <3> QED
      BY <2>3, <3>1
  <2>5. HeapFits(o2, c) /\ StackFits(o2, c)
    BY <1>1, <1>8, <2>2, MemoryGrown
  <2>6. DOMAIN o2 = 1..(Len(scopes) + 1)
    BY <2>2, <2>4 DEF Grown
  <2>7. OwnedScope(o2, c, Len(scopes) + 1, ThisScope)
    <3>1. ThisScope.type = "stack" /\ ThisScope.next = rl.scopes /\ ThisScope.atoms = << >>
      BY DEF ThisScope, StackScope
    <3>2. rl.scopes \in 1..Len(scopes) /\ o2[rl.scopes] = Around(rl.cl)
      BY <1>5, <1>10, <2>2, <2>4 DEF Grown
    <3>3. rl.scopes \in 1..(Len(scopes) + 1 - 1)
      BY <2>4, <3>2
    <3>4. FrameScope(o2, Len(scopes) + 1, ThisScope, rl.cl)
      BY <2>2, <3>1, <3>2, <3>3 DEF FrameScope
    <3> QED
      BY <1>5, <3>1, <3>4 DEF OwnedScope
  <2>8. HeapFits(o2, c)'
    BY <1>9, <2>4, <2>5, <2>7 DEF HeapFits
  <2>9. Fits(o2, c, a)
    <3>1. a.type = "runtime_lambda" /\ a.cl = literal.id /\ a.scopes = Len(scopes) + 1
      BY <1>6, <2>3 DEF RuntimeLambda
    <3>2. Len(scopes) + 1 \in DOMAIN o2
      BY <2>4, <2>6
    <3> QED
      BY <1>4, <2>2, <3>1, <3>2 DEF Fits, IsType
  <2>10. OwnedBy(o2, frame_scope', rl')
    BY <1>9, <2>2, <2>3, <2>4, <2>6 DEF OwnedBy
  <2>11. Len(o2) = Len(scopes') /\ c = Len(pairs') /\ Len(pairs) <= c
    BY <1>8, <1>9, <2>2, <2>4
  <2> QED
    BY <1>1, <1>2, <1>7, <2>2, <2>8, <2>9, <2>10, <2>11, ReplacementOwned
<1>12. CASE frame_scope # NULL
  <2>1. scopes' = scopes /\ frame_scope' = frame_scope
    BY <1>12 DEF LoadLambda, NeedsScope
  <2>2. OwnedBy(o, frame_scope, rl)
    BY <1>1 DEF Owned, FramesOwned
  <2>3. frame_scope \in DOMAIN o /\ o[frame_scope] = {rl.cl}
    BY <1>12, <2>2 DEF OwnedBy
  <2>4. Fits(o, c, a)
    BY <1>4, <1>6, <2>1, <2>3 DEF Fits, RuntimeLambda, IsType
  <2>5. HeapFits(o, c)'
    BY <1>8, <1>9, <2>1 DEF Owned, HeapFits
  <2>6. OwnedBy(o, frame_scope', rl') /\ Grown(o, o)
    BY <1>9, <2>1, <2>2, GrownReflexive
  <2>7. Len(o) = Len(scopes') /\ c = Len(pairs') /\ Len(pairs) <= c
    BY <1>8, <1>9, <1>10, <2>1
  <2> QED
    BY <1>1, <1>2, <1>7, <2>4, <2>5, <2>6, <2>7, ReplacementOwned
<1> QED
  BY <1>11, <1>12

\* A new pair is made of two operands.
LEMMA BuildPairOwned ==
  ASSUME BalancedCode, IInv, TypeOK', NEW o, Owned(o), BuildPair
  PROVE  Owned(o)'
<1>1. Current.op = "CONS" /\ TypeOK /\ FrameLayout /\ status = "running" /\ Executable
  BY DEF BuildPair, Executing, IInv
<1>2. Operands(Current) = 2
  BY <1>1 DEF Operands, ArithmeticOp, CompareOp, PartOp
<1>3. PICK first, rest : first = Top(1) /\ rest = Top(0)
  OBVIOUS
<1>4. PICK c \in Nat : c = Len(pairs) + 1
  BY <1>1, SMTT(30) DEF TypeOK
<1>5. Len(pairs) \in Nat /\ Len(pairs) <= c /\ Grown(o, o)
  <2>1. Len(pairs) \in Nat
    BY <1>1 DEF TypeOK
  <2> QED
    BY <1>4, <2>1, GrownReflexive
<1>6. /\ Fits(o, c, first) /\ first \in Atom
      /\ Fits(o, c, rest) /\ rest \in Atom
  <2>1. 0 \in 0..(Operands(Current) - 1) /\ 1 \in 0..(Operands(Current) - 1)
    BY <1>2
  <2>2. /\ Fits(o, Len(pairs), first) /\ first \in Atom
        /\ Fits(o, Len(pairs), rest) /\ rest \in Atom
    BY <1>1, <1>3, <2>1, OperandFits
  <2> QED
    BY <1>5, <2>2, FitsGrown
<1>7. PICK cell : cell = [first |-> first, rest |-> rest] /\ pairs' = Append(pairs, cell)
  BY <1>3 DEF BuildPair
<1>8. /\ Len(pairs') = c
      /\ \A i \in DOMAIN pairs' : (i \in DOMAIN pairs /\ pairs'[i] = pairs[i]) \/ pairs'[i] = cell
  <2>1. pairs \in Seq(PairCell) /\ cell \in PairCell
    BY <1>1, <1>6, <1>7 DEF TypeOK, PairCell, PairOver, Atom
  <2> QED
    BY <1>4, <1>7, <2>1
<1>9. env' = env /\ scopes' = scopes /\ result' = result /\ UNCHANGED registers
  BY DEF BuildPair
<1>10. HeapFits(o, c)'
  <2>1. HeapFits(o, c)
    BY <1>1, <1>5, MemoryGrown
  <2>2. Fits(o, c, cell.first) /\ Fits(o, c, cell.rest)
    BY <1>6, <1>7
  <2> QED
    BY <1>8, <1>9, <2>1, <2>2 DEF HeapFits
<1>11. PICK a : a = Pair(c)
  OBVIOUS
<1>12. ~IsType(a, "interpreter_state") /\ Fits(o, c, a)
  <2>1. c \in 1..c
    BY <1>4, <1>5
  <2> QED
    BY <1>11, <2>1 DEF Pair, IsType, Fits
<1>13. stack' = Append(Pop(2), a)
  BY <1>4, <1>11 DEF BuildPair
<1>14. OwnedBy(o, frame_scope', rl')
  BY <1>1, <1>9 DEF Owned, FramesOwned, registers
<1>15. Len(o) = Len(scopes')
  BY <1>9 DEF Owned
<1> QED
  BY <1>1, <1>2, <1>5, <1>8, <1>10, <1>12, <1>13, <1>14, <1>15, ReplacementOwned

\* A value is bound that fits.
LEMMA EnvSetFits ==
  ASSUME NEW e \in Seq(Binding), NEW o, NEW c, NEW key, NEW a, Fits(o, c, a),
         \A i \in DOMAIN e : Fits(o, c, e[i].value)
  PROVE  \A i \in DOMAIN EnvSet(e, key, a) : Fits(o, c, EnvSet(e, key, a)[i].value)
<1>1. CASE ~Bound(e, key)
  BY <1>1 DEF EnvSet
<1>2. CASE Bound(e, key)
  <2>1. PICK b : b = FirstBinding(e, key)
    OBVIOUS
  <2>2. PICK e2 : e2 = EnvSet(e, key, a) /\ e2 = [e EXCEPT ![b].value = a]
    BY <1>2, <2>1 DEF EnvSet
  <2>3. b \in DOMAIN e
    BY <1>2, <2>1, FirstBindingFound
  <2>4. e2[b].value = a
    <3>1. e[b] \in Binding
      BY <2>3
    <3>2. e[b] \in [key : Symbol, value : Atom]
      BY <3>1 DEF Binding, BindingOver, Atom
    <3> QED
      BY <2>2, <2>3, <3>2
  <2>5. DOMAIN e2 = DOMAIN e /\ \A i \in DOMAIN e : i # b => e2[i] = e[i]
    BY <2>2, <2>3
  <2>6. \A i \in DOMAIN e2 : Fits(o, c, e2[i].value)
    BY <2>4, <2>5
  <2> QED
    BY <2>2, <2>6
<1> QED
  BY <1>1, <1>2

\* The stack stays as it was, and so do the registers that name scopes.
LEMMA StackUnchangedOwned ==
  ASSUME TypeOK, NEW o, Owned(o), status = "running",
         UNCHANGED <<pairs, stack, frame_scope, rl>>, Len(scopes') = Len(scopes),
         NEW c, c = Len(pairs), HeapFits(o, c)'
  PROVE  Owned(o)'
<1>1. FramesOwned(o)'
  BY DEF Owned, FramesOwned, IsState
<1>2. StackFits(o, c)'
  BY DEF Owned, StackFits
<1> QED
  BY <1>1, <1>2 DEF Owned

LEMMA StoreEnvOwned ==
  ASSUME BalancedCode, IInv, TypeOK', NEW o, Owned(o), StoreEnv
  PROVE  Owned(o)'
<1>1. Current.op = "STORE_ENV" /\ TypeOK /\ FrameLayout /\ status = "running" /\ Executable
        /\ env \in Seq(Binding)
  BY DEF StoreEnv, Executing, IInv, TypeOK
<1>2. Operands(Current) = 1
  BY <1>1 DEF Operands, ArithmeticOp, CompareOp, PartOp
<1>3. PICK a, key, c : a = Top(0) /\ key = Key.sym /\ c = Len(pairs)
  OBVIOUS
<1>4. Fits(o, c, a)
  <2>1. 0 \in 0..(Operands(Current) - 1)
    BY <1>2
  <2> QED
    BY <1>1, <1>3, <2>1, OperandFits
<1>5. /\ env' = EnvSet(env, key, a) /\ scopes' = scopes /\ result' = result
      /\ UNCHANGED <<pairs, stack, frame_scope, rl>>
  BY <1>3 DEF StoreEnv
<1>6. \A i \in DOMAIN env' : Fits(o, c, env'[i].value)
  <2>1. \A i \in DOMAIN env : Fits(o, c, env[i].value)
    BY <1>3 DEF Owned, HeapFits
  <2> QED
    BY <1>1, <1>4, <1>5, <2>1, EnvSetFits
<1>7. HeapFits(o, c)'
  BY <1>3, <1>5, <1>6 DEF Owned, HeapFits
<1> QED
  BY <1>1, <1>3, <1>5, <1>7, StackUnchangedOwned

\* A store hits a variable: no saved state, and no slot that says whose frame
\* it is.
LEMMA StoreOnStackOwned ==
  ASSUME BalancedCode, IInv, TypeOK', OuterFrameAlive, NEW o, Owned(o), StoreLocal,
         TargetScope(Current.offset).type = "stack"
  PROVE  Owned(o)'
<1>1. Current.op = "STORE_LOCAL" /\ TypeOK /\ FrameLayout /\ status = "running" /\ Executable
        /\ HasVariable(Current) /\ stack \in Seq(Atom)
  BY DEF StoreLocal, Executing, Executable, IInv, TypeOK
<1>2. Operands(Current) = 1
  BY <1>1 DEF Operands, ArithmeticOp, CompareOp, PartOp
<1>3. PICK a, c : a = Top(0) /\ c = Len(pairs)
  OBVIOUS
<1>4. Fits(o, c, a) /\ ~IsType(a, "interpreter_state")
  <2>1. 0 \in 0..(Operands(Current) - 1)
    BY <1>2
  <2> QED
    BY <1>1, <1>3, <2>1, OperandFits
<1>5. /\ env' = env /\ pairs' = pairs /\ result' = result /\ status' = status
      /\ frame_scope' = frame_scope /\ rl' = rl
  BY DEF StoreLocal
<1>6. PICK f, k, j :
        /\ f = TargetScope(Current.offset).frame_index
        /\ k = StateSlot(f, TargetScope(Current.offset).arg_count)
        /\ j = f + VariableSlot(Current) - 1
  OBVIOUS
<1>7. IsFrame(f, k) /\ j \in DOMAIN stack /\ f < j /\ j < k
  BY <1>1, <1>6, VariableInFrame
<1>8. stack' = [stack EXCEPT ![j] = a] /\ scopes' = scopes
  BY <1>3, <1>6 DEF StoreLocal
<1>9. /\ DOMAIN stack' = DOMAIN stack
      /\ stack'[j] = a /\ \A i \in DOMAIN stack : i # j => stack'[i] = stack[i]
  BY <1>7, <1>8
<1>10. \A g, m : IsFrame(g, m) => j # g /\ j # m
  <2>1. j \in Nat
    BY <1>1, <1>7
  <2> QED
    BY <1>1, <1>7, <2>1, VariableApart
<1>11. FramesOwned(o)'
  <2>1. ASSUME NEW i \in DOMAIN stack', IsState(i)'
        PROVE  OwnedBy(o, stack'[i].frame_scope, stack'[stack'[i].fp_index])
    <3>1. i \in DOMAIN stack /\ i # j /\ stack'[i] = stack[i] /\ IsState(i)
      BY <1>4, <1>9, <2>1 DEF IsState
    <3>2. CallerFrame(i) \in DOMAIN stack /\ CallerFrame(i) # j
      <4>1. IsFrame(CallerFrame(i), CallerStateSlot(i)) /\ CallerFrame(i) \in DOMAIN stack
        BY <1>1, <3>1, SavedFrameFacts
      <4> QED
        BY <1>10, <4>1
    <3>3. OwnedBy(o, stack[i].frame_scope, stack[CallerFrame(i)])
      BY <1>1, <3>1 DEF Owned, FramesOwned, CallerFrame
    <3> QED
      BY <1>9, <3>1, <3>2, <3>3 DEF CallerFrame
  <2>2. OwnedBy(o, frame_scope', rl')
    BY <1>1, <1>5 DEF Owned, FramesOwned
  <2> QED
    BY <2>1, <2>2 DEF FramesOwned
<1>12. StackFits(o, c)'
  <2>1. StackFits(o, c)
    BY <1>3 DEF Owned
  <2> QED
    BY <1>4, <1>9, <2>1 DEF StackFits
<1>13. HeapFits(o, c)'
  BY <1>3, <1>5, <1>8 DEF Owned, HeapFits
<1> QED
  BY <1>3, <1>5, <1>8, <1>11, <1>12, <1>13 DEF Owned

\* ... in a copied frame as well.
LEMMA StoreOnHeapOwned ==
  ASSUME BalancedCode, ScopedCode, IInv, TypeOK', OuterFrameAlive, NEW o, Owned(o), StoreLocal,
         TargetScope(Current.offset).type # "stack"
  PROVE  Owned(o)'
<1>1. Current.op = "STORE_LOCAL" /\ TypeOK /\ FrameLayout /\ status = "running" /\ Executable
        /\ HasVariable(Current) /\ scopes \in Seq(Scope)
  BY DEF StoreLocal, Executing, Executable, IInv, TypeOK
<1>2. Operands(Current) = 1
  BY <1>1 DEF Operands, ArithmeticOp, CompareOp, PartOp
<1>3. PICK a, c : a = Top(0) /\ c = Len(pairs)
  OBVIOUS
<1>4. Fits(o, c, a)
  <2>1. 0 \in 0..(Operands(Current) - 1)
    BY <1>2
  <2> QED
    BY <1>1, <1>3, <2>1, OperandFits
<1>5. /\ env' = env /\ result' = result /\ UNCHANGED <<pairs, frame_scope, rl>>
  BY DEF StoreLocal
<1>6. PICK s, i, id : s = ScopeId(Current.offset) /\ i = VariableSlot(Current)
                        /\ id = LambdaAt(rl.cl, Current.offset)
  OBVIOUS
<1>7. Current.offset \in Nat /\ Current.offset > 0
  BY <1>1, CurrentScoped DEF TargetScope, ThisScope, StackScope
<1>8. /\ s \in DOMAIN scopes /\ scopes[s] \in Scope /\ scopes[s].type # "env"
      /\ OwnedScope(o, c, s, scopes[s]) /\ FrameScope(o, s, scopes[s], id)
      /\ TargetScope(Current.offset) = scopes[s] /\ id \in LambdaId
  BY <1>1, <1>3, <1>6, <1>7, OuterScope, CurrentScoped DEF TargetScope
<1>9. i \in DOMAIN scopes[s].atoms /\ i \in Nat /\ i >= 2
  <2>1. i \in DOMAIN scopes[s].atoms
    BY <1>1, <1>6, <1>8 DEF HasVariable, SlotExists
  <2>2. Current.arg \in Int /\ Current.arg >= 0
    BY <1>1, InLoop DEF HasVariable, Instruction
  <2>3. scopes[s].arg_count \in Nat
    BY <1>8 DEF Scope, ScopeOver, EnvScope
  <2>4. i = scopes[s].arg_count + Current.arg + 2
    BY <1>1, <1>6, <1>8 DEF VariableSlot
  <2> QED
    BY <2>1, <2>2, <2>3, <2>4
<1>10. scopes' = [scopes EXCEPT ![s].atoms[i] = a] /\ stack' = stack
  BY <1>3, <1>6 DEF StoreLocal
<1>11. /\ DOMAIN scopes' = DOMAIN scopes /\ Len(scopes') = Len(scopes)
       /\ \A t \in DOMAIN scopes : t # s => scopes'[t] = scopes[t]
       /\ scopes'[s] = [scopes[s] EXCEPT !.atoms[i] = a]
  BY <1>1, <1>8, <1>10
<1>12. PICK scope : scope = scopes'[s]
  OBVIOUS
<1>13. /\ scope.atoms = [scopes[s].atoms EXCEPT ![i] = a]
       /\ scope.type = scopes[s].type /\ scope.next = scopes[s].next
       /\ scope.arg_count = scopes[s].arg_count
  <2>1. {"type", "next", "arg_count", "atoms"} \subseteq DOMAIN scopes[s]
    BY <1>8 DEF Scope, ScopeOver, EnvScope
  <2> QED
    BY <1>11, <1>12, <2>1
<1>14. /\ DOMAIN scope.atoms = DOMAIN scopes[s].atoms
       /\ scope.atoms[i] = a /\ \A x \in DOMAIN scopes[s].atoms : x # i => scope.atoms[x] = scopes[s].atoms[x]
  BY <1>9, <1>13
<1>15. scope.type = "heap" => CopiedFrame(scope, id)
  <2> SUFFICES ASSUME scope.type = "heap"
               PROVE  CopiedFrame(scope, id)
    OBVIOUS
  <2>1. CopiedFrame(scopes[s], id)
    BY <1>8, <1>13 DEF FrameScope
  <2>2. scopes[s].atoms \in Seq(Atom) /\ scope.atoms \in Seq(Atom)
    <3>1. scopes' \in Seq(Scope)
      BY DEF TypeOK
    <3>2. scope \in Scope /\ scopes[s] \in Scope /\ scopes[s].type = "heap"
      BY <1>8, <1>11, <1>12, <1>13, <3>1
    <3>3. \A heap \in Scope : heap.type = "heap" => heap.atoms \in Seq(Atom)
      BY DEF Scope, ScopeOver, EnvScope, Atom
    <3> QED
      BY <3>2, <3>3
  <2>3. Len(scope.atoms) = Len(scopes[s].atoms)
    BY <1>14, <2>2
  <2>4. scope.atoms[1] = scopes[s].atoms[1]
    <3>1. id \in LambdaId /\ CompiledLambda[id].var_count \in Nat /\ scopes[s].arg_count \in Nat
      BY <1>8, CompiledAssumption DEF Scope, ScopeOver, EnvScope
    <3>2. 1 \in DOMAIN scopes[s].atoms /\ i # 1
      BY <1>9, <2>1, <2>2, <3>1 DEF CopiedFrame
    <3> QED
      BY <1>14, <3>2
  <2> QED
    BY <1>13, <2>1, <2>3, <2>4 DEF CopiedFrame
<1>16. OwnedScope(o, c, s, scope)
  <2>1. \A x \in DOMAIN scope.atoms : Fits(o, c, scope.atoms[x])
    BY <1>4, <1>8, <1>14 DEF OwnedScope
  <2>2. FrameScope(o, s, scope, id)
    BY <1>8, <1>13, <1>15 DEF FrameScope
  <2> QED
    BY <1>8, <1>13, <2>1, <2>2 DEF OwnedScope
<1>17. HeapFits(o, c)'
  BY <1>3, <1>5, <1>11, <1>12, <1>16 DEF Owned, HeapFits
<1> QED
  BY <1>1, <1>3, <1>5, <1>10, <1>11, <1>17, StackUnchangedOwned

LEMMA StoreLocalOwned ==
  ASSUME BalancedCode, ScopedCode, IInv, TypeOK', OuterFrameAlive, NEW o, Owned(o), StoreLocal
  PROVE  Owned(o)'
BY StoreOnStackOwned, StoreOnHeapOwned

\* A call: the saved state has the caller's scope, the callee none yet.
LEMMA CallRuntimeLambdaOwned ==
  ASSUME BalancedCode, IInv, TypeOK', NEW o, Owned(o), CallRuntimeLambda
  PROVE  Owned(o)'
<1>1. /\ TypeOK /\ FrameLayout /\ status = "running" /\ Len(stack) \in Nat /\ stack \in Seq(Atom)
  BY DEF CallRuntimeLambda, Executing, IInv, TypeOK
<1>2. PICK locals, k, state, c :
        /\ locals = Compiled(Callee).var_count
        /\ k = Len(stack) + locals + 1
        /\ state = InterpreterState(frame_index, ip, arg_count, scope_escaped, frame_scope)
        /\ c = Len(pairs)
  OBVIOUS
<1>3. /\ locals \in Nat /\ k \in Nat /\ Len(stack) < k
      /\ IsType(state, "interpreter_state")
      /\ Len(stack') = k /\ stack' \in Seq(Atom) /\ stack'[k] = state
      /\ \A x \in 1..Len(stack) : stack'[x] = stack[x]
      /\ \A x \in (Len(stack) + 1)..(k - 1) : stack'[x] = Nil
  BY <1>1, <1>2, CallPushes
<1>4. \A x \in DOMAIN stack' : x \in 1..Len(stack) \/ x \in (Len(stack) + 1)..(k - 1) \/ x = k
  BY <1>1, <1>3
<1>5. UNCHANGED <<memory, result, status>> /\ frame_scope' = NULL
  BY DEF CallRuntimeLambda
<1>6. FramesOwned(o)'
  <2>1. ASSUME NEW x \in (Len(stack) + 1)..Len(stack'), IsState(x)'
        PROVE  OwnedBy(o, stack'[x].frame_scope, stack'[stack'[x].fp_index])
    <3>1. x = k
      <4>1. x \in (Len(stack) + 1)..(k - 1) \/ x = k
        BY <1>1, <1>3, <2>1
      <4>2. x # k => stack'[x] = Nil
        BY <1>3, <4>1
      <4> QED
        BY <2>1, <4>2 DEF IsState, IsType, Nil
    <3>2. stack'[x].frame_scope = frame_scope /\ stack'[x].fp_index = frame_index
      BY <1>2, <1>3, <3>1 DEF InterpreterState
    <3>3. frame_index \in 1..Len(stack) /\ stack[frame_index] = rl
      BY <1>1 DEF FrameLayout, CurrentFrame
    <3>4. OwnedBy(o, frame_scope, rl)
      BY <1>1 DEF Owned, FramesOwned
    <3> QED
      BY <1>3, <3>2, <3>3, <3>4
  <2>2. OwnedBy(o, frame_scope', rl')
    BY <1>5 DEF OwnedBy
  <2>3. Len(stack) <= Len(stack') /\ Grown(o, o)
    BY <1>1, <1>3, GrownReflexive
  <2> QED
    BY <1>1, <1>3, <2>1, <2>2, <2>3, FramesKept
<1>7. StackFits(o, c)'
  <2>1. \A x \in 1..Len(stack) : Fits(o, c, stack[x])
    BY <1>1, <1>2 DEF Owned, StackFits
  <2>2. Fits(o, c, Nil) /\ Fits(o, c, state)
    BY <1>3 DEF Fits, Nil, IsType
  <2>3. \A x \in DOMAIN stack' : Fits(o, c, stack'[x])
    BY <1>3, <1>4, <2>1, <2>2
  <2> QED
    BY <2>3 DEF StackFits
<1>8. HeapFits(o, c)'
  BY <1>2, <1>5 DEF Owned, HeapFits, memory
<1> QED
  BY <1>2, <1>5, <1>6, <1>7, <1>8 DEF Owned, memory

\* The frame that RETURN copies: the lambda, its arguments and its variables.
LEMMA FrameAtomsFit ==
  ASSUME BalancedCode, TypeOK, FrameLayout, status = "running", Executable,
         Current.op = "RETURN", NEW o, Owned(o)
  PROVE  /\ Len(FrameAtoms) = 1 + arg_count + Compiled(rl).var_count
         /\ FrameAtoms[1] = rl
         /\ \A x \in DOMAIN FrameAtoms : Fits(o, Len(pairs), FrameAtoms[x])
<1>1. PICK f, k, c : f = frame_index /\ k = OwnStateSlot /\ c = Len(pairs)
  OBVIOUS
<1>2. /\ f \in Nat /\ k \in Nat /\ 0 < f /\ f < k /\ Len(stack) = k + 1
      /\ FrameSize \in Nat /\ k = f + FrameSize
  BY <1>1, ReturnFacts
<1>3. f + FrameSize - 1 = k - 1
  BY <1>2
<1>4. FrameAtoms = SubSeq(stack, f, k - 1) /\ stack \in Seq(Atom)
  BY <1>1, <1>3 DEF FrameAtoms, TypeOK
<1>5. /\ Len(FrameAtoms) = FrameSize /\ DOMAIN FrameAtoms = 1..FrameSize
      /\ \A x \in 1..FrameSize : FrameAtoms[x] = stack[f + x - 1] /\ f + x - 1 \in 1..Len(stack)
  BY <1>2, <1>4
<1>6. \A x \in DOMAIN FrameAtoms : Fits(o, c, FrameAtoms[x])
  <2>1. \A j \in 1..Len(stack) : Fits(o, c, stack[j])
    BY <1>1, <1>4 DEF Owned, StackFits
  <2> QED
    BY <1>5, <2>1
<1>7. FrameAtoms[1] = rl
  <2>1. 1 \in 1..FrameSize /\ f + 1 - 1 = f
    BY <1>2
  <2>2. stack[f] = rl
    BY <1>1 DEF FrameLayout, CurrentFrame
  <2> QED
    BY <1>5, <2>1, <2>2
<1> QED
  BY <1>1, <1>5, <1>6, <1>7 DEF FrameSize

\* The copy of a frame belongs to the lambda whose frame it was.
LEMMA CaptureOwned ==
  ASSUME BalancedCode, IInv, NEW o, Owned(o), Return
  PROVE  /\ Len(scopes') = Len(scopes)
         /\ \A s \in DOMAIN scopes' : OwnedScope(o, Len(pairs), s, scopes'[s])
<1>1. /\ Current.op = "RETURN" /\ TypeOK /\ status = "running" /\ Executable
      /\ FrameLayout /\ scopes \in Seq(Scope)
  BY DEF Return, Executing, IInv, TypeOK
<1>2. \A s \in DOMAIN scopes : OwnedScope(o, Len(pairs), s, scopes[s])
  BY DEF Owned, HeapFits
<1>3. CASE ~EscapedBy(Top(0))
  <2>1. scopes' = scopes
    BY <1>3 DEF Return
  <2> QED
    BY <1>2, <2>1
<1>4. CASE EscapedBy(Top(0))
  <2>1. PICK s, frame, c : s = frame_scope /\ frame = FrameAtoms /\ c = Len(pairs)
    OBVIOUS
  <2>2. OwnScope(frame_index, arg_count, frame_scope, scope_escaped)
    BY <1>1 DEF FrameLayout, CurrentFrame
  <2>3. s # NULL
    BY <1>4, <2>1, <2>2 DEF OwnScope, EscapedBy
  <2>4. s \in DOMAIN scopes /\ scopes[s].type = "stack" /\ scopes[s].arg_count = arg_count
    BY <2>1, <2>2, <2>3 DEF OwnScope
  <2>5. PICK copy : copy = Captured(scopes[s], frame)
    OBVIOUS
  <2>6. scopes' = [scopes EXCEPT ![s] = copy]
    BY <1>4, <2>1, <2>5 DEF Return
  <2>7. /\ DOMAIN scopes' = DOMAIN scopes /\ Len(scopes') = Len(scopes)
        /\ scopes'[s] = copy
        /\ \A t \in DOMAIN scopes : t # s => scopes'[t] = scopes[t]
    BY <1>1, <2>4, <2>6
  <2>8. /\ copy.atoms = frame /\ copy.type = "heap"
        /\ copy.arg_count = scopes[s].arg_count /\ copy.next = scopes[s].next
    <3>1. scopes[s] \in Scope
      BY <1>1, <2>4
    <3>2. {"type", "next", "arg_count", "frame_index", "atoms"} \subseteq DOMAIN scopes[s]
      BY <3>1 DEF Scope, ScopeOver, EnvScope
    <3> QED
      BY <2>5, <3>2 DEF Captured
  <2>9. o[s] = {rl.cl}
    BY <1>1, <2>1, <2>3 DEF Owned, FramesOwned, OwnedBy
  <2>10. PICK id \in LambdaId : FrameScope(o, s, scopes[s], id)
    BY <1>2, <2>4 DEF OwnedScope
  <2>11. id = rl.cl
    BY <2>9, <2>10 DEF FrameScope
  <2>12. /\ Len(frame) = 1 + arg_count + CompiledLambda[id].var_count /\ frame[1] = rl
         /\ \A x \in DOMAIN frame : Fits(o, c, frame[x])
    BY <1>1, <2>1, <2>11, FrameAtomsFit DEF Compiled
  <2>13. IsType(rl, "runtime_lambda")
    BY <1>1 DEF TypeOK
  <2>14. CopiedFrame(copy, id)
    BY <2>4, <2>8, <2>11, <2>12, <2>13 DEF CopiedFrame
  <2>15. OwnedScope(o, c, s, copy)
    BY <2>8, <2>10, <2>12, <2>14 DEF OwnedScope, FrameScope
  <2> QED
    BY <1>2, <2>1, <2>7, <2>15
<1> QED
  BY <1>3, <1>4

LEMMA ReturnFromEvalOwned ==
  ASSUME BalancedCode, IInv, TypeOK', NEW o, Owned(o), Return, ~IsType(Top(1), "interpreter_state")
  PROVE  Owned(o)'
<1>1. /\ Current.op = "RETURN" /\ TypeOK /\ FrameLayout /\ status = "running" /\ Executable
  BY DEF Return, Executing, IInv
<1>2. /\ result' = Top(0) /\ status' = "returned" /\ env' = env /\ pairs' = pairs
  BY DEF Return
<1>3. PICK c : c = Len(pairs)
  OBVIOUS
<1>4. Fits(o, c, Top(0))
  <2>1. 0 \in 0..(Operands(Current) - 1)
    BY <1>1 DEF Operands, ArithmeticOp, CompareOp, PartOp
  <2> QED
    BY <1>1, <1>3, <2>1, OperandFits
<1>5. stack' = << >>
  BY ReturnFromEvalInv
<1>6. Len(scopes') = Len(scopes) /\ \A s \in DOMAIN scopes' : OwnedScope(o, c, s, scopes'[s])
  BY <1>3, CaptureOwned
<1>7. HeapFits(o, c)'
  BY <1>2, <1>3, <1>4, <1>6 DEF Owned, HeapFits
<1>8. StackFits(o, c)' /\ FramesOwned(o)'
  BY <1>2, <1>5 DEF StackFits, FramesOwned
<1> QED
  BY <1>2, <1>3, <1>6, <1>7, <1>8 DEF Owned

LEMMA ReturnToCallerOwned ==
  ASSUME BalancedCode, IInv, TypeOK', NEW o, Owned(o), Return, IsType(Top(1), "interpreter_state")
  PROVE  Owned(o)'
<1>1. /\ Current.op = "RETURN" /\ TypeOK /\ FrameLayout /\ status = "running" /\ Executable
      /\ stack \in Seq(Atom) /\ stack' \in Seq(Atom)
  BY DEF Return, Executing, IInv, TypeOK
<1>2. PICK k, n, state, value, c :
        /\ k = OwnStateSlot /\ n = frame_index - 1 /\ state = stack[k] /\ value = Top(0) /\ c = Len(pairs)
  OBVIOUS
<1>3. PICK lower \in Seq(Atom) : lower = Pop(FrameSize + 2)
  BY <1>1, ReturnFacts
<1>4. /\ Len(stack) = k + 1 /\ Top(1) = state
      /\ ~IsType(value, "interpreter_state") /\ value \in Atom
      /\ k \in Nat /\ n \in Nat /\ n < k
      /\ Len(lower) = n /\ \A x \in 1..n : lower[x] = stack[x]
  BY <1>1, <1>2, <1>3, ReturnFacts
<1>5. k \in DOMAIN stack /\ IsState(k)
  <2>1. k \in 1..Len(stack)
    BY <1>4
  <2>2. k \in DOMAIN stack
    BY <1>1, <2>1
  <2> QED
    BY <1>2, <1>4, <2>2 DEF IsState
<1>6. /\ stack' = Append(lower, value) /\ rl' = stack[CallerFrame(k)] /\ frame_scope' = state.frame_scope
      /\ result' = result /\ env' = env /\ pairs' = pairs
  BY <1>2, <1>3, <1>4 DEF Return, CallerFrame
<1>7. /\ Len(stack') = n + 1 /\ stack'[n + 1] = value
      /\ \A x \in 1..n : stack'[x] = stack[x]
  BY <1>4, <1>6
<1>8. Fits(o, c, value)
  <2>1. 0 \in 0..(Operands(Current) - 1)
    BY <1>1 DEF Operands, ArithmeticOp, CompareOp, PartOp
  <2> QED
    BY <1>1, <1>2, <2>1, OperandFits
<1>9. Len(scopes') = Len(scopes) /\ \A s \in DOMAIN scopes' : OwnedScope(o, c, s, scopes'[s])
  BY <1>2, CaptureOwned
<1>10. HeapFits(o, c)'
  BY <1>2, <1>6, <1>9 DEF Owned, HeapFits
<1>11. \A x \in DOMAIN stack' : x \in 1..n \/ x = n + 1
  BY <1>1, <1>4, <1>7
<1>12. StackFits(o, c)'
  <2>1. \A x \in 1..n : Fits(o, c, stack[x])
    BY <1>1, <1>2, <1>4 DEF Owned, StackFits
  <2>2. \A x \in DOMAIN stack' : Fits(o, c, stack'[x])
    BY <1>7, <1>8, <1>11, <2>1
  <2> QED
    BY <2>2 DEF StackFits
<1>13. FramesOwned(o)'
  <2>1. OwnedBy(o, frame_scope', rl')
    BY <1>1, <1>2, <1>5, <1>6 DEF Owned, FramesOwned, CallerFrame
  <2>2. \A x \in (n + 1)..Len(stack') : ~IsState(x)'
    <3>1. \A x \in (n + 1)..Len(stack') : x = n + 1
      BY <1>4, <1>7
    <3> QED
      BY <1>4, <1>7, <3>1 DEF IsState
  <2>3. Grown(o, o) /\ n <= Len(stack) /\ n <= Len(stack')
    BY <1>4, <1>7, GrownReflexive
  <2> QED
    BY <1>1, <1>4, <1>7, <2>1, <2>2, <2>3, FramesKept
<1> QED
  BY <1>2, <1>6, <1>9, <1>10, <1>12, <1>13 DEF Owned

LEMMA ReturnOwned ==
  ASSUME BalancedCode, IInv, TypeOK', NEW o, Owned(o), Return
  PROVE  Owned(o)'
BY ReturnFromEvalOwned, ReturnToCallerOwned

-----------------------------------------------------------------------------
(* The top level.                                                          *)

\* The frame that bci_eval builds: the lambda, data and nils.
LEMMA EnterLoopFits ==
  ASSUME stack = << >>, NEW o, NEW c,
         NEW lambda \in Value, Fits(o, c, lambda), Compiled(lambda).var_count \in Nat,
         NEW actuals \in Seq(Value), \A i \in DOMAIN actuals : Fits(o, c, actuals[i]),
         EnterLoop(lambda, actuals)
  PROVE  StackFits(o, c)' /\ FramesOwned(o)' /\ result' = Nil
<1> DEFINE S == {a \in Value : Fits(o, c, a)}
<1>1. lambda \in S /\ Nil \in S
  BY DEF Fits, Nil, IsType, Value, ValueOver
<1>2. actuals \in Seq(S)
  OBVIOUS
<1>3. Compiled(lambda).var_count + 1 \in Nat
  OBVIOUS
<1>4. PICK nils : nils = Nils(Compiled(lambda).var_count + 1)
  OBVIOUS
<1>5. nils \in Seq(S)
  <2>1. \A n \in Nat : Nils(n) \in Seq(S)
    <3> SUFFICES ASSUME NEW n \in Nat
                 PROVE  Nils(n) \in Seq(S)
      OBVIOUS
    <3> HIDE DEF S
    <3> QED
      BY <1>1 DEF Nils
  <2> QED
    BY <1>3, <1>4, <2>1
<1>6. Append(stack, lambda) \in Seq(S)
  <2> HIDE DEF S
  <2> QED
    BY <1>1
<1>7. PICK base \in Seq(S) : base = Append(stack, lambda)
  BY <1>6
<1>8. stack' \in Seq(S)
  <2>1. stack' = base \o actuals \o nils \/ stack' = base \o actuals
    BY <1>4, <1>7 DEF EnterLoop
  <2>2. base \o actuals \in Seq(S) /\ (base \o actuals) \o nils \in Seq(S)
    <3> HIDE DEF S
    <3>1. base \o actuals \in Seq(S)
      BY <1>2
    <3> QED
      BY <1>5, <3>1
  <2> QED
    BY <2>1, <2>2
<1>9. \A k \in DOMAIN stack' : stack'[k] \in S
  <2> HIDE DEF S
  <2> QED
    BY <1>8
<1>10. StackFits(o, c)'
  BY <1>9 DEF StackFits
<1>11. \A k \in DOMAIN stack' : ~IsType(stack'[k], "interpreter_state")
  BY <1>9 DEF Value, ValueOver, IsType, Nil, True, False
<1>12. frame_scope' = NULL /\ result' = Nil
  BY DEF EnterLoop
<1> QED
  BY <1>10, <1>11, <1>12 DEF FramesOwned, OwnedBy, IsState

\* A definition at the top level, and a file, have a scope with nothing but
\* the environment in it.
LEMMA EnvScopeOwned ==
  ASSUME TypeOK, NEW o, Owned(o), NEW id \in LambdaId, OuterLambdas[id] = << >>,
         NEW c, c = Len(pairs),
         scopes' = Append(scopes, EnvScope)
  PROVE  \E o2 :
           /\ Grown(o, o2) /\ Len(o2) = Len(scopes')
           /\ HeapFits(o2, c)
           /\ \A s \in DOMAIN scopes' : OwnedScope(o2, c, s, scopes'[s])
           /\ Fits(o2, c, RuntimeLambda(id, Len(scopes) + 1))
<1>1. PICK o2 : o2 = Append(o, {})
  OBVIOUS
<1>2. o \in Seq(SUBSET LambdaId) /\ Len(o) = Len(scopes) /\ scopes \in Seq(Scope)
  BY DEF Owned, TypeOK
<1>3. Grown(o, o2) /\ Len(o2) = Len(scopes) + 1 /\ o2[Len(scopes) + 1] = {}
  BY <1>1, <1>2, GrownByOne
<1>4. PICK scope : scope = EnvScope
  OBVIOUS
<1>5. scope.type = "env" /\ DOMAIN scope.atoms = {} /\ scope \in Scope
  <2>1. EnvScope.type = "env" /\ DOMAIN EnvScope.atoms = {}
    BY DEF EnvScope
  <2>2. EnvScope \in Scope
    BY DEF Scope, ScopeOver
  <2> QED
    BY <1>4, <2>1, <2>2
<1>6. /\ Len(scopes') = Len(scopes) + 1
      /\ \A s \in DOMAIN scopes' :
           \/ s = Len(scopes) + 1 /\ scopes'[s] = scope
           \/ s \in DOMAIN scopes /\ scopes'[s] = scopes[s]
  BY <1>2, <1>4, <1>5
<1>7. HeapFits(o2, c)
  <2>1. c \in Nat /\ Len(pairs) <= c
    BY DEF TypeOK
  <2> QED
    BY <1>3, <2>1, MemoryGrown
<1>8. OwnedScope(o2, c, Len(scopes) + 1, scope)
  BY <1>3, <1>5 DEF OwnedScope
<1>9. \A s \in DOMAIN scopes' : OwnedScope(o2, c, s, scopes'[s])
  BY <1>6, <1>7, <1>8 DEF HeapFits
<1>10. Fits(o2, c, RuntimeLambda(id, Len(scopes) + 1))
  <2>1. Len(scopes) + 1 \in DOMAIN o2
    <3>1. o2 \in Seq(SUBSET LambdaId) /\ Len(scopes) \in Nat
      BY <1>2, <1>3 DEF Grown
    <3> QED
      BY <1>3, <3>1
  <2> QED
    BY <1>3, <2>1 DEF Fits, RuntimeLambda, IsType, Around
<1> QED
  BY <1>3, <1>6, <1>7, <1>9, <1>10

\* A definition that is appended.
LEMMA EnvDefFits ==
  ASSUME NEW e \in Seq(Binding), NEW o, NEW c, NEW key, NEW a, Fits(o, c, a),
         EnvDef(e, key, a) \in Seq(Binding),
         \A i \in DOMAIN e : Fits(o, c, e[i].value)
  PROVE  \A i \in DOMAIN EnvDef(e, key, a) : Fits(o, c, EnvDef(e, key, a)[i].value)
<1>1. PICK binding : binding = [key |-> key, value |-> a]
  OBVIOUS
<1>2. PICK e2 : e2 = EnvDef(e, key, a)
  OBVIOUS
<1>3. e2 = Append(e, binding) /\ e2 \in Seq(Binding)
  BY <1>1, <1>2 DEF EnvDef
<1>4. \A i \in DOMAIN e2 : e2[i] = binding \/ (i \in DOMAIN e /\ e2[i] = e[i])
  BY <1>3
<1>5. binding.value = a
  BY <1>1
<1> QED
  BY <1>2, <1>4, <1>5

LEMMA DefineLambdaOwned ==
  ASSUME BalancedCode, ScopedCode, IInv, TypeOK', NEW o, Owned(o), DefineLambda
  PROVE  \E o2 : Owned(o2)'
<1>1. /\ TypeOK /\ status = "idle" /\ stack = << >> /\ env \in Seq(Binding)
  BY DEF IInv, DefineLambda, Enter, TypeOK
<1>2. PICK f \in Form :
        /\ f.form = "lambda"
        /\ scopes' = Append(scopes, EnvScope)
        /\ env' = EnvDef(env, f.sym, RuntimeLambda(f.cl, Len(scopes) + 1))
        /\ UNCHANGED <<pairs, stack, registers, ip, args, result, status>>
  BY DEF DefineLambda
<1>3. f.cl \in LambdaId /\ OuterLambdas[f.cl] = << >>
  BY <1>2, FormAssumption DEF FormRecord, ScopedCode
<1>4. PICK lambda, c, key : lambda = RuntimeLambda(f.cl, Len(scopes) + 1) /\ c = Len(pairs) /\ key = f.sym
  OBVIOUS
<1>5. PICK o2 :
        /\ Grown(o, o2) /\ Len(o2) = Len(scopes')
        /\ HeapFits(o2, c)
        /\ \A s \in DOMAIN scopes' : OwnedScope(o2, c, s, scopes'[s])
        /\ Fits(o2, c, lambda)
  BY <1>1, <1>2, <1>3, <1>4, EnvScopeOwned
<1>6. \A i \in DOMAIN env' : Fits(o2, c, env'[i].value)
  <2>1. env' = EnvDef(env, key, lambda) /\ env' \in Seq(Binding)
    BY <1>2, <1>4 DEF TypeOK
  <2> QED
    BY <1>1, <1>5, <2>1, EnvDefFits DEF HeapFits
<1>7. pairs' = pairs /\ stack' = << >> /\ result' = result /\ status' = "idle"
  BY <1>1, <1>2
<1>8. HeapFits(o2, c)'
  BY <1>5, <1>6, <1>7 DEF HeapFits
<1>9. StackFits(o2, c)' /\ FramesOwned(o2)'
  BY <1>7 DEF StackFits, FramesOwned
<1>10. o2 \in Seq(SUBSET LambdaId)
  BY <1>5 DEF Grown
<1>11. Owned(o2)'
  BY <1>4, <1>5, <1>7, <1>8, <1>9, <1>10 DEF Owned
<1> QED
  BY <1>11

LEMMA RunFileOwned ==
  ASSUME BalancedCode, ScopedCode, IInv, TypeOK', NEW o, Owned(o), RunFile
  PROVE  \E o2 : Owned(o2)'
<1>1. /\ TypeOK /\ status = "idle" /\ stack = << >>
  BY DEF IInv, RunFile, Enter
<1>2. PICK f \in Form :
        /\ f.form = "file"
        /\ scopes' = Append(scopes, EnvScope)
        /\ EnterLoop(RuntimeLambda(f.cl, Len(scopes) + 1), << >>)
        /\ UNCHANGED <<env, pairs>>
  BY DEF RunFile
<1>3. f.cl \in LambdaId /\ OuterLambdas[f.cl] = << >>
  BY <1>2, FormAssumption DEF FormRecord, ScopedCode
<1>4. PICK lambda, c : lambda = RuntimeLambda(f.cl, Len(scopes) + 1) /\ c = Len(pairs)
  OBVIOUS
<1>5. PICK o2 :
        /\ Grown(o, o2) /\ Len(o2) = Len(scopes')
        /\ HeapFits(o2, c)
        /\ \A s \in DOMAIN scopes' : OwnedScope(o2, c, s, scopes'[s])
        /\ Fits(o2, c, lambda)
  BY <1>1, <1>2, <1>3, <1>4, EnvScopeOwned
<1>6. lambda \in Value /\ lambda.cl = f.cl /\ Compiled(lambda).var_count \in Nat
  <2>1. Len(scopes) + 1 \in Nat
    BY <1>1 DEF TypeOK
  <2>2. lambda \in Value /\ lambda.cl = f.cl
    BY <1>3, <1>4, <2>1, AtomsMade DEF RuntimeLambda
  <2> QED
    BY <1>3, <2>2, CompiledAssumption DEF Compiled
<1>7. PICK actuals \in Seq(Value) : actuals = << >> /\ \A i \in DOMAIN actuals : FALSE
  <2>1. << >> \in Seq(Value) /\ DOMAIN << >> = {}
    OBVIOUS
  <2> QED
    BY <2>1
<1>8. StackFits(o2, c)' /\ FramesOwned(o2)' /\ result' = Nil
  <2>1. EnterLoop(lambda, actuals)
    BY <1>2, <1>4, <1>7
  <2> QED
    BY <1>1, <1>5, <1>6, <1>7, <2>1, EnterLoopFits
<1>9. Fits(o2, c, Nil)
  BY DEF Fits, Nil, IsType
<1>10. env' = env /\ pairs' = pairs
  BY <1>2
<1>11. HeapFits(o2, c)'
  BY <1>5, <1>8, <1>9, <1>10 DEF HeapFits
<1>12. o2 \in Seq(SUBSET LambdaId)
  BY <1>5 DEF Grown
<1>13. Owned(o2)'
  BY <1>4, <1>5, <1>8, <1>10, <1>11, <1>12 DEF Owned
<1> QED
  BY <1>13

LEMMA CallGlobalOwned ==
  ASSUME BalancedCode, IInv, TypeOK', NEW o, Owned(o), CallGlobal
  PROVE  Owned(o)'
<1>1. /\ TypeOK /\ status = "idle" /\ stack = << >> /\ env \in Seq(Binding)
  BY DEF IInv, CallGlobal, Enter, TypeOK
<1>2. PICK f \in Form :
        /\ f.form = "call"
        /\ Bound(env, f.func)
        /\ IsType(EnvGet(env, f.func), "runtime_lambda")
        /\ EnterLoop(EnvGet(env, f.func), f.args)
        /\ UNCHANGED memory
  BY DEF CallGlobal
<1>3. f.args \in Seq(Value) /\ \A i \in DOMAIN f.args : IsData(f.args[i])
  BY <1>2, FormAssumption, DataAssumption DEF FormRecord
<1>4. PICK lambda, actuals, c : lambda = EnvGet(env, f.func) /\ actuals = f.args /\ c = Len(pairs)
  OBVIOUS
<1>5. lambda \in Value /\ Compiled(lambda).var_count \in Nat
  <2>1. lambda \in Atom /\ lambda.type = "runtime_lambda"
    BY <1>1, <1>2, <1>4, EnvGetType DEF IsType
  <2>2. lambda \in Value
    BY <2>1 DEF Atom, AtomOver, SavedState, Value
  <2>3. lambda.cl \in LambdaId
    BY <2>1, AtomFields
  <2> QED
    BY <2>2, <2>3, CompiledAssumption DEF Compiled
<1>6. Fits(o, c, lambda)
  <2>1. FirstBinding(env, f.func) \in DOMAIN env
    BY <1>1, <1>2, FirstBindingFound
  <2> QED
    BY <1>4, <2>1 DEF EnvGet, Owned, HeapFits
<1>7. \A i \in DOMAIN actuals : Fits(o, c, actuals[i])
  BY <1>1, <1>3, <1>4, DataFits
<1>8. EnterLoop(lambda, actuals) /\ actuals \in Seq(Value)
  BY <1>2, <1>3, <1>4
<1>9. StackFits(o, c)' /\ FramesOwned(o)' /\ result' = Nil
  BY <1>1, <1>5, <1>6, <1>7, <1>8, EnterLoopFits
<1>10. Fits(o, c, Nil)
  BY DEF Fits, Nil, IsType
<1>11. env' = env /\ pairs' = pairs /\ scopes' = scopes
  BY <1>2 DEF memory
<1>12. HeapFits(o, c)'
  BY <1>4, <1>9, <1>10, <1>11 DEF Owned, HeapFits
<1> QED
  BY <1>4, <1>9, <1>11, <1>12 DEF Owned

LEMMA FinishOwned ==
  ASSUME BalancedCode, IInv, TypeOK', NEW o, Owned(o), Finish
  PROVE  Owned(o)'
<1>1. TypeOK /\ env \in Seq(Binding) /\ env' \in Seq(Binding)
  BY DEF IInv, TypeOK
<1>2. /\ stack' = << >> /\ status' = "idle" /\ scopes' = scopes /\ pairs' = pairs /\ result' = result
      /\ env' = (IF form.sym = NoName THEN env ELSE EnvDef(env, form.sym, result))
  BY DEF Finish
<1>3. PICK c, key, a : c = Len(pairs) /\ key = form.sym /\ a = result
  OBVIOUS
<1>4. Fits(o, c, a) /\ \A i \in DOMAIN env : Fits(o, c, env[i].value)
  BY <1>3 DEF Owned, HeapFits
<1>5. \A i \in DOMAIN env' : Fits(o, c, env'[i].value)
  <2>1. CASE form.sym = NoName
    BY <1>2, <1>4, <2>1
  <2>2. CASE form.sym # NoName
    <3>1. env' = EnvDef(env, key, a)
      BY <1>2, <1>3, <2>2
    <3> QED
      BY <1>1, <1>4, <3>1, EnvDefFits
  <2> QED
    BY <2>1, <2>2
<1>6. HeapFits(o, c)'
  BY <1>2, <1>3, <1>5 DEF Owned, HeapFits
<1>7. StackFits(o, c)' /\ FramesOwned(o)'
  BY <1>2 DEF StackFits, FramesOwned
<1> QED
  BY <1>2, <1>3, <1>6, <1>7 DEF Owned

\* At the start there are no scopes.
LEMMA OwnedInit ==
  ASSUME Init
  PROVE  Owned(<< >>)
<1>1. PICK o, c : o = << >> /\ c = Len(QuotedPair) /\ o \in Seq(SUBSET LambdaId) /\ Len(o) = 0
  <2>1. << >> \in Seq(SUBSET LambdaId) /\ Len(<< >>) = 0
    OBVIOUS
  <2> QED
    BY <2>1
<1>2. \A a : IsData(a) => Fits(o, c, a)
  BY SizeAssumption, <1>1 DEF IsData, Fits
<1>3. Fits(o, c, Nil)
  BY DEF Fits, Nil, IsType
<1>4. /\ scopes = << >> /\ pairs = QuotedPair /\ stack = << >> /\ env = Global /\ result = Nil
      /\ status = "idle"
  BY DEF Init
<1>5. HeapFits(o, c)
  <2>1. DOMAIN scopes = {}
    BY <1>4
  <2> QED
    BY <1>2, <1>3, <1>4, <2>1, DataAssumption DEF HeapFits
<1>6. StackFits(o, c) /\ FramesOwned(o)
  BY <1>4 DEF StackFits, FramesOwned
<1>7. c \in Nat
  BY <1>1, SizeAssumption
<1> QED
  BY <1>1, <1>4, <1>5, <1>6, <1>7 DEF Owned

\* Every step keeps an owner for each scope.
LEMMA OwnedStep ==
  ASSUME BalancedCode, ScopedCode, IInv, OuterFrameAlive, NEW o, Owned(o), [Next]_vars
  PROVE  \E o2 : Owned(o2)'
<1> SUFFICES ASSUME \A o2 : ~Owned(o2)'
             PROVE  FALSE
  OBVIOUS
<1>0. TypeOK'
  BY IInvStep DEF IInv
<1>1. CASE LoadConstant
  BY <1>0, <1>1, LoadConstantOwned
<1>2. CASE LoadLiteral
  BY <1>0, <1>2, LoadLiteralOwned
<1>3. CASE LoadLambda
  BY <1>0, <1>3, LoadLambdaOwned
<1>4. CASE LoadVariable
  BY <1>0, <1>4, LoadVariableOwned
<1>5. CASE LoadEnv
  BY <1>0, <1>5, LoadEnvOwned
<1>6. CASE StoreLocal
  BY <1>0, <1>6, StoreLocalOwned
<1>7. CASE StoreEnv
  BY <1>0, <1>7, StoreEnvOwned
<1>8. CASE Drop
  BY <1>0, <1>8, DropOwned
<1>9. CASE Jump
  BY <1>0, <1>9, JumpOwned
<1>10. CASE JumpIfFalse
  BY <1>0, <1>10, JumpIfFalseOwned
<1>11. CASE CallRuntimeLambda
  BY <1>0, <1>11, CallRuntimeLambdaOwned
<1>12. CASE CallBuildin
  BY <1>0, <1>12, CallBuildinOwned
<1>13. CASE Return
  BY <1>0, <1>13, ReturnOwned
<1>14. CASE Arithmetic
  BY <1>0, <1>14, ArithmeticOwned
<1>15. CASE Compare
  BY <1>0, <1>15, CompareOwned
<1>16. CASE BuildPair
  BY <1>0, <1>16, BuildPairOwned
<1>17. CASE TakePart
  BY <1>0, <1>17, TakePartOwned
<1>18. CASE Fault
  <2>1. /\ env' = env /\ scopes' = scopes /\ pairs' = pairs /\ stack' = stack /\ result' = result
        /\ status' = "crashed"
    BY <1>18 DEF Fault, memory
  <2>2. HeapFits(o, Len(pairs))' /\ StackFits(o, Len(pairs))' /\ FramesOwned(o)'
    BY <2>1 DEF Owned, HeapFits, StackFits, FramesOwned
  <2> QED
    BY <2>1, <2>2 DEF Owned
<1>19. CASE DefineLambda
  BY <1>0, <1>19, DefineLambdaOwned
<1>20. CASE CallGlobal
  BY <1>0, <1>20, CallGlobalOwned
<1>21. CASE RunFile
  BY <1>0, <1>21, RunFileOwned
<1>22. CASE Finish
  BY <1>0, <1>22, FinishOwned
<1>23. CASE UNCHANGED vars
  <2>1. /\ env' = env /\ scopes' = scopes /\ pairs' = pairs /\ stack' = stack /\ result' = result
        /\ status' = status /\ frame_scope' = frame_scope /\ rl' = rl
    BY <1>23 DEF vars, memory, registers
  <2>2. HeapFits(o, Len(pairs))' /\ StackFits(o, Len(pairs))' /\ FramesOwned(o)'
    BY <2>1 DEF Owned, HeapFits, StackFits, FramesOwned, IsState
  <2> QED
    BY <2>1, <2>2 DEF Owned
<1> QED
  BY <1>1, <1>2, <1>3, <1>4, <1>5, <1>6, <1>7, <1>8, <1>9, <1>10, <1>11, <1>12, <1>13,
     <1>14, <1>15, <1>16, <1>17, <1>18, <1>19, <1>20, <1>21, <1>22, <1>23
     DEF Next, Execute, TopLevel, Done

-----------------------------------------------------------------------------
(* An instruction that does not fault by what the program computed has all *)
(* that it needs.                                                          *)

\* It finds its operands, and an instruction after it.
LEMMA OperandsThere ==
  ASSUME BalancedCode, TypeOK, FrameLayout, status = "running"
  PROVE  /\ Operands(Current) \in 0..Len(stack)
         /\ Operands(Current) \in 0..StackDepth[rl.cl][ip]
<1>1. /\ OwnStateSlot \in Nat /\ StackDepth[rl.cl][ip] \in Nat
      /\ Len(stack) = OwnStateSlot + StackDepth[rl.cl][ip]
      /\ Balanced(Code, StackDepth[rl.cl])
  BY RunningFrame
<1>2. Operands(Current) \in 0..StackDepth[rl.cl][ip]
  BY <1>1 DEF Balanced, TypeOK, Current
<1> QED
  BY <1>1, <1>2

LEMMA NextThere ==
  ASSUME TypeOK, status = "running", ScopedCode, Current.op # "RETURN"
  PROVE  NextIp \in DOMAIN Code
<1>1. Current.arg \in Int /\ ip \in Int
  BY InLoop DEF Instruction
<1>2. NextIp \in Successors(Code, ip)
  BY <1>1 DEF NextIp, IsTaken, Successors, Current
<1>3. Successors(Code, ip) \subseteq DOMAIN Code
  BY CurrentScoped DEF ScopedInstruction, Code, Compiled
<1> QED
  BY <1>2, <1>3

\* The argument or variable that the compiler named.
LEMMA VariableThere ==
  ASSUME BalancedCode, ScopedCode, TypeOK, FrameLayout, status = "running", OuterFrameAlive,
         NEW o, Owned(o), ~ProgramFault, Current.op \in LoadVariableOp \cup {"STORE_LOCAL"}
  PROVE  HasVariable(Current)
<1>1. PICK offset, id, scope, arg :
        /\ offset = Current.offset /\ id = LambdaAt(rl.cl, offset) /\ scope = TargetScope(offset)
        /\ arg = Current.arg
  OBVIOUS
<1>2. /\ HasFrame(offset)
      /\ scope \in Scope /\ scope.type # "env"
      /\ TargetLambda(offset) = CompiledLambda[id]
      /\ \A i \in 1..(1 + scope.arg_count + CompiledLambda[id].var_count) : SlotExists(scope, i)
      /\ offset > 0 => ScopeId(offset) \in DOMAIN scopes
  BY <1>1, TargetFound
<1>3. id \in LambdaId /\ CompiledLambda[id].var_count \in Nat /\ CompiledLambda[id].arg_count \in Nat
  BY <1>1, CurrentScoped, CompiledAssumption
<1>4. scope.arg_count \in Nat
  BY <1>2 DEF Scope, ScopeOver, EnvScope
<1>5. arg \in Int
  BY <1>1, InLoop DEF Instruction
<1>6. CASE Current.op = "LOAD_ARG"
  <2>1. arg \in 0..(CompiledLambda[id].arg_count - 1)
    BY <1>1, <1>6, CurrentScoped DEF ScopedInstruction, Current, Code, Compiled
  <2>2. ~(scope.arg_count < CompiledLambda[id].arg_count)
    BY <1>1, <1>2, <1>6 DEF ProgramFault
  <2>3. 0 <= arg /\ arg < scope.arg_count
    BY <1>3, <1>4, <2>1, <2>2
  <2>4. arg + 2 \in 1..(1 + scope.arg_count + CompiledLambda[id].var_count)
    BY <1>3, <1>4, <1>5, <2>3
  <2>5. VariableSlot(Current) = arg + 2
    BY <1>1, <1>6 DEF VariableSlot
  <2>6. SlotExists(scope, VariableSlot(Current))
    BY <1>2, <2>4, <2>5
  <2> QED
    BY <1>1, <1>2, <1>6, <2>3, <2>6 DEF HasVariable
<1>7. CASE Current.op # "LOAD_ARG"
  <2>1. arg \in 0..(CompiledLambda[id].var_count - 1)
    <3>1. Current.op \in {"LOAD_LOCAL", "STORE_LOCAL"}
      BY <1>7 DEF LoadVariableOp
    <3> QED
      BY <1>1, <3>1, CurrentScoped DEF ScopedInstruction, Current, Code, Compiled
  <2>2. 0 <= arg /\ arg < CompiledLambda[id].var_count
    BY <1>3, <2>1
  <2>3. scope.arg_count + arg + 2 \in 1..(1 + scope.arg_count + CompiledLambda[id].var_count)
    <3>1. PICK a \in Nat, v \in Nat : a = scope.arg_count /\ v = CompiledLambda[id].var_count
      BY <1>3, <1>4
    <3>2. a + arg + 2 \in 1..(1 + a + v)
      BY <1>5, <2>2, <3>1
    <3> QED
      BY <3>1, <3>2
  <2>4. VariableSlot(Current) = scope.arg_count + arg + 2
    BY <1>1, <1>7 DEF VariableSlot
  <2>5. SlotExists(scope, VariableSlot(Current))
    BY <1>2, <2>3, <2>4
  <2> QED
    BY <1>1, <1>2, <1>7, <2>2, <2>5 DEF HasVariable
<1> QED
  BY <1>6, <1>7

\* The literal of a lambda further out.
LEMMA LiteralThere ==
  ASSUME BalancedCode, ScopedCode, TypeOK, FrameLayout, status = "running", OuterFrameAlive,
         NEW o, Owned(o), Current.op \in {"LOAD_LITERAL", "LOAD_LAMBDA"}
  PROVE  /\ HasFrame(Current.offset)
         /\ HasLiteral(TargetLambda(Current.offset), Current.arg)
         /\ IsType(TargetLambda(Current.offset).literals[Current.arg + 1], "compiled_lambda")
              <=> Current.op = "LOAD_LAMBDA"
<1>1. PICK target :
        target = CompiledLambda[LambdaAt(rl.cl, Current.offset)] /\ TargetLambda(Current.offset) = target
          /\ HasFrame(Current.offset)
  BY TargetFound
<1>2. PICK literal : literal = target.literals[Current.arg + 1]
  OBVIOUS
<1>3. CASE Current.op = "LOAD_LITERAL"
  <2>1. HasLiteral(target, Current.arg) /\ ~IsType(literal, "compiled_lambda")
    BY <1>1, <1>2, <1>3, CurrentScoped DEF ScopedInstruction, Current, Code, Compiled
  <2> QED
    BY <1>1, <1>2, <1>3, <2>1
<1>4. CASE Current.op = "LOAD_LAMBDA"
  <2>1. HasLiteral(target, Current.arg) /\ IsType(literal, "compiled_lambda")
    BY <1>1, <1>2, <1>4, CurrentScoped DEF ScopedInstruction, Current, Code, Compiled
  <2> QED
    BY <1>1, <1>2, <1>4, <2>1
<1> QED
  BY <1>3, <1>4

\* The environment at the end of the chain, and the name in it.
LEMMA NameThere ==
  ASSUME BalancedCode, ScopedCode, TypeOK, FrameLayout, status = "running",
         NEW o, Owned(o), Current.op \in {"LOAD_ENV", "STORE_ENV"}
  PROVE  HasEnv /\ HasLiteral(Compiled(rl), Current.arg) /\ IsType(Key, "sym")
<1>1. HasEnv
  BY RunningFits, ChainEndsAtEnv
<1>2. HasLiteral(Compiled(rl), Current.arg) /\ IsType(Key, "sym")
  BY CurrentScoped DEF ScopedInstruction, HasLiteral, Key, Current, Code, Compiled
<1> QED
  BY <1>1, <1>2

\* The pair.
LEMMA PairThere ==
  ASSUME BalancedCode, TypeOK, FrameLayout, status = "running", NEW o, Owned(o),
         Current.op \in PartOp, IsType(Top(0), "pair")
  PROVE  Top(0).cell \in DOMAIN pairs
<1>1. Operands(Current) = 1
  BY DEF Operands, PartOp, ArithmeticOp, CompareOp
<1>2. Len(stack) \in DOMAIN stack /\ Top(0) = stack[Len(stack)]
  <2>1. 1 \in 0..Len(stack) /\ stack \in Seq(Atom)
    BY <1>1, OperandsThere DEF TypeOK
  <2> QED
    BY <2>1 DEF Top
<1>3. Fits(o, Len(pairs), Top(0))
  BY <1>2 DEF Owned, StackFits
<1> QED
  BY <1>3 DEF Fits, TypeOK

\* The end of the function: the frame, what the caller saved under the return
\* value, and the instruction after the call.
LEMMA ReturnThere ==
  ASSUME BalancedCode, ScopedCode, TypeOK, FrameLayout, status = "running", Current.op = "RETURN"
  PROVE  Returns
<1>1. PICK k, g, size :
        k = OwnStateSlot /\ g = frame_index /\ size = FrameSize
  OBVIOUS
<1>2. /\ g \in 1..Len(stack) /\ k \in Nat /\ g \in Nat
      /\ StackDepth[rl.cl][ip] = 1
      /\ size = 1 + arg_count + Compiled(rl).var_count
      /\ size \in Nat /\ k = g + size /\ Len(stack) = k + 1
  <2>1. /\ frame_index \in 1..Len(stack)
        /\ OwnStateSlot = frame_index + 1 + arg_count + Compiled(rl).var_count
        /\ OwnStateSlot \in Nat
        /\ Len(stack) = OwnStateSlot + StackDepth[rl.cl][ip]
        /\ Balanced(Code, StackDepth[rl.cl])
    BY RunningFrame
  <2>2. StackDepth[rl.cl][ip] = 1
    BY <2>1, InLoop, SMTT(30) DEF Balanced, Current
  <2>3. /\ arg_count \in Nat /\ Compiled(rl).var_count \in Nat /\ frame_index \in Nat
    BY InLoop DEF TypeOK
  <2> QED
    BY <1>1, <2>1, <2>2, <2>3, SMTT(30) DEF FrameSize
<1>3. Top(1) = stack[k] /\ k \in DOMAIN stack
  <2>1. Len(stack) - 1 = k /\ k \in 1..Len(stack)
    BY <1>2
  <2>2. DOMAIN stack = 1..Len(stack)
    BY DEF TypeOK
  <2> QED
    BY <2>1, <2>2 DEF Top
<1>4. EscapedBy(Top(0)) => frame_scope \in DOMAIN scopes
  <2>1. OwnScope(frame_index, arg_count, frame_scope, scope_escaped)
    BY DEF FrameLayout, CurrentFrame
  <2> QED
    BY <2>1 DEF OwnScope, EscapedBy
<1>5. ASSUME IsType(stack[k], "interpreter_state")
      PROVE  /\ stack[k].fp_index \in 1..(g - 1)
             /\ IsType(stack[stack[k].fp_index], "runtime_lambda")
             /\ stack[k].ip_index + 1 \in DOMAIN Compiled(stack[stack[k].fp_index]).code
  <2>1. PICK state, f, i, code :
          state = stack[k] /\ f = state.fp_index /\ i = state.ip_index /\ code = Compiled(stack[f]).code
    OBVIOUS
  <2>2. IsState(k)
    BY <1>3, <1>5 DEF IsState
  <2>3. CalleeFrame(state) = g
    <3>1. Linked(frame_index, arg_count)
      BY DEF FrameLayout, CurrentFrame
    <3>2. frame_index # 1
      <4> SUFFICES ASSUME frame_index = 1 PROVE FALSE
        OBVIOUS
      <4>1. stack[k] = Nil
        BY <1>1, <3>1 DEF Linked, OwnStateSlot
      <4> QED
        BY <1>5, <4>1 DEF IsType, Nil
    <3> QED
      BY <1>1, <2>1, <3>1, <3>2 DEF Linked, OwnStateSlot
  <2>4. /\ SavedFrame(k) /\ IsFrame(CallerFrame(k), CallerStateSlot(k))
        /\ CallerStateSlot(k) \in Nat /\ CallerStateSlot(k) < CalleeFrame(state)
        /\ f \in DOMAIN stack
    BY <1>3, <2>1, <2>2, SavedFrameFacts DEF CallerFrame
  <2>5. f \in Nat /\ 0 < f /\ f < CallerStateSlot(k)
    BY <2>1, <2>4, FrameBounds DEF CallerFrame
  <2>6. f \in 1..(g - 1)
    BY <1>2, <2>3, <2>4, <2>5
  <2>7. IsType(stack[f], "runtime_lambda") /\ i \in DOMAIN code /\ code[i].op = "CALL"
    BY <2>1, <2>4 DEF SavedFrame, PendingCall
  <2>8. stack[f].cl \in LambdaId
    <3>1. stack[f] \in Atom
      BY <2>4, ElementOfSeq DEF TypeOK
    <3> QED
      BY <2>7, <3>1, AtomFields DEF IsType
  <2>9. i + 1 \in DOMAIN code
    <3>1. Successors(code, i) \subseteq DOMAIN code
      BY <2>1, <2>7, <2>8 DEF ScopedCode, Scoped, ScopedInstruction, Compiled
    <3> QED
      BY <2>7, <3>1 DEF Successors
  <2> QED
    BY <2>1, <2>6, <2>7, <2>9
<1>6. Len(stack) - size - 2 = g - 1 /\ g + size - 1 <= Len(stack) - 2 /\ Len(stack) >= size + 2
  <2>1. PICK len : len = Len(stack)
    OBVIOUS
  <2>2. g \in Nat /\ 1 <= g /\ size \in Nat /\ len = g + size + 1
    BY <1>2, <2>1
  <2>3. len - size - 2 = g - 1 /\ g + size - 1 <= len - 2 /\ len >= size + 2
    BY <2>2
  <2> QED
    BY <2>1, <2>3
<1> QED
  BY <1>1, <1>3, <1>4, <1>5, <1>6 DEF Returns

\* Together: the process survives every instruction but for a fault of the
\* program.
LEMMA NoOtherFault ==
  ASSUME BalancedCode, ScopedCode, IInv, OuterFrameAlive, status = "running",
         NEW o, Owned(o), ~ProgramFault
  PROVE  Executable
<1> DEFINE op == Current.op
<1>1. TypeOK /\ FrameLayout
  BY DEF IInv
<1>2. Operands(Current) \in 0..Len(stack)
  BY <1>1, OperandsThere
<1>3. op \in {"LOAD_LITERAL", "LOAD_LAMBDA"} =>
        /\ HasFrame(Current.offset)
        /\ HasLiteral(TargetLambda(Current.offset), Current.arg)
        /\ IsType(TargetLambda(Current.offset).literals[Current.arg + 1], "compiled_lambda")
             <=> op = "LOAD_LAMBDA"
  BY <1>1, LiteralThere
<1>4. op \in LoadVariableOp \cup {"STORE_LOCAL"} => HasVariable(Current)
  BY <1>1, VariableThere
<1>5. op \in {"LOAD_ENV", "STORE_ENV"} =>
        HasEnv /\ HasLiteral(Compiled(rl), Current.arg) /\ IsType(Key, "sym")
  BY <1>1, NameThere
<1>6. /\ op \in ArithmeticOp => Computes(op, Top(1), Top(0))
      /\ op \in CompareOp => Compares(Top(1), Top(0))
      /\ op \in PartOp => IsType(Top(0), "pair")
  BY DEF ProgramFault
<1>7. op \in PartOp => Top(0).cell \in DOMAIN pairs
  BY <1>1, <1>6, PairThere
<1>8. op = "CALL" =>
        /\ Current.arg >= 0
        /\ Callee.type \in {"runtime_lambda", "buildin", "lambda"}
        /\ IsType(Callee, "buildin") => Current.arg >= BuildinArity(Callee.func)
  <2> SUFFICES ASSUME op = "CALL"
               PROVE  /\ Current.arg >= 0
                      /\ Callee.type \in {"runtime_lambda", "buildin", "lambda"}
                      /\ IsType(Callee, "buildin") => Current.arg >= BuildinArity(Callee.func)
    OBVIOUS
  <2>1. Current.arg >= 0
    BY <1>1, CurrentScoped DEF ScopedInstruction, Current, Code, Compiled
  <2>2. CASE IsType(Callee, "buildin")
    <3>1. Current.arg \in Int /\ BuildinArity(Callee.func) \in Int
      BY <1>1, InLoop DEF Instruction, BuildinArity
    <3>2. ~(Current.arg < BuildinArity(Callee.func))
      BY <2>2 DEF ProgramFault
    <3>3. Current.arg >= BuildinArity(Callee.func)
      BY <3>1, <3>2
    <3> QED
      BY <2>1, <2>2, <3>3 DEF IsType
  <2>3. CASE ~IsType(Callee, "buildin")
    BY <2>1, <2>3 DEF ProgramFault
  <2> QED
    BY <2>2, <2>3
<1>9. op = "RETURN" => Returns
  BY <1>1, ReturnThere
<1>10. op # "RETURN" => NextIp \in DOMAIN Code
  BY <1>1, NextThere
<1> QED
  BY <1>2, <1>3, <1>4, <1>5, <1>6, <1>7, <1>8, <1>9, <1>10 DEF Executable

-----------------------------------------------------------------------------
(* The theorems.                                                           *)

\* The invariant: the layout of the stack, an owner for each scope, and a
\* fault of the program if the process is gone.
Faultless == IInv /\ (\E o : Owned(o)) /\ FaultsExplained

LEMMA FaultlessInit == Init => Faultless
<1> SUFFICES ASSUME Init PROVE Faultless
  OBVIOUS
<1>1. IInv /\ Owned(<< >>)
  BY IInvInit, OwnedInit
<1>2. FaultsExplained
  BY DEF Init, FaultsExplained
<1> QED
  BY <1>1, <1>2 DEF Faultless

\* What is a fault of the program depends on the state of the machine only.
LEMMA FaultUnchanged ==
  ASSUME UNCHANGED <<scopes, pairs, stack, frame_index, arg_count, rl, ip>>
  PROVE  ProgramFault' = ProgramFault
<1>1. Current' = Current
  BY DEF Current, Code, Compiled
<1>2. \A offset : ScopeId(offset)' = ScopeId(offset)
  BY DEF ScopeId
<1>3. \A offset : TargetScope(offset)' = TargetScope(offset)
  BY <1>2 DEF TargetScope, ThisScope
<1>4. \A offset : HasFrame(offset)' = HasFrame(offset)
  BY <1>2, <1>3 DEF HasFrame, SlotExists, Slot
<1>5. \A offset : TargetLambda(offset)' = TargetLambda(offset)
  BY <1>3 DEF TargetLambda, Slot, Compiled
<1>6. \A n : Top(n)' = Top(n)
  BY DEF Top
<1>7. Callee' = Callee
  BY <1>1, <1>6 DEF Callee
<1> QED
  BY <1>1, <1>4, <1>3, <1>5, <1>6, <1>7 DEF ProgramFault

LEMMA FaultlessStep ==
  ASSUME BalancedCode, ScopedCode, Faultless, OuterFrameAlive, [Next]_vars
  PROVE  Faultless'
<1>1. PICK o : Owned(o)
  BY DEF Faultless
<1>2. IInv /\ IInv'
  BY IInvStep DEF Faultless
<1>3. (\E o2 : Owned(o2))'
  BY <1>1, <1>2, OwnedStep
<1>4. FaultsExplained'
  <2>1. CASE Fault
    <3>1. ProgramFault
      BY <1>1, <1>2, <2>1, NoOtherFault DEF Fault
    <3>2. ProgramFault'
      BY <2>1, <3>1, FaultUnchanged DEF Fault, memory, registers
    <3> QED
      BY <3>2 DEF FaultsExplained
  <2>2. CASE UNCHANGED vars
    <3>1. status' = status /\ ProgramFault' = ProgramFault
      BY <2>2, FaultUnchanged DEF vars, memory, registers
    <3> QED
      BY <3>1 DEF FaultsExplained, Faultless
  <2>3. CASE status' # "crashed"
    BY <2>3 DEF FaultsExplained
  <2>4. Fault \/ UNCHANGED vars \/ status' # "crashed"
    <3> SUFFICES ASSUME Next, ~Fault, ~UNCHANGED vars
                 PROVE  status' # "crashed"
      OBVIOUS
    <3>1. CASE Execute
      BY <3>1 DEF Execute, LoadConstant, LoadLiteral, LoadLambda, LoadVariable, LoadEnv,
         StoreLocal, StoreEnv, Drop, Jump, JumpIfFalse, CallRuntimeLambda, CallBuildin, Return,
         Arithmetic, Compare, BuildPair, TakePart, Executing
    <3>2. CASE TopLevel
      BY <3>2 DEF TopLevel, DefineLambda, CallGlobal, RunFile, Finish, Enter, EnterLoop
    <3> QED
      BY <3>1, <3>2 DEF Next, Done
  <2> QED
    BY <2>1, <2>2, <2>3, <2>4
<1> QED
  BY <1>2, <1>3, <1>4 DEF Faultless

LEMMA FaultlessHolds ==
  BalancedCode /\ ScopedCode => (Spec /\ []OuterFrameAlive => []Faultless)
<1> SUFFICES ASSUME BalancedCode, ScopedCode
             PROVE  Spec /\ []OuterFrameAlive => []Faultless
  OBVIOUS
<1>1. Init => Faultless
  BY FaultlessInit
<1>2. Faultless /\ OuterFrameAlive /\ [Next]_vars => Faultless'
  BY FaultlessStep
<1> QED
  BY <1>1, <1>2, PTL DEF Spec

\* For every program of balanced code that names what the lambdas around it
\* have: an instruction finds the frame of the very lambda whose variable the
\* compiler looked up, as long as outer variables are looked for in living
\* frames.
THEOREM ScopingIsLexical ==
  BalancedCode /\ ScopedCode => (Spec /\ []OuterFrameAlive => []FindsNamedLambda)
<1> SUFFICES ASSUME BalancedCode, ScopedCode
             PROVE  Spec /\ []OuterFrameAlive => []FindsNamedLambda
  OBVIOUS
<1>1. Faultless /\ OuterFrameAlive => FindsNamedLambda
  <2> SUFFICES ASSUME Faultless, OuterFrameAlive, status = "running"
               PROVE  /\ HasFrame(Current.offset)
                      /\ Slot(TargetScope(Current.offset), 1).cl = LambdaAt(rl.cl, Current.offset)
    BY DEF FindsNamedLambda
  <2>1. PICK o : Owned(o)
    BY DEF Faultless
  <2>2. TypeOK /\ FrameLayout
    BY DEF Faultless, IInv
  <2> QED
    BY <2>1, <2>2, TargetFound
<1> QED
  BY <1>1, FaultlessHolds, PTL

\* For every program of balanced code that names what the lambdas around it
\* have, however its closures are made, passed, stored and called: as long as
\* outer variables are looked for in living frames, the interpreter only stops
\* for a type error, a division that traps or a missing argument, and never
\* because its stack, a frame, a scope, a saved state or ip is not what the
\* code takes it for.
THEOREM FaultsAreExplained ==
  BalancedCode /\ ScopedCode => (Spec /\ []OuterFrameAlive => []FaultsExplained)
<1>1. Faultless => FaultsExplained
  BY DEF Faultless
<1> QED
  BY <1>1, FaultlessHolds, PTL

\* Without closures that use outer variables nothing has to be assumed of the
\* run.
THEOREM FlatCodeFaultsAreExplained ==
  BalancedCode /\ ScopedCode /\ FlatCode => (Spec => []FaultsExplained)
<1> SUFFICES ASSUME BalancedCode, ScopedCode, FlatCode
             PROVE  Spec => []FaultsExplained
  OBVIOUS
<1>1. TypeOK => OuterFrameAlive
  <2> SUFFICES ASSUME TypeOK, status = "running", Current.offset > 0
               PROVE  FALSE
    BY DEF OuterFrameAlive
  <2>1. rl.cl \in LambdaId /\ ip \in DOMAIN CompiledLambda[rl.cl].code
    BY InLoop DEF TypeOK, Code, Compiled
  <2>2. Current.offset = 0
    BY <2>1 DEF FlatCode, Current, Code, Compiled
  <2> QED
    BY <2>2
<1> QED
  BY <1>1, TypeCorrect, FaultsAreExplained, PTL
=============================================================================
