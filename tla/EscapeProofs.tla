---------------------------- MODULE EscapeProofs ----------------------------
(***************************************************************************)
(* Frames that lambdas refer to are copied to the heap in time, as far as  *)
(* check_atom_for_escaped_scope sees what leaves an activation: it looks   *)
(* for one scope, that of the activation.  EscapesSeen says of a program   *)
(* that this is enough for each single store and return; that no closure   *)
(* ever refers to the frame of an activation that is gone follows.         *)
(*                                                                         *)
(* The proof remembers what each cell of the two heaps leads to: chain[s]  *)
(* are the scopes from s to the environment, held[c] the ones that the     *)
(* pair c leads to.  Neither changes once the cell is allocated.           *)
(*                                                                         *)
(* The last section takes what is proved of the machine and of the         *)
(* compiler together.                                                      *)
(***************************************************************************)
EXTENDS FaultProofs, CompilerProofs

-----------------------------------------------------------------------------
(* What an atom leads to.                                                  *)

Refs(chain, held, atom) ==
  IF IsType(atom, "pair") THEN held[atom.cell]
  ELSE IF IsType(atom, "runtime_lambda") THEN chain[atom.scopes]
  ELSE {}

Closed(chain, S) == \A u \in S : u \in DOMAIN chain /\ chain[u] \subseteq S

ChainFrom(chain, s, next) == {s} \cup IF next = NULL THEN {} ELSE chain[next]

Traced(chain, held) ==
  /\ chain \in Seq(SUBSET Nat) /\ Len(chain) = Len(scopes)
  /\ held \in Seq(SUBSET Nat) /\ Len(held) = Len(pairs)
  /\ \A s \in DOMAIN scopes :
       chain[s] = ChainFrom(chain, s, scopes[s].next) /\ Closed(chain, chain[s])
  /\ \A c \in DOMAIN pairs :
       /\ held[c] = Refs(chain, held, pairs[c].first) \cup Refs(chain, held, pairs[c].rest)
       /\ Closed(chain, held[c])
       /\ Older(pairs[c].first, c) /\ Older(pairs[c].rest, c)
  /\ \A c \in DOMAIN QuotedPair : held[c] = {}

\* OnChain and Mentions are recursive functions, which have to be shown to
\* exist first; then they say what the history says.
LEMMA OnChainIsChain ==
  ASSUME TypeOK, NEW o, Owned(o), NEW chain, NEW held, Traced(chain, held), NEW s,
         NEW from \in DOMAIN scopes
  PROVE  OnChain(scopes, from, s) <=> s \in chain[from]
<1> DEFINE Def(f, i) == i # NULL /\ (i = s \/ f[scopes[i].next])
           on == CHOOSE f : f = [i \in 0..Len(scopes) |-> Def(f, i)]
<1>1. OnChain(scopes, from, s) = on[from]
  BY DEF OnChain
<1>2. ASSUME NEW i \in 1..Len(scopes)
      PROVE  /\ scopes[i].next \in 0..(i - 1)
             /\ chain[i] = {i} \cup IF scopes[i].next = NULL THEN {} ELSE chain[scopes[i].next]
  <2>1. i \in DOMAIN scopes /\ scopes[i] \in Scope
    BY DEF TypeOK
  <2>2. OwnedScope(o, Len(pairs), i, scopes[i])
    BY <2>1 DEF Owned, HeapFits
  <2>3. scopes[i].type = "env" => scopes[i].next = NULL
    BY <2>1 DEF Scope, ScopeOver, EnvScope
  <2>4. chain[i] = ChainFrom(chain, i, scopes[i].next)
    BY <2>1 DEF Traced
  <2>5. CASE scopes[i].type = "env"
    BY <2>3, <2>4, <2>5 DEF ChainFrom, NULL
  <2>6. CASE scopes[i].type # "env"
    <3>1. scopes[i].next \in 1..(i - 1)
      BY <2>2, <2>6 DEF OwnedScope, FrameScope
    <3> QED
      BY <2>4, <3>1 DEF ChainFrom
  <2> QED
    BY <2>5, <2>6
<1>3. \E f : f = [i \in 0..Len(scopes) |-> Def(f, i)]
  <2> DEFINE f == [i \in 0..Len(scopes) |-> i # NULL /\ s \in chain[i]]
  <2>1. ASSUME NEW i \in 0..Len(scopes)
        PROVE  (i # NULL /\ s \in chain[i]) = Def(f, i)
    <3>1. CASE i = NULL
      BY <3>1
    <3>2. CASE i # NULL
      <4>1. i \in 1..Len(scopes)
        BY <3>2 DEF NULL, TypeOK
      <4>2. PICK next : next = scopes[i].next
        OBVIOUS
      <4>3. next \in 0..Len(scopes)
        BY <1>2, <4>1, <4>2 DEF TypeOK
      <4>4. f[next] = (next # NULL /\ s \in chain[next])
        BY <4>3
      <4>5. s \in chain[i] <=> (s = i \/ (next # NULL /\ s \in chain[next]))
        BY <1>2, <4>1, <4>2
      <4> QED
        BY <3>2, <4>2, <4>4, <4>5
    <3> QED
      BY <3>1, <3>2
  <2>2. f = [i \in 0..Len(scopes) |-> Def(f, i)]
    <3> HIDE DEF Def
    <3> QED
      BY <2>1
  <2> QED
    BY <2>2
<1>4. on = [i \in 0..Len(scopes) |-> Def(on, i)]
  BY <1>3
<1> HIDE DEF on
<1> DEFINE Wrong == {i \in 1..Len(scopes) : ~(on[i] <=> s \in chain[i])}
<1>5. ASSUME Wrong # {}
      PROVE  FALSE
  <2>1. Wrong \subseteq Nat
    OBVIOUS
  <2>2. PICK i \in Wrong : \A j \in Wrong : i <= j
    <3> HIDE DEF Wrong
    <3> QED
      BY <1>5, <2>1, LeastElement
  <2>3. i \in 1..Len(scopes) /\ i \in 0..Len(scopes) /\ i # NULL
    BY DEF NULL
  <2>4. PICK next : next = scopes[i].next
    OBVIOUS
  <2>5. on[i] <=> (i = s \/ on[next])
    BY <1>4, <2>3, <2>4
  <2>6. next \in 0..(i - 1) /\ (s \in chain[i] <=> (s = i \/ (next # NULL /\ s \in chain[next])))
    BY <1>2, <2>3, <2>4
  <2>7. on[next] <=> (next # NULL /\ s \in chain[next])
    <3>1. CASE next = NULL
      <4>1. NULL \in 0..Len(scopes)
        BY <2>3 DEF NULL
      <4> QED
        BY <1>4, <3>1, <4>1
    <3>2. CASE next # NULL
      <4>1. next \in 1..Len(scopes) /\ next < i
        BY <2>3, <2>6, <3>2 DEF NULL
      <4>2. next \notin Wrong
        <5> HIDE DEF Wrong
        <5> QED
          BY <2>2, <2>3, <4>1
      <4> QED
        BY <3>2, <4>1, <4>2
    <3> QED
      BY <3>1, <3>2
  <2>8. on[i] <=> s \in chain[i]
    BY <2>5, <2>6, <2>7
  <2> QED
    BY <2>8
<1>6. from \in 1..Len(scopes)
  BY DEF TypeOK
<1> QED
  BY <1>1, <1>5, <1>6

LEMMA MentionsIsRefs ==
  ASSUME TypeOK, NEW o, Owned(o), NEW chain, NEW held, Traced(chain, held), NEW s,
         NEW a, Fits(o, Len(pairs), a)
  PROVE  Mentions(scopes, pairs, a, s) <=> s \in Refs(chain, held, a)
<1> DEFINE Leads(f, part) ==
             \/ part.type = "pair" /\ f[part.cell]
             \/ part.type = "runtime_lambda" /\ OnChain(scopes, part.scopes, s)
           Def(f, c) == \E part \in {pairs[c].first, pairs[c].rest} : Leads(f, part)
           cell == CHOOSE f : f = [c \in DOMAIN pairs |-> Def(f, c)]
<1>1. Mentions(scopes, pairs, a, s) <=> Leads(cell, a)
  BY DEF Mentions
<1>2. ASSUME NEW part, Fits(o, Len(pairs), part), part.type = "runtime_lambda"
      PROVE  OnChain(scopes, part.scopes, s) <=> s \in chain[part.scopes]
  <2>1. part.scopes \in DOMAIN o
    BY <1>2 DEF Fits, IsType
  <2>2. PICK from : from = part.scopes
    OBVIOUS
  <2>3. from \in DOMAIN scopes
    BY <2>1, <2>2 DEF Owned, TypeOK
  <2> QED
    BY <2>2, <2>3, OnChainIsChain
<1>3. ASSUME NEW f, NEW part, Fits(o, Len(pairs), part),
             IsType(part, "pair") => (f[part.cell] <=> s \in held[part.cell])
      PROVE  Leads(f, part) <=> s \in Refs(chain, held, part)
  <2>1. CASE part.type = "pair"
    BY <1>3, <2>1 DEF Refs, IsType
  <2>2. CASE part.type = "runtime_lambda"
    BY <1>2, <1>3, <2>2 DEF Refs, IsType
  <2>3. CASE part.type \notin {"pair", "runtime_lambda"}
    BY <2>3 DEF Refs, IsType
  <2> QED
    BY <2>1, <2>2, <2>3
<1>4. ASSUME NEW c \in DOMAIN pairs
      PROVE  /\ Fits(o, Len(pairs), pairs[c].first) /\ Fits(o, Len(pairs), pairs[c].rest)
             /\ held[c] = Refs(chain, held, pairs[c].first) \cup Refs(chain, held, pairs[c].rest)
             /\ Older(pairs[c].first, c) /\ Older(pairs[c].rest, c)
  BY DEF Traced, Owned, HeapFits
<1>5. ASSUME NEW f, NEW c \in DOMAIN pairs,
             \A d \in DOMAIN pairs : d < c => (f[d] <=> s \in held[d])
      PROVE  Def(f, c) <=> s \in held[c]
  <2>1. ASSUME NEW part, Fits(o, Len(pairs), part), Older(part, c)
        PROVE  Leads(f, part) <=> s \in Refs(chain, held, part)
    <3>1. IsType(part, "pair") => part.cell \in DOMAIN pairs /\ part.cell < c
      BY <2>1 DEF Fits, Older, TypeOK
    <3>2. IsType(part, "pair") => (f[part.cell] <=> s \in held[part.cell])
      BY <1>5, <3>1
    <3> HIDE DEF Leads
    <3> QED
      BY <1>3, <2>1, <3>2
  <2>2. Leads(f, pairs[c].first) <=> s \in Refs(chain, held, pairs[c].first)
    <3> HIDE DEF Leads
    <3> QED
      BY <1>4, <2>1
  <2>3. Leads(f, pairs[c].rest) <=> s \in Refs(chain, held, pairs[c].rest)
    <3> HIDE DEF Leads
    <3> QED
      BY <1>4, <2>1
  <2> HIDE DEF Leads
  <2> QED
    BY <1>4, <2>2, <2>3
<1>6. \E f : f = [c \in DOMAIN pairs |-> Def(f, c)]
  <2> DEFINE f == [c \in DOMAIN pairs |-> s \in held[c]]
  <2>1. \A d \in DOMAIN pairs : f[d] <=> s \in held[d]
    OBVIOUS
  <2>2. ASSUME NEW c \in DOMAIN pairs
        PROVE  (s \in held[c]) = Def(f, c)
    <3>1. Def(f, c) <=> s \in held[c]
      <4> HIDE DEF f, Def
      <4> QED
        BY <1>5, <2>1
    <3>2. Def(f, c) \in BOOLEAN
      <4> HIDE DEF f, Leads
      <4> QED
        OBVIOUS
    <3> HIDE DEF f, Def
    <3> QED
      BY <3>1, <3>2
  <2>3. f = [c \in DOMAIN pairs |-> Def(f, c)]
    <3> HIDE DEF Def
    <3> QED
      BY <2>2
  <2> QED
    BY <2>3
<1>7. cell = [c \in DOMAIN pairs |-> Def(cell, c)]
  <2> HIDE DEF Def
  <2> QED
    BY <1>6
<1> HIDE DEF cell
<1>8. \A c \in DOMAIN pairs : cell[c] <=> s \in held[c]
  <2> DEFINE Wrong == {c \in DOMAIN pairs : ~(cell[c] <=> s \in held[c])}
  <2>1. ASSUME Wrong # {}
        PROVE  FALSE
    <3>1. Wrong \subseteq Nat /\ DOMAIN pairs \subseteq Nat
      BY DEF TypeOK
    <3>2. PICK c \in Wrong : \A d \in Wrong : c <= d
      <4> HIDE DEF Wrong
      <4> QED
        BY <2>1, <3>1, LeastElement
    <3>3. c \in DOMAIN pairs /\ c \in Nat
      BY <3>1
    <3>4. \A d \in DOMAIN pairs : d < c => (cell[d] <=> s \in held[d])
      <4>1. ASSUME NEW d \in DOMAIN pairs, d < c
            PROVE  d \notin Wrong
        <5>1. d \in Nat
          BY <3>1
        <5> HIDE DEF Wrong
        <5> QED
          BY <3>2, <3>3, <4>1, <5>1
      <4> QED
        BY <4>1
    <3>5. Def(cell, c) <=> s \in held[c]
      <4> HIDE DEF Def
      <4> QED
        BY <1>5, <3>3, <3>4
    <3>6. cell[c] = Def(cell, c)
      <4> HIDE DEF Def
      <4> QED
        BY <1>7, <3>3
    <3> HIDE DEF Def
    <3> QED
      BY <3>5, <3>6
  <2> QED
    BY <2>1
<1>9. IsType(a, "pair") => (cell[a.cell] <=> s \in held[a.cell])
  <2>1. IsType(a, "pair") => a.cell \in DOMAIN pairs
    BY DEF Fits, TypeOK
  <2> QED
    BY <1>8, <2>1
<1>10. Leads(cell, a) <=> s \in Refs(chain, held, a)
  <2> HIDE DEF Leads
  <2> QED
    BY <1>3, <1>9
<1> QED
  BY <1>1, <1>10

\* `next` leads to an older scope.
LEMMA NextScope ==
  ASSUME TypeOK, NEW o, Owned(o), NEW s \in DOMAIN scopes
  PROVE  scopes[s].next \in 0..(s - 1) /\ s \in Nat
<1>1. scopes[s] \in Scope /\ s \in 1..Len(scopes) /\ Len(scopes) \in Nat
  BY DEF TypeOK
<1>2. OwnedScope(o, Len(pairs), s, scopes[s])
  BY DEF Owned, HeapFits
<1>3. scopes[s].type = "env" => scopes[s].next = NULL
  BY <1>1 DEF Scope, ScopeOver, EnvScope
<1>4. scopes[s].type # "env" => scopes[s].next \in 1..(s - 1)
  BY <1>2 DEF OwnedScope, FrameScope
<1> QED
  BY <1>1, <1>3, <1>4 DEF NULL

\* An atom leads to scopes that exist, and to all that follow them.
LEMMA RefsClosed ==
  ASSUME TypeOK, NEW o, Owned(o), NEW chain, NEW held, Traced(chain, held),
         NEW a, Fits(o, Len(pairs), a)
  PROVE  Closed(chain, Refs(chain, held, a)) /\ Refs(chain, held, a) \subseteq DOMAIN scopes
<1>1. DOMAIN chain = DOMAIN scopes
  BY DEF Traced, TypeOK
<1>2. CASE IsType(a, "pair")
  <2>1. a.cell \in DOMAIN pairs
    BY <1>2 DEF Fits, TypeOK
  <2> QED
    BY <1>1, <1>2, <2>1 DEF Traced, Refs, Closed
<1>3. CASE IsType(a, "runtime_lambda")
  <2>1. a.scopes \in DOMAIN scopes
    BY <1>3 DEF Fits, Owned, TypeOK
  <2>2. Refs(chain, held, a) = chain[a.scopes]
    BY <1>3 DEF Refs, IsType
  <2> QED
    BY <1>1, <2>1, <2>2 DEF Traced, Closed
<1>4. CASE ~IsType(a, "pair") /\ ~IsType(a, "runtime_lambda")
  BY <1>4 DEF Refs, Closed
<1> QED
  BY <1>2, <1>3, <1>4

StackScopes == {s \in DOMAIN scopes : scopes[s].type = "stack"}

LEMMA FramesInIsRefs ==
  ASSUME TypeOK, NEW o, Owned(o), NEW chain, NEW held, Traced(chain, held),
         NEW a, Fits(o, Len(pairs), a)
  PROVE  /\ ScopesOf(a) = Refs(chain, held, a)
         /\ FramesIn(a) = Refs(chain, held, a) \cap StackScopes
<1>1. \A s : Mentions(scopes, pairs, a, s) <=> s \in Refs(chain, held, a)
  BY MentionsIsRefs
<1>2. Refs(chain, held, a) \subseteq DOMAIN scopes
  BY RefsClosed
<1>3. ScopesOf(a) = Refs(chain, held, a)
  BY <1>1, <1>2 DEF ScopesOf
<1> QED
  BY <1>2, <1>3 DEF FramesIn, StackScopes

LEMMA ChainOfIsChain ==
  ASSUME TypeOK, NEW o, Owned(o), NEW chain, NEW held, Traced(chain, held),
         NEW s \in DOMAIN scopes
  PROVE  ChainOf(s) = chain[s] /\ s \in chain[s] /\ chain[s] \subseteq DOMAIN scopes
<1>1. \A u : OnChain(scopes, s, u) <=> u \in chain[s]
  BY OnChainIsChain
<1>2. chain[s] = ChainFrom(chain, s, scopes[s].next) /\ Closed(chain, chain[s])
        /\ DOMAIN chain = DOMAIN scopes
  BY DEF Traced, TypeOK
<1>3. chain[s] \subseteq DOMAIN scopes /\ s \in chain[s]
  BY <1>2 DEF Closed, ChainFrom
<1> QED
  BY <1>1, <1>3 DEF ChainOf

\* What an instruction finds outside of its frame, the running lambda leads to.
LEMMA OuterScopeOnChain ==
  ASSUME BalancedCode, ScopedCode, TypeOK, FrameLayout, status = "running",
         NEW o, Owned(o), NEW chain, NEW held, Traced(chain, held), Current.offset > 0
  PROVE  /\ ScopeId(Current.offset) \in DOMAIN scopes
         /\ ScopeId(Current.offset) \in Refs(chain, held, rl)
<1>1. ScopeId(Current.offset) \in DOMAIN scopes
  BY OuterScope
<1>2. PICK offset : offset = Current.offset
  OBVIOUS
<1>3. offset \in Nat \ {0}
  BY <1>2, InLoop DEF Instruction
<1>4. PICK id : /\ ScopeId(offset) = id[offset]
                /\ id[1] = rl.scopes
                /\ \A n \in 2..offset :
                     id[n] = IF id[n - 1] = NULL THEN NULL ELSE scopes[id[n - 1]].next
  BY <1>3, ScopeIdSteps
<1>5. Fits(o, Len(pairs), rl)
  BY RunningFits
<1>6. IsType(rl, "runtime_lambda") /\ Refs(chain, held, rl) = chain[rl.scopes]
        /\ rl.scopes \in DOMAIN scopes
  <2>1. IsType(rl, "runtime_lambda")
    BY DEF TypeOK
  <2> QED
    BY <1>5, <2>1 DEF Refs, IsType, Fits, Owned, TypeOK
<1> DEFINE On(n) == id[n] = NULL \/ id[n] \in chain[rl.scopes]
           Off == {n \in 1..offset : ~On(n)}
<1>7. ASSUME Off # {}
      PROVE  FALSE
  <2>1. Off \subseteq Nat
    OBVIOUS
  <2>2. PICK n \in Off : \A m \in Off : n <= m
    <3> HIDE DEF Off
    <3> QED
      BY <1>7, <2>1, LeastElement
  <2>3. n \in 1..offset /\ ~On(n)
    OBVIOUS
  <2>4. n # 1
    BY <1>4, <1>6, <2>3, ChainOfIsChain
  <2>5. n - 1 \in 1..offset /\ n \in 2..offset
    BY <1>3, <2>3, <2>4
  <2>6. On(n - 1)
    <3>1. n - 1 \notin Off
      <4> HIDE DEF Off
      <4> QED
        BY <2>2, <2>5
    <3> QED
      BY <2>5, <3>1
  <2>7. id[n - 1] # NULL
    BY <1>4, <2>3, <2>5
  <2>8. PICK s, next : s = id[n - 1] /\ next = scopes[s].next
    OBVIOUS
  <2>9. s \in chain[rl.scopes] /\ id[n] = next
    BY <1>4, <2>5, <2>6, <2>7, <2>8
  <2>10. s \in DOMAIN scopes /\ chain[s] \subseteq chain[rl.scopes]
    BY <1>6, <2>9, ChainOfIsChain DEF Traced, Closed
  <2>11. next # NULL
    BY <2>3, <2>9
  <2>12. next \in DOMAIN scopes
    <3>1. next \in 0..(s - 1) /\ s \in Nat
      BY <2>8, <2>10, NextScope
    <3> QED
      BY <2>10, <2>11, <3>1 DEF NULL, TypeOK
  <2>13. next \in chain[s]
    <3>1. chain[s] = ChainFrom(chain, s, next)
      BY <2>8, <2>10 DEF Traced
    <3>2. next \in chain[next]
      BY <2>12, ChainOfIsChain
    <3> QED
      BY <2>11, <3>1, <3>2 DEF ChainFrom
  <2> QED
    BY <2>3, <2>9, <2>10, <2>13
<1>8. On(offset)
  BY <1>3, <1>7
<1>9. ScopeId(offset) # NULL
  BY <1>1, <1>2 DEF NULL, TypeOK
<1> QED
  BY <1>1, <1>2, <1>4, <1>6, <1>8, <1>9

-----------------------------------------------------------------------------
(* Where references to frames on the stack may be.                         *)

\* The activations that have found their scope to escape: RETURN copies their
\* frames.
Flagged ==
  IF status # "running" THEN {}
  ELSE ((IF scope_escaped THEN {frame_scope} ELSE {}) \cup
          {stack[k].frame_scope : k \in {j \in DOMAIN stack : IsState(j) /\ stack[j].scope_escaped}})
         \ {NULL}

\* Memory that outlives activations refers to frames that will be copied; a
\* copied frame refers to the frames of the lambdas around it, too.
HeapContained(chain, held, onstack, flagged) ==
  LET frames(atom) == Refs(chain, held, atom) \cap onstack
  IN  /\ \A i \in DOMAIN env : frames(env[i].value) \subseteq flagged
      /\ frames(result) \subseteq flagged
      /\ \A t \in DOMAIN scopes : \A i \in DOMAIN scopes[t].atoms :
           frames(scopes[t].atoms[i]) \subseteq chain[t] \cup flagged

\* A slot refers to frames of living activations: ones that will be copied or
\* ones that start further down, and are gone only after it.
InPlace(s, k, live, flagged) == s \in live /\ (s \in flagged \/ scopes[s].frame_index <= k)

StackContained(chain, held, onstack, live, flagged) ==
  \A k \in DOMAIN stack : \A s \in Refs(chain, held, stack[k]) \cap onstack :
    InPlace(s, k, live, flagged)

\* The lambdas around a living activation live, or have been copied.
LiveChained(chain, onstack, live) ==
  \A s \in live : \A u \in chain[s] \cap onstack :
    u \in live /\ scopes[u].frame_index <= scopes[s].frame_index

Contained(chain, held) ==
  /\ HeapContained(chain, held, StackScopes, Flagged)
  /\ StackContained(chain, held, StackScopes, LiveScopes, Flagged)
  /\ LiveChained(chain, StackScopes, LiveScopes)

Tracked(chain, held) == Traced(chain, held) /\ Contained(chain, held)

ActivationsMean ==
  IF status = "running"
  THEN \A s :
         /\ s \in LiveScopes <=>
              s # NULL /\ (s = frame_scope
                             \/ \E k \in DOMAIN stack : IsState(k) /\ stack[k].frame_scope = s)
         /\ s \in Flagged <=>
              s # NULL /\ ((scope_escaped /\ s = frame_scope)
                             \/ \E k \in DOMAIN stack :
                                  IsState(k) /\ stack[k].scope_escaped /\ stack[k].frame_scope = s)
  ELSE LiveScopes = {} /\ Flagged = {}

LEMMA LiveMeans == ActivationsMean
<1> SUFFICES ASSUME status = "running", NEW s
             PROVE  /\ s \in LiveScopes <=>
                         s # NULL /\ (s = frame_scope
                                        \/ \E k \in DOMAIN stack :
                                             IsState(k) /\ stack[k].frame_scope = s)
                    /\ s \in Flagged <=>
                         s # NULL /\ ((scope_escaped /\ s = frame_scope)
                                        \/ \E k \in DOMAIN stack :
                                             /\ IsState(k) /\ stack[k].scope_escaped
                                             /\ stack[k].frame_scope = s)
  BY DEF ActivationsMean, LiveScopes, Flagged
<1>1. \A k \in DOMAIN stack : IsState(k) <=> IsType(stack[k], "interpreter_state")
  BY DEF IsState
<1>2. (s \in LiveScopes) <=>
         (s # NULL /\ (s = frame_scope
                         \/ \E k \in DOMAIN stack : IsState(k) /\ stack[k].frame_scope = s))
  BY <1>1 DEF LiveScopes
<1>3. (s \in Flagged) <=>
         (s # NULL /\ ((scope_escaped /\ s = frame_scope)
                         \/ \E k \in DOMAIN stack :
                              IsState(k) /\ stack[k].scope_escaped /\ stack[k].frame_scope = s))
  BY <1>1 DEF Flagged
<1> QED
  BY <1>2, <1>3

LEMMA FlaggedIsLive == Flagged \subseteq LiveScopes
<1>1. CASE status = "running"
  BY <1>1, LiveMeans DEF ActivationsMean
<1>2. CASE status # "running"
  BY <1>2 DEF Flagged
<1> QED
  BY <1>1, <1>2

\* A waiting activation lies below the one that runs.
LEMMA CallerBelow ==
  ASSUME BalancedCode, TypeOK, FrameLayout, status = "running",
         NEW k \in DOMAIN stack, IsState(k)
  PROVE  /\ CallerFrame(k) \in Nat /\ CallerFrame(k) < frame_index
         /\ k \in Nat /\ k <= OwnStateSlot
<1>1. CallerStateSlot(k) < k /\ k \in Nat /\ IsFrame(CallerFrame(k), CallerStateSlot(k))
        /\ CallerStateSlot(k) \in Nat
  <2>1. /\ k \in Nat /\ CallerStateSlot(k) \in Nat /\ CalleeFrame(stack[k]) \in DOMAIN stack
        /\ CallerStateSlot(k) < CalleeFrame(stack[k]) /\ CalleeFrame(stack[k]) < k
        /\ IsFrame(CallerFrame(k), CallerStateSlot(k))
    BY SavedFrameFacts
  <2>2. PICK g : g = CalleeFrame(stack[k])
    OBVIOUS
  <2>3. g \in Nat
    BY <2>1, <2>2 DEF TypeOK
  <2> QED
    BY <2>1, <2>2, <2>3
<1>2. IsFrame(frame_index, OwnStateSlot)
  BY RunningFrameIsFrame
<1>3. frame_index \in Nat /\ OwnStateSlot \in Nat /\ frame_index < OwnStateSlot
  BY <1>2, FrameBounds
<1>4. CallerFrame(k) \in Nat /\ CallerFrame(k) < CallerStateSlot(k)
  BY <1>1, FrameBounds
<1>5. k <= OwnStateSlot
  <2>1. \A j \in (OwnStateSlot + 1)..Len(stack) : ~IsState(j)
    BY RunningFrame
  <2>2. k \in 1..Len(stack) /\ Len(stack) \in Nat
    BY DEF TypeOK
  <2> QED
    BY <1>1, <1>3, <2>1, <2>2
<1>6. \/ CallerStateSlot(k) < frame_index
      \/ OwnStateSlot < CallerFrame(k)
      \/ CallerFrame(k) = frame_index /\ CallerStateSlot(k) = OwnStateSlot
  BY <1>1, <1>2, FramesDisjoint
<1> QED
  BY <1>1, <1>3, <1>4, <1>5, <1>6

\* Each living scope stands for the frame of an activation, and no two for the
\* same one.
LEMMA LiveBelow ==
  ASSUME BalancedCode, TypeOK, FrameLayout, status = "running", NEW s \in LiveScopes
  PROVE  /\ s \in StackScopes
         /\ scopes[s].frame_index \in Nat
         /\ scopes[s].frame_index <= frame_index
         /\ s # frame_scope => scopes[s].frame_index < frame_index
<1>1. s # NULL /\ (s = frame_scope \/ \E k \in DOMAIN stack : IsState(k) /\ stack[k].frame_scope = s)
  BY LiveMeans DEF ActivationsMean
<1>2. frame_index \in Nat
  BY DEF TypeOK
<1>3. CASE s = frame_scope
  <2>1. OwnScope(frame_index, arg_count, frame_scope, scope_escaped)
    BY DEF FrameLayout, CurrentFrame
  <2> QED
    BY <1>1, <1>2, <1>3, <2>1 DEF OwnScope, StackScopes
<1>4. CASE s # frame_scope
  <2>1. PICK k \in DOMAIN stack : IsState(k) /\ stack[k].frame_scope = s
    BY <1>1, <1>4
  <2>2. SavedFrame(k) /\ CallerFrame(k) \in Nat /\ CallerFrame(k) < frame_index
    BY <2>1, SavedFrameFacts, CallerBelow
  <2>3. OwnScope(CallerFrame(k), stack[k].arg_count, s, stack[k].scope_escaped)
    BY <2>1, <2>2 DEF SavedFrame, CallerFrame
  <2> QED
    BY <1>1, <1>2, <2>2, <2>3 DEF OwnScope, StackScopes
<1> QED
  BY <1>3, <1>4

LEMMA RunningScope ==
  ASSUME BalancedCode, TypeOK, FrameLayout, status = "running", frame_scope # NULL
  PROVE  /\ frame_scope \in LiveScopes
         /\ frame_scope \in StackScopes
         /\ scopes[frame_scope].frame_index = frame_index
<1>1. OwnScope(frame_index, arg_count, frame_scope, scope_escaped)
  BY DEF FrameLayout, CurrentFrame
<1> QED
  BY <1>1, LiveMeans DEF ActivationsMean, OwnScope, StackScopes

\* The running lambda leads to frames of living activations only.
LEMMA RunningRefsLive ==
  ASSUME BalancedCode, TypeOK, FrameLayout, status = "running",
         NEW o, Owned(o), NEW chain, NEW held, Traced(chain, held), Contained(chain, held)
  PROVE  Refs(chain, held, rl) \cap StackScopes \subseteq LiveScopes
<1>1. frame_index \in DOMAIN stack /\ stack[frame_index] = rl
  BY RunningFrame
<1> QED
  BY <1>1 DEF Contained, StackContained, InPlace

LEMMA OuterFramesLive ==
  ASSUME BalancedCode, ScopedCode, TypeOK, status = "running" => FrameLayout,
         NEW o, Owned(o), NEW chain, NEW held, Traced(chain, held), Contained(chain, held)
  PROVE  OuterFrameAlive
<1> SUFFICES ASSUME status = "running", Current.offset > 0,
                    ScopeId(Current.offset) \in DOMAIN scopes,
                    scopes[ScopeId(Current.offset)].type = "stack"
             PROVE  ScopeId(Current.offset) \in LiveScopes
  BY DEF OuterFrameAlive
<1>1. ScopeId(Current.offset) \in Refs(chain, held, rl)
  BY OuterScopeOnChain
<1> QED
  BY <1>1, RunningRefsLive DEF StackScopes

-----------------------------------------------------------------------------
(* What a step keeps.                                                      *)

Extends(f1, f2) == \A i \in DOMAIN f1 : i \in DOMAIN f2 /\ f2[i] = f1[i]

LEMMA RefsGrown ==
  ASSUME TypeOK, NEW o, Owned(o), NEW c1, NEW h1, Traced(c1, h1),
         NEW c2, Extends(c1, c2), NEW h2, Extends(h1, h2),
         NEW a, Fits(o, Len(pairs), a)
  PROVE  Refs(c2, h2, a) = Refs(c1, h1, a)
<1>1. IsType(a, "pair") => a.cell \in DOMAIN h1
  BY DEF Fits, Traced, TypeOK
<1>2. IsType(a, "runtime_lambda") => a.scopes \in DOMAIN c1
  BY DEF Fits, Traced, TypeOK, Owned
<1> QED
  BY <1>1, <1>2 DEF Extends, Refs

\* A step that allocates nothing.
LEMMA TracedSame ==
  ASSUME TypeOK, TypeOK', NEW chain, NEW held, Traced(chain, held),
         Len(scopes') = Len(scopes), \A s \in DOMAIN scopes : scopes'[s].next = scopes[s].next,
         pairs' = pairs
  PROVE  Traced(chain, held)'
<1>1. DOMAIN scopes' = DOMAIN scopes
  BY DEF TypeOK
<1>2. \A s \in DOMAIN scopes' :
         chain[s] = ChainFrom(chain, s, scopes'[s].next) /\ Closed(chain, chain[s])
  BY <1>1 DEF Traced
<1> QED
  BY <1>2 DEF Traced

\* A new pair.
LEMMA TracedPair ==
  ASSUME TypeOK, NEW o, Owned(o), NEW chain, NEW h1, Traced(chain, h1),
         NEW first, Fits(o, Len(pairs), first), NEW rest, Fits(o, Len(pairs), rest),
         NEW h2, h2 = Append(h1, Refs(chain, h1, first) \cup Refs(chain, h1, rest)),
         NEW cell, cell.first = first, cell.rest = rest,
         scopes' = scopes, pairs' = Append(pairs, cell)
  PROVE  /\ Extends(h1, h2) /\ Extends(chain, chain)
         /\ Traced(chain, h2)'
<1>1. /\ h1 \in Seq(SUBSET Nat) /\ Len(h1) = Len(pairs) /\ Len(pairs) \in Nat
      /\ DOMAIN pairs = 1..Len(pairs) /\ DOMAIN h1 = 1..Len(pairs)
      /\ DOMAIN scopes \subseteq Nat
  BY DEF Traced, TypeOK
<1>2. PICK refs : refs = Refs(chain, h1, first) \cup Refs(chain, h1, rest)
  OBVIOUS
<1>3. Closed(chain, refs) /\ refs \in SUBSET Nat
  <2>1. /\ Closed(chain, Refs(chain, h1, first)) /\ Refs(chain, h1, first) \subseteq DOMAIN scopes
        /\ Closed(chain, Refs(chain, h1, rest)) /\ Refs(chain, h1, rest) \subseteq DOMAIN scopes
    BY RefsClosed
  <2> QED
    BY <1>1, <1>2, <2>1 DEF Closed
<1>4. PICK n : n = Len(pairs) + 1
  OBVIOUS
<1>5. /\ h2 \in Seq(SUBSET Nat) /\ Len(h2) = n /\ h2[n] = refs
      /\ \A c \in DOMAIN pairs : h2[c] = h1[c]
      /\ DOMAIN h2 = 1..n
  BY <1>1, <1>2, <1>3, <1>4
<1>7. /\ Len(pairs') = n /\ pairs'[n] = cell
      /\ \A c \in DOMAIN pairs : pairs'[c] = pairs[c]
      /\ \A c \in DOMAIN pairs' : c \in DOMAIN pairs \/ c = n
  <2>1. pairs' = Append(pairs, cell) /\ pairs \in Seq(PairCell)
    BY DEF TypeOK
  <2> QED
    BY <1>1, <1>4, <2>1
<1>8. Extends(h1, h2) /\ Extends(chain, chain)
  BY <1>1, <1>4, <1>5 DEF Extends
<1>9. \A a : Fits(o, Len(pairs), a) => Refs(chain, h2, a) = Refs(chain, h1, a)
  BY <1>8, RefsGrown
<1>10. ASSUME NEW c \in DOMAIN pairs
       PROVE  /\ h2[c] = Refs(chain, h2, pairs'[c].first) \cup Refs(chain, h2, pairs'[c].rest)
              /\ Closed(chain, h2[c])
              /\ Older(pairs'[c].first, c) /\ Older(pairs'[c].rest, c)
  <2>1. Fits(o, Len(pairs), pairs[c].first) /\ Fits(o, Len(pairs), pairs[c].rest)
    BY DEF Owned, HeapFits
  <2>2. /\ h1[c] = Refs(chain, h1, pairs[c].first) \cup Refs(chain, h1, pairs[c].rest)
        /\ Closed(chain, h1[c])
        /\ Older(pairs[c].first, c) /\ Older(pairs[c].rest, c)
    BY DEF Traced
  <2>3. h2[c] = h1[c] /\ pairs'[c] = pairs[c]
    BY <1>5, <1>7
  <2>4. /\ Refs(chain, h2, pairs[c].first) = Refs(chain, h1, pairs[c].first)
        /\ Refs(chain, h2, pairs[c].rest) = Refs(chain, h1, pairs[c].rest)
    BY <1>9, <2>1
  <2> QED
    BY <2>2, <2>3, <2>4
<1>11. /\ h2[n] = Refs(chain, h2, cell.first) \cup Refs(chain, h2, cell.rest)
       /\ Closed(chain, h2[n])
       /\ Older(cell.first, n) /\ Older(cell.rest, n)
  <2>1. IsType(first, "pair") => first.cell < n
    BY <1>1, <1>4 DEF Fits
  <2>2. IsType(rest, "pair") => rest.cell < n
    BY <1>1, <1>4 DEF Fits
  <2> QED
    BY <1>2, <1>3, <1>5, <1>9, <2>1, <2>2 DEF Older
<1>12. \A c \in DOMAIN QuotedPair : h2[c] = {}
  <2>1. DOMAIN QuotedPair \subseteq DOMAIN pairs
    BY <1>1, SizeAssumption DEF Owned
  <2> QED
    BY <1>5, <2>1 DEF Traced
<1>13. \A c \in DOMAIN pairs' :
         /\ h2[c] = Refs(chain, h2, pairs'[c].first) \cup Refs(chain, h2, pairs'[c].rest)
         /\ Closed(chain, h2[c])
         /\ Older(pairs'[c].first, c) /\ Older(pairs'[c].rest, c)
  BY <1>7, <1>10, <1>11
<1>14. Traced(chain, h2)'
  BY <1>5, <1>7, <1>12, <1>13 DEF Traced
<1> QED
  BY <1>8, <1>14

\* A new scope.
LEMMA TracedScope ==
  ASSUME TypeOK, TypeOK', NEW o, Owned(o), NEW c1, NEW held, Traced(c1, held),
         NEW scope, scopes' = Append(scopes, scope), pairs' = pairs,
         NEW s, s = Len(scopes) + 1,
         scope.next = NULL \/ scope.next \in DOMAIN scopes,
         NEW c2, c2 = Append(c1, ChainFrom(c1, s, scope.next))
  PROVE  /\ Extends(c1, c2) /\ Extends(held, held)
         /\ c2[s] = ChainFrom(c1, s, scope.next)
         /\ Traced(c2, held)'
<1>1. /\ c1 \in Seq(SUBSET Nat) /\ Len(c1) = Len(scopes) /\ Len(scopes) \in Nat
      /\ DOMAIN scopes = 1..Len(scopes) /\ DOMAIN c1 = 1..Len(scopes) /\ s \in Nat
  <2>1. scopes \in Seq(Scope)
    BY DEF TypeOK
  <2>2. c1 \in Seq(SUBSET Nat) /\ Len(c1) = Len(scopes)
    BY DEF Traced
  <2>3. Len(scopes) \in Nat /\ DOMAIN scopes = 1..Len(scopes)
    BY <2>1
  <2> QED
    BY <2>2, <2>3
<1>2. PICK refs : refs = ChainFrom(c1, s, scope.next)
  OBVIOUS
<1>3. refs \in SUBSET Nat /\ \A u \in refs : u = s \/ (u \in DOMAIN scopes /\ c1[u] \subseteq refs)
  <2>1. CASE scope.next = NULL
    BY <1>1, <1>2, <2>1 DEF ChainFrom
  <2>2. CASE scope.next \in DOMAIN scopes
    <3>1. Closed(c1, c1[scope.next]) /\ NULL \notin DOMAIN scopes
      BY <1>1, <2>2 DEF Traced, NULL
    <3>2. refs = {s} \cup c1[scope.next]
      BY <1>2, <2>2, <3>1 DEF ChainFrom
    <3> QED
      BY <1>1, <3>1, <3>2 DEF Closed
  <2> QED
    BY <2>1, <2>2
<1>4. /\ c2 \in Seq(SUBSET Nat) /\ Len(c2) = s /\ c2[s] = refs
      /\ \A u \in DOMAIN scopes : c2[u] = c1[u]
      /\ DOMAIN c2 = 1..s
  BY <1>1, <1>2, <1>3
<1>5. /\ Len(scopes') = s /\ scopes'[s] = scope
      /\ \A u \in DOMAIN scopes : scopes'[u] = scopes[u]
      /\ \A u \in DOMAIN scopes' : u \in DOMAIN scopes \/ u = s
  <2>1. scopes \in Seq(Scope) /\ scopes' \in Seq(Scope)
    BY DEF TypeOK
  <2> QED
    BY <1>1, <2>1
<1>6. Extends(c1, c2) /\ Extends(held, held)
  BY <1>1, <1>4 DEF Extends
<1>7. \A u \in DOMAIN scopes : u \in DOMAIN c2
  BY <1>1, <1>4
<1>8. \A S : Closed(c1, S) => Closed(c2, S)
  BY <1>1, <1>4, <1>7 DEF Closed
<1>9. ASSUME NEW u \in DOMAIN scopes
      PROVE  c2[u] = ChainFrom(c2, u, scopes'[u].next) /\ Closed(c2, c2[u])
  <2>1. c1[u] = ChainFrom(c1, u, scopes[u].next) /\ Closed(c1, c1[u])
    BY DEF Traced
  <2>2. scopes[u].next = NULL \/ scopes[u].next \in DOMAIN scopes
    <3>1. scopes[u].next \in 0..(u - 1) /\ u \in Nat
      BY NextScope
    <3> QED
      BY <1>1, <3>1 DEF NULL
  <2>3. c2[u] = c1[u]
    BY <1>4
  <2>4. ChainFrom(c2, u, scopes[u].next) = ChainFrom(c1, u, scopes[u].next)
    BY <1>4, <2>2 DEF ChainFrom
  <2>5. scopes'[u] = scopes[u]
    BY <1>5
  <2> QED
    BY <1>8, <2>1, <2>3, <2>4, <2>5
<1>10. c2[s] = ChainFrom(c2, s, scope.next) /\ Closed(c2, c2[s])
  <2>1. ChainFrom(c2, s, scope.next) = ChainFrom(c1, s, scope.next)
    BY <1>4 DEF ChainFrom
  <2>2. Closed(c2, refs)
    BY <1>1, <1>3, <1>4, <1>7 DEF Closed
  <2> QED
    BY <1>2, <1>4, <2>1, <2>2
<1>11. ASSUME NEW c \in DOMAIN pairs
       PROVE  /\ held[c] = Refs(c2, held, pairs[c].first) \cup Refs(c2, held, pairs[c].rest)
              /\ Closed(c2, held[c])
              /\ Older(pairs[c].first, c) /\ Older(pairs[c].rest, c)
  <2>1. Fits(o, Len(pairs), pairs[c].first) /\ Fits(o, Len(pairs), pairs[c].rest)
    BY DEF Owned, HeapFits
  <2>2. \A a : Fits(o, Len(pairs), a) => Refs(c2, held, a) = Refs(c1, held, a)
    BY <1>6, RefsGrown
  <2> QED
    BY <1>8, <2>1, <2>2 DEF Traced
<1>12. Traced(c2, held)'
  <2>1. \A u \in DOMAIN scopes' : c2[u] = ChainFrom(c2, u, scopes'[u].next) /\ Closed(c2, c2[u])
    BY <1>5, <1>9, <1>10
  <2> QED
    BY <1>4, <1>5, <1>11, <2>1 DEF Traced
<1> QED
  BY <1>2, <1>4, <1>6, <1>12

-----------------------------------------------------------------------------
(* Steps of one activation.                                                *)

SameStates ==
  /\ \A k : IsState(k)' <=> IsState(k)
  /\ \A k \in DOMAIN stack : IsState(k) => stack'[k] = stack[k]

LEMMA ActivationsKept ==
  ASSUME status = "running", status' = "running", SameStates, frame_scope' = frame_scope
  PROVE  /\ LiveScopes' = LiveScopes
         /\ (scope_escaped => scope_escaped') => Flagged \subseteq Flagged'
         /\ scope_escaped' /\ frame_scope # NULL => frame_scope \in Flagged'
<1>1. ActivationsMean /\ ActivationsMean'
  BY LiveMeans, PTL
<1>2. \A k : (k \in DOMAIN stack' /\ IsState(k)') <=> (k \in DOMAIN stack /\ IsState(k))
  BY DEF SameStates, IsState
<1>3. \A k \in DOMAIN stack : IsState(k) => stack'[k] = stack[k]
  BY DEF SameStates
<1>4. ASSUME NEW s
      PROVE  (\E k \in DOMAIN stack' : IsState(k)' /\ stack'[k].frame_scope = s)
               <=> (\E k \in DOMAIN stack : IsState(k) /\ stack[k].frame_scope = s)
  BY <1>2, <1>3
<1>5. ASSUME NEW s
      PROVE  (\E k \in DOMAIN stack' : IsState(k)' /\ stack'[k].scope_escaped /\ stack'[k].frame_scope = s)
               <=> (\E k \in DOMAIN stack :
                      IsState(k) /\ stack[k].scope_escaped /\ stack[k].frame_scope = s)
  BY <1>2, <1>3
<1>6. \A s : s \in LiveScopes' <=> s \in LiveScopes
  BY <1>1, <1>4 DEF ActivationsMean
<1>7. ASSUME NEW s
      PROVE  s \in Flagged' <=>
               s # NULL /\ ((scope_escaped' /\ s = frame_scope)
                              \/ \E k \in DOMAIN stack :
                                   IsState(k) /\ stack[k].scope_escaped /\ stack[k].frame_scope = s)
  <2>1. s \in Flagged' <=>
          s # NULL /\ ((scope_escaped' /\ s = frame_scope')
                         \/ \E k \in DOMAIN stack' :
                              IsState(k)' /\ stack'[k].scope_escaped /\ stack'[k].frame_scope = s)
    BY <1>1 DEF ActivationsMean
  <2> QED
    BY <1>5, <2>1
<1>8. \A s : s \in Flagged <=>
               s # NULL /\ ((scope_escaped /\ s = frame_scope)
                              \/ \E k \in DOMAIN stack :
                                   IsState(k) /\ stack[k].scope_escaped /\ stack[k].frame_scope = s)
  BY <1>1 DEF ActivationsMean
<1> QED
  BY <1>6, <1>7, <1>8

\* Slots are replaced above the saved state of the running activation, by values.
LEMMA StatesKept ==
  ASSUME BalancedCode, TypeOK, TypeOK', FrameLayout, status = "running",
         NEW n \in Nat, OwnStateSlot <= n, n <= Len(stack), n <= Len(stack'),
         \A k \in 1..n : stack'[k] = stack[k],
         \A k \in (n + 1)..Len(stack') : ~IsType(stack'[k], "interpreter_state")
  PROVE  SameStates
<1>1. Len(stack) \in Nat /\ Len(stack') \in Nat
        /\ DOMAIN stack = 1..Len(stack) /\ DOMAIN stack' = 1..Len(stack')
  <2>1. stack \in Seq(Atom) /\ stack' \in Seq(Atom)
    BY DEF TypeOK
  <2> QED
    BY <2>1
<1>2. \A k \in (OwnStateSlot + 1)..Len(stack) : ~IsState(k)
  BY RunningFrame
<1>3. OwnStateSlot \in Nat
  BY RunningFrame
<1>4. \A k \in 1..n : IsState(k)' <=> IsState(k)
  BY <1>1 DEF IsState
<1>5. \A k \in (n + 1)..Len(stack) : ~IsState(k)
  BY <1>1, <1>2, <1>3
<1>6. \A k \in (n + 1)..Len(stack') : ~IsState(k)'
  BY DEF IsState
<1>7. \A k : IsState(k) => k \in 1..n
  <2>1. \A k : IsState(k) => k \in 1..Len(stack)
    BY <1>1 DEF IsState
  <2> QED
    BY <1>1, <1>5, <2>1
<1>8. \A k : IsState(k)' => k \in 1..n
  <2>1. \A k : IsState(k)' => k \in 1..Len(stack')
    BY <1>1 DEF IsState
  <2> QED
    BY <1>1, <1>6, <2>1
<1> QED
  BY <1>4, <1>7, <1>8 DEF SameStates

\* Nothing but the stack, the pairs and the escape flag changes.
LEMMA SameMemoryContained ==
  ASSUME NEW chain, NEW held, Contained(chain, held),
         UNCHANGED <<env, scopes, result>>,
         LiveScopes' = LiveScopes, Flagged \subseteq Flagged',
         \A k \in DOMAIN stack' : \A s \in Refs(chain, held, stack'[k]) \cap StackScopes :
           InPlace(s, k, LiveScopes, Flagged')
  PROVE  Contained(chain, held)'
<1>1. StackScopes' = StackScopes
  BY DEF StackScopes
<1>2. HeapContained(chain, held, StackScopes, Flagged)
  BY DEF Contained
<1>3. HeapContained(chain, held, StackScopes, Flagged)'
  BY <1>1, <1>2 DEF HeapContained
<1>4. StackContained(chain, held, StackScopes, LiveScopes, Flagged)'
  BY <1>1 DEF StackContained, InPlace
<1>5. LiveChained(chain, StackScopes, LiveScopes)'
  BY <1>1 DEF LiveChained, Contained
<1> QED
  BY <1>3, <1>4, <1>5 DEF Contained

\* Where frames may be referred to, they may be by an operand of the running
\* activation.
LEMMA InPlaceAbove ==
  ASSUME BalancedCode, TypeOK, FrameLayout, status = "running", NEW s \in LiveScopes,
         NEW k \in Nat, frame_index <= k, NEW flagged
  PROVE  InPlace(s, k, LiveScopes, flagged)
<1>1. scopes[s].frame_index \in Nat /\ scopes[s].frame_index <= frame_index /\ frame_index \in Nat
  BY LiveBelow DEF TypeOK
<1>2. scopes[s].frame_index <= k
  BY <1>1
<1> QED
  BY <1>2 DEF InPlace

LEMMA OperandsReplaced ==
  ASSUME BalancedCode, IInv, TypeOK', status = "running",
         NEW n, n = Operands(Current),
         NEW a, ~IsType(a, "interpreter_state"), stack' = Append(Pop(n), a)
  PROVE  /\ SameStates
         /\ Len(stack) - n + 1 \in Nat /\ frame_index <= Len(stack) - n + 1
         /\ \A k \in DOMAIN stack' :
              \/ k \in DOMAIN stack /\ stack'[k] = stack[k]
              \/ k = Len(stack) - n + 1 /\ stack'[k] = a
<1>1. TypeOK /\ FrameLayout /\ stack \in Seq(Atom) /\ stack' \in Seq(Atom)
  BY DEF IInv, TypeOK
<1>2. n \in 0..Len(stack) /\ n \in 0..StackDepth[rl.cl][ip]
  BY <1>1, OperandsThere
<1>3. /\ Len(stack') = Len(stack) - n + 1
      /\ \A k \in 1..(Len(stack) - n) : stack'[k] = stack[k]
      /\ stack'[Len(stack) - n + 1] = a
  BY <1>1, <1>2, ReplacedOperands
<1>4. /\ Len(stack) = OwnStateSlot + StackDepth[rl.cl][ip]
      /\ OwnStateSlot \in Nat /\ StackDepth[rl.cl][ip] \in Nat
  BY <1>1, RunningFrame
<1>5. frame_index \in Nat /\ frame_index < OwnStateSlot
  BY <1>1, RunningFrameIsFrame, FrameBounds
<1>6. Len(stack) \in Nat /\ DOMAIN stack = 1..Len(stack) /\ DOMAIN stack' = 1..Len(stack')
  BY <1>1
<1>7. PICK m : m = Len(stack) - n
  OBVIOUS
<1>8. m \in Nat /\ OwnStateSlot <= m /\ m <= Len(stack) /\ Len(stack') = m + 1
  <2>1. PICK d : d = StackDepth[rl.cl][ip]
    OBVIOUS
  <2>2. n \in 0..d /\ Len(stack) = OwnStateSlot + d /\ d \in Nat
    BY <1>2, <1>4, <2>1
  <2>3. PICK l, q : l = Len(stack) /\ q = OwnStateSlot
    OBVIOUS
  <2>4. l \in Nat /\ q \in Nat /\ d \in Nat /\ n \in 0..d /\ l = q + d /\ m = l - n
    BY <1>4, <1>6, <1>7, <2>2, <2>3
  <2>5. m \in Nat /\ q <= m /\ m <= l
    BY <2>4
  <2>6. Len(stack') = m + 1
    BY <1>3, <1>7
  <2> QED
    BY <2>3, <2>5, <2>6
<1>9. SameStates
  <2>1. \A k \in 1..m : stack'[k] = stack[k]
    BY <1>3, <1>7
  <2>2. \A k \in (m + 1)..Len(stack') : ~IsType(stack'[k], "interpreter_state")
    BY <1>3, <1>7, <1>8
  <2>3. m <= Len(stack')
    BY <1>8
  <2> QED
    BY <1>1, <1>8, <2>1, <2>2, <2>3, StatesKept
<1>10. \A k \in 1..(m + 1) : (k \in 1..Len(stack) /\ stack'[k] = stack[k]) \/ (k = m + 1 /\ stack'[k] = a)
  BY <1>3, <1>6, <1>7, <1>8
<1>11. frame_index <= m + 1
  BY <1>4, <1>5, <1>8
<1> QED
  BY <1>6, <1>7, <1>8, <1>9, <1>10, <1>11

\* An instruction leaves a value that refers to living frames.
LEMMA ReplacementContained ==
  ASSUME BalancedCode, IInv, TypeOK', status = "running",
         NEW chain, NEW held, Contained(chain, held),
         NEW n, n = Operands(Current),
         NEW a, ~IsType(a, "interpreter_state"), stack' = Append(Pop(n), a),
         Refs(chain, held, a) \cap StackScopes \subseteq LiveScopes,
         UNCHANGED <<env, scopes, registers, result, status>>
  PROVE  Contained(chain, held)'
<1>1. TypeOK /\ FrameLayout
  BY DEF IInv
<1>2. /\ SameStates
      /\ Len(stack) - n + 1 \in Nat /\ frame_index <= Len(stack) - n + 1
      /\ \A k \in DOMAIN stack' :
           \/ k \in DOMAIN stack /\ stack'[k] = stack[k]
           \/ k = Len(stack) - n + 1 /\ stack'[k] = a
  BY OperandsReplaced
<1>3. UNCHANGED <<env, scopes, result, status, frame_scope, scope_escaped>>
  BY DEF registers
<1>4. LiveScopes' = LiveScopes /\ Flagged \subseteq Flagged'
  BY <1>2, <1>3, ActivationsKept
<1>5. ASSUME NEW k \in DOMAIN stack', NEW s \in Refs(chain, held, stack'[k]) \cap StackScopes
      PROVE  InPlace(s, k, LiveScopes, Flagged')
  <2>1. CASE k \in DOMAIN stack /\ stack'[k] = stack[k]
    <3>1. InPlace(s, k, LiveScopes, Flagged)
      BY <2>1, <1>5 DEF Contained, StackContained
    <3> QED
      BY <1>4, <3>1 DEF InPlace
  <2>2. CASE k = Len(stack) - n + 1 /\ stack'[k] = a
    BY <1>1, <1>2, <1>5, <2>2, InPlaceAbove
  <2> QED
    BY <1>2, <2>1, <2>2
<1> QED
  BY <1>3, <1>4, <1>5, SameMemoryContained

LEMMA ReplacementTracked ==
  ASSUME BalancedCode, IInv, TypeOK', status = "running",
         NEW chain, NEW held, Tracked(chain, held),
         NEW n, n = Operands(Current),
         NEW a, ~IsType(a, "interpreter_state"), stack' = Append(Pop(n), a),
         Refs(chain, held, a) \cap StackScopes \subseteq LiveScopes,
         UNCHANGED <<memory, registers, result, status>>
  PROVE  Tracked(chain, held)'
<1>1. Contained(chain, held)'
  BY ReplacementContained DEF Tracked, memory
<1>2. Traced(chain, held)'
  BY TracedSame DEF Tracked, memory, IInv
<1> QED
  BY <1>1, <1>2 DEF Tracked

LEMMA LoadTracked ==
  ASSUME BalancedCode, IInv, TypeOK', status = "running", Operands(Current) = 0,
         NEW chain, NEW held, Tracked(chain, held),
         NEW a, ~IsType(a, "interpreter_state"), Push(a),
         Refs(chain, held, a) \cap StackScopes \subseteq LiveScopes,
         UNCHANGED <<memory, registers, result, status>>
  PROVE  Tracked(chain, held)'
<1>1. stack \in Seq(Atom)
  BY DEF IInv, TypeOK
<1>2. PICK n : n = Operands(Current)
  OBVIOUS
<1>3. stack' = Append(Pop(n), a)
  BY <1>1, <1>2 DEF Push, Pop
<1> QED
  BY <1>2, <1>3, ReplacementTracked

LEMMA RemovalTracked ==
  ASSUME BalancedCode, IInv, TypeOK', status = "running",
         NEW chain, NEW held, Tracked(chain, held),
         NEW n, n = Operands(Current), stack' = Pop(n),
         UNCHANGED <<memory, registers, result, status>>
  PROVE  Tracked(chain, held)'
<1>1. TypeOK /\ FrameLayout /\ stack \in Seq(Atom) /\ stack' \in Seq(Atom)
  BY DEF IInv, TypeOK
<1>2. n \in 0..Len(stack) /\ n \in 0..StackDepth[rl.cl][ip]
  BY <1>1, OperandsThere
<1>3. /\ Len(stack') = Len(stack) - n
      /\ \A k \in 1..(Len(stack) - n) : stack'[k] = stack[k]
  BY <1>1, <1>2, PopProperties
<1>4. /\ Len(stack) = OwnStateSlot + StackDepth[rl.cl][ip]
      /\ OwnStateSlot \in Nat /\ StackDepth[rl.cl][ip] \in Nat
  BY <1>1, RunningFrame
<1>5. PICK m : m = Len(stack) - n
  OBVIOUS
<1>6. m \in Nat /\ OwnStateSlot <= m /\ m <= Len(stack) /\ Len(stack') = m
        /\ DOMAIN stack = 1..Len(stack) /\ DOMAIN stack' = 1..m
  <2>1. PICK d : d = StackDepth[rl.cl][ip]
    OBVIOUS
  <2>2. PICK l, own : l = Len(stack) /\ own = OwnStateSlot
    OBVIOUS
  <2>3. n \in 0..d /\ l = own + d /\ d \in Nat /\ own \in Nat /\ m = l - n
    BY <1>2, <1>4, <1>5, <2>1, <2>2
  <2>4. m \in Nat /\ own <= m /\ m <= l
    BY <2>3
  <2>5. Len(stack') = m
    BY <1>3, <1>5
  <2>6. DOMAIN stack = 1..Len(stack) /\ DOMAIN stack' = 1..Len(stack')
    BY <1>1
  <2> QED
    BY <2>2, <2>4, <2>5, <2>6
<1>7. SameStates
  <2>1. \A k \in 1..m : stack'[k] = stack[k]
    BY <1>3, <1>5
  <2>2. \A k \in (m + 1)..Len(stack') : ~IsType(stack'[k], "interpreter_state")
    BY <1>6
  <2> QED
    BY <1>1, <1>6, <2>1, <2>2, StatesKept
<1>8. UNCHANGED <<env, scopes, pairs, result, status, frame_scope, scope_escaped>>
  BY DEF memory, registers
<1>9. LiveScopes' = LiveScopes /\ Flagged \subseteq Flagged'
  BY <1>7, <1>8, ActivationsKept
<1>10. ASSUME NEW k \in DOMAIN stack', NEW s \in Refs(chain, held, stack'[k]) \cap StackScopes
       PROVE  InPlace(s, k, LiveScopes, Flagged')
  <2>1. k \in DOMAIN stack /\ stack'[k] = stack[k]
    BY <1>3, <1>5, <1>6
  <2>2. InPlace(s, k, LiveScopes, Flagged)
    BY <1>10, <2>1 DEF Tracked, Contained, StackContained
  <2> QED
    BY <1>9, <2>2 DEF InPlace
<1>11. Contained(chain, held)'
  BY <1>8, <1>9, <1>10, SameMemoryContained DEF Tracked
<1>12. Traced(chain, held)'
  BY <1>1, <1>8, TracedSame DEF Tracked
<1> QED
  BY <1>11, <1>12 DEF Tracked

-----------------------------------------------------------------------------
(* Each step keeps the references in their places.                         *)

\* What the reader made leads to no scope.
LEMMA DataRefs ==
  ASSUME NEW chain, NEW held, Traced(chain, held), NEW a, IsData(a)
  PROVE  Refs(chain, held, a) = {}
BY DEF IsData, Refs, Traced

LEMMA PlainRefs ==
  ASSUME NEW chain, NEW held, NEW a, ~IsType(a, "pair"), ~IsType(a, "runtime_lambda")
  PROVE  Refs(chain, held, a) = {}
BY DEF Refs

LEMMA OperandRefs ==
  ASSUME BalancedCode, TypeOK, FrameLayout, status = "running", Executable,
         NEW o, Owned(o), NEW chain, NEW held, Tracked(chain, held),
         NEW i \in 0..(Operands(Current) - 1)
  PROVE  /\ Fits(o, Len(pairs), Top(i))
         /\ Refs(chain, held, Top(i)) \cap StackScopes \subseteq LiveScopes
<1>1. Fits(o, Len(pairs), Top(i)) /\ i < Len(stack)
  BY OperandFits, OperandsHidden
<1>2. Len(stack) \in Nat /\ DOMAIN stack = 1..Len(stack) /\ i \in Nat
  BY DEF TypeOK, Executable
<1>3. Len(stack) - i \in DOMAIN stack
  BY <1>1, <1>2
<1> QED
  BY <1>1, <1>3 DEF Top, Tracked, Contained, StackContained, InPlace

\* A copied frame on the way out refers to living frames.
LEMMA OuterFrameRefs ==
  ASSUME BalancedCode, ScopedCode, TypeOK, FrameLayout, status = "running",
         NEW o, Owned(o), NEW chain, NEW held, Tracked(chain, held),
         Current.offset > 0, NEW s, s = ScopeId(Current.offset)
  PROVE  /\ s \in DOMAIN scopes
         /\ chain[s] \cap StackScopes \subseteq LiveScopes
<1>1. s \in DOMAIN scopes /\ s \in Refs(chain, held, rl)
  BY OuterScopeOnChain DEF Tracked
<1>2. Closed(chain, Refs(chain, held, rl))
  BY RunningFits, RefsClosed DEF Tracked
<1>3. Refs(chain, held, rl) \cap StackScopes \subseteq LiveScopes
  BY RunningRefsLive DEF Tracked
<1> QED
  BY <1>1, <1>2, <1>3 DEF Closed

LEMMA VariableRefs ==
  ASSUME BalancedCode, ScopedCode, TypeOK, FrameLayout, status = "running",
         NEW o, Owned(o), NEW chain, NEW held, Tracked(chain, held), HasVariable(Current)
  PROVE  Refs(chain, held, Slot(TargetScope(Current.offset), VariableSlot(Current)))
           \cap StackScopes \subseteq LiveScopes
<1> DEFINE scope == TargetScope(Current.offset)
           i == VariableSlot(Current)
<1>1. SlotExists(scope, i)
  BY DEF HasVariable
<1>0. PICK a : a = Slot(scope, i)
  OBVIOUS
<1> SUFFICES Refs(chain, held, a) \cap StackScopes \subseteq LiveScopes
  BY <1>0
<1>2. CASE scope.type = "stack"
  <2>1. PICK k \in DOMAIN stack : a = stack[k]
    BY <1>1, <1>0, <1>2 DEF SlotExists, Slot
  <2> QED
    BY <2>1 DEF Tracked, Contained, StackContained, InPlace
<1>3. CASE scope.type # "stack"
  <2>1. Current.offset > 0
    BY <1>3, CurrentScoped DEF TargetScope, ThisScope, StackScope
  <2>2. PICK s : s = ScopeId(Current.offset)
    OBVIOUS
  <2>3. s \in DOMAIN scopes /\ chain[s] \cap StackScopes \subseteq LiveScopes
    BY <2>1, <2>2, OuterFrameRefs
  <2>4. scope = scopes[s]
    BY <2>1, <2>2 DEF TargetScope
  <2>5. PICK x \in DOMAIN scopes[s].atoms : a = scopes[s].atoms[x]
    BY <1>1, <1>0, <1>3, <2>4 DEF SlotExists, Slot
  <2>6. Refs(chain, held, a) \cap StackScopes \subseteq chain[s] \cup Flagged
    BY <2>3, <2>5 DEF Tracked, Contained, HeapContained
  <2> QED
    BY <2>3, <2>6, FlaggedIsLive
<1> QED
  BY <1>2, <1>3

LEMMA LoadConstantTracked ==
  ASSUME BalancedCode, IInv, TypeOK', NEW chain, NEW held, Tracked(chain, held), LoadConstant
  PROVE  Tracked(chain, held)'
<1>1. Current.op \in LoadConstantOp /\ status = "running"
  BY DEF LoadConstant, Executing
<1>2. Operands(Current) = 0
  BY <1>1 DEF LoadConstantOp, Operands, ArithmeticOp, CompareOp, PartOp
<1>3. PICK a \in {Nil, True, False, Num(Wrap(Current.arg))} : Push(a)
  BY <1>1 DEF LoadConstant, LoadConstantOp
<1>4. ~IsType(a, "interpreter_state") /\ Refs(chain, held, a) = {}
  BY <1>3 DEF Nil, True, False, Num, IsType, Refs
<1> QED
  BY <1>1, <1>2, <1>3, <1>4, LoadTracked DEF LoadConstant

LEMMA LoadLiteralTracked ==
  ASSUME BalancedCode, ScopedCode, IInv, TypeOK', OuterFrameAlive, NEW o, Owned(o),
         NEW chain, NEW held, Tracked(chain, held), LoadLiteral
  PROVE  Tracked(chain, held)'
<1> DEFINE literal == TargetLambda(Current.offset).literals[Current.arg + 1]
<1>1. Current.op = "LOAD_LITERAL" /\ TypeOK /\ FrameLayout /\ status = "running" /\ Executable
  BY DEF LoadLiteral, Executing, IInv
<1>2. Operands(Current) = 0
  BY <1>1 DEF Operands, ArithmeticOp, CompareOp, PartOp
<1>3. TargetLambda(Current.offset) = CompiledLambda[LambdaAt(rl.cl, Current.offset)]
  BY <1>1, TargetFound
<1>4. IsData(literal)
  BY <1>1, <1>3, CurrentScoped DEF ScopedInstruction, Current, Code, Compiled
<1>5. ~IsType(literal, "interpreter_state")
  <2>1. Current \in Instruction /\ LambdaAt(rl.cl, Current.offset) \in LambdaId
    BY <1>1, InLoop, CurrentScoped
  <2>2. HasLiteral(TargetLambda(Current.offset), Current.arg) /\ HasFrame(Current.offset)
    BY <1>1 DEF Executable
  <2>3. literal \in Literal
    BY <1>1, <2>1, <2>2, TargetLambdaType DEF Instruction, HasLiteral
  <2> HIDE DEF literal
  <2> QED
    BY <2>3 DEF Literal, Value, ValueOver, IsType, Nil, True, False
<1>6. Refs(chain, held, literal) = {}
  BY <1>4, DataRefs DEF Tracked
<1>7. Push(literal)
  BY DEF LoadLiteral
<1> HIDE DEF literal
<1> QED
  BY <1>1, <1>2, <1>5, <1>6, <1>7, LoadTracked DEF LoadLiteral

LEMMA LoadVariableTracked ==
  ASSUME BalancedCode, ScopedCode, IInv, TypeOK', OuterFrameAlive, NEW o, Owned(o),
         NEW chain, NEW held, Tracked(chain, held), LoadVariable
  PROVE  Tracked(chain, held)'
<1>1. Current.op \in LoadVariableOp /\ TypeOK /\ FrameLayout /\ status = "running" /\ Executable
        /\ HasVariable(Current)
  BY DEF LoadVariable, Executing, Executable, IInv
<1>2. Operands(Current) = 0
  BY <1>1 DEF LoadVariableOp, Operands, ArithmeticOp, CompareOp, PartOp
<1>3. PICK a : a = Slot(TargetScope(Current.offset), VariableSlot(Current))
  OBVIOUS
<1>4. ~IsType(a, "interpreter_state") /\ Refs(chain, held, a) \cap StackScopes \subseteq LiveScopes
  BY <1>1, <1>3, VariableHidden, VariableRefs
<1> QED
  BY <1>1, <1>2, <1>3, <1>4, LoadTracked DEF LoadVariable

LEMMA LoadEnvTracked ==
  ASSUME BalancedCode, IInv, TypeOK', NEW chain, NEW held, Tracked(chain, held), LoadEnv
  PROVE  Tracked(chain, held)'
<1>1. Current.op = "LOAD_ENV" /\ TypeOK /\ status = "running" /\ SavedStateHidden
  BY DEF LoadEnv, Executing, IInv
<1>2. Operands(Current) = 0
  BY <1>1 DEF Operands, ArithmeticOp, CompareOp, PartOp
<1>3. PICK a : a = (IF Bound(env, Key.sym) THEN EnvGet(env, Key.sym) ELSE Nil)
  OBVIOUS
<1>4. ~IsType(a, "interpreter_state") /\ Refs(chain, held, a) \cap StackScopes \subseteq LiveScopes
  <2>1. CASE Bound(env, Key.sym)
    <3>1. FirstBinding(env, Key.sym) \in DOMAIN env
      BY <1>1, <2>1, FirstBindingFound, SMTT(30) DEF TypeOK
    <3>2. PICK i \in DOMAIN env : a = env[i].value
      BY <1>3, <2>1, <3>1 DEF EnvGet
    <3> QED
      BY <1>1, <3>2, FlaggedIsLive DEF SavedStateHidden, Tracked, Contained, HeapContained
  <2>2. CASE ~Bound(env, Key.sym)
    BY <1>3, <2>2 DEF Nil, IsType, Refs
  <2> QED
    BY <2>1, <2>2
<1> QED
  BY <1>1, <1>2, <1>3, <1>4, LoadTracked DEF LoadEnv

LEMMA DropTracked ==
  ASSUME BalancedCode, IInv, TypeOK', NEW chain, NEW held, Tracked(chain, held), Drop
  PROVE  Tracked(chain, held)'
<1>1. Current.op = "DROP" /\ status = "running"
  BY DEF Drop, Executing
<1>2. Operands(Current) = 1
  BY <1>1 DEF Operands, ArithmeticOp, CompareOp, PartOp
<1> QED
  BY <1>1, <1>2, RemovalTracked DEF Drop

LEMMA JumpTracked ==
  ASSUME BalancedCode, IInv, TypeOK', NEW chain, NEW held, Tracked(chain, held), Jump
  PROVE  Tracked(chain, held)'
<1>1. Current.op = "JUMP" /\ status = "running" /\ stack \in Seq(Atom)
  BY DEF Jump, Executing, IInv, TypeOK
<1>2. Operands(Current) = 0
  BY <1>1 DEF Operands, ArithmeticOp, CompareOp, PartOp
<1>3. stack' = Pop(0)
  BY <1>1 DEF Jump, Pop
<1> QED
  BY <1>1, <1>2, <1>3, RemovalTracked DEF Jump

LEMMA JumpIfFalseTracked ==
  ASSUME BalancedCode, IInv, TypeOK', NEW chain, NEW held, Tracked(chain, held), JumpIfFalse
  PROVE  Tracked(chain, held)'
<1>1. Current.op = "JUMP_IF_FALSE" /\ status = "running"
  BY DEF JumpIfFalse, Executing
<1>2. Operands(Current) = 1
  BY <1>1 DEF Operands, ArithmeticOp, CompareOp, PartOp
<1> QED
  BY <1>1, <1>2, RemovalTracked DEF JumpIfFalse

LEMMA CallBuildinTracked ==
  ASSUME BalancedCode, IInv, TypeOK', NEW chain, NEW held, Tracked(chain, held), CallBuildin
  PROVE  Tracked(chain, held)'
<1>1. Current.op = "CALL" /\ status = "running"
  BY DEF CallBuildin, Executing
<1>2. Operands(Current) = Current.arg + 1
  BY <1>1 DEF Operands, ArithmeticOp, CompareOp, PartOp
<1>3. PICK value \in BuildinResults(Callee.func, Actuals) :
        stack' = Append(Pop(Current.arg + 1), value)
  BY DEF CallBuildin
<1>4. ~IsType(value, "interpreter_state") /\ Refs(chain, held, value) = {}
  <2>1. Callee.func \in {"print", "gc_heap_size", "plus"}
    BY DEF CallBuildin, SimpleFunc
  <2> QED
    BY <1>3, <2>1 DEF BuildinResults, IsType, Nil, Num, Refs
<1>5. UNCHANGED <<memory, registers, result, status>>
  BY DEF CallBuildin
<1> QED
  BY <1>1, <1>2, <1>3, <1>4, <1>5, ReplacementTracked

LEMMA ArithmeticTracked ==
  ASSUME BalancedCode, IInv, TypeOK', NEW chain, NEW held, Tracked(chain, held), Arithmetic
  PROVE  Tracked(chain, held)'
<1>1. Current.op \in ArithmeticOp /\ status = "running"
  BY DEF Arithmetic, Executing
<1>2. Operands(Current) = 2
  BY <1>1 DEF Operands, ArithmeticOp, CompareOp, PartOp
<1>3. PICK a : a = ArithmeticResult(Current.op, Top(1).num, Top(0).num)
  OBVIOUS
<1>4. ~IsType(a, "interpreter_state") /\ Refs(chain, held, a) = {}
  BY <1>3 DEF ArithmeticResult, Num, IsType, Refs
<1>5. stack' = Append(Pop(2), a) /\ UNCHANGED <<memory, registers, result, status>>
  BY <1>3 DEF Arithmetic
<1> QED
  BY <1>1, <1>2, <1>4, <1>5, ReplacementTracked

LEMMA CompareTracked ==
  ASSUME BalancedCode, IInv, TypeOK', NEW chain, NEW held, Tracked(chain, held), Compare
  PROVE  Tracked(chain, held)'
<1>1. Current.op \in CompareOp /\ status = "running"
  BY DEF Compare, Executing
<1>2. Operands(Current) = 2
  BY <1>1 DEF Operands, ArithmeticOp, CompareOp, PartOp
<1>3. PICK a : a = CompareResult(Current.op, Top(1), Top(0))
  OBVIOUS
<1>4. ~IsType(a, "interpreter_state") /\ Refs(chain, held, a) = {}
  BY <1>3 DEF CompareResult, True, False, IsType, Refs
<1>5. stack' = Append(Pop(2), a) /\ UNCHANGED <<memory, registers, result, status>>
  BY <1>3 DEF Compare
<1> QED
  BY <1>1, <1>2, <1>4, <1>5, ReplacementTracked

\* A part of a pair leads to what the pair leads to.
LEMMA TakePartTracked ==
  ASSUME BalancedCode, IInv, TypeOK', NEW o, Owned(o),
         NEW chain, NEW held, Tracked(chain, held), TakePart
  PROVE  Tracked(chain, held)'
<1>1. Current.op \in PartOp /\ TypeOK /\ FrameLayout /\ status = "running" /\ Executable
        /\ SavedStateHidden
  BY DEF TakePart, Executing, IInv
<1>2. Operands(Current) = 1
  BY <1>1 DEF Operands, ArithmeticOp, CompareOp, PartOp
<1>3. PICK a : a = IF Current.op = "FIRST" THEN pairs[Top(0).cell].first ELSE pairs[Top(0).cell].rest
  OBVIOUS
<1>4. ~IsType(a, "interpreter_state") /\ Refs(chain, held, a) \cap StackScopes \subseteq LiveScopes
  <2>1. PICK pair, c : pair = Top(0) /\ c = pair.cell
    OBVIOUS
  <2>2. IsType(pair, "pair") /\ c \in DOMAIN pairs
    BY <1>1, <2>1 DEF Executable
  <2>3. Refs(chain, held, pair) = held[c]
    BY <2>1, <2>2 DEF Refs
  <2>4. Refs(chain, held, a) \subseteq held[c]
    BY <1>3, <2>1, <2>2 DEF Tracked, Traced
  <2>5. Refs(chain, held, pair) \cap StackScopes \subseteq LiveScopes
    <3>1. 0 \in 0..(Operands(Current) - 1)
      BY <1>2
    <3> QED
      BY <1>1, <2>1, <3>1, OperandRefs
  <2>6. ~IsType(a, "interpreter_state")
    BY <1>1, <1>3, <2>1, <2>2 DEF SavedStateHidden
  <2> QED
    BY <2>3, <2>4, <2>5, <2>6
<1>5. stack' = Append(Pop(1), a) /\ UNCHANGED <<memory, registers, result, status>>
  BY <1>3 DEF TakePart
<1> QED
  BY <1>1, <1>2, <1>4, <1>5, ReplacementTracked

\* A new pair leads to what its parts lead to.
LEMMA BuildPairTracked ==
  ASSUME BalancedCode, IInv, TypeOK', NEW o, Owned(o),
         NEW chain, NEW held, Tracked(chain, held), BuildPair
  PROVE  \E h2 : Tracked(chain, h2)'
<1>1. Current.op = "CONS" /\ TypeOK /\ FrameLayout /\ status = "running" /\ Executable
  BY DEF BuildPair, Executing, IInv
<1>2. Operands(Current) = 2
  BY <1>1 DEF Operands, ArithmeticOp, CompareOp, PartOp
<1>3. PICK first, rest, h2 :
        /\ first = Top(1) /\ rest = Top(0)
        /\ h2 = Append(held, Refs(chain, held, first) \cup Refs(chain, held, rest))
  OBVIOUS
<1>4. /\ Fits(o, Len(pairs), first) /\ Fits(o, Len(pairs), rest)
      /\ Refs(chain, held, first) \cap StackScopes \subseteq LiveScopes
      /\ Refs(chain, held, rest) \cap StackScopes \subseteq LiveScopes
  <2>1. 0 \in 0..(Operands(Current) - 1) /\ 1 \in 0..(Operands(Current) - 1)
    BY <1>2
  <2> QED
    BY <1>1, <1>3, <2>1, OperandRefs
<1>5. PICK cell : /\ cell.first = first /\ cell.rest = rest
                  /\ scopes' = scopes /\ pairs' = Append(pairs, cell)
  BY <1>3 DEF BuildPair
<1>6. /\ Extends(held, h2) /\ Extends(chain, chain)
      /\ h2[Len(pairs) + 1] = Refs(chain, held, first) \cup Refs(chain, held, rest)
      /\ Traced(chain, h2)'
  <2>1. Traced(chain, held)
    BY DEF Tracked
  <2>2. Fits(o, Len(pairs), first) /\ Fits(o, Len(pairs), rest)
    BY <1>4
  <2>3. h2 = Append(held, Refs(chain, held, first) \cup Refs(chain, held, rest))
    BY <1>3
  <2>4. h2[Len(pairs) + 1] = Refs(chain, held, first) \cup Refs(chain, held, rest)
    <3>1. held \in Seq(SUBSET Nat) /\ Len(held) = Len(pairs)
      BY <2>1 DEF Traced
    <3> QED
      BY <2>3, <3>1
  <2>5. Extends(held, h2) /\ Extends(chain, chain) /\ Traced(chain, h2)'
    BY <1>1, <1>5, <2>1, <2>2, <2>3, TracedPair
  <2> QED
    BY <2>4, <2>5
<1>7. PICK a : a = Pair(Len(pairs) + 1) /\ stack' = Append(Pop(2), a)
  BY DEF BuildPair
<1>8. ~IsType(a, "interpreter_state") /\ Refs(chain, h2, a) = h2[Len(pairs) + 1]
  BY <1>7 DEF Pair, IsType, Refs
<1>9. Contained(chain, h2)
  <2>1. \A b : Fits(o, Len(pairs), b) => Refs(chain, h2, b) = Refs(chain, held, b)
    BY <1>1, <1>6, RefsGrown DEF Tracked
  <2>2. HeapContained(chain, held, StackScopes, Flagged)
          /\ StackContained(chain, held, StackScopes, LiveScopes, Flagged)
          /\ LiveChained(chain, StackScopes, LiveScopes)
    BY DEF Tracked, Contained
  <2>3. HeapContained(chain, h2, StackScopes, Flagged)
    <3>1. \A i \in DOMAIN env : Fits(o, Len(pairs), env[i].value)
      BY DEF Owned, HeapFits
    <3>2. Fits(o, Len(pairs), result)
      BY DEF Owned, HeapFits
    <3>3. \A t \in DOMAIN scopes : \A i \in DOMAIN scopes[t].atoms :
            Fits(o, Len(pairs), scopes[t].atoms[i])
      BY DEF Owned, HeapFits, OwnedScope
    <3> QED
      BY <2>1, <2>2, <3>1, <3>2, <3>3 DEF HeapContained
  <2>4. StackContained(chain, h2, StackScopes, LiveScopes, Flagged)
    BY <2>1, <2>2 DEF StackContained, Owned, StackFits
  <2> QED
    BY <2>2, <2>3, <2>4 DEF Contained
<1>10. UNCHANGED <<env, scopes, registers, result, status>>
  BY DEF BuildPair
<1>11. Contained(chain, h2)'
  BY <1>1, <1>2, <1>4, <1>6, <1>7, <1>8, <1>9, <1>10, ReplacementContained
<1> QED
  BY <1>6, <1>11 DEF Tracked

\* A scope is allocated: what there was leads to what it led to.
LEMMA ScopeAdded ==
  ASSUME TypeOK, TypeOK', NEW o, Owned(o), NEW c1, NEW held, Traced(c1, held),
         NEW c2, Extends(c1, c2), Extends(held, held),
         NEW scope, scopes' = Append(scopes, scope), NEW s, s = Len(scopes) + 1
  PROVE  /\ \A a : Fits(o, Len(pairs), a) =>
              Refs(c2, held, a) \cap StackScopes' = Refs(c1, held, a) \cap StackScopes
         /\ \A u \in DOMAIN scopes :
              /\ u # s /\ u \in DOMAIN scopes' /\ scopes'[u] = scopes[u]
              /\ c2[u] = c1[u] /\ c1[u] \subseteq DOMAIN scopes
         /\ s \in DOMAIN scopes' /\ scopes'[s] = scope
         /\ \A u : u \in StackScopes' <=> u \in StackScopes \/ (u = s /\ scope.type = "stack")
         /\ StackScopes \subseteq DOMAIN scopes
         /\ \A u \in DOMAIN scopes' : u \in DOMAIN scopes \/ u = s
<1>1. /\ Len(scopes') = s /\ scopes'[s] = scope
      /\ \A u \in DOMAIN scopes : scopes'[u] = scopes[u]
      /\ \A u \in DOMAIN scopes' : u \in DOMAIN scopes \/ u = s
      /\ \A u \in DOMAIN scopes : u # s /\ u \in DOMAIN scopes'
      /\ s \in DOMAIN scopes'
  <2>1. scopes \in Seq(Scope) /\ scopes' \in Seq(Scope)
    BY DEF TypeOK
  <2> QED
    BY <2>1
<1>2. \A a : Fits(o, Len(pairs), a) =>
               Refs(c2, held, a) = Refs(c1, held, a) /\ Refs(c1, held, a) \subseteq DOMAIN scopes
  BY RefsGrown, RefsClosed
<1>3. \A u \in DOMAIN scopes : c2[u] = c1[u] /\ c1[u] \subseteq DOMAIN scopes
  <2>1. DOMAIN c1 = DOMAIN scopes
    BY DEF Traced, TypeOK
  <2> QED
    BY <2>1, ChainOfIsChain DEF Extends
<1>4. \A u : u \in StackScopes <=> u \in DOMAIN scopes /\ scopes[u].type = "stack"
  BY DEF StackScopes
<1>5. \A u : u \in StackScopes' <=> u \in DOMAIN scopes' /\ scopes'[u].type = "stack"
  BY DEF StackScopes
<1>6. \A u \in DOMAIN scopes : u \in StackScopes' <=> u \in StackScopes
  BY <1>1, <1>4, <1>5
<1>7. s \in StackScopes' <=> scope.type = "stack"
  BY <1>1, <1>5
<1>8. \A u : u \in StackScopes' <=> u \in StackScopes \/ (u = s /\ scope.type = "stack")
  BY <1>1, <1>4, <1>5, <1>6, <1>7
<1>9. \A a : Fits(o, Len(pairs), a) =>
              Refs(c2, held, a) \cap StackScopes' = Refs(c1, held, a) \cap StackScopes
  BY <1>2, <1>6
<1> QED
  BY <1>1, <1>3, <1>4, <1>8, <1>9

LEMMA HeapWithScope ==
  ASSUME TypeOK, TypeOK', NEW o, Owned(o), NEW c1, NEW held, Traced(c1, held),
         NEW c2, Extends(c1, c2), Extends(held, held),
         NEW scope, scopes' = Append(scopes, scope), scope.atoms = << >>,
         NEW f1, NEW f2, f1 \subseteq f2, HeapContained(c1, held, StackScopes, f1)
  PROVE  /\ \A t \in DOMAIN scopes' : \A i \in DOMAIN scopes'[t].atoms :
              Refs(c2, held, scopes'[t].atoms[i]) \cap StackScopes' \subseteq c2[t] \cup f2
         /\ \A i \in DOMAIN env :
              Refs(c2, held, env[i].value) \cap StackScopes' \subseteq f2
         /\ Refs(c2, held, result) \cap StackScopes' \subseteq f2
<1>1. PICK s : s = Len(scopes) + 1
  OBVIOUS
<1>2. /\ \A a : Fits(o, Len(pairs), a) =>
           Refs(c2, held, a) \cap StackScopes' = Refs(c1, held, a) \cap StackScopes
      /\ \A u \in DOMAIN scopes : scopes'[u] = scopes[u] /\ c2[u] = c1[u]
      /\ scopes'[s] = scope
      /\ \A u \in DOMAIN scopes' : u \in DOMAIN scopes \/ u = s
  BY <1>1, ScopeAdded
<1>3. \A i \in DOMAIN env : Fits(o, Len(pairs), env[i].value)
  BY DEF Owned, HeapFits
<1>4. Fits(o, Len(pairs), result)
  BY DEF Owned, HeapFits
<1>5. ASSUME NEW t \in DOMAIN scopes', NEW i \in DOMAIN scopes'[t].atoms
      PROVE  Refs(c2, held, scopes'[t].atoms[i]) \cap StackScopes' \subseteq c2[t] \cup f2
  <2>1. t # s
    BY <1>2, <1>5
  <2>2. t \in DOMAIN scopes /\ scopes'[t] = scopes[t] /\ c2[t] = c1[t]
    BY <1>2, <2>1
  <2>3. PICK a : a = scopes[t].atoms[i]
    OBVIOUS
  <2>4. Fits(o, Len(pairs), a)
    BY <1>5, <2>2, <2>3 DEF Owned, HeapFits, OwnedScope
  <2>5. Refs(c1, held, a) \cap StackScopes \subseteq c1[t] \cup f1
    BY <1>5, <2>2, <2>3 DEF HeapContained
  <2> QED
    BY <1>2, <2>2, <2>3, <2>4, <2>5
<1> QED
  BY <1>2, <1>3, <1>4, <1>5 DEF HeapContained


\* An activation builds the scope of its frame.
LEMMA ScopeMade ==
  ASSUME status = "running", status' = "running", SameStates, frame_scope = NULL,
         scope_escaped' = scope_escaped, NEW s, frame_scope' = s, s # NULL, ~scope_escaped
  PROVE  LiveScopes' = LiveScopes \cup {s} /\ Flagged' = Flagged
<1>1. ActivationsMean /\ ActivationsMean'
  BY LiveMeans, PTL
<1>2. \A k : (k \in DOMAIN stack' /\ IsState(k)') <=> (k \in DOMAIN stack /\ IsState(k))
  BY DEF SameStates, IsState
<1>3. \A k \in DOMAIN stack : IsState(k) => stack'[k] = stack[k]
  BY DEF SameStates
<1>4. ASSUME NEW u
      PROVE  /\ (\E k \in DOMAIN stack' : IsState(k)' /\ stack'[k].frame_scope = u)
                  <=> (\E k \in DOMAIN stack : IsState(k) /\ stack[k].frame_scope = u)
             /\ (\E k \in DOMAIN stack' : IsState(k)' /\ stack'[k].scope_escaped /\ stack'[k].frame_scope = u)
                  <=> (\E k \in DOMAIN stack :
                         IsState(k) /\ stack[k].scope_escaped /\ stack[k].frame_scope = u)
  BY <1>2, <1>3
<1>5. \A u : u \in LiveScopes' <=> u \in LiveScopes \/ u = s
  BY <1>1, <1>4 DEF ActivationsMean
<1>6. \A u : u \in Flagged' <=> u \in Flagged
  BY <1>1, <1>4 DEF ActivationsMean
<1> QED
  BY <1>5, <1>6

\* A closure leads to the frame it is made in, and to those that the running
\* lambda leads to.
LEMMA LoadLambdaTracked ==
  ASSUME BalancedCode, IInv, TypeOK', NEW o, Owned(o),
         NEW chain, NEW held, Tracked(chain, held), LoadLambda
  PROVE  \E c2 : Tracked(c2, held)'
<1> SUFFICES ASSUME \A c2 : ~Tracked(c2, held)'
             PROVE  FALSE
  OBVIOUS
<1>1. Current.op = "LOAD_LAMBDA" /\ TypeOK /\ FrameLayout /\ status = "running" /\ Executable
  BY DEF LoadLambda, Executing, IInv
<1>2. Operands(Current) = 0
  BY <1>1 DEF Operands, ArithmeticOp, CompareOp, PartOp
<1>3. PICK a : a = RuntimeLambda(TargetLambda(Current.offset).literals[Current.arg + 1].id, frame_scope')
                 /\ Push(a)
  BY DEF LoadLambda
<1>4. ~IsType(a, "interpreter_state") /\ IsType(a, "runtime_lambda") /\ a.scopes = frame_scope'
  BY <1>3 DEF RuntimeLambda, IsType
<1>5. UNCHANGED <<env, pairs, frame_index, arg_count, rl, scope_escaped, result, status>>
  BY DEF LoadLambda
<1>6. Traced(chain, held) /\ HeapContained(chain, held, StackScopes, Flagged)
        /\ StackContained(chain, held, StackScopes, LiveScopes, Flagged)
        /\ LiveChained(chain, StackScopes, LiveScopes)
  BY DEF Tracked, Contained
<1>7. CASE frame_scope # NULL
  <2>1. scopes' = scopes /\ frame_scope' = frame_scope
    BY <1>7 DEF LoadLambda, NeedsScope
  <2>2. Refs(chain, held, a) = chain[frame_scope]
    BY <1>4, <2>1 DEF Refs, IsType
  <2>3. frame_scope \in LiveScopes
    BY <1>1, <1>7, RunningScope
  <2>4. Refs(chain, held, a) \cap StackScopes \subseteq LiveScopes
    BY <1>6, <2>2, <2>3 DEF LiveChained
  <2>5. UNCHANGED <<memory, registers, result, status>>
    BY <1>5, <2>1 DEF memory, registers
  <2> QED
    BY <1>1, <1>2, <1>3, <1>4, <2>4, <2>5, LoadTracked
<1>8. CASE frame_scope = NULL
  <2>1. PICK s, scope, c2 :
          /\ s = Len(scopes) + 1 /\ scope = ThisScope
          /\ c2 = Append(chain, ChainFrom(chain, s, scope.next))
    OBVIOUS
  <2>2. /\ scope.type = "stack" /\ scope.next = rl.scopes /\ scope.frame_index = frame_index
        /\ scope.atoms = << >>
    BY <2>1 DEF ThisScope, StackScope
  <2>3. scopes' = Append(scopes, scope) /\ frame_scope' = s
    BY <1>8, <2>1 DEF LoadLambda, NeedsScope
  <2>4. Fits(o, Len(pairs), rl) /\ IsType(rl, "runtime_lambda")
    BY <1>1, RunningFits DEF TypeOK
  <2>5. rl.scopes \in DOMAIN scopes /\ rl.scopes # NULL /\ Refs(chain, held, rl) = chain[rl.scopes]
    <3>0. DOMAIN o = DOMAIN scopes /\ scopes \in Seq(Scope)
      BY <1>1 DEF Owned, TypeOK
    <3>1. rl.scopes \in DOMAIN scopes
      BY <2>4, <3>0 DEF Fits
    <3>2. rl.scopes # NULL
      BY <3>0, <3>1 DEF NULL
    <3> QED
      BY <2>4, <3>1, <3>2 DEF Refs, IsType
  <2>6. Extends(chain, c2) /\ Extends(held, held) /\ Traced(c2, held)'
          /\ c2[s] = ChainFrom(chain, s, scope.next)
    BY <1>1, <1>5, <1>6, <2>1, <2>2, <2>3, <2>5, TracedScope
  <2>7. c2[s] = {s} \cup Refs(chain, held, rl)
    BY <2>2, <2>5, <2>6 DEF ChainFrom
  <2>8. /\ \A b : Fits(o, Len(pairs), b) =>
             Refs(c2, held, b) \cap StackScopes' = Refs(chain, held, b) \cap StackScopes
        /\ \A u \in DOMAIN scopes :
             /\ u # s /\ u \in DOMAIN scopes' /\ scopes'[u] = scopes[u]
             /\ c2[u] = chain[u] /\ chain[u] \subseteq DOMAIN scopes
        /\ s \in DOMAIN scopes' /\ scopes'[s] = scope
        /\ \A u : u \in StackScopes' <=> u \in StackScopes \/ (u = s /\ scope.type = "stack")
        /\ StackScopes \subseteq DOMAIN scopes
        /\ \A u \in DOMAIN scopes' : u \in DOMAIN scopes \/ u = s
    <3>1. TypeOK /\ Traced(chain, held) /\ s = Len(scopes) + 1
      BY <1>1, <1>6, <2>1
    <3> QED
      BY <2>3, <2>6, <3>1, ScopeAdded
  <2>9. PICK n : n = Operands(Current)
    OBVIOUS
  <2>10. stack' = Append(Pop(n), a)
    <3>1. stack \in Seq(Atom)
      BY <1>1 DEF TypeOK
    <3> QED
      BY <1>2, <1>3, <2>9, <3>1 DEF Push, Pop
  <2>11. /\ SameStates
         /\ Len(stack) - n + 1 \in Nat /\ frame_index <= Len(stack) - n + 1
         /\ \A k \in DOMAIN stack' :
              \/ k \in DOMAIN stack /\ stack'[k] = stack[k]
              \/ k = Len(stack) - n + 1 /\ stack'[k] = a
    BY <1>1, <1>4, <2>9, <2>10, OperandsReplaced
  <2>12. s # NULL
    BY <1>1, <2>1 DEF TypeOK, NULL
  <2>13. ~scope_escaped
    BY <1>1, <1>8 DEF FrameLayout, CurrentFrame, OwnScope
  <2>14. LiveScopes' = LiveScopes \cup {s} /\ Flagged' = Flagged
    BY <1>1, <1>5, <1>8, <2>3, <2>11, <2>12, <2>13, ScopeMade
  <2>15. Refs(chain, held, rl) \cap StackScopes \subseteq LiveScopes /\ Refs(chain, held, rl) \subseteq DOMAIN scopes
    BY <1>1, <1>6, <2>4, RunningRefsLive, RefsClosed DEF Tracked
  <2>16. ASSUME NEW u \in c2[s] \cap StackScopes'
         PROVE  u \in LiveScopes' /\ scopes'[u].frame_index <= frame_index
    <3>1. CASE u = s
      <4>1. frame_index \in Nat
        BY <1>1 DEF TypeOK
      <4> QED
        BY <2>2, <2>8, <2>14, <3>1, <4>1
    <3>2. CASE u # s
      <4>1. u \in Refs(chain, held, rl) /\ u \in StackScopes
        BY <2>7, <2>8, <2>16, <3>2
      <4>2. u \in LiveScopes /\ scopes'[u] = scopes[u]
        BY <2>8, <2>15, <4>1
      <4> QED
        BY <1>1, <2>14, <4>2, LiveBelow
    <3> QED
      BY <3>1, <3>2
  <2>17. HeapContained(c2, held, StackScopes, Flagged)'
    <3>1. /\ \A t \in DOMAIN scopes' : \A i \in DOMAIN scopes'[t].atoms :
               Refs(c2, held, scopes'[t].atoms[i]) \cap StackScopes' \subseteq c2[t] \cup Flagged
          /\ \A i \in DOMAIN env :
               Refs(c2, held, env[i].value) \cap StackScopes' \subseteq Flagged
          /\ Refs(c2, held, result) \cap StackScopes' \subseteq Flagged
      BY <1>1, <1>6, <2>2, <2>3, <2>6, HeapWithScope
    <3> QED
      BY <1>5, <2>14, <3>1 DEF HeapContained
  <2>18. StackContained(c2, held, StackScopes, LiveScopes, Flagged)'
    <3> SUFFICES ASSUME NEW k \in DOMAIN stack', NEW u \in Refs(c2, held, stack'[k]) \cap StackScopes'
                 PROVE  u \in LiveScopes' /\ (u \in Flagged' \/ scopes'[u].frame_index <= k)
      BY DEF StackContained, InPlace
    <3>1. CASE k \in DOMAIN stack /\ stack'[k] = stack[k]
      <4>1. Fits(o, Len(pairs), stack[k])
        BY <3>1 DEF Owned, StackFits
      <4>2. u \in Refs(chain, held, stack[k]) \cap StackScopes
        BY <2>8, <3>1, <4>1
      <4>3. u \in LiveScopes /\ (u \in Flagged \/ scopes[u].frame_index <= k)
        BY <1>6, <3>1, <4>2 DEF StackContained, InPlace
      <4>4. scopes'[u] = scopes[u]
        BY <2>8, <4>2
      <4> QED
        BY <2>14, <4>3, <4>4
    <3>2. CASE k = Len(stack) - n + 1 /\ stack'[k] = a
      <4>1. Refs(c2, held, a) = c2[s]
        BY <1>4, <2>3 DEF Refs, IsType
      <4>2. u \in LiveScopes' /\ scopes'[u].frame_index <= frame_index
        BY <2>16, <3>2, <4>1
      <4>3. scopes'[u].frame_index \in Nat /\ frame_index \in Nat /\ k \in Nat /\ frame_index <= k
        <5>1. u \in DOMAIN scopes'
          BY DEF StackScopes
        <5>2. scopes'[u] \in Scope
          BY <5>1 DEF TypeOK
        <5>3. scopes'[u].frame_index \in Nat
          BY <5>2 DEF Scope, ScopeOver, EnvScope
        <5> QED
          BY <1>1, <2>11, <3>2, <5>3 DEF TypeOK
      <4> QED
        BY <4>2, <4>3
    <3> QED
      BY <2>11, <3>1, <3>2
  <2>19. LiveChained(c2, StackScopes, LiveScopes)'
    <3> SUFFICES ASSUME NEW t \in LiveScopes', NEW u \in c2[t] \cap StackScopes'
                 PROVE  u \in LiveScopes' /\ scopes'[u].frame_index <= scopes'[t].frame_index
      BY DEF LiveChained
    <3>1. CASE t = s
      BY <2>2, <2>8, <2>16, <3>1
    <3>2. CASE t # s
      <4>1. t \in LiveScopes /\ t \in DOMAIN scopes
        BY <1>1, <2>8, <2>14, <3>2, LiveBelow
      <4>2. u \in chain[t] \cap StackScopes /\ u \in DOMAIN scopes
        BY <2>8, <4>1
      <4>3. u \in LiveScopes /\ scopes[u].frame_index <= scopes[t].frame_index
        BY <1>6, <4>1, <4>2 DEF LiveChained
      <4> QED
        BY <2>8, <2>14, <4>1, <4>2, <4>3
    <3> QED
      BY <3>1, <3>2
  <2>20. Contained(c2, held)'
    BY <2>17, <2>18, <2>19 DEF Contained
  <2> QED
    BY <2>6, <2>20 DEF Tracked
<1> QED
  BY <1>7, <1>8

\* check_atom_for_escaped_scope notices a frame of the running activation.
LEMMA EscapeNoticed ==
  ASSUME TypeOK, status = "running", status' = "running", SameStates, frame_scope' = frame_scope,
         NEW o, Owned(o), NEW chain, NEW held, Traced(chain, held),
         NEW a, Fits(o, Len(pairs), a), scope_escaped' = EscapedBy(a),
         NEW S, FramesIn(a) \subseteq {frame_scope} \cup S
  PROVE  /\ LiveScopes' = LiveScopes /\ Flagged \subseteq Flagged'
         /\ Refs(chain, held, a) \cap StackScopes \subseteq S \cup Flagged'
<1>1. scope_escaped => scope_escaped'
  BY DEF EscapedBy
<1>2. /\ LiveScopes' = LiveScopes /\ Flagged \subseteq Flagged'
      /\ scope_escaped' /\ frame_scope # NULL => frame_scope \in Flagged'
  BY <1>1, ActivationsKept
<1>3. ASSUME NEW u \in Refs(chain, held, a) \cap StackScopes, u \notin S
      PROVE  u \in Flagged'
  <2>1. ScopesOf(a) = Refs(chain, held, a) /\ FramesIn(a) = Refs(chain, held, a) \cap StackScopes
    BY FramesInIsRefs
  <2>2. u = frame_scope
    BY <1>3, <2>1
  <2>3. u # NULL
    <3>1. u \in 1..Len(scopes)
      BY DEF StackScopes, TypeOK
    <3> QED
      BY <3>1 DEF NULL
  <2>4. Mentions(scopes, pairs, a, u)
    BY <2>1 DEF ScopesOf
  <2> QED
    BY <1>2, <2>2, <2>3, <2>4 DEF EscapedBy
<1> QED
  BY <1>2, <1>3

LEMMA EnvSetValues ==
  ASSUME NEW e \in Seq(Binding), NEW key, NEW a
  PROVE  \A i \in DOMAIN EnvSet(e, key, a) :
           EnvSet(e, key, a)[i].value = a
             \/ (i \in DOMAIN e /\ EnvSet(e, key, a)[i].value = e[i].value)
<1>1. CASE ~Bound(e, key)
  BY <1>1 DEF EnvSet
<1>2. CASE Bound(e, key)
  <2>1. PICK b : b = FirstBinding(e, key)
    OBVIOUS
  <2>2. PICK e2 : e2 = EnvSet(e, key, a) /\ e2 = [e EXCEPT ![b].value = a]
    BY <1>2, <2>1 DEF EnvSet
  <2>3. b \in DOMAIN e
    BY <1>2, <2>1, FirstBindingFound
  <2>4. e2[b].value = a
    <3>1. e[b] \in Binding
      BY <2>3
    <3>2. e[b] \in [key : Symbol, value : Atom]
      BY <3>1 DEF Binding, BindingOver, Atom
    <3> QED
      BY <2>2, <2>3, <3>2
  <2>5. DOMAIN e2 = DOMAIN e /\ \A i \in DOMAIN e : i # b => e2[i] = e[i]
    BY <2>2, <2>3
  <2>6. \A i \in DOMAIN e2 : e2[i].value = a \/ (i \in DOMAIN e /\ e2[i].value = e[i].value)
    BY <2>4, <2>5
  <2> QED
    BY <2>2, <2>6
<1> QED
  BY <1>1, <1>2

\* What is bound to a name at the top level refers to frames that will be copied.
LEMMA StoreEnvTracked ==
  ASSUME BalancedCode, IInv, TypeOK', EscapesSeen, NEW o, Owned(o),
         NEW chain, NEW held, Tracked(chain, held), StoreEnv
  PROVE  Tracked(chain, held)'
<1>1. Current.op = "STORE_ENV" /\ TypeOK /\ FrameLayout /\ status = "running" /\ Executable
        /\ env \in Seq(Binding)
  BY DEF StoreEnv, Executing, IInv, TypeOK
<1>2. Operands(Current) = 1
  BY <1>1 DEF Operands, ArithmeticOp, CompareOp, PartOp
<1>3. PICK a, key : a = Top(0) /\ key = Key.sym
  OBVIOUS
<1>4. Fits(o, Len(pairs), a)
  <2>1. 0 \in 0..(Operands(Current) - 1)
    BY <1>2
  <2> QED
    BY <1>1, <1>3, <2>1, OperandFits
<1>5. /\ env' = EnvSet(env, key, a) /\ scope_escaped' = EscapedBy(a)
      /\ UNCHANGED <<scopes, pairs, stack, frame_scope, result, status>>
  BY <1>3 DEF StoreEnv
<1>6. Traced(chain, held) /\ HeapContained(chain, held, StackScopes, Flagged)
        /\ StackContained(chain, held, StackScopes, LiveScopes, Flagged)
        /\ LiveChained(chain, StackScopes, LiveScopes)
  BY DEF Tracked, Contained
<1>7. PICK S : S = {} /\ FramesIn(a) \subseteq {frame_scope} \cup S
  BY <1>1, <1>3 DEF EscapesSeen
<1>8. SameStates
  BY <1>5 DEF SameStates, IsState
<1>9. /\ LiveScopes' = LiveScopes /\ Flagged \subseteq Flagged'
      /\ Refs(chain, held, a) \cap StackScopes \subseteq S \cup Flagged'
  BY <1>1, <1>4, <1>5, <1>6, <1>7, <1>8, EscapeNoticed
<1>10. StackScopes' = StackScopes
  BY <1>5 DEF StackScopes
<1>11. \A i \in DOMAIN env' : Refs(chain, held, env'[i].value) \cap StackScopes \subseteq Flagged'
  <2>1. \A i \in DOMAIN env' : env'[i].value = a \/ (i \in DOMAIN env /\ env'[i].value = env[i].value)
    BY <1>1, <1>5, EnvSetValues
  <2>2. \A i \in DOMAIN env : Refs(chain, held, env[i].value) \cap StackScopes \subseteq Flagged
    BY <1>6 DEF HeapContained
  <2> QED
    BY <1>7, <1>9, <2>1, <2>2
<1>12. HeapContained(chain, held, StackScopes, Flagged)'
  BY <1>5, <1>6, <1>9, <1>10, <1>11 DEF HeapContained
<1>13. StackContained(chain, held, StackScopes, LiveScopes, Flagged)'
  BY <1>5, <1>6, <1>9, <1>10 DEF StackContained, InPlace
<1>14. LiveChained(chain, StackScopes, LiveScopes)'
  BY <1>5, <1>6, <1>9, <1>10 DEF LiveChained
<1>15. Traced(chain, held)'
  BY <1>1, <1>5, <1>6, TracedSame
<1> QED
  BY <1>12, <1>13, <1>14, <1>15 DEF Tracked, Contained

\* A variable of a frame on the stack gets a value from its own activation, or
\* from one inside of it.
LEMMA StoreOnStackTracked ==
  ASSUME BalancedCode, ScopedCode, IInv, TypeOK', OuterFrameAlive, EscapesSeen, NEW o, Owned(o),
         NEW chain, NEW held, Tracked(chain, held), StoreLocal,
         TargetScope(Current.offset).type = "stack"
  PROVE  Tracked(chain, held)'
<1>1. Current.op = "STORE_LOCAL" /\ TypeOK /\ FrameLayout /\ status = "running" /\ Executable
        /\ HasVariable(Current) /\ stack \in Seq(Atom)
  BY DEF StoreLocal, Executing, Executable, IInv, TypeOK
<1>2. Operands(Current) = 1
  BY <1>1 DEF Operands, ArithmeticOp, CompareOp, PartOp
<1>3. PICK a : a = Top(0)
  OBVIOUS
<1>4. Traced(chain, held) /\ Contained(chain, held)
  BY DEF Tracked
<1>5. /\ Fits(o, Len(pairs), a) /\ ~IsType(a, "interpreter_state")
      /\ Refs(chain, held, a) \cap StackScopes \subseteq LiveScopes
  <2>1. 0 \in 0..(Operands(Current) - 1)
    BY <1>2
  <2> QED
    BY <1>1, <1>3, <2>1, OperandFits, OperandRefs
<1>6. PICK f, k, j :
        /\ f = TargetScope(Current.offset).frame_index
        /\ k = StateSlot(f, TargetScope(Current.offset).arg_count)
        /\ j = f + VariableSlot(Current) - 1
  OBVIOUS
<1>7. IsFrame(f, k) /\ j \in DOMAIN stack /\ j \in Nat /\ f < j /\ j < k
  BY <1>1, <1>6, VariableInFrame
<1>8. ~IsState(j)
  BY <1>1, <1>7, VariableApart
<1>9. /\ stack' = [stack EXCEPT ![j] = a] /\ scopes' = scopes
      /\ UNCHANGED <<env, pairs, result, status, frame_scope>>
      /\ scope_escaped' = IF Current.offset > 0 THEN EscapedBy(a) ELSE scope_escaped
  BY <1>3, <1>6 DEF StoreLocal
<1>10. /\ DOMAIN stack' = DOMAIN stack
       /\ stack'[j] = a /\ \A i \in DOMAIN stack : i # j => stack'[i] = stack[i]
  BY <1>7, <1>9
<1>11. SameStates
  BY <1>5, <1>8, <1>10 DEF SameStates, IsState
<1>12. /\ LiveScopes' = LiveScopes /\ Flagged \subseteq Flagged'
       /\ \A u \in Refs(chain, held, a) \cap StackScopes : InPlace(u, j, LiveScopes, Flagged')
  <2>1. CASE Current.offset = 0
    <3>1. LiveScopes' = LiveScopes /\ Flagged \subseteq Flagged'
      BY <1>1, <1>9, <1>11, <2>1, ActivationsKept
    <3>2. f = frame_index /\ frame_index <= j
      BY <1>6, <1>7, <2>1, <1>1, FrameBounds DEF TargetScope, ThisScope, StackScope
    <3> QED
      BY <1>1, <1>5, <1>7, <3>1, <3>2, InPlaceAbove
  <2>2. CASE Current.offset > 0
    <3>1. PICK t : t = ScopeId(Current.offset)
      OBVIOUS
    <3>2. t \in DOMAIN scopes /\ scopes[t].type = "stack" /\ scopes[t].frame_index = f
      BY <1>1, <1>4, <1>6, <2>2, <3>1, OuterScopeOnChain DEF TargetScope
    <3>3. t \in LiveScopes
      BY <1>1, <2>2, <3>1, <3>2 DEF OuterFrameAlive
    <3>4. PICK S : S = chain[t] /\ S = ChainOf(t)
      BY <1>1, <1>4, <3>2, ChainOfIsChain
    <3>5. FramesIn(a) \subseteq {frame_scope} \cup S
      BY <1>1, <1>3, <2>2, <3>1, <3>4 DEF EscapesSeen
    <3>6. scope_escaped' = EscapedBy(a)
      BY <1>9, <2>2
    <3>7. /\ LiveScopes' = LiveScopes /\ Flagged \subseteq Flagged'
          /\ Refs(chain, held, a) \cap StackScopes \subseteq S \cup Flagged'
      BY <1>1, <1>4, <1>5, <1>9, <1>11, <3>5, <3>6, EscapeNoticed
    <3>8. ASSUME NEW u \in Refs(chain, held, a) \cap StackScopes
          PROVE  InPlace(u, j, LiveScopes, Flagged')
      <4>1. u \in LiveScopes
        BY <1>5
      <4>2. CASE u \in Flagged'
        BY <4>1, <4>2 DEF InPlace
      <4>3. CASE u \in S
        <5>1. scopes[u].frame_index <= f
          BY <1>4, <3>2, <3>3, <3>4, <4>3 DEF Contained, LiveChained
        <5>2. scopes[u].frame_index \in Nat /\ f \in Nat
          BY <1>1, <3>2, <3>3, <4>1, LiveBelow
        <5>3. scopes[u].frame_index <= j
          BY <1>7, <5>1, <5>2
        <5> QED
          BY <4>1, <5>3 DEF InPlace
      <4> QED
        BY <3>7, <4>2, <4>3
    <3> QED
      BY <3>7, <3>8
  <2> QED
    BY <1>1, <2>1, <2>2, InLoop DEF Instruction
<1>13. ASSUME NEW i \in DOMAIN stack', NEW u \in Refs(chain, held, stack'[i]) \cap StackScopes
       PROVE  InPlace(u, i, LiveScopes, Flagged')
  <2>1. CASE i = j
    BY <1>10, <1>12, <1>13, <2>1
  <2>2. CASE i # j
    <3>1. InPlace(u, i, LiveScopes, Flagged)
      BY <1>4, <1>10, <1>13, <2>2 DEF Contained, StackContained
    <3> QED
      BY <1>12, <3>1 DEF InPlace
  <2> QED
    BY <2>1, <2>2
<1>14. UNCHANGED <<env, scopes, result>>
  BY <1>9
<1>15. Contained(chain, held)'
  BY <1>4, <1>12, <1>13, <1>14, SameMemoryContained
<1>16. Traced(chain, held)'
  BY <1>1, <1>4, <1>9, TracedSame
<1> QED
  BY <1>15, <1>16 DEF Tracked

\* ... and so does one of a copied frame.
LEMMA StoreOnHeapTracked ==
  ASSUME BalancedCode, ScopedCode, IInv, TypeOK', EscapesSeen, NEW o, Owned(o),
         NEW chain, NEW held, Tracked(chain, held), StoreLocal,
         TargetScope(Current.offset).type # "stack"
  PROVE  Tracked(chain, held)'
<1>1. Current.op = "STORE_LOCAL" /\ TypeOK /\ FrameLayout /\ status = "running" /\ Executable
        /\ scopes \in Seq(Scope)
  BY DEF StoreLocal, Executing, Executable, IInv, TypeOK
<1>2. Operands(Current) = 1
  BY <1>1 DEF Operands, ArithmeticOp, CompareOp, PartOp
<1>3. PICK a : a = Top(0)
  OBVIOUS
<1>4. Traced(chain, held) /\ Contained(chain, held)
  BY DEF Tracked
<1>5. Fits(o, Len(pairs), a)
  <2>1. 0 \in 0..(Operands(Current) - 1)
    BY <1>2
  <2> QED
    BY <1>1, <1>3, <2>1, OperandFits
<1>6. PICK s, i : s = ScopeId(Current.offset) /\ i = VariableSlot(Current)
  OBVIOUS
<1>7. Current.offset > 0
  BY <1>1, CurrentScoped DEF TargetScope, ThisScope, StackScope
<1>8. /\ s \in DOMAIN scopes /\ scopes[s] \in Scope /\ scopes[s].type # "stack"
      /\ chain[s] = ChainOf(s)
  BY <1>1, <1>4, <1>6, <1>7, OuterScopeOnChain, ChainOfIsChain DEF TargetScope
<1>9. /\ scopes' = [scopes EXCEPT ![s].atoms[i] = a] /\ stack' = stack
      /\ UNCHANGED <<env, pairs, result, status, frame_scope>>
      /\ scope_escaped' = EscapedBy(a)
  BY <1>3, <1>6, <1>7 DEF StoreLocal
<1>10. /\ DOMAIN scopes' = DOMAIN scopes /\ Len(scopes') = Len(scopes)
       /\ \A t \in DOMAIN scopes : t # s => scopes'[t] = scopes[t]
       /\ scopes'[s] = [scopes[s] EXCEPT !.atoms[i] = a]
  BY <1>1, <1>8, <1>9
<1>11. /\ scopes'[s].atoms = [scopes[s].atoms EXCEPT ![i] = a]
       /\ scopes'[s].type = scopes[s].type /\ scopes'[s].next = scopes[s].next
  <2>1. {"type", "next", "atoms"} \subseteq DOMAIN scopes[s]
    BY <1>8 DEF Scope, ScopeOver, EnvScope
  <2> QED
    BY <1>10, <2>1
<1>12. \A x \in DOMAIN scopes'[s].atoms :
         x \in DOMAIN scopes[s].atoms
           /\ (scopes'[s].atoms[x] = a \/ scopes'[s].atoms[x] = scopes[s].atoms[x])
  BY <1>11
<1>13. StackScopes' = StackScopes
  BY <1>10, <1>11 DEF StackScopes
<1>14. \A t \in StackScopes : scopes'[t] = scopes[t]
  BY <1>8, <1>10 DEF StackScopes
<1>15. SameStates
  BY <1>9 DEF SameStates, IsState
<1>16. FramesIn(a) \subseteq {frame_scope} \cup chain[s]
  BY <1>1, <1>3, <1>6, <1>7, <1>8 DEF EscapesSeen
<1>17. /\ LiveScopes' = LiveScopes /\ Flagged \subseteq Flagged'
       /\ Refs(chain, held, a) \cap StackScopes \subseteq chain[s] \cup Flagged'
  <2>1. PICK S : S = chain[s]
    OBVIOUS
  <2>2. FramesIn(a) \subseteq {frame_scope} \cup S
    BY <1>16, <2>1
  <2>3. /\ LiveScopes' = LiveScopes /\ Flagged \subseteq Flagged'
        /\ Refs(chain, held, a) \cap StackScopes \subseteq S \cup Flagged'
    BY <1>1, <1>4, <1>5, <1>9, <1>15, <2>2, EscapeNoticed
  <2> QED
    BY <2>1, <2>3
<1>18. /\ HeapContained(chain, held, StackScopes, Flagged)
       /\ StackContained(chain, held, StackScopes, LiveScopes, Flagged)
       /\ LiveChained(chain, StackScopes, LiveScopes)
  BY <1>4 DEF Contained
<1>19. \A t \in DOMAIN scopes' : \A x \in DOMAIN scopes'[t].atoms :
         Refs(chain, held, scopes'[t].atoms[x]) \cap StackScopes \subseteq chain[t] \cup Flagged'
  BY <1>10, <1>12, <1>17, <1>18 DEF HeapContained
<1>20. HeapContained(chain, held, StackScopes, Flagged)'
  BY <1>9, <1>13, <1>17, <1>18, <1>19 DEF HeapContained
<1>21. LiveScopes \subseteq StackScopes
  BY <1>1, LiveBelow
<1>22. StackContained(chain, held, StackScopes, LiveScopes, Flagged)'
  BY <1>9, <1>13, <1>14, <1>17, <1>18 DEF StackContained, InPlace
<1>23. LiveChained(chain, StackScopes, LiveScopes)'
  BY <1>13, <1>14, <1>17, <1>18, <1>21 DEF LiveChained
<1>24. Contained(chain, held)'
  BY <1>20, <1>22, <1>23 DEF Contained
<1>25. Traced(chain, held)'
  <2>1. \A t \in DOMAIN scopes : scopes'[t].next = scopes[t].next
    BY <1>10, <1>11
  <2> QED
    BY <1>1, <1>4, <1>9, <1>10, <2>1, TracedSame
<1> QED
  BY <1>24, <1>25 DEF Tracked

LEMMA StoreLocalTracked ==
  ASSUME BalancedCode, ScopedCode, IInv, TypeOK', OuterFrameAlive, EscapesSeen, NEW o, Owned(o),
         NEW chain, NEW held, Tracked(chain, held), StoreLocal
  PROVE  Tracked(chain, held)'
BY StoreOnStackTracked, StoreOnHeapTracked

-----------------------------------------------------------------------------
(* Calls and returns.                                                      *)

\* A call: the scope and the flag of the caller go into the saved state.
LEMMA CallRuntimeLambdaTracked ==
  ASSUME BalancedCode, IInv, TypeOK', NEW chain, NEW held, Tracked(chain, held), CallRuntimeLambda
  PROVE  Tracked(chain, held)'
<1>1. /\ TypeOK /\ status = "running" /\ status' = "running" /\ Len(stack) \in Nat /\ stack \in Seq(Atom)
  BY DEF CallRuntimeLambda, Executing, IInv, TypeOK
<1>2. PICK locals, k, state :
        /\ locals = Compiled(Callee).var_count
        /\ k = Len(stack) + locals + 1
        /\ state = InterpreterState(frame_index, ip, arg_count, scope_escaped, frame_scope)
  OBVIOUS
<1>3. /\ locals \in Nat /\ k \in Nat /\ Len(stack) < k
      /\ IsType(state, "interpreter_state")
      /\ Len(stack') = k /\ stack' \in Seq(Atom) /\ stack'[k] = state
      /\ \A x \in 1..Len(stack) : stack'[x] = stack[x]
      /\ \A x \in (Len(stack) + 1)..(k - 1) : stack'[x] = Nil
  BY <1>1, <1>2, CallPushes
<1>4. /\ \A x \in DOMAIN stack' : x \in DOMAIN stack \/ stack'[x] = Nil \/ x = k
      /\ \A x \in DOMAIN stack : x \in DOMAIN stack' /\ stack'[x] = stack[x] /\ x # k
      /\ k \in DOMAIN stack'
  <2>1. DOMAIN stack = 1..Len(stack) /\ DOMAIN stack' = 1..k
    BY <1>1, <1>3
  <2> QED
    BY <1>1, <1>3, <2>1
<1>5. UNCHANGED <<env, scopes, pairs, result>> /\ frame_scope' = NULL /\ scope_escaped' = FALSE
  BY DEF CallRuntimeLambda, memory
<1>6. state.frame_scope = frame_scope /\ state.scope_escaped = scope_escaped
  BY <1>2 DEF InterpreterState
<1>7. /\ \A x \in DOMAIN stack' : IsState(x)' <=> x = k \/ (x \in DOMAIN stack /\ IsState(x))
  BY <1>3, <1>4 DEF IsState, IsType, Nil
<1>8. ActivationsMean /\ ActivationsMean'
  BY LiveMeans, PTL
<1>9. \A s : s \in LiveScopes' <=> s \in LiveScopes
  <2>1. ASSUME NEW s
        PROVE  (\E x \in DOMAIN stack' : IsState(x)' /\ stack'[x].frame_scope = s)
                 <=> s = frame_scope \/ \E x \in DOMAIN stack : IsState(x) /\ stack[x].frame_scope = s
    BY <1>3, <1>4, <1>6, <1>7
  <2>2. \A s : s \in LiveScopes' <=>
                 s # NULL /\ (s = NULL \/ \E x \in DOMAIN stack' : IsState(x)' /\ stack'[x].frame_scope = s)
    BY <1>1, <1>5, <1>8 DEF ActivationsMean
  <2>3. \A s : s \in LiveScopes <=>
                 s # NULL /\ (s = frame_scope \/ \E x \in DOMAIN stack : IsState(x) /\ stack[x].frame_scope = s)
    BY <1>1, <1>8 DEF ActivationsMean
  <2> QED
    BY <2>1, <2>2, <2>3
<1>10. \A s : s \in Flagged' <=> s \in Flagged
  <2>1. ASSUME NEW s
        PROVE  (\E x \in DOMAIN stack' : IsState(x)' /\ stack'[x].scope_escaped /\ stack'[x].frame_scope = s)
                 <=> (scope_escaped /\ s = frame_scope)
                       \/ \E x \in DOMAIN stack :
                            IsState(x) /\ stack[x].scope_escaped /\ stack[x].frame_scope = s
    BY <1>3, <1>4, <1>6, <1>7
  <2>2. \A s : s \in Flagged' <=>
                 s # NULL /\ \E x \in DOMAIN stack' :
                               IsState(x)' /\ stack'[x].scope_escaped /\ stack'[x].frame_scope = s
    BY <1>1, <1>5, <1>8 DEF ActivationsMean
  <2>3. \A s : s \in Flagged <=>
                 s # NULL /\ ((scope_escaped /\ s = frame_scope)
                                \/ \E x \in DOMAIN stack :
                                     IsState(x) /\ stack[x].scope_escaped /\ stack[x].frame_scope = s)
    BY <1>1, <1>8 DEF ActivationsMean
  <2> QED
    BY <2>1, <2>2, <2>3
<1>11. LiveScopes' = LiveScopes /\ Flagged' = Flagged
  BY <1>9, <1>10
<1>12. ASSUME NEW x \in DOMAIN stack', NEW s \in Refs(chain, held, stack'[x]) \cap StackScopes
       PROVE  InPlace(s, x, LiveScopes, Flagged')
  <2>1. x \in DOMAIN stack
    <3>1. Refs(chain, held, Nil) = {} /\ Refs(chain, held, state) = {}
      BY <1>3, PlainRefs DEF Nil, IsType
    <3> QED
      BY <1>3, <1>4, <1>12, <3>1
  <2>2. InPlace(s, x, LiveScopes, Flagged)
    BY <1>4, <1>12, <2>1 DEF Tracked, Contained, StackContained
  <2> QED
    BY <1>11, <2>2
<1>13. UNCHANGED <<env, scopes, result>>
  BY <1>5
<1>14. Contained(chain, held)'
  BY <1>11, <1>12, <1>13, SameMemoryContained DEF Tracked
<1>15. Traced(chain, held)'
  BY <1>1, <1>5, TracedSame DEF Tracked
<1> QED
  BY <1>14, <1>15 DEF Tracked

\* No waiting activation has the scope of the running one.
LEMMA WaitingScope ==
  ASSUME BalancedCode, TypeOK, FrameLayout, status = "running",
         NEW k \in DOMAIN stack, IsState(k), stack[k].frame_scope # NULL
  PROVE  stack[k].frame_scope # frame_scope
<1>1. SavedFrame(k) /\ CallerFrame(k) \in Nat /\ CallerFrame(k) < frame_index /\ frame_index \in Nat
  BY SavedFrameFacts, CallerBelow DEF TypeOK
<1>2. OwnScope(CallerFrame(k), stack[k].arg_count, stack[k].frame_scope, stack[k].scope_escaped)
  BY <1>1 DEF SavedFrame, CallerFrame
<1>3. scopes[stack[k].frame_scope].frame_index = CallerFrame(k)
  BY <1>2 DEF OwnScope
<1>4. frame_scope # NULL => scopes[frame_scope].frame_index = frame_index
  BY RunningScope
<1> QED
  BY <1>1, <1>3, <1>4

\* The saved states are those of the waiting activations below the frame that is
\* taken off, and the one in it.
LEMMA StatesOfReturn ==
  ASSUME BalancedCode, TypeOK, FrameLayout, status = "running", Executable, Current.op = "RETURN",
         NEW x \in DOMAIN stack, IsState(x)
  PROVE  x \in 1..(frame_index - 1) \/ x = OwnStateSlot
<1>1. PICK f, k : f = frame_index /\ k = OwnStateSlot
  OBVIOUS
<1>2. f \in Nat /\ k \in Nat /\ 0 < f /\ f < k
  BY <1>1, ReturnFacts
<1>3. x \in Nat /\ x <= k /\ x > 0
  BY <1>1, CallerBelow DEF TypeOK
<1>4. x # f
  <2>1. stack[f] = rl /\ IsType(rl, "runtime_lambda")
    BY <1>1 DEF FrameLayout, CurrentFrame, TypeOK
  <2> QED
    BY <2>1 DEF IsState, IsType
<1>5. ~(f < x /\ x < k)
  BY <1>1, <1>3, RunningFrameIsFrame, VariableApart
<1> QED
  BY <1>1, <1>2, <1>3, <1>4, <1>5

\* One activation less.
LEMMA ReturnActivations ==
  ASSUME BalancedCode, IInv, TypeOK', Return
  PROVE  /\ \A s : s \in LiveScopes' <=> s \in LiveScopes /\ s # frame_scope
         /\ \A s : s \in Flagged' <=> s \in Flagged /\ s # frame_scope
<1>1. /\ Current.op = "RETURN" /\ TypeOK /\ FrameLayout /\ status = "running" /\ Executable
      /\ stack \in Seq(Atom) /\ stack' \in Seq(Atom)
  BY DEF Return, Executing, IInv, TypeOK
<1>2. PICK k, n, value : k = OwnStateSlot /\ n = frame_index - 1 /\ value = Top(0)
  OBVIOUS
<1>3. PICK lower \in Seq(Atom) : lower = Pop(FrameSize + 2)
  BY <1>1, ReturnFacts
<1>4. /\ Len(stack) = k + 1 /\ Top(1) = stack[k]
      /\ ~IsType(value, "interpreter_state") /\ value \in Atom
      /\ k \in Nat /\ n \in Nat /\ n < k
      /\ Len(lower) = n /\ \A x \in 1..n : lower[x] = stack[x]
  BY <1>1, <1>2, <1>3, ReturnFacts
<1>5. DOMAIN stack = 1..(k + 1)
  BY <1>1, <1>4
<1>6. \A x \in DOMAIN stack : IsState(x) => x \in 1..n \/ x = k
  BY <1>1, <1>2, StatesOfReturn
<1>7. \A x \in DOMAIN stack : IsState(x) /\ stack[x].frame_scope # NULL => stack[x].frame_scope # frame_scope
  BY <1>1, WaitingScope
<1>8. ActivationsMean /\ ActivationsMean'
  BY LiveMeans, PTL
<1>9. CASE ~IsType(Top(1), "interpreter_state")
  <2>1. status' = "returned" /\ stack' = << >> /\ stack' = lower
    BY <1>3, <1>9, ReturnFromEvalInv DEF Return
  <2>2. \A x \in DOMAIN stack : ~IsState(x)
    <3>1. n = 0
      BY <1>4, <2>1
    <3>2. \A x : x \notin 1..n
      BY <3>1
    <3> QED
      BY <1>4, <1>6, <1>9, <3>2 DEF IsState
  <2>3. \A s : s \notin LiveScopes' /\ s \notin Flagged'
    BY <1>8, <2>1 DEF ActivationsMean
  <2>4. \A s : (s \in LiveScopes => s = frame_scope) /\ (s \in Flagged => s = frame_scope)
    BY <1>1, <1>8, <2>2 DEF ActivationsMean
  <2> QED
    BY <2>3, <2>4
<1>10. CASE IsType(Top(1), "interpreter_state")
  <2>1. k \in DOMAIN stack /\ IsState(k)
    BY <1>4, <1>5, <1>10 DEF IsState
  <2>2. /\ stack' = Append(lower, value) /\ status' = "running"
        /\ frame_scope' = stack[k].frame_scope /\ scope_escaped' = stack[k].scope_escaped
    BY <1>1, <1>2, <1>3, <1>4, <1>10 DEF Return
  <2>3. /\ Len(stack') = n + 1 /\ stack'[n + 1] = value
        /\ \A x \in 1..n : stack'[x] = stack[x]
    BY <1>4, <2>2
  <2>4. DOMAIN stack' = 1..(n + 1)
    BY <1>1, <2>3
  <2>5. /\ \A x \in 1..n : x \in DOMAIN stack /\ x \in DOMAIN stack'
        /\ \A x \in DOMAIN stack' : x \in 1..n \/ x = n + 1
    BY <1>4, <1>5, <2>4
  <2>6. \A x \in DOMAIN stack' : IsState(x)' <=> x \in 1..n /\ IsState(x)
    BY <1>4, <2>3, <2>5 DEF IsState
  <2>7. ASSUME NEW s
        PROVE  (\E x \in DOMAIN stack : IsState(x) /\ stack[x].frame_scope = s)
                 <=> s = frame_scope' \/ \E x \in DOMAIN stack' : IsState(x)' /\ stack'[x].frame_scope = s
    BY <1>6, <2>1, <2>2, <2>3, <2>5, <2>6
  <2>8. ASSUME NEW s
        PROVE  (\E x \in DOMAIN stack : IsState(x) /\ stack[x].scope_escaped /\ stack[x].frame_scope = s)
                 <=> (scope_escaped' /\ s = frame_scope')
                       \/ \E x \in DOMAIN stack' :
                            IsState(x)' /\ stack'[x].scope_escaped /\ stack'[x].frame_scope = s
    BY <1>6, <2>1, <2>2, <2>3, <2>5, <2>6
  <2>9. ASSUME NEW s
        PROVE  s \in LiveScopes' <=> s \in LiveScopes /\ s # frame_scope
    <3>1. s \in LiveScopes' <=> s # NULL /\ \E x \in DOMAIN stack : IsState(x) /\ stack[x].frame_scope = s
      BY <1>8, <2>2, <2>7 DEF ActivationsMean
    <3>2. s \in LiveScopes <=> s # NULL /\ (s = frame_scope
                                  \/ \E x \in DOMAIN stack : IsState(x) /\ stack[x].frame_scope = s)
      BY <1>1, <1>8 DEF ActivationsMean
    <3> QED
      BY <1>7, <3>1, <3>2
  <2>10. ASSUME NEW s
         PROVE  s \in Flagged' <=> s \in Flagged /\ s # frame_scope
    <3>1. s \in Flagged' <=>
            s # NULL /\ \E x \in DOMAIN stack :
                          IsState(x) /\ stack[x].scope_escaped /\ stack[x].frame_scope = s
      <4>1. s \in Flagged' <=>
              s # NULL /\ ((scope_escaped' /\ s = frame_scope')
                             \/ \E x \in DOMAIN stack' :
                                  IsState(x)' /\ stack'[x].scope_escaped /\ stack'[x].frame_scope = s)
        BY <1>8, <2>2 DEF ActivationsMean
      <4> QED
        BY <2>8, <4>1
    <3>2. s \in Flagged <=>
            s # NULL /\ ((scope_escaped /\ s = frame_scope)
                           \/ \E x \in DOMAIN stack :
                                IsState(x) /\ stack[x].scope_escaped /\ stack[x].frame_scope = s)
      BY <1>1, <1>8 DEF ActivationsMean
    <3> QED
      BY <1>7, <3>1, <3>2
  <2> QED
    BY <2>9, <2>10
<1> QED
  BY <1>9, <1>10

\* The frame is copied if it escapes, and its scope stands on the heap then.
LEMMA ReturnMemory ==
  ASSUME BalancedCode, IInv, Return
  PROVE  /\ DOMAIN scopes' = DOMAIN scopes /\ Len(scopes') = Len(scopes)
         /\ \A t \in DOMAIN scopes : scopes'[t].next = scopes[t].next
         /\ \A u : u \in StackScopes' <=> u \in StackScopes /\ (EscapedBy(Top(0)) => u # frame_scope)
         /\ \A u \in StackScopes' : scopes'[u] = scopes[u]
         /\ \A t \in DOMAIN scopes' : \A x \in DOMAIN scopes'[t].atoms :
              \/ x \in DOMAIN scopes[t].atoms /\ scopes'[t].atoms[x] = scopes[t].atoms[x]
              \/ /\ t = frame_scope /\ EscapedBy(Top(0))
                 /\ x \in DOMAIN FrameAtoms /\ scopes'[t].atoms[x] = FrameAtoms[x]
<1>1. /\ Current.op = "RETURN" /\ TypeOK /\ status = "running" /\ Executable
      /\ FrameLayout /\ scopes \in Seq(Scope)
  BY DEF Return, Executing, IInv, TypeOK
<1>2. CASE ~EscapedBy(Top(0))
  <2>1. scopes' = scopes
    BY <1>2 DEF Return
  <2> QED
    BY <1>2, <2>1 DEF StackScopes
<1>3. CASE EscapedBy(Top(0))
  <2>1. PICK s, frame : s = frame_scope /\ frame = FrameAtoms
    OBVIOUS
  <2>2. OwnScope(frame_index, arg_count, frame_scope, scope_escaped)
    BY <1>1 DEF FrameLayout, CurrentFrame
  <2>3. s \in DOMAIN scopes
    BY <1>3, <2>1, <2>2 DEF OwnScope, EscapedBy
  <2>4. PICK copy : copy = Captured(scopes[s], frame)
    OBVIOUS
  <2>5. scopes' = [scopes EXCEPT ![s] = copy]
    BY <1>3, <2>1, <2>4 DEF Return
  <2>6. /\ DOMAIN scopes' = DOMAIN scopes /\ Len(scopes') = Len(scopes)
        /\ scopes'[s] = copy
        /\ \A t \in DOMAIN scopes : t # s => scopes'[t] = scopes[t]
    BY <1>1, <2>3, <2>5
  <2>7. copy.atoms = frame /\ copy.type = "heap" /\ copy.next = scopes[s].next
    <3>1. scopes[s] \in Scope
      BY <1>1, <2>3
    <3>2. {"type", "next", "arg_count", "frame_index", "atoms"} \subseteq DOMAIN scopes[s]
      BY <3>1 DEF Scope, ScopeOver, EnvScope
    <3> QED
      BY <2>4, <3>2 DEF Captured
  <2>8. \A u : u \in StackScopes' <=> u \in StackScopes /\ u # s
    BY <2>6, <2>7 DEF StackScopes
  <2>9. \A u \in StackScopes' : scopes'[u] = scopes[u]
    BY <2>6, <2>8 DEF StackScopes
  <2>10. \A t \in DOMAIN scopes : scopes'[t].next = scopes[t].next
    BY <2>6, <2>7
  <2>11. \A t \in DOMAIN scopes' : \A x \in DOMAIN scopes'[t].atoms :
           \/ x \in DOMAIN scopes[t].atoms /\ scopes'[t].atoms[x] = scopes[t].atoms[x]
           \/ t = s /\ x \in DOMAIN frame /\ scopes'[t].atoms[x] = frame[x]
    BY <2>6, <2>7
  <2> QED
    BY <1>3, <2>1, <2>6, <2>8, <2>9, <2>10, <2>11
<1> QED
  BY <1>2, <1>3

\* A frame that is taken off is copied first, if anything else refers to it.
LEMMA ReturnTracked ==
  ASSUME BalancedCode, IInv, TypeOK', EscapesSeen, NEW o, Owned(o),
         NEW chain, NEW held, Tracked(chain, held), Return
  PROVE  Tracked(chain, held)'
<1>1. /\ Current.op = "RETURN" /\ TypeOK /\ FrameLayout /\ status = "running" /\ Executable
      /\ stack \in Seq(Atom) /\ stack' \in Seq(Atom)
  BY DEF Return, Executing, IInv, TypeOK
<1>2. PICK fs, n, value, copied :
        fs = frame_scope /\ n = frame_index - 1 /\ value = Top(0) /\ copied = EscapedBy(Top(0))
  OBVIOUS
<1>3. Traced(chain, held) /\ Contained(chain, held)
  BY DEF Tracked
<1>4. /\ \A s : s \in LiveScopes' <=> s \in LiveScopes /\ s # fs
      /\ \A s : s \in Flagged' <=> s \in Flagged /\ s # fs
  BY <1>2, ReturnActivations
<1>5. /\ DOMAIN scopes' = DOMAIN scopes /\ Len(scopes') = Len(scopes)
      /\ \A t \in DOMAIN scopes : scopes'[t].next = scopes[t].next
      /\ \A u : u \in StackScopes' <=> u \in StackScopes /\ (copied => u # fs)
      /\ \A u \in StackScopes' : scopes'[u] = scopes[u]
      /\ \A t \in DOMAIN scopes' : \A x \in DOMAIN scopes'[t].atoms :
           \/ x \in DOMAIN scopes[t].atoms /\ scopes'[t].atoms[x] = scopes[t].atoms[x]
           \/ /\ t = fs /\ copied
              /\ x \in DOMAIN FrameAtoms /\ scopes'[t].atoms[x] = FrameAtoms[x]
  BY <1>2, ReturnMemory
<1>6. env' = env /\ pairs' = pairs
  BY DEF Return
<1>7. ~copied => fs \notin Flagged
  <2>1. \A s : s \in Flagged <=>
           s # NULL /\ ((scope_escaped /\ s = frame_scope)
                          \/ \E k \in DOMAIN stack :
                               IsState(k) /\ stack[k].scope_escaped /\ stack[k].frame_scope = s)
    BY <1>1, LiveMeans DEF ActivationsMean
  <2>2. \A k \in DOMAIN stack : IsState(k) /\ stack[k].frame_scope # NULL => stack[k].frame_scope # frame_scope
    BY <1>1, WaitingScope
  <2>3. ~copied => ~scope_escaped
    BY <1>2 DEF EscapedBy
  <2> QED
    BY <1>2, <2>1, <2>2, <2>3
<1>8. \A s \in StackScopes' : s \in StackScopes /\ (s \in Flagged => s \in Flagged')
  BY <1>4, <1>5, <1>7
<1>9. /\ Fits(o, Len(pairs), value)
      /\ Refs(chain, held, value) \cap StackScopes \subseteq LiveScopes
  <2>1. 0 \in 0..(Operands(Current) - 1)
    BY <1>1 DEF Operands, ArithmeticOp, CompareOp, PartOp
  <2> QED
    BY <1>1, <1>2, <2>1, OperandRefs
<1>10. Refs(chain, held, value) \cap StackScopes' \subseteq LiveScopes'
  <2>1. ~copied /\ fs \in StackScopes => fs \notin Refs(chain, held, value)
    <3>1. ScopesOf(value) = Refs(chain, held, value)
      BY <1>1, <1>3, <1>9, FramesInIsRefs
    <3>2. fs \in StackScopes => fs # NULL
      <4>1. DOMAIN scopes = 1..Len(scopes)
        BY <1>1 DEF TypeOK
      <4> QED
        BY <4>1 DEF StackScopes, NULL
    <3>3. ~copied /\ fs # NULL => ~Mentions(scopes, pairs, value, fs)
      BY <1>2 DEF EscapedBy
    <3> QED
      BY <3>1, <3>2, <3>3 DEF ScopesOf
  <2> QED
    BY <1>4, <1>5, <1>9, <2>1
<1>11. frame_index \in Nat /\ n \in Nat /\ frame_index = n + 1
  BY <1>1, <1>2, ReturnFacts
<1>12. \A s \in LiveScopes :
         /\ scopes[s].frame_index \in Nat
         /\ scopes[s].frame_index <= n + 1
         /\ s # fs => scopes[s].frame_index < n + 1
         /\ s = fs => scopes[s].frame_index = n + 1
  <2>1. \A s \in LiveScopes : s # NULL
    BY <1>1, LiveMeans DEF ActivationsMean
  <2> QED
    BY <1>1, <1>2, <1>11, <2>1, LiveBelow, RunningScope
<1>13. ASSUME NEW t \in DOMAIN scopes', NEW x \in DOMAIN scopes'[t].atoms
       PROVE  Refs(chain, held, scopes'[t].atoms[x]) \cap StackScopes' \subseteq chain[t] \cup Flagged'
  <2>1. CASE x \in DOMAIN scopes[t].atoms /\ scopes'[t].atoms[x] = scopes[t].atoms[x]
    <3>1. Refs(chain, held, scopes[t].atoms[x]) \cap StackScopes \subseteq chain[t] \cup Flagged
      BY <1>3, <1>5, <2>1 DEF Contained, HeapContained
    <3> QED
      BY <1>8, <2>1, <3>1
  <2>2. CASE t = fs /\ copied /\ x \in DOMAIN FrameAtoms /\ scopes'[t].atoms[x] = FrameAtoms[x]
    <3>1. PICK a : a = FrameAtoms[x]
      OBVIOUS
    <3>2. Fits(o, Len(pairs), a)
      BY <1>1, <2>2, <3>1, FrameAtomsFit
    <3>3. FramesIn(a) \subseteq ChainOf(frame_scope)
      BY <1>1, <1>2, <2>2, <3>1 DEF EscapesSeen
    <3>4. FramesIn(a) = Refs(chain, held, a) \cap StackScopes
      BY <1>1, <1>3, <3>2, FramesInIsRefs
    <3>5. t \in DOMAIN scopes
      BY <1>5
    <3>6. ChainOf(t) = chain[t]
      BY <1>1, <1>3, <3>5, ChainOfIsChain
    <3> QED
      BY <1>2, <1>8, <2>2, <3>1, <3>3, <3>4, <3>6
  <2> QED
    BY <1>5, <2>1, <2>2
<1>14. Refs(chain, held, result') \cap StackScopes' \subseteq Flagged'
  <2>1. CASE ~IsType(Top(1), "interpreter_state")
    <3>1. status' = "returned" /\ result' = value
      BY <1>2, <2>1 DEF Return
    <3>2. LiveScopes' = {}
      BY <3>1 DEF LiveScopes
    <3> QED
      BY <1>10, <3>1, <3>2
  <2>2. CASE IsType(Top(1), "interpreter_state")
    <3>1. result' = result
      BY <2>2 DEF Return
    <3>2. Refs(chain, held, result) \cap StackScopes \subseteq Flagged
      BY <1>3 DEF Contained, HeapContained
    <3> QED
      BY <1>8, <3>1, <3>2
  <2> QED
    BY <2>1, <2>2
<1>15. \A i \in DOMAIN env' : Refs(chain, held, env'[i].value) \cap StackScopes' \subseteq Flagged'
  <2>1. \A i \in DOMAIN env : Refs(chain, held, env[i].value) \cap StackScopes \subseteq Flagged
    BY <1>3 DEF Contained, HeapContained
  <2> QED
    BY <1>6, <1>8, <2>1
<1>16. HeapContained(chain, held, StackScopes, Flagged)'
  BY <1>13, <1>14, <1>15 DEF HeapContained
<1>17. \A x \in DOMAIN stack' :
         \/ x \in 1..n /\ x \in DOMAIN stack /\ stack'[x] = stack[x]
         \/ x = n + 1 /\ stack'[x] = value
  <2>1. PICK lower \in Seq(Atom) : lower = Pop(FrameSize + 2)
    BY <1>1, ReturnFacts
  <2>2. /\ Len(lower) = n /\ \A x \in 1..n : lower[x] = stack[x]
        /\ n < Len(stack) /\ value \in Atom
    <3>1. PICK k : k = OwnStateSlot
      OBVIOUS
    <3>2. k \in Nat /\ Len(stack) = k + 1 /\ frame_index < k
      BY <1>1, <3>1, ReturnFacts
    <3>3. n < Len(stack)
      BY <1>11, <3>2
    <3> QED
      BY <1>1, <1>2, <2>1, <3>3, ReturnFacts
  <2>3. stack' = lower \/ stack' = Append(lower, value)
    BY <1>2, <2>1 DEF Return
  <2>4. 1..n \subseteq DOMAIN stack
    BY <1>1, <1>11, <2>2
  <2> QED
    BY <1>11, <2>2, <2>3, <2>4
<1>18. ASSUME NEW x \in DOMAIN stack', NEW s \in Refs(chain, held, stack'[x]) \cap StackScopes'
       PROVE  s \in LiveScopes' /\ (s \in Flagged' \/ scopes'[s].frame_index <= x)
  <2>1. CASE x \in 1..n /\ x \in DOMAIN stack /\ stack'[x] = stack[x]
    <3>1. s \in LiveScopes /\ (s \in Flagged \/ scopes[s].frame_index <= x)
      BY <1>3, <1>8, <1>18, <2>1 DEF Contained, StackContained, InPlace
    <3>2. s # fs
      BY <1>5, <1>7, <1>11, <1>12, <1>18, <2>1, <3>1
    <3> QED
      BY <1>4, <1>5, <1>18, <3>1, <3>2
  <2>2. CASE x = n + 1 /\ stack'[x] = value
    <3>1. s \in LiveScopes' /\ s \in LiveScopes
      BY <1>4, <1>10, <1>18, <2>2
    <3> QED
      BY <1>5, <1>12, <1>18, <2>2, <3>1
  <2> QED
    BY <1>17, <2>1, <2>2
<1>19. StackContained(chain, held, StackScopes, LiveScopes, Flagged)'
  BY <1>18 DEF StackContained, InPlace
<1>20. ASSUME NEW s \in LiveScopes', NEW u \in chain[s] \cap StackScopes'
       PROVE  u \in LiveScopes' /\ scopes'[u].frame_index <= scopes'[s].frame_index
  <2>1. s \in LiveScopes /\ s # fs
    BY <1>4
  <2>2. u \in LiveScopes /\ scopes[u].frame_index <= scopes[s].frame_index
    BY <1>3, <1>8, <2>1 DEF Contained, LiveChained
  <2>3. u # fs
    BY <1>11, <1>12, <2>1, <2>2
  <2>4. s \in StackScopes'
    BY <1>1, <1>5, <2>1, LiveBelow
  <2> QED
    BY <1>4, <1>5, <2>2, <2>3, <2>4
<1>21. LiveChained(chain, StackScopes, LiveScopes)'
  BY <1>20 DEF LiveChained
<1>22. Contained(chain, held)'
  BY <1>16, <1>19, <1>21 DEF Contained
<1>23. Traced(chain, held)'
  BY <1>1, <1>3, <1>5, <1>6, TracedSame
<1> QED
  BY <1>22, <1>23 DEF Tracked

-----------------------------------------------------------------------------
(* The top level.                                                          *)

NoFrames(chain, held, onstack, atom) == Refs(chain, held, atom) \cap onstack = {}

\* Where nothing runs, nothing refers to a frame on the stack, but from copied
\* frames to the ones around them.
LEMMA IdleContained ==
  ASSUME TypeOK, status # "running", NEW chain, NEW held, Contained(chain, held)
  PROVE  /\ \A i \in DOMAIN env : NoFrames(chain, held, StackScopes, env[i].value)
         /\ NoFrames(chain, held, StackScopes, result)
         /\ Flagged = {} /\ LiveScopes = {}
<1>1. Flagged = {} /\ LiveScopes = {}
  BY DEF Flagged, LiveScopes
<1> QED
  BY <1>1 DEF Contained, HeapContained, NoFrames

LEMMA QuietContained ==
  ASSUME NEW chain, NEW held,
         LiveScopes' = {}, Flagged' = {},
         \A i \in DOMAIN env' : NoFrames(chain, held, StackScopes', env'[i].value),
         NoFrames(chain, held, StackScopes', result'),
         \A k \in DOMAIN stack' : NoFrames(chain, held, StackScopes', stack'[k]),
         \A t \in DOMAIN scopes' : \A i \in DOMAIN scopes'[t].atoms :
           Refs(chain, held, scopes'[t].atoms[i]) \cap StackScopes' \subseteq chain[t]
  PROVE  Contained(chain, held)'
<1>1. HeapContained(chain, held, StackScopes, Flagged)'
  BY DEF HeapContained, NoFrames
<1>2. StackContained(chain, held, StackScopes, LiveScopes, Flagged)'
  BY DEF StackContained, NoFrames
<1>3. LiveChained(chain, StackScopes, LiveScopes)'
  BY DEF LiveChained
<1> QED
  BY <1>1, <1>2, <1>3 DEF Contained

\* What bci_eval puts on the stack before its loop.
LEMMA EnterLoopStack ==
  ASSUME stack = << >>, NEW S, NEW lambda \in S, Nil \in S, Compiled(lambda).var_count \in Nat,
         NEW actuals \in Seq(S), EnterLoop(lambda, actuals)
  PROVE  stack' \in Seq(S)
<1>1. Compiled(lambda).var_count + 1 \in Nat
  OBVIOUS
<1>2. PICK nils : nils = Nils(Compiled(lambda).var_count + 1)
  OBVIOUS
<1>3. nils \in Seq(S)
  <2>1. \A n \in Nat : Nils(n) \in Seq(S)
    BY DEF Nils
  <2> QED
    BY <1>1, <1>2, <2>1
<1>4. PICK base \in Seq(S) : base = Append(stack, lambda)
  <2>1. Append(stack, lambda) \in Seq(S)
    OBVIOUS
  <2> QED
    BY <2>1
<1>5. stack' = base \o actuals \o nils \/ stack' = base \o actuals
  BY <1>2, <1>4 DEF EnterLoop
<1>6. base \o actuals \in Seq(S)
  OBVIOUS
<1>7. (base \o actuals) \o nils \in Seq(S)
  BY <1>3, <1>6
<1> QED
  BY <1>5, <1>6, <1>7

LEMMA EnterLoopTracked ==
  ASSUME stack = << >>, NEW chain, NEW held,
         NEW lambda \in Value, Compiled(lambda).var_count \in Nat,
         NoFrames(chain, held, StackScopes', lambda),
         NEW actuals \in Seq(Value),
         \A i \in DOMAIN actuals : NoFrames(chain, held, StackScopes', actuals[i]),
         EnterLoop(lambda, actuals)
  PROVE  /\ LiveScopes' = {} /\ Flagged' = {}
         /\ \A k \in DOMAIN stack' : NoFrames(chain, held, StackScopes', stack'[k])
         /\ NoFrames(chain, held, StackScopes', result')
<1> DEFINE S == {a \in Value : NoFrames(chain, held, StackScopes', a)}
<1>1. NoFrames(chain, held, StackScopes', Nil)
  BY PlainRefs DEF NoFrames, Nil, IsType
<1>2. lambda \in S /\ Nil \in S /\ actuals \in Seq(S)
  BY <1>1 DEF Nil, Value, ValueOver
<1>3. stack' \in Seq(S)
  <2> HIDE DEF S
  <2> QED
    BY <1>2, EnterLoopStack
<1>4. \A k \in DOMAIN stack' : stack'[k] \in S
  <2> HIDE DEF S
  <2> QED
    BY <1>3
<1>5. \A k \in DOMAIN stack' : ~IsState(k)'
  BY <1>4 DEF IsState, Value, ValueOver, IsType, Nil, True, False
<1>6. frame_scope' = NULL /\ result' = Nil /\ scope_escaped' = FALSE
  BY DEF EnterLoop
<1>7. LiveScopes' = {} /\ Flagged' = {}
  <2>1. ActivationsMean /\ ActivationsMean'
    BY LiveMeans, PTL
  <2>2. \A s : s \notin LiveScopes' /\ s \notin Flagged'
    BY <1>5, <1>6, <2>1 DEF ActivationsMean
  <2> QED
    BY <2>2
<1> QED
  BY <1>1, <1>4, <1>6, <1>7

\* A scope with nothing but the environment in it.
LEMMA EnvScopeTracked ==
  ASSUME TypeOK, TypeOK', NEW o, Owned(o), NEW c1, NEW held, Tracked(c1, held), status # "running",
         scopes' = Append(scopes, EnvScope), pairs' = pairs, NEW id
  PROVE  \E c2 :
           /\ Traced(c2, held)'
           /\ NoFrames(c2, held, StackScopes', RuntimeLambda(id, Len(scopes) + 1))
           /\ \A i \in DOMAIN env : NoFrames(c2, held, StackScopes', env[i].value)
           /\ NoFrames(c2, held, StackScopes', result)
           /\ \A t \in DOMAIN scopes' : \A i \in DOMAIN scopes'[t].atoms :
                Refs(c2, held, scopes'[t].atoms[i]) \cap StackScopes' \subseteq c2[t]
<1>1. PICK scope, s : scope = EnvScope /\ s = Len(scopes) + 1
  OBVIOUS
<1>2. scope.type = "env" /\ scope.next = NULL /\ scope.atoms = << >> /\ scopes' = Append(scopes, scope)
  BY <1>1 DEF EnvScope
<1>3. Traced(c1, held) /\ HeapContained(c1, held, StackScopes, Flagged) /\ Flagged = {}
  BY IdleContained DEF Tracked, Contained
<1>4. PICK c2 : c2 = Append(c1, ChainFrom(c1, s, scope.next))
  OBVIOUS
<1>5. /\ Extends(c1, c2) /\ Extends(held, held)
      /\ c2[s] = ChainFrom(c1, s, scope.next)
      /\ Traced(c2, held)'
  BY <1>1, <1>2, <1>3, <1>4, TracedScope
<1>6. /\ \A u : u \in StackScopes' <=> u \in StackScopes
      /\ s \notin StackScopes
  <2>1. /\ \A u \in DOMAIN scopes : u # s
        /\ \A u : u \in StackScopes' <=> u \in StackScopes \/ (u = s /\ scope.type = "stack")
        /\ StackScopes \subseteq DOMAIN scopes
    BY <1>1, <1>2, <1>3, <1>5, ScopeAdded
  <2> QED
    BY <1>2, <2>1
<1>7. PICK none : none = {}
  OBVIOUS
<1>8. /\ \A t \in DOMAIN scopes' : \A i \in DOMAIN scopes'[t].atoms :
              Refs(c2, held, scopes'[t].atoms[i]) \cap StackScopes' \subseteq c2[t] \cup none
      /\ \A i \in DOMAIN env : Refs(c2, held, env[i].value) \cap StackScopes' \subseteq none
      /\ Refs(c2, held, result) \cap StackScopes' \subseteq none
  <2>1. HeapContained(c1, held, StackScopes, none)
    BY <1>3, <1>7
  <2>2. none \subseteq none
    OBVIOUS
  <2> QED
    BY <1>2, <1>3, <1>5, <2>1, <2>2, HeapWithScope
<1>9. NoFrames(c2, held, StackScopes', RuntimeLambda(id, Len(scopes) + 1))
  <2>1. Refs(c2, held, RuntimeLambda(id, s)) = {s}
    BY <1>2, <1>5 DEF Refs, RuntimeLambda, IsType, ChainFrom
  <2> QED
    BY <1>1, <1>6, <2>1 DEF NoFrames
<1> QED
  BY <1>5, <1>7, <1>8, <1>9 DEF NoFrames

LEMMA EnvDefNoFrames ==
  ASSUME NEW e \in Seq(Binding), NEW chain, NEW held, NEW onstack, NEW key, NEW a,
         NoFrames(chain, held, onstack, a),
         EnvDef(e, key, a) \in Seq(Binding),
         \A i \in DOMAIN e : NoFrames(chain, held, onstack, e[i].value)
  PROVE  \A i \in DOMAIN EnvDef(e, key, a) : NoFrames(chain, held, onstack, EnvDef(e, key, a)[i].value)
<1>1. PICK binding : binding = [key |-> key, value |-> a]
  OBVIOUS
<1>2. PICK e2 : e2 = EnvDef(e, key, a)
  OBVIOUS
<1>3. e2 = Append(e, binding) /\ e2 \in Seq(Binding)
  BY <1>1, <1>2 DEF EnvDef
<1>4. \A i \in DOMAIN e2 : e2[i] = binding \/ (i \in DOMAIN e /\ e2[i] = e[i])
  BY <1>3
<1>5. binding.value = a
  BY <1>1
<1> QED
  BY <1>2, <1>4, <1>5

LEMMA DefineLambdaTracked ==
  ASSUME IInv, TypeOK', NEW o, Owned(o), NEW chain, NEW held, Tracked(chain, held), DefineLambda
  PROVE  \E c2 : Tracked(c2, held)'
<1>1. /\ TypeOK /\ status = "idle" /\ status # "running" /\ stack = << >> /\ env \in Seq(Binding)
  BY DEF IInv, DefineLambda, Enter, TypeOK
<1>2. PICK f \in Form :
        /\ scopes' = Append(scopes, EnvScope)
        /\ env' = EnvDef(env, f.sym, RuntimeLambda(f.cl, Len(scopes) + 1))
        /\ UNCHANGED <<pairs, stack, registers, ip, args, result, status>>
  BY DEF DefineLambda
<1>3. PICK lambda, key : lambda = RuntimeLambda(f.cl, Len(scopes) + 1) /\ key = f.sym
  OBVIOUS
<1>4. pairs' = pairs /\ stack' = << >> /\ result' = result /\ status' = "idle"
  BY <1>1, <1>2
<1>5. PICK c2 :
        /\ Traced(c2, held)'
        /\ NoFrames(c2, held, StackScopes', lambda)
        /\ \A i \in DOMAIN env : NoFrames(c2, held, StackScopes', env[i].value)
        /\ NoFrames(c2, held, StackScopes', result)
        /\ \A t \in DOMAIN scopes' : \A i \in DOMAIN scopes'[t].atoms :
             Refs(c2, held, scopes'[t].atoms[i]) \cap StackScopes' \subseteq c2[t]
  BY <1>1, <1>2, <1>3, <1>4, EnvScopeTracked
<1>6. \A i \in DOMAIN env' : NoFrames(c2, held, StackScopes', env'[i].value)
  <2>1. env' = EnvDef(env, key, lambda) /\ env' \in Seq(Binding)
    BY <1>2, <1>3 DEF TypeOK
  <2> QED
    BY <1>1, <1>5, <2>1, EnvDefNoFrames
<1>7. LiveScopes' = {} /\ Flagged' = {}
  BY <1>4 DEF LiveScopes, Flagged
<1>8. Contained(c2, held)'
  <2>1. \A k \in DOMAIN stack' : NoFrames(c2, held, StackScopes', stack'[k])
    BY <1>4
  <2> QED
    BY <1>4, <1>5, <1>6, <1>7, <2>1, QuietContained
<1> QED
  BY <1>5, <1>8 DEF Tracked

LEMMA RunFileTracked ==
  ASSUME ScopedCode, IInv, TypeOK', NEW o, Owned(o), NEW chain, NEW held, Tracked(chain, held), RunFile
  PROVE  \E c2 : Tracked(c2, held)'
<1>1. /\ TypeOK /\ status = "idle" /\ status # "running" /\ stack = << >>
  BY DEF IInv, RunFile, Enter
<1>2. PICK f \in Form :
        /\ f.form = "file"
        /\ scopes' = Append(scopes, EnvScope)
        /\ EnterLoop(RuntimeLambda(f.cl, Len(scopes) + 1), << >>)
        /\ UNCHANGED <<env, pairs>>
  BY DEF RunFile
<1>3. f.cl \in LambdaId
  BY <1>2, FormAssumption DEF FormRecord
<1>4. PICK lambda : lambda = RuntimeLambda(f.cl, Len(scopes) + 1)
  OBVIOUS
<1>5. PICK c2 :
        /\ Traced(c2, held)'
        /\ NoFrames(c2, held, StackScopes', lambda)
        /\ \A i \in DOMAIN env : NoFrames(c2, held, StackScopes', env[i].value)
        /\ NoFrames(c2, held, StackScopes', result)
        /\ \A t \in DOMAIN scopes' : \A i \in DOMAIN scopes'[t].atoms :
             Refs(c2, held, scopes'[t].atoms[i]) \cap StackScopes' \subseteq c2[t]
  BY <1>1, <1>2, <1>4, EnvScopeTracked
<1>6. lambda \in Value /\ lambda.cl = f.cl /\ Compiled(lambda).var_count \in Nat
  <2>1. Len(scopes) + 1 \in Nat
    BY <1>1 DEF TypeOK
  <2>2. lambda \in Value /\ lambda.cl = f.cl
    BY <1>3, <1>4, <2>1, AtomsMade DEF RuntimeLambda
  <2> QED
    BY <1>3, <2>2, CompiledAssumption DEF Compiled
<1>7. PICK actuals \in Seq(Value) : actuals = << >> /\ \A i \in DOMAIN actuals : FALSE
  <2>1. << >> \in Seq(Value) /\ DOMAIN << >> = {}
    OBVIOUS
  <2> QED
    BY <2>1
<1>8. EnterLoop(lambda, actuals)
  BY <1>2, <1>4, <1>7
<1>9. /\ LiveScopes' = {} /\ Flagged' = {}
      /\ \A k \in DOMAIN stack' : NoFrames(c2, held, StackScopes', stack'[k])
      /\ NoFrames(c2, held, StackScopes', result')
  <2>1. \A i \in DOMAIN actuals : NoFrames(c2, held, StackScopes', actuals[i])
    BY <1>7
  <2> QED
    BY <1>1, <1>5, <1>6, <1>8, <2>1, EnterLoopTracked
<1>10. env' = env
  BY <1>2
<1>11. Contained(c2, held)'
  BY <1>5, <1>9, <1>10, QuietContained
<1> QED
  BY <1>5, <1>11 DEF Tracked

LEMMA CallGlobalTracked ==
  ASSUME IInv, TypeOK', NEW chain, NEW held, Tracked(chain, held), CallGlobal
  PROVE  Tracked(chain, held)'
<1>1. /\ TypeOK /\ status = "idle" /\ status # "running" /\ stack = << >> /\ env \in Seq(Binding)
  BY DEF IInv, CallGlobal, Enter, TypeOK
<1>2. PICK f \in Form :
        /\ f.form = "call"
        /\ Bound(env, f.func)
        /\ IsType(EnvGet(env, f.func), "runtime_lambda")
        /\ EnterLoop(EnvGet(env, f.func), f.args)
        /\ UNCHANGED memory
  BY DEF CallGlobal
<1>3. f.args \in Seq(Value) /\ \A i \in DOMAIN f.args : IsData(f.args[i])
  BY <1>2, FormAssumption, DataAssumption DEF FormRecord
<1>4. PICK lambda, actuals : lambda = EnvGet(env, f.func) /\ actuals = f.args
  OBVIOUS
<1>5. lambda \in Value /\ Compiled(lambda).var_count \in Nat
  <2>1. lambda \in Atom /\ lambda.type = "runtime_lambda"
    BY <1>1, <1>2, <1>4, EnvGetType DEF IsType
  <2>2. lambda \in Value
    BY <2>1 DEF Atom, AtomOver, SavedState, Value
  <2>3. lambda.cl \in LambdaId
    BY <2>1, AtomFields
  <2> QED
    BY <2>2, <2>3, CompiledAssumption DEF Compiled
<1>6. env' = env /\ pairs' = pairs /\ scopes' = scopes /\ StackScopes' = StackScopes
  BY <1>2 DEF memory, StackScopes
<1>7. /\ \A i \in DOMAIN env : NoFrames(chain, held, StackScopes, env[i].value)
      /\ Flagged = {}
      /\ HeapContained(chain, held, StackScopes, Flagged)
      /\ Traced(chain, held)
  BY <1>1, IdleContained DEF Tracked, Contained
<1>8. NoFrames(chain, held, StackScopes', lambda)
  <2>1. FirstBinding(env, f.func) \in DOMAIN env
    BY <1>1, <1>2, FirstBindingFound
  <2> QED
    BY <1>4, <1>6, <1>7, <2>1 DEF EnvGet
<1>9. \A i \in DOMAIN actuals : NoFrames(chain, held, StackScopes', actuals[i])
  BY <1>3, <1>4, <1>7, DataRefs DEF NoFrames
<1>10. /\ LiveScopes' = {} /\ Flagged' = {}
       /\ \A k \in DOMAIN stack' : NoFrames(chain, held, StackScopes', stack'[k])
       /\ NoFrames(chain, held, StackScopes', result')
  <2>1. EnterLoop(lambda, actuals) /\ actuals \in Seq(Value)
    BY <1>2, <1>3, <1>4
  <2> QED
    BY <1>1, <1>5, <1>8, <1>9, <2>1, EnterLoopTracked
<1>11. \A t \in DOMAIN scopes' : \A i \in DOMAIN scopes'[t].atoms :
         Refs(chain, held, scopes'[t].atoms[i]) \cap StackScopes' \subseteq chain[t]
  BY <1>6, <1>7 DEF HeapContained
<1>12. Contained(chain, held)'
  BY <1>6, <1>7, <1>10, <1>11, QuietContained
<1>13. Traced(chain, held)'
  BY <1>1, <1>6, <1>7, TracedSame
<1> QED
  BY <1>12, <1>13 DEF Tracked

LEMMA FinishTracked ==
  ASSUME IInv, TypeOK', NEW chain, NEW held, Tracked(chain, held), Finish
  PROVE  Tracked(chain, held)'
<1>1. /\ TypeOK /\ status # "running" /\ env \in Seq(Binding) /\ env' \in Seq(Binding)
  BY DEF IInv, TypeOK, Finish
<1>2. /\ stack' = << >> /\ status' = "idle" /\ scopes' = scopes /\ pairs' = pairs /\ result' = result
      /\ env' = (IF form.sym = NoName THEN env ELSE EnvDef(env, form.sym, result))
      /\ StackScopes' = StackScopes
  BY DEF Finish, StackScopes
<1>3. PICK key, a : key = form.sym /\ a = result
  OBVIOUS
<1>4. /\ \A i \in DOMAIN env : NoFrames(chain, held, StackScopes', env[i].value)
      /\ NoFrames(chain, held, StackScopes', a)
      /\ Flagged = {}
      /\ HeapContained(chain, held, StackScopes, Flagged)
      /\ Traced(chain, held)
  BY <1>1, <1>2, <1>3, IdleContained DEF Tracked, Contained
<1>5. \A i \in DOMAIN env' : NoFrames(chain, held, StackScopes', env'[i].value)
  <2>1. CASE form.sym = NoName
    BY <1>2, <1>4, <2>1
  <2>2. CASE form.sym # NoName
    <3>1. env' = EnvDef(env, key, a)
      BY <1>2, <1>3, <2>2
    <3> QED
      BY <1>1, <1>4, <3>1, EnvDefNoFrames
  <2> QED
    BY <2>1, <2>2
<1>6. LiveScopes' = {} /\ Flagged' = {}
  BY <1>2 DEF LiveScopes, Flagged
<1>7. \A t \in DOMAIN scopes' : \A i \in DOMAIN scopes'[t].atoms :
         Refs(chain, held, scopes'[t].atoms[i]) \cap StackScopes' \subseteq chain[t]
  BY <1>2, <1>4 DEF HeapContained
<1>8. Contained(chain, held)'
  <2>1. \A k \in DOMAIN stack' : NoFrames(chain, held, StackScopes', stack'[k])
    BY <1>2
  <2> QED
    BY <1>2, <1>3, <1>4, <1>5, <1>6, <1>7, <2>1, QuietContained
<1>9. Traced(chain, held)'
  BY <1>1, <1>2, <1>4, TracedSame
<1> QED
  BY <1>8, <1>9 DEF Tracked

-----------------------------------------------------------------------------
(* The inductive invariant.  A process that has stopped is not of interest  *)
(* any more: the flags of its activations are gone with its registers.     *)

EscapeInv == Faultless /\ (status # "crashed" => \E chain, held : Tracked(chain, held))

LEMMA TracedInit ==
  ASSUME Init, NEW chain, chain = << >>, NEW held, held = [c \in 1..Len(QuotedPair) |-> {}]
  PROVE  Traced(chain, held)
<1>1. scopes = << >> /\ pairs = QuotedPair
  BY DEF Init
<1>2. /\ QuotedPair \in Seq(PairCell) /\ Len(QuotedPair) \in Nat
      /\ DOMAIN QuotedPair = 1..Len(QuotedPair)
  BY SizeAssumption
<1>3. chain \in Seq(SUBSET Nat) /\ Len(chain) = Len(scopes) /\ DOMAIN scopes = {}
  BY <1>1
<1>4. held \in Seq(SUBSET Nat) /\ Len(held) = Len(pairs)
  BY <1>1, <1>2
<1>5. \A c \in DOMAIN QuotedPair : held[c] = {}
  BY <1>2
<1>6. \A a : IsData(a) => Refs(chain, held, a) = {}
  BY <1>5 DEF IsData, Refs
<1>7. ASSUME NEW c \in DOMAIN pairs
      PROVE  /\ held[c] = Refs(chain, held, pairs[c].first) \cup Refs(chain, held, pairs[c].rest)
             /\ Closed(chain, held[c])
             /\ Older(pairs[c].first, c) /\ Older(pairs[c].rest, c)
  BY <1>1, <1>5, <1>6, DataAssumption, ListAssumption DEF Closed
<1> QED
  BY <1>3, <1>4, <1>5, <1>7 DEF Traced

LEMMA EscapeInit == Init => EscapeInv
<1> SUFFICES ASSUME Init PROVE EscapeInv
  OBVIOUS
<1>1. PICK chain, held : chain = << >> /\ held = [c \in 1..Len(QuotedPair) |-> {}]
  OBVIOUS
<1>2. Traced(chain, held)
  BY <1>1, TracedInit
<1>3. /\ scopes = << >> /\ stack = << >> /\ env = Global /\ result = Nil /\ status = "idle"
      /\ DOMAIN scopes = {} /\ DOMAIN stack = {}
  BY DEF Init
<1>4. LiveScopes = {} /\ Flagged = {}
  BY <1>3 DEF LiveScopes, Flagged
<1>5. \A i \in DOMAIN env : Refs(chain, held, env[i].value) = {}
  BY <1>2, <1>3, DataAssumption, DataRefs
<1>6. Refs(chain, held, result) = {}
  BY <1>3, PlainRefs DEF Nil, IsType
<1>7. Contained(chain, held)
  BY <1>3, <1>4, <1>5, <1>6 DEF Contained, HeapContained, StackContained, LiveChained
<1> QED
  BY <1>2, <1>7, FaultlessInit DEF EscapeInv, Tracked

\* What is remembered of the heaps can be remembered after each step.
LEMMA TrackedStep ==
  ASSUME BalancedCode, ScopedCode, IInv, TypeOK', OuterFrameAlive, EscapesSeen,
         NEW o, Owned(o), NEW chain, NEW held, Tracked(chain, held),
         [Next]_vars, status' # "crashed"
  PROVE  \E c2, h2 : Tracked(c2, h2)'
<1> SUFFICES ASSUME \A c2, h2 : ~Tracked(c2, h2)'
             PROVE  FALSE
  OBVIOUS
<1>1. CASE LoadConstant
  BY <1>1, LoadConstantTracked
<1>2. CASE LoadLiteral
  BY <1>2, LoadLiteralTracked
<1>3. CASE LoadLambda
  BY <1>3, LoadLambdaTracked
<1>4. CASE LoadVariable
  BY <1>4, LoadVariableTracked
<1>5. CASE LoadEnv
  BY <1>5, LoadEnvTracked
<1>6. CASE StoreLocal
  BY <1>6, StoreLocalTracked
<1>7. CASE StoreEnv
  BY <1>7, StoreEnvTracked
<1>8. CASE Drop
  BY <1>8, DropTracked
<1>9. CASE Jump
  BY <1>9, JumpTracked
<1>10. CASE JumpIfFalse
  BY <1>10, JumpIfFalseTracked
<1>11. CASE CallRuntimeLambda
  BY <1>11, CallRuntimeLambdaTracked
<1>12. CASE CallBuildin
  BY <1>12, CallBuildinTracked
<1>13. CASE Return
  BY <1>13, ReturnTracked
<1>14. CASE Arithmetic
  BY <1>14, ArithmeticTracked
<1>15. CASE Compare
  BY <1>15, CompareTracked
<1>16. CASE BuildPair
  BY <1>16, BuildPairTracked
<1>17. CASE TakePart
  BY <1>17, TakePartTracked
<1>18. CASE Fault
  BY <1>18 DEF Fault
<1>19. CASE DefineLambda
  BY <1>19, DefineLambdaTracked
<1>20. CASE CallGlobal
  BY <1>20, CallGlobalTracked
<1>21. CASE RunFile
  BY <1>21, RunFileTracked
<1>22. CASE Finish
  BY <1>22, FinishTracked
<1>23. CASE UNCHANGED vars
  <2>1. UNCHANGED <<env, scopes, pairs, stack, result, status, frame_scope, scope_escaped>>
    BY <1>23 DEF vars, memory, registers
  <2>2. LiveScopes' = LiveScopes /\ Flagged' = Flagged
    BY <2>1 DEF LiveScopes, Flagged, IsState
  <2>3. \A k \in DOMAIN stack : \A s \in Refs(chain, held, stack[k]) \cap StackScopes :
          InPlace(s, k, LiveScopes, Flagged)
    BY DEF Tracked, Contained, StackContained
  <2>4. Contained(chain, held)'
    <3>1. Contained(chain, held)
      BY DEF Tracked
    <3>2. UNCHANGED <<env, scopes, result>>
      BY <2>1
    <3>3. \A k \in DOMAIN stack' : \A s \in Refs(chain, held, stack'[k]) \cap StackScopes :
            InPlace(s, k, LiveScopes, Flagged')
      BY <2>1, <2>2, <2>3
    <3> QED
      BY <2>2, <3>1, <3>2, <3>3, SameMemoryContained
  <2>5. Traced(chain, held)'
    BY <2>1, TracedSame DEF Tracked, IInv
  <2> QED
    BY <2>4, <2>5 DEF Tracked
<1> QED
  BY <1>1, <1>2, <1>3, <1>4, <1>5, <1>6, <1>7, <1>8, <1>9, <1>10, <1>11, <1>12, <1>13,
     <1>14, <1>15, <1>16, <1>17, <1>18, <1>19, <1>20, <1>21, <1>22, <1>23
     DEF Next, Execute, TopLevel, Done

LEMMA EscapeKeepsOuterFrames ==
  ASSUME BalancedCode, ScopedCode, EscapeInv
  PROVE  OuterFrameAlive
<1>1. CASE status = "running"
  <2>1. PICK o : Owned(o)
    BY DEF EscapeInv, Faultless
  <2>2. PICK chain, held : Tracked(chain, held)
    BY <1>1 DEF EscapeInv
  <2>3. TypeOK /\ FrameLayout
    BY DEF EscapeInv, Faultless, IInv
  <2> QED
    BY <2>1, <2>2, <2>3, OuterFramesLive DEF Tracked
<1>2. CASE status # "running"
  BY <1>2 DEF OuterFrameAlive
<1> QED
  BY <1>1, <1>2

LEMMA EscapeStep ==
  ASSUME BalancedCode, ScopedCode, EscapeInv, EscapesSeen, [Next]_vars
  PROVE  EscapeInv'
<1>1. OuterFrameAlive
  BY EscapeKeepsOuterFrames
<1>2. Faultless'
  BY <1>1, FaultlessStep DEF EscapeInv
<1>3. TypeOK'
  BY <1>2 DEF Faultless, IInv
<1>4. status' # "crashed" => (\E chain, held : Tracked(chain, held))'
  <2> SUFFICES ASSUME status' # "crashed"
               PROVE  \E chain, held : Tracked(chain, held)'
    OBVIOUS
  <2>1. status # "crashed"
    <3>1. CASE UNCHANGED vars
      BY <3>1 DEF vars
    <3>2. CASE Execute
      BY <3>2 DEF Execute, LoadConstant, LoadLiteral, LoadLambda, LoadVariable, LoadEnv,
         StoreLocal, StoreEnv, Drop, Jump, JumpIfFalse, CallRuntimeLambda, CallBuildin, Return,
         Arithmetic, Compare, BuildPair, TakePart, Executing, Fault
    <3>3. CASE TopLevel
      BY <3>3 DEF TopLevel, DefineLambda, CallGlobal, RunFile, Finish, Enter
    <3> QED
      BY <3>1, <3>2, <3>3 DEF Next, Done
  <2>2. PICK chain, held : Tracked(chain, held)
    BY <2>1 DEF EscapeInv
  <2>3. PICK o : Owned(o)
    BY DEF EscapeInv, Faultless
  <2>4. IInv
    BY DEF EscapeInv, Faultless
  <2> QED
    BY <1>1, <1>3, <2>2, <2>3, <2>4, TrackedStep
<1> QED
  BY <1>2, <1>4 DEF EscapeInv

LEMMA EscapeHolds ==
  BalancedCode /\ ScopedCode => (Spec /\ []EscapesSeen => []EscapeInv)
<1> SUFFICES ASSUME BalancedCode, ScopedCode
             PROVE  Spec /\ []EscapesSeen => []EscapeInv
  OBVIOUS
<1>1. Init => EscapeInv
  BY EscapeInit
<1>2. EscapeInv /\ EscapesSeen /\ [Next]_vars => EscapeInv'
  BY EscapeStep
<1> QED
  BY <1>1, <1>2, PTL DEF Spec

-----------------------------------------------------------------------------
(* What can be reached, frame by frame, stays on the stack no longer than   *)
(* its activation.                                                         *)

LEMMA ReachableExists ==
  ASSUME NEW roots, NEW m \in Nat
  PROVE  \E f : f = [n \in 0..m |->
           IF n = 0 THEN UNION {ScopesOf(a) : a \in roots}
           ELSE f[n - 1] \cup
                  UNION {ScopesOf(a) :
                           a \in UNION {{scopes[s].atoms[i] : i \in DOMAIN scopes[s].atoms} : s \in f[n - 1]}}]
<1> DEFINE Start == UNION {ScopesOf(a) : a \in roots}
           Grow(known) ==
             known \cup UNION {ScopesOf(a) :
                                 a \in UNION {{scopes[s].atoms[i] : i \in DOMAIN scopes[s].atoms} : s \in known}}
           Def(f, n) == IF n = 0 THEN Start ELSE Grow(f[n - 1])
           Defines(f, k) == f = [n \in 0..k |-> Def(f, n)]
           Bad == {k \in Nat : ~ \E f : Defines(f, k)}
<1> SUFFICES ASSUME Bad # {}
             PROVE  FALSE
  OBVIOUS
<1> HIDE DEF Start, Grow
<1>1. Bad \subseteq Nat
  OBVIOUS
<1>2. PICK k \in Bad : \A j \in Bad : k <= j
  <2> HIDE DEF Bad
  <2> QED
    BY <1>1, LeastElement
<1>3. k # 0
  <2>1. PICK f : f = [n \in 0..0 |-> Start]
    OBVIOUS
  <2>2. \A n \in 0..0 : Def(f, n) = Start
    OBVIOUS
  <2>3. Defines(f, 0)
    <3> HIDE DEF Def
    <3> QED
      BY <2>1, <2>2
  <2>4. 0 \notin Bad
    <3> HIDE DEF Defines
    <3> QED
      BY <2>3
  <2> QED
    BY <2>4
<1>4. k - 1 \in Nat /\ k - 1 \notin Bad
  <2>1. k \in Nat
    BY <1>1
  <2> HIDE DEF Bad
  <2> QED
    BY <2>1, <1>2, <1>3
<1>5. PICK f : Defines(f, k - 1)
  BY <1>4
<1> DEFINE g == [n \in 0..k |-> Def(f, n)]
<1>6. ASSUME NEW n \in 0..k
      PROVE  Def(f, n) = Def(g, n)
  <2>1. CASE n = 0
    BY <2>1
  <2>2. CASE n > 0
    <3>1. n - 1 \in 0..(k - 1) /\ n - 1 \in 0..k
      BY <2>2
    <3>2. f[n - 1] = Def(f, n - 1)
      BY <3>1, <1>5
    <3>3. g[n - 1] = Def(f, n - 1)
      BY <3>1
    <3> QED
      BY <3>2, <3>3, <2>2
  <2> QED
    BY <2>1, <2>2
<1>7. Defines(g, k)
  <2> HIDE DEF Def
  <2> QED
    BY <1>6
<1> QED
  <2>1. k \notin Bad
    <3> HIDE DEF Defines, g
    <3> QED
      BY <1>7
  <2> QED
    BY <2>1

\* A set that has the scopes of the roots, and with each scope those that its
\* frame refers to, has all that can be reached.
LEMMA ReachableWithin ==
  ASSUME TypeOK, NEW roots, NEW R,
         \A a \in roots : ScopesOf(a) \subseteq R,
         \A s \in R : \A i \in DOMAIN scopes[s].atoms : ScopesOf(scopes[s].atoms[i]) \subseteq R
  PROVE  ReachableScopes(roots) \subseteq R
<1> DEFINE Start == UNION {ScopesOf(a) : a \in roots}
           Grow(known) ==
             known \cup UNION {ScopesOf(a) :
                                 a \in UNION {{scopes[s].atoms[i] : i \in DOMAIN scopes[s].atoms} : s \in known}}
           Def(f, n) == IF n = 0 THEN Start ELSE Grow(f[n - 1])
           more == CHOOSE f : f = [n \in 0..Len(scopes) |-> Def(f, n)]
<1>1. ReachableScopes(roots) = more[Len(scopes)]
  BY DEF ReachableScopes
<1>2. Len(scopes) \in Nat
  BY DEF TypeOK
<1>3. more = [n \in 0..Len(scopes) |-> Def(more, n)]
  <2>1. \A m \in Nat : \E f : f = [n \in 0..m |-> Def(f, n)]
    BY ReachableExists, Zenon
  <2>2. \E f : f = [n \in 0..Len(scopes) |-> Def(f, n)]
    BY <1>2, <2>1
  <2> HIDE DEF Def
  <2> QED
    BY <2>2
<1>4. Start \subseteq R
  OBVIOUS
<1>5. \A known : known \subseteq R => Grow(known) \subseteq R
  OBVIOUS
<1> HIDE DEF more, Start, Grow
<1>6. \A n \in 0..Len(scopes) : more[n] = Def(more, n)
  BY <1>3
<1> DEFINE Outside == {n \in 0..Len(scopes) : ~(more[n] \subseteq R)}
<1>7. ASSUME Outside # {}
      PROVE  FALSE
  <2>1. Outside \subseteq Nat
    OBVIOUS
  <2>2. PICK n \in Outside : \A m \in Outside : n <= m
    <3> HIDE DEF Outside
    <3> QED
      BY <1>7, <2>1, LeastElement
  <2>3. n \in 0..Len(scopes) /\ ~(more[n] \subseteq R)
    OBVIOUS
  <2>4. n # 0
    BY <1>4, <1>6, <2>3
  <2>5. n - 1 \in 0..Len(scopes) /\ n - 1 < n
    BY <1>2, <2>3, <2>4
  <2>6. n - 1 \notin Outside
    <3> HIDE DEF Outside
    <3> QED
      BY <1>2, <2>2, <2>3, <2>5
  <2>7. more[n - 1] \subseteq R
    BY <2>5, <2>6
  <2>8. more[n] = Grow(more[n - 1])
    BY <1>6, <2>3, <2>4
  <2> QED
    BY <1>5, <2>3, <2>7, <2>8
<1>8. Len(scopes) \notin Outside
  BY <1>7
<1>9. more[Len(scopes)] \subseteq R
  BY <1>2, <1>8
<1> QED
  BY <1>1, <1>9

LEMMA NothingDangles ==
  ASSUME BalancedCode, TypeOK, status = "running" => FrameLayout, NEW o, Owned(o),
         NEW chain, NEW held, Tracked(chain, held)
  PROVE  \A s \in ReachableScopes(Roots) : scopes[s].type = "stack" => s \in LiveScopes
<1> DEFINE R == {s \in DOMAIN scopes : chain[s] \cap StackScopes \subseteq LiveScopes}
<1>1. Traced(chain, held) /\ HeapContained(chain, held, StackScopes, Flagged)
        /\ StackContained(chain, held, StackScopes, LiveScopes, Flagged)
  BY DEF Tracked, Contained
<1>2. ASSUME NEW a, Fits(o, Len(pairs), a), Refs(chain, held, a) \cap StackScopes \subseteq LiveScopes
      PROVE  ScopesOf(a) \subseteq R
  <2>1. ScopesOf(a) = Refs(chain, held, a)
    BY <1>1, <1>2, FramesInIsRefs
  <2>2. Closed(chain, Refs(chain, held, a)) /\ Refs(chain, held, a) \subseteq DOMAIN scopes
    BY <1>1, <1>2, RefsClosed
  <2> QED
    BY <1>2, <2>1, <2>2 DEF Closed
<1>3. \A a \in Roots : Fits(o, Len(pairs), a) /\ Refs(chain, held, a) \cap StackScopes \subseteq LiveScopes
  <2> SUFFICES ASSUME NEW a \in Roots
               PROVE  Fits(o, Len(pairs), a) /\ Refs(chain, held, a) \cap StackScopes \subseteq LiveScopes
    OBVIOUS
  <2>1. CASE \E i \in DOMAIN env : a = env[i].value
    BY <1>1, <2>1, FlaggedIsLive DEF Owned, HeapFits, HeapContained
  <2>2. CASE \E i \in DOMAIN stack : a = stack[i]
    BY <1>1, <2>2 DEF Owned, StackFits, StackContained, InPlace
  <2>3. CASE a = result
    BY <1>1, <2>3, FlaggedIsLive DEF Owned, HeapFits, HeapContained
  <2>4. \/ \E i \in DOMAIN env : a = env[i].value
        \/ \E i \in DOMAIN stack : a = stack[i]
        \/ a = result
    BY DEF Roots
  <2> QED
    BY <2>1, <2>2, <2>3, <2>4
<1>4. ASSUME NEW s \in R, NEW i \in DOMAIN scopes[s].atoms
      PROVE  ScopesOf(scopes[s].atoms[i]) \subseteq R
  <2>1. PICK a : a = scopes[s].atoms[i]
    OBVIOUS
  <2>2. Fits(o, Len(pairs), a)
    BY <2>1 DEF Owned, HeapFits, OwnedScope
  <2>3. Refs(chain, held, a) \cap StackScopes \subseteq chain[s] \cup Flagged
    BY <1>1, <2>1 DEF HeapContained
  <2>4. Refs(chain, held, a) \cap StackScopes \subseteq LiveScopes
    BY <2>3, FlaggedIsLive
  <2> QED
    BY <1>2, <2>1, <2>2, <2>4
<1>5. \A s \in R : scopes[s].type = "stack" => s \in LiveScopes
  <2> SUFFICES ASSUME NEW s \in R, scopes[s].type = "stack"
               PROVE  s \in LiveScopes
    OBVIOUS
  <2>1. s \in chain[s] /\ s \in StackScopes
    BY <1>1, ChainOfIsChain DEF StackScopes
  <2> QED
    BY <2>1
<1>6. \A a \in Roots : ScopesOf(a) \subseteq R
  BY <1>2, <1>3
<1> HIDE DEF R
<1>7. ReachableScopes(Roots) \subseteq R
  BY <1>4, <1>6, ReachableWithin
<1> QED
  BY <1>5, <1>7

-----------------------------------------------------------------------------
(* Closures.                                                               *)

\* For every program of balanced code that names what the lambdas around it
\* have: as long as no store and no return lets a frame out that
\* check_atom_for_escaped_scope does not look for, every frame that a closure
\* still refers to is on the heap before its activation is gone ("Stack frames
\* are copied to GC heap space if they were captured by one or more lambdas",
\* README) - by however many lambdas, lists, variables and results it is
\* reached.
THEOREM CapturedFramesAreCopied ==
  BalancedCode /\ ScopedCode => (Spec /\ []EscapesSeen => []NoDanglingScope)
<1> SUFFICES ASSUME BalancedCode, ScopedCode
             PROVE  Spec /\ []EscapesSeen => []NoDanglingScope
  OBVIOUS
<1>1. EscapeInv => NoDanglingScope
  <2> SUFFICES ASSUME EscapeInv, status # "crashed"
               PROVE  \A s \in ReachableScopes(Roots) : scopes[s].type = "stack" => s \in LiveScopes
    BY DEF NoDanglingScope
  <2>1. PICK o : Owned(o)
    BY DEF EscapeInv, Faultless
  <2>2. PICK chain, held : Tracked(chain, held)
    BY DEF EscapeInv
  <2>3. TypeOK /\ FrameLayout
    BY DEF EscapeInv, Faultless, IInv
  <2> QED
    BY <2>1, <2>2, <2>3, NothingDangles
<1> QED
  BY <1>1, EscapeHolds, PTL

\* An instruction that reaches for a variable of a lambda further out, then,
\* finds it in the frame of an activation that has not returned, or in a copy.
THEOREM OuterFramesAreAlive ==
  BalancedCode /\ ScopedCode => (Spec /\ []EscapesSeen => []OuterFrameAlive)
<1> SUFFICES ASSUME BalancedCode, ScopedCode
             PROVE  Spec /\ []EscapesSeen => []OuterFrameAlive
  OBVIOUS
<1>1. EscapeInv => OuterFrameAlive
  BY EscapeKeepsOuterFrames
<1> QED
  BY <1>1, EscapeHolds, PTL

\* What the layout of the stack and the reasons for a fault were proved under
\* is a matter of the stores and returns alone.
THEOREM EscapesSeenSuffices ==
  BalancedCode /\ ScopedCode =>
    (Spec /\ []EscapesSeen => [](FrameLayout /\ SavedStateHidden /\ StackReleased /\ FindsNamedLambda
                                   /\ FaultsExplained))
<1> SUFFICES ASSUME BalancedCode, ScopedCode
             PROVE  Spec /\ []EscapesSeen =>
                      [](FrameLayout /\ SavedStateHidden /\ StackReleased /\ FindsNamedLambda
                           /\ FaultsExplained)
  OBVIOUS
<1>1. EscapeInv => FrameLayout /\ SavedStateHidden /\ FaultsExplained
  BY DEF EscapeInv, Faultless, IInv
<1>2. Spec /\ []EscapesSeen => []FindsNamedLambda /\ []StackReleased
  BY OuterFramesAreAlive, ScopingIsLexical, StackIsReleased, PTL
<1> QED
  BY <1>1, <1>2, EscapeHolds, PTL

-----------------------------------------------------------------------------
(* Compiled programs.                                                      *)

\* The machine that runs a compiled program finds in every frame the operands
\* that its code left there, in whatever order lambdas are defined and called.
THEOREM CompiledProgramsAreBalanced ==
  ASSUME NEW E, NEW source, NEW runs, CompiledFrom(E, source, runs)
  PROVE  Spec => []RunsBalancedCode
<1>1. BalancedCode
  BY CompiledCode
<1>2. TypeOK => RunsBalancedCode
  BY <1>1, InLoop DEF BalancedCode, RunsBalancedCode, Code, Compiled
<1> QED
  BY <1>2, TypeCorrect, PTL

\* ... and only names what exists.
THEOREM CompiledProgramsAreScoped ==
  ASSUME NEW E, NEW source, NEW runs, CompiledFrom(E, source, runs)
  PROVE  Spec => []RunsScopedCode
<1>1. ScopedCode
  BY CompiledCode
<1>2. TypeOK => RunsScopedCode
  BY <1>1, InLoop DEF ScopedCode, RunsScopedCode
<1> QED
  BY <1>2, TypeCorrect, PTL

\* So that a compiled program can only go wrong where a frame escapes unseen:
\* as long as none does, its frames keep the layout that is documented above
\* bci_eval, names are found in the lambda that has them, captured frames are
\* copied in time, and a fault is one of the program's own.
THEOREM CompiledProgramsRunAsDocumented ==
  ASSUME NEW E, NEW source, NEW runs, CompiledFrom(E, source, runs)
  PROVE  Spec /\ []EscapesSeen =>
           [](FrameLayout /\ SavedStateHidden /\ StackReleased /\ FindsNamedLambda /\ FaultsExplained
                /\ OuterFrameAlive /\ NoDanglingScope)
<1>1. BalancedCode /\ ScopedCode
  BY CompiledCode
<1>2. Spec /\ []EscapesSeen => [](FrameLayout /\ SavedStateHidden /\ StackReleased /\ FindsNamedLambda
                                   /\ FaultsExplained)
  BY <1>1, EscapesSeenSuffices
<1>3. Spec /\ []EscapesSeen => []OuterFrameAlive
  BY <1>1, OuterFramesAreAlive
<1>4. Spec /\ []EscapesSeen => []NoDanglingScope
  BY <1>1, CapturedFramesAreCopied
<1> QED
  BY <1>2, <1>3, <1>4, PTL

\* Without a lambda inside another one nothing has to be assumed about what
\* escapes: each program of this kind runs as documented.
THEOREM CompiledFlatPrograms ==
  ASSUME NEW E, NEW source, NEW runs, CompiledFrom(E, source, runs), \A id \in LambdaId : Len(id) = 1
  PROVE  Spec => [](FrameLayout /\ SavedStateHidden /\ StackReleased /\ FaultsExplained)
<1>1. BalancedCode /\ ScopedCode
  BY CompiledCode
<1>2. FlatCode
  <2>1. PICK table : table = ProgramTable(Tables(runs))
    OBVIOUS
  <2>2. Complete(E, table) /\ IsLoaded(table)
    BY <2>1, CompiledTables DEF CompiledFrom
  <2>3. ASSUME NEW id \in LambdaId, NEW i \in DOMAIN CompiledLambda[id].code
        PROVE  CompiledLambda[id].code[i].offset = 0
    <3>1. CompiledLambda[id].code = table[id].code /\ id \in DOMAIN table
      BY <2>2 DEF IsLoaded
    <3>2. i \in 1..Len(table[id].code)
      <4>1. CompiledLambda[id].code \in Seq(Instruction)
        BY CompiledAssumption
      <4> QED
        BY <3>1, <4>1, LenProperties
    <3>3. table[id].code[i].offset \in 0..(Len(id) - 1)
      BY <2>2, <3>1, <3>2 DEF Complete
    <3>4. Len(id) = 1
      OBVIOUS
    <3> QED
      BY <3>1, <3>3, <3>4
  <2> QED
    BY <2>3 DEF FlatCode
<1>3. Spec => [](FrameLayout /\ SavedStateHidden /\ StackReleased)
  BY <1>1, <1>2, FlatCodeKeepsLayout
<1>4. Spec => []FaultsExplained
  BY <1>1, <1>2, FlatCodeFaultsAreExplained
<1> QED
  BY <1>3, <1>4, PTL
===============================================================================
