----------------------------- MODULE MCAgreement -----------------------------
(***************************************************************************)
(* The sessions of MCSessions, whose programs are what the theorems of     *)
(* CompilerProofs ask for.                                                 *)
(***************************************************************************)
EXTENDS MCSessions, CompiledPrograms

\* An expression and all that the compiler takes out of it.
RECURSIVE PartsOf(_)
PartsOf(expr) ==
  {expr} \cup UNION {PartsOf(Items(expr)[i]) : i \in DOMAIN Items(expr)}
    \cup (IF IsLambda(expr) THEN PartsOf(Body(Tail(expr.items))) ELSE {})

AgreementExpressions == UNION {PartsOf(AgreementPrograms[n].body) : n \in DOMAIN AgreementPrograms}

RECURSIVE RunFrom(_)
RunFrom(c) == IF IsCompiled(c) THEN <<c>> ELSE <<c>> \o RunFrom(CompileStep(c))

AgreementRuns ==
  [n \in DOMAIN AgreementPrograms |-> RunFrom(CompileStart(n, AgreementPrograms[n]))]

ASSUME AgreementAssumption == CompiledFrom(AgreementExpressions, AgreementPrograms, AgreementRuns)
=============================================================================
