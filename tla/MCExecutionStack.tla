-------------------------- MODULE MCExecutionStack --------------------------
(* ExecutionStack with blocks of every small size, and two atoms.          *)
EXTENDS ExecutionStack

SmallBlocks == 0..4
=============================================================================
