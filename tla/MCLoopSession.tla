--------------------------- MODULE MCLoopSession ---------------------------
(***************************************************************************)
(* LoopSession with two callers.                                           *)
(***************************************************************************)
EXTENDS LoopSession, TLC

CONSTANTS c1, c2

CallerSymmetry == Permutations(Caller)

=============================================================================
