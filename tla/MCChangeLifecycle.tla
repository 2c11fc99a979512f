------------------------- MODULE MCChangeLifecycle -------------------------
(***************************************************************************)
(* ChangeLifecycle with two agents and one kill.  Three events are enough  *)
(* for a change to be proposed, applied and archived, and for one command  *)
(* too many to meet another that is under way; two stamps are enough for   *)
(* ids that collide and ids that do not.                                   *)
(***************************************************************************)
EXTENDS ChangeLifecycle, TLC

CONSTANTS a1, a2

AgentSymmetry == Permutations(Agent)

=============================================================================
