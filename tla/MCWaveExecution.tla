-------------------------- MODULE MCWaveExecution --------------------------
(***************************************************************************)
(* WaveExecution on small Waves.  Two threads and three tasks are enough   *)
(* for a task to wait in the queue while others run, to be claimed while   *)
(* the main thread is expiring another, and for two orphans to be cleaned  *)
(* up differently.                                                         *)
(***************************************************************************)
EXTENDS WaveExecution

\* A success under an alias, a failure and an exception.
AllEndings == {"done", "failed", "exception"}

\* For the runs in which how a dispatch ends does not matter.
GoodEndings == {"completed"}

=============================================================================
