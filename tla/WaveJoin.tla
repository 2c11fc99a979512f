------------------------------ MODULE WaveJoin ------------------------------
(***************************************************************************)
(* What a Wave promises its caller, without threads, futures or timeouts:  *)
(* every task of the Wave reaches a terminal status at most once, and the  *)
(* gate opens to the caller ("returned") only when all of them have; from  *)
(* then on the evidence the caller holds does not change.                  *)
(*                                                                         *)
(* The promise is the one of the header and of the docstring of            *)
(* execute_wave in harness_runtime/wave_execution.py: "one expected-task   *)
(* ledger, ... terminal-state joining", "refuse to return before it        *)
(* joins".  WaveExecution is shown to implement it.                        *)
(***************************************************************************)

CONSTANTS Task,      \* the tasks of the Wave
          Terminal   \* TERMINAL_TASK_STATES

VARIABLES status,    \* what the ledger says of each task
          gate       \* "open" | "returned" | "refused"

joinVars == <<status, gate>>

Status == {"pending", "running"} \cup Terminal

AllSettled == \A t \in Task : status[t] \in Terminal

JoinInit ==
  /\ status = [t \in Task |-> "pending"]
  /\ gate = "open"

\* A task begins. After a refusal the caller has an error and no result, so
\* a late beginner contradicts nothing it was told.
Begin(t) ==
  /\ gate # "returned"
  /\ status[t] = "pending"
  /\ status' = [status EXCEPT ![t] = "running"]
  /\ UNCHANGED gate

\* Some unfinished tasks get their terminal status, once and for all.
Settle(S) ==
  /\ gate = "open"
  /\ \A t \in S : status[t] \notin Terminal
  /\ \E verdict \in [S -> Terminal] :
        status' = [t \in Task |-> IF t \in S THEN verdict[t] ELSE status[t]]
  /\ UNCHANGED gate

\* The gate lets the caller through only when the whole Wave has joined.
Return ==
  /\ gate = "open"
  /\ AllSettled
  /\ gate' = "returned"
  /\ UNCHANGED status

\* Otherwise it refuses.
Refuse ==
  /\ gate = "open"
  /\ gate' = "refused"
  /\ UNCHANGED status

JoinNext ==
  \/ \E t \in Task : Begin(t)
  \/ \E S \in SUBSET Task : Settle(S)
  \/ Return
  \/ Refuse

JoinSpec == JoinInit /\ [][JoinNext]_joinVars

=============================================================================
