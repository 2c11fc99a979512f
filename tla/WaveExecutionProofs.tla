------------------------ MODULE WaveExecutionProofs ------------------------
(***************************************************************************)
(* Theorems about WaveExecution, for every number of tasks, every          *)
(* max_parallel, with and without a timeout, a cleanup callback, and a     *)
(* TimeoutError that line 212 catches.                                     *)
(***************************************************************************)
EXTENDS WaveExecution, FiniteSetTheorems, TLAPS


-----------------------------------------------------------------------------
\* Facts about the pure parts.

\* The entries that are running are finitely many: len(task_ids) bounds them.
LEMMA RunningFinite == IsFiniteSet(Running) /\ Cardinality(Running) \in Nat
<1>1. IsFiniteSet(Task)
  BY WaveParameters, FS_Interval DEF WaveAssumption, Task
<1>2. Running \in SUBSET Task
  BY DEF Running
<1>3. IsFiniteSet(Running)
  BY <1>1, <1>2, FS_Subset
<1>. QED
  BY <1>3, FS_CardinalityType

\* _normalize_outcome makes a ledger status of whatever a dispatch ended with.
LEMMA NormalizeIsTerminal ==
  ASSUME NEW o \in DispatchOutcome
  PROVE  Normalize(o) \in Terminal
BY DEF DispatchOutcome, Terminal, Normalize

-----------------------------------------------------------------------------
\* Type correctness.

TypeInv == TypeOK /\ Answered

LEMMA InitTypeInv == Init => TypeInv
BY WaveParameters
   DEF Init, TypeInv, TypeOK, Answered, WaveAssumption, Task, ControlPoint,
       WorkState, LedgerState

LEMMA NextTypeInv == TypeInv /\ [Next]_vars => TypeInv'
<1> SUFFICES ASSUME TypeInv, [Next]_vars
             PROVE  TypeInv'
  OBVIOUS
<1> USE WaveParameters
    DEF TypeInv, TypeOK, Answered, WaveAssumption, Task, ControlPoint,
        WorkState, LedgerState, Terminal, DispatchOutcome, poolVars,
        ledgerVars, gateVars
<1>1. ASSUME NEW t \in Task, Claim(t) PROVE TypeInv'
  BY <1>1 DEF Claim
<1>2. ASSUME NEW t \in Task, StartTask(t) PROVE TypeInv'
  BY <1>2 DEF StartTask, Start
<1>3. ASSUME NEW t \in Task, StartRefused(t) PROVE TypeInv'
  BY <1>3 DEF StartRefused
<1>4. ASSUME NEW t \in Task, DispatchEnds(t) PROVE TypeInv'
  BY <1>4 DEF DispatchEnds
<1>5. CASE Submit
  BY <1>5 DEF Submit
<1>6. ASSUME NEW t \in Task, Collect(t) PROVE TypeInv'
  BY <1>6, NormalizeIsTerminal DEF Collect, Finish
<1>7. CASE Joined
  BY <1>7 DEF Joined
<1>8. CASE TimeoutFires
  BY <1>8 DEF TimeoutFires
<1>9. CASE ExpireLook
  BY <1>9 DEF ExpireLook, NextExpiry
<1>10. CASE ExpireMark
  BY <1>10 DEF ExpireMark, NextExpiry, Finish
<1>11. CASE Settle
  BY <1>11 DEF Settle, Running
<1>12. CASE CleanupReplies
  <2> PICK reply \in [orphans -> Terminal \cup {"none"}] :
        LET settled == {t \in orphans : reply[t] \in Terminal} IN
        /\ ledger' = [t \in Task |->
                        IF t \in settled THEN reply[t] ELSE ledger[t]]
        /\ active' = active - Cardinality(settled)
        /\ cleanupStatus' = IF Running \ settled = {} THEN "passed"
                                                      ELSE "failed"
    BY <1>12 DEF CleanupReplies
  <2> DEFINE settled == {t \in orphans : reply[t] \in Terminal}
  <2>1. Cardinality(settled) \in Nat
    <3>1. IsFiniteSet(Task)
      BY FS_Interval
    <3>2. settled \in SUBSET Task
      OBVIOUS
    <3>. QED
      BY <3>1, <3>2, FS_Subset, FS_CardinalityType
  <2>2. ledger' \in [Task -> LedgerState]
    OBVIOUS
  <2>. QED
    BY <1>12, <2>1, <2>2 DEF CleanupReplies
<1>13. CASE CleanupRaises
  BY <1>13 DEF CleanupRaises
<1>14. CASE Close
  BY <1>14 DEF Close
<1>15. CASE UNCHANGED vars
  BY <1>15 DEF vars
<1>. QED
  BY <1>1, <1>2, <1>3, <1>4, <1>5, <1>6, <1>7, <1>8, <1>9, <1>10, <1>11,
     <1>12, <1>13, <1>14, <1>15
     DEF Next, Main, OwnStep, CleanupEnds, Pool, Quiet

\* Every variable of execute_wave keeps its type, in every interleaving.
THEOREM TypeCorrect == Spec => []TypeOK
<1>1. Spec => []TypeInv
  BY InitTypeInv, NextTypeInv, PTL DEF Spec
<1>. QED
  BY <1>1, PTL DEF TypeInv

-----------------------------------------------------------------------------
\* The count of running entries.

CountInv == TypeInv /\ OrphansRead /\ CountsRunning

\* A started entry joins the running ones, a finished one leaves them.
LEMMA StartRuns ==
  ASSUME TypeOK, NEW t \in Task, Start(t)
  PROVE  Running' = Running \cup {t} /\ t \notin Running
BY DEF TypeOK, Start, Running

LEMMA FinishStops ==
  ASSUME TypeOK, NEW t \in Task, NEW s \in Terminal, Finish(t, s)
  PROVE  Running' = Running \ {t} /\ (t \in Running <=> ledger[t] = "running")
BY DEF TypeOK, Finish, Running, Terminal

LEMMA StartCounts ==
  ASSUME TypeOK, CountsRunning, NEW t \in Task, Start(t)
  PROVE  CountsRunning'
<1>1. Cardinality(Running') = Cardinality(Running) + 1
  BY StartRuns, RunningFinite, FS_AddElement
<1>. QED
  BY <1>1, RunningFinite DEF TypeOK, CountsRunning, Start

LEMMA FinishCounts ==
  ASSUME TypeOK, CountsRunning, NEW t \in Task, NEW s \in Terminal, Finish(t, s)
  PROVE  CountsRunning'
<1>1. Cardinality(Running') = IF t \in Running THEN Cardinality(Running) - 1
                                               ELSE Cardinality(Running)
  BY FinishStops, RunningFinite, FS_RemoveElement
<1>2. active' = IF t \in Running THEN active - 1 ELSE active
  BY FinishStops DEF Finish
<1>3. maxActive' = maxActive
  BY DEF Finish
<1>4. active \in Int /\ maxActive \in Nat
  BY DEF TypeOK
<1>. QED
  BY <1>1, <1>2, <1>3, <1>4, RunningFinite DEF CountsRunning

\* Cleanup settles some of the running orphans at once.
LEMMA CleanupCounts ==
  ASSUME TypeOK, OrphansRead, CountsRunning, CleanupReplies
  PROVE  CountsRunning'
<1> PICK reply \in [orphans -> Terminal \cup {"none"}] :
      LET settled == {t \in orphans : reply[t] \in Terminal} IN
      /\ ledger' = [t \in Task |->
                      IF t \in settled THEN reply[t] ELSE ledger[t]]
      /\ active' = active - Cardinality(settled)
  BY DEF CleanupReplies
<1> DEFINE settled == {t \in orphans : reply[t] \in Terminal}
<1>1. settled \in SUBSET Running
  BY DEF OrphansRead, CleanupReplies
<1>2. Running' = Running \ settled
  BY <1>1 DEF Running, Terminal
<1>3. Running \cap settled = settled
  BY <1>1
<1>4. IsFiniteSet(settled) /\ Cardinality(settled) \in Nat
  BY <1>1, RunningFinite, FS_Subset, FS_CardinalityType
<1>5. Cardinality(Running') = Cardinality(Running) - Cardinality(settled)
  <2> HIDE DEF settled
  <2>. QED
    BY <1>2, <1>3, <1>4, RunningFinite, FS_Difference
<1>6. active' = active - Cardinality(settled)
  OBVIOUS
<1>7. maxActive' = maxActive
  BY DEF CleanupReplies
<1> HIDE DEF settled
<1>. QED
  BY <1>4, <1>5, <1>6, <1>7, RunningFinite DEF TypeOK, CountsRunning

LEMMA InitCountInv == Init => CountInv
<1> SUFFICES ASSUME Init PROVE CountInv
  OBVIOUS
<1>1. Running = {}
  BY DEF Init, Running
<1>2. Cardinality(Running) = 0
  BY <1>1, FS_EmptySet
<1>. QED
  BY <1>2, InitTypeInv DEF Init, CountInv, CountsRunning, OrphansRead

LEMMA NextCountInv == CountInv /\ [Next]_vars => CountInv'
<1> SUFFICES ASSUME CountInv, [Next]_vars
             PROVE  CountInv'
  OBVIOUS
<1> USE DEF CountInv
<1>a. TypeInv' /\ TypeOK
  BY NextTypeInv DEF TypeInv
<1>b. ASSUME UNCHANGED <<ledger, active, maxActive>>
      PROVE  CountsRunning' /\ Running' = Running
  BY <1>b DEF CountsRunning, Running
<1> USE DEF OrphansRead, poolVars, ledgerVars, gateVars
<1>1. ASSUME NEW t \in Task, Claim(t) PROVE CountInv'
  BY <1>1, <1>a, <1>b DEF Claim
<1>2. ASSUME NEW t \in Task, StartTask(t) PROVE CountInv'
  BY <1>2, <1>a, StartCounts, StartRuns DEF StartTask
<1>3. ASSUME NEW t \in Task, StartRefused(t) PROVE CountInv'
  BY <1>3, <1>a, <1>b DEF StartRefused
<1>4. ASSUME NEW t \in Task, DispatchEnds(t) PROVE CountInv'
  BY <1>4, <1>a, <1>b DEF DispatchEnds
<1>5. CASE Submit
  BY <1>5, <1>a, <1>b DEF Submit
<1>6. ASSUME NEW t \in Task, Collect(t) PROVE CountInv'
  <2>1. Normalize(answer[t]) \in Terminal
    BY <1>6, NormalizeIsTerminal DEF Collect, TypeInv, Answered
  <2>. QED
    BY <1>6, <1>a, <2>1, FinishCounts DEF Collect
<1>7. CASE Joined
  BY <1>7, <1>a, <1>b DEF Joined
<1>8. CASE TimeoutFires
  BY <1>8, <1>a, <1>b DEF TimeoutFires
<1>9. CASE ExpireLook
  BY <1>9, <1>a, <1>b DEF ExpireLook, NextExpiry
<1>10. CASE ExpireMark
  <2>1. cursor \in Task /\ "timed_out" \in Terminal
    BY <1>a DEF TypeOK, Terminal
  <2>. QED
    BY <1>10, <1>a, <2>1, FinishCounts DEF ExpireMark, NextExpiry
<1>11. CASE Settle
  BY <1>11, <1>a, <1>b DEF Settle
<1>12. CASE CleanupReplies
  BY <1>12, <1>a, CleanupCounts DEF CleanupReplies
<1>13. CASE CleanupRaises
  BY <1>13, <1>a, <1>b DEF CleanupRaises
<1>14. CASE Close
  BY <1>14, <1>a, <1>b DEF Close
<1>15. CASE UNCHANGED vars
  BY <1>15, <1>a, <1>b DEF vars
<1>. QED
  BY <1>1, <1>2, <1>3, <1>4, <1>5, <1>6, <1>7, <1>8, <1>9, <1>10, <1>11,
     <1>12, <1>13, <1>14, <1>15
     DEF Next, Main, OwnStep, CleanupEnds, Pool, Quiet

\* _active_count is the number of running entries, whichever way threads,
\* collection, expiry and cleanup interleave.
THEOREM CountCorrect == Spec => []CountsRunning
<1>1. Spec => []CountInv
  BY InitCountInv, NextCountInv, PTL DEF Spec
<1>. QED
  BY <1>1, PTL DEF CountInv

-----------------------------------------------------------------------------
\* What the ledger holds and what the gate says.

\* The inductive invariant: how the control point, the expiry loop's cursor,
\* the ledger and the threads are tied together.
WaveInv ==
  /\ TypeInv
  /\ OrphansRead
  /\ StatusEarned
  /\ Begun
  /\ LoopOrder
  /\ OutcomeDecided
  /\ NothingPending
  /\ CleanupTold
  /\ GateJudged

LEMMA InitWaveInv == Init => WaveInv
<1> SUFFICES ASSUME Init PROVE WaveInv
  OBVIOUS
<1>. QED
  BY InitTypeInv
     DEF Init, WaveInv, OrphansRead, StatusEarned, Begun, LoopOrder,
         OutcomeDecided, NothingPending, CleanupTold, GateJudged

\* A pool thread's step. Only StartTask touches the ledger, and only an entry
\* that is pending.
LEMMA PoolKeepsWaveInv ==
  ASSUME WaveInv, NEW t \in Task, Pool(t) \/ DispatchEnds(t)
  PROVE  WaveInv'
<1>1. TypeInv'
  BY NextTypeInv DEF WaveInv, Next
<1>2. TypeOK
  BY DEF WaveInv, TypeInv
<1> USE DEF poolVars, ledgerVars, gateVars
<1>3. CASE Claim(t)
  <2>1. UNCHANGED <<pc, cursor, answer, ledger, orphans, cleanupStatus, outcome>>
    BY <1>3 DEF Claim
  <2>2. work[t] = "queued" /\ work' = [work EXCEPT ![t] = "claimed"]
    BY <1>3 DEF Claim
  <2>3. work'[t] = "claimed" /\ \A s \in Task \ {t} : work'[s] = work[s]
    BY <2>2, <1>2 DEF TypeOK
  <2>. QED
    BY <1>1, <2>1, <2>2, <2>3
       DEF WaveInv, OrphansRead, StatusEarned, Begun, LoopOrder,
           OutcomeDecided, NothingPending, CleanupTold, GateJudged, Running,
           AllTerminal
<1>4. CASE StartTask(t)
  <2>1. UNCHANGED <<pc, cursor, answer, orphans, cleanupStatus, outcome>>
    BY <1>4 DEF StartTask
  <2>2. /\ ledger[t] = "pending" /\ ledger' = [ledger EXCEPT ![t] = "running"]
        /\ work[t] = "claimed" /\ work' = [work EXCEPT ![t] = "dispatching"]
    BY <1>4 DEF StartTask, Start
  <2>3. ledger'[t] = "running" /\ \A s \in Task \ {t} : ledger'[s] = ledger[s]
    BY <2>2, <1>2 DEF TypeOK
  <2>4. work'[t] = "dispatching" /\ \A s \in Task \ {t} : work'[s] = work[s]
    BY <2>2, <1>2 DEF TypeOK
  <2>5. Running' = Running \cup {t}
    BY <2>3 DEF Running
  <2>6. OrphansRead'
    BY <2>1, <2>5 DEF WaveInv, OrphansRead
  <2>7. StatusEarned' /\ Begun'
    BY <2>1, <2>3, <2>4 DEF WaveInv, StatusEarned, Begun
  <2>8. LoopOrder' /\ OutcomeDecided' /\ NothingPending'
    BY <2>1, <2>2, <2>3, <2>4 DEF WaveInv, LoopOrder, OutcomeDecided, NothingPending
  <2>9. pc \in {"settle", "cleanup", "close", "closed"} => outcome = "TimeoutError"
    BY <2>2 DEF WaveInv, NothingPending
  <2>10. CleanupTold' /\ GateJudged'
    <3>1. ledger[t] \notin Terminal
      BY <2>2 DEF Terminal
    <3>2. ~AllTerminal
      BY <3>1 DEF AllTerminal
    <3>. QED
      BY <2>1, <2>5, <2>9, <3>2 DEF WaveInv, CleanupTold, GateJudged
  <2>. QED
    BY <1>1, <2>6, <2>7, <2>8, <2>10 DEF WaveInv
<1>5. CASE StartRefused(t) \/ DispatchEnds(t)
  <2>1. UNCHANGED <<pc, cursor, ledger, orphans, cleanupStatus, outcome>>
    BY <1>5 DEF StartRefused, DispatchEnds
  <2>2. /\ work[t] \in {"claimed", "dispatching"}
        /\ ledger[t] # "pending"
        /\ work' = [work EXCEPT ![t] = "finished"]
        /\ \A s \in Task \ {t} : answer'[s] = answer[s]
    BY <1>5, <1>2 DEF StartRefused, DispatchEnds, WaveInv, Begun, TypeOK
  <2>3. work'[t] = "finished" /\ \A s \in Task \ {t} : work'[s] = work[s]
    BY <2>2, <1>2 DEF TypeOK
  <2>4. StatusEarned' /\ Begun'
    BY <2>1, <2>2, <2>3 DEF WaveInv, StatusEarned, Begun
  <2>. QED
    BY <1>1, <2>1, <2>2, <2>3, <2>4
       DEF WaveInv, OrphansRead, LoopOrder, OutcomeDecided,
           NothingPending, CleanupTold, GateJudged, Running, AllTerminal
<1>. QED
  BY <1>3, <1>4, <1>5 DEF Pool

\* A step of the main thread up to the end of the wait.
LEMMA WaitKeepsWaveInv ==
  ASSUME WaveInv, Submit \/ Joined \/ TimeoutFires \/ \E t \in Task : Collect(t)
  PROVE  WaveInv'
<1>1. TypeInv'
  BY NextTypeInv DEF WaveInv, Next, Main, OwnStep, CleanupEnds
<1>2. TypeOK
  BY DEF WaveInv, TypeInv
<1> USE DEF poolVars, ledgerVars, gateVars
<1>3. CASE Submit
  <2>1. UNCHANGED <<answer, ledger, orphans, cleanupStatus, outcome>>
    BY <1>3 DEF Submit
  <2>2. /\ pc = "submit" /\ pc' \in {"submit", "wait"}
        /\ pc' = "wait" => cursor' = 1
    BY <1>3 DEF Submit
  <2>3. work' = [work EXCEPT ![cursor] = "queued"] /\ cursor \in Task
    BY <1>3, <1>2 DEF Submit, TypeOK
  <2>4. work'[cursor] = "queued" /\ \A s \in Task \ {cursor} : work'[s] = work[s]
    BY <2>3, <1>2 DEF TypeOK
  <2>5. Begun'
    BY <2>1, <2>4 DEF WaveInv, Begun
  <2>6. work[cursor] = "unsubmitted"
    BY <2>2, <2>3 DEF WaveInv, LoopOrder, Task
  <2>7. StatusEarned'
    BY <2>1, <2>4, <2>6 DEF WaveInv, StatusEarned
  <2>8. LoopOrder'
    <3>1. pc' = "submit" => cursor' = cursor + 1
      BY <1>3 DEF Submit
    <3>. QED
      BY <2>2, <2>3, <2>4, <3>1 DEF WaveInv, LoopOrder, Task
  <2>. QED
    BY <1>1, <2>1, <2>2, <2>5, <2>7, <2>8
       DEF WaveInv, OrphansRead, LoopOrder, OutcomeDecided, NothingPending,
           CleanupTold, GateJudged
<1>4. ASSUME NEW t \in Task, Collect(t) PROVE WaveInv'
  <2>1. UNCHANGED <<pc, cursor, work, answer, orphans, cleanupStatus, outcome>>
    BY <1>4 DEF Collect
  <2>2. pc = "wait" /\ work[t] = "finished"
    BY <1>4 DEF Collect
  <2>3. ledger' = [ledger EXCEPT ![t] = Normalize(answer[t])]
    BY <1>4 DEF Collect, Finish
  <2>4. /\ ledger'[t] = Normalize(answer[t])
        /\ \A s \in Task \ {t} : ledger'[s] = ledger[s]
    BY <2>3, <1>2 DEF TypeOK
  <2>5. ledger'[t] \in Terminal
    BY <2>2, <2>4, NormalizeIsTerminal DEF WaveInv, TypeInv, Answered
  <2>6. Begun'
    BY <2>1, <2>4, <2>5 DEF WaveInv, Begun, Terminal
  <2>7. StatusEarned'
    <3>1. Normalize(answer[t])' = Normalize(answer[t])
      BY <2>1 DEF Normalize
    <3>. QED
      BY <2>1, <2>2, <2>4, <3>1 DEF WaveInv, StatusEarned
  <2>. QED
    BY <1>1, <2>1, <2>2, <2>6, <2>7
       DEF WaveInv, OrphansRead, LoopOrder, OutcomeDecided, NothingPending,
           CleanupTold, GateJudged
<1>5. CASE Joined
  <2>1. \A t \in Task : ledger[t] # "pending"
    BY <1>5 DEF Joined, AllTerminal, Terminal
  <2>. QED
    BY <1>1, <1>5, <2>1
       DEF Joined, WaveInv, OrphansRead, StatusEarned, Begun, LoopOrder,
           OutcomeDecided, NothingPending, CleanupTold, GateJudged
<1>6. CASE TimeoutFires
  <2>1. \A t \in Task : ~(t < 1)
    BY DEF Task
  <2>. QED
    BY <1>1, <1>6, <2>1
       DEF TimeoutFires, WaveInv, OrphansRead, StatusEarned, Begun,
           LoopOrder, OutcomeDecided, NothingPending, CleanupTold,
           GateJudged
<1>. QED
  BY <1>3, <1>4, <1>5, <1>6

\* The expiry loop goes on with its claim about the entries behind it.
LEMMA ExpiryAdvances ==
  ASSUME WaveInv, pc \in {"expire", "mark"}, NextExpiry, ledger'[cursor] # "pending",
         \A t \in Task : ledger'[t] = "pending" => ledger[t] = "pending"
  PROVE  /\ pc' = "expire" \/ pc' = "settle"
         /\ pc' = "expire" => \A t \in Task : t < cursor' => ledger'[t] # "pending"
         /\ pc' = "settle" => \A t \in Task : ledger'[t] # "pending"
         /\ cleanupStatus' # "passed"
<1>1. cursor \in Task /\ NumTasks \in Nat
  BY WaveParameters DEF WaveInv, TypeInv, TypeOK, WaveAssumption
<1>2. \A t \in Task : t < cursor => ledger'[t] # "pending"
  BY DEF WaveInv, NothingPending
<1>3. \A t \in Task : t <= cursor => ledger'[t] # "pending"
  BY <1>1, <1>2 DEF Task
<1>4. cleanupStatus # "passed"
  BY DEF WaveInv, CleanupTold
<1>5. CASE cursor = NumTasks
  BY <1>1, <1>3, <1>5 DEF NextExpiry, Task
<1>6. CASE cursor # NumTasks
  BY <1>1, <1>3, <1>4, <1>6 DEF NextExpiry, Task
<1>. QED
  BY <1>5, <1>6

LEMMA ExpiryKeepsWaveInv ==
  ASSUME WaveInv, ExpireLook \/ ExpireMark
  PROVE  WaveInv'
<1>1. TypeInv'
  BY NextTypeInv DEF WaveInv, Next, Main, OwnStep, CleanupEnds
<1>2. TypeOK /\ cursor \in Task
  BY DEF WaveInv, TypeInv, TypeOK
<1> USE DEF poolVars, ledgerVars, gateVars
<1>3. pc \in {"expire", "mark"} /\ UNCHANGED <<answer, orphans, outcome>>
  BY DEF ExpireLook, ExpireMark
<1>4. outcome = "none" /\ cleanupStatus # "passed"
  BY <1>3 DEF WaveInv, OutcomeDecided, CleanupTold
<1>5. CASE ExpireLook
  <2>1. ledger' = ledger /\ pc = "expire"
    BY <1>5 DEF ExpireLook
  <2>2. work' = [work EXCEPT ![cursor] = IF work[cursor] = "queued"
                                         THEN "cancelled" ELSE work[cursor]]
    BY <1>5 DEF ExpireLook
  <2>3. \A t \in Task : \/ work'[t] = work[t]
                        \/ work[t] = "queued" /\ work'[t] = "cancelled"
    BY <2>2, <1>2 DEF TypeOK
  <2>4. Begun' /\ StatusEarned'
    BY <1>3, <2>1, <2>3 DEF WaveInv, Begun, StatusEarned
  <2>5. CASE work[cursor] # "finished" /\ ledger[cursor] = "pending"
    <3>1. pc' = "mark" /\ UNCHANGED <<cursor, cleanupStatus>>
      BY <1>5, <2>5 DEF ExpireLook
    <3>. QED
      BY <1>1, <1>3, <1>4, <2>1, <2>4, <3>1
         DEF WaveInv, OrphansRead, LoopOrder, OutcomeDecided,
             NothingPending, CleanupTold, GateJudged
  <2>6. CASE ~(work[cursor] # "finished" /\ ledger[cursor] = "pending")
    <3>1. NextExpiry
      BY <1>5, <2>6 DEF ExpireLook
    <3>2. ledger'[cursor] # "pending"
      BY <1>2, <2>1, <2>6 DEF WaveInv, Begun
    <3>. QED
      BY <1>1, <1>3, <1>4, <2>1, <2>4, <3>1, <3>2, ExpiryAdvances
         DEF WaveInv, OrphansRead, LoopOrder, OutcomeDecided,
             NothingPending, CleanupTold, GateJudged
  <2>. QED
    BY <2>5, <2>6
<1>6. CASE ExpireMark
  <2>1. work' = work /\ NextExpiry
    BY <1>6 DEF ExpireMark
  <2>2. ledger' = [ledger EXCEPT ![cursor] = "timed_out"]
    BY <1>6 DEF ExpireMark, Finish
  <2>3. /\ ledger'[cursor] = "timed_out"
        /\ \A s \in Task \ {cursor} : ledger'[s] = ledger[s]
    BY <2>2, <1>2 DEF TypeOK
  <2>4. Begun' /\ StatusEarned'
    BY <1>2, <1>3, <2>1, <2>3 DEF WaveInv, Begun, StatusEarned
  <2>. QED
    BY <1>1, <1>3, <1>4, <2>1, <2>3, <2>4, ExpiryAdvances
       DEF WaveInv, OrphansRead, LoopOrder, OutcomeDecided,
           NothingPending, CleanupTold, GateJudged
<1>. QED
  BY <1>5, <1>6

LEMMA GateKeepsWaveInv ==
  ASSUME WaveInv, Settle \/ CleanupReplies \/ CleanupRaises \/ Close
  PROVE  WaveInv'
<1>1. TypeInv'
  BY NextTypeInv DEF WaveInv, Next, Main, OwnStep, CleanupEnds
<1>2. TypeOK
  BY DEF WaveInv, TypeInv
<1> USE DEF poolVars, ledgerVars, gateVars
<1>3. CASE Settle
  <2>1. orphans = {} /\ orphans' = Running /\ Running' = Running
    BY <1>3 DEF WaveInv, OrphansRead, Settle, Running
  <2>2. pc = "settle" /\ pc' \in {"cleanup", "close"}
    BY <1>3 DEF Settle
  <2>3. UNCHANGED <<work, answer, ledger, cursor, cleanupStatus, outcome>>
    BY <1>3 DEF Settle
  <2>4. StatusEarned'
    BY <2>1, <2>3 DEF WaveInv, StatusEarned
  <2>. QED
    BY <1>1, <2>1, <2>2, <2>3, <2>4
       DEF WaveInv, OrphansRead, Begun, LoopOrder, OutcomeDecided,
           NothingPending, CleanupTold, GateJudged
<1>4. CASE CleanupReplies
  <2> PICK reply \in [orphans -> Terminal \cup {"none"}] :
        LET settled == {t \in orphans : reply[t] \in Terminal} IN
        /\ ledger' = [t \in Task |->
                        IF t \in settled THEN reply[t] ELSE ledger[t]]
        /\ cleanupStatus' = IF Running \ settled = {} THEN "passed"
                                                      ELSE "failed"
    BY <1>4 DEF CleanupReplies
  <2> DEFINE settled == {t \in orphans : reply[t] \in Terminal}
  <2>1. /\ pc = "cleanup" /\ pc' = "close"
        /\ UNCHANGED <<cursor, work, answer, orphans, outcome>>
    BY <1>4 DEF CleanupReplies
  <2>2. \A t \in Task : \/ t \in settled /\ ledger'[t] \in Terminal
                        \/ t \notin settled /\ ledger'[t] = ledger[t]
    OBVIOUS
  <2>3. cleanupStatus' = IF Running \ settled = {} THEN "passed" ELSE "failed"
    OBVIOUS
  <2>4. settled \subseteq orphans
    OBVIOUS
  <2> HIDE DEF settled
  <2>5. Running' = Running \ settled
    BY <2>2 DEF Running, Terminal
  <2>6. \A t \in Task : ledger'[t] = "pending" => ledger[t] = "pending"
    BY <2>2 DEF Terminal
  <2>7. StatusEarned'
    BY <2>1, <2>2, <2>4 DEF WaveInv, StatusEarned
  <2>8. Begun' /\ NothingPending' /\ OutcomeDecided' /\ LoopOrder'
    BY <2>1, <2>6 DEF WaveInv, Begun, NothingPending, OutcomeDecided, LoopOrder
  <2>9. CleanupTold'
    BY <2>1, <2>3, <2>5 DEF CleanupTold
  <2>. QED
    BY <1>1, <2>1, <2>7, <2>8, <2>9
       DEF WaveInv, OrphansRead, GateJudged, OutcomeDecided
<1>5. CASE CleanupRaises
  BY <1>1, <1>5
     DEF CleanupRaises, WaveInv, OrphansRead, StatusEarned, Begun,
         LoopOrder, OutcomeDecided, NothingPending, CleanupTold,
         GateJudged
<1>6. CASE Close
  <2>1. /\ pc = "close" /\ pc' = "closed"
        /\ UNCHANGED <<cursor, answer, ledger, orphans, cleanupStatus>>
    BY <1>6 DEF Close
  <2>2. outcome' = IF outcome = "TimeoutError" THEN outcome
                   ELSE IF AllTerminal THEN "returned" ELSE "WaveJoinError"
    BY <1>6 DEF Close
  <2>3. \A t \in Task : \/ work'[t] = work[t]
                        \/ work[t] = "queued" /\ work'[t] = "cancelled"
    BY <1>6 DEF Close
  <2>4. Begun' /\ StatusEarned'
    BY <2>1, <2>3 DEF WaveInv, Begun, StatusEarned
  <2>5. outcome \in {"none", "TimeoutError"}
    BY <2>1 DEF WaveInv, OutcomeDecided
  <2>6. outcome # "TimeoutError" /\ ~AllTerminal => Running # {}
    BY <1>2, <2>1
       DEF WaveInv, NothingPending, AllTerminal, Running, TypeOK, LedgerState
  <2>7. Running' = Running /\ AllTerminal' = AllTerminal
    BY <2>1 DEF Running, AllTerminal
  <2>8. NothingPending' /\ CleanupTold' /\ OutcomeDecided' /\ GateJudged'
    BY <2>1, <2>2, <2>5, <2>6, <2>7
       DEF WaveInv, NothingPending, CleanupTold, OutcomeDecided, GateJudged
  <2>. QED
    BY <1>1, <2>1, <2>4, <2>8 DEF WaveInv, OrphansRead, LoopOrder
<1>. QED
  BY <1>3, <1>4, <1>5, <1>6

LEMMA NextWaveInv == WaveInv /\ [Next]_vars => WaveInv'
<1> SUFFICES ASSUME WaveInv, [Next]_vars
             PROVE  WaveInv'
  OBVIOUS
<1>1. CASE Main
  BY <1>1, WaitKeepsWaveInv, ExpiryKeepsWaveInv, GateKeepsWaveInv DEF Main, OwnStep, CleanupEnds
<1>2. CASE \E t \in Task : Pool(t) \/ DispatchEnds(t)
  BY <1>2, PoolKeepsWaveInv
<1>3. CASE UNCHANGED vars
  <2>1. TypeInv'
    BY <1>3, NextTypeInv DEF WaveInv
  <2>. QED
    BY <1>3, <2>1
       DEF vars, WaveInv, OrphansRead, StatusEarned, Begun, LoopOrder,
           OutcomeDecided, NothingPending, CleanupTold, GateJudged, Running,
           AllTerminal
<1>. QED
  BY <1>1, <1>2, <1>3 DEF Next, Quiet

LEMMA WaveInvariant == Spec => []WaveInv
BY InitWaveInv, NextWaveInv, PTL DEF Spec

\* No status in the ledger is invented or moved from one task to another.
THEOREM StatusIsEarned == Spec => []StatusEarned
<1>1. WaveInv => StatusEarned
  BY DEF WaveInv
<1>. QED
  BY <1>1, WaveInvariant, PTL

\* WaveJoinError is raised only for an orphan that cleanup left running.
THEOREM RefusalIsJust == Spec => []RefusalNamesOrphans
<1>1. WaveInv => RefusalNamesOrphans
  BY DEF WaveInv, RefusalNamesOrphans, GateJudged, NothingPending, CleanupTold,
         OutcomeDecided, TypeInv, TypeOK, ControlPoint
<1>. QED
  BY <1>1, WaveInvariant, PTL

-----------------------------------------------------------------------------
\* Waves without a timeout.

LEMMA NextTerminalIsOver ==
  ASSUME WaveInv, TerminalIsOver, Next
  PROVE  TerminalIsOver'
<1> SUFFICES ASSUME ~HasTimeout PROVE TerminalIsOver'
  BY DEF TerminalIsOver
<1>1. TypeOK
  BY DEF WaveInv, TypeInv
<1> USE DEF poolVars, ledgerVars, gateVars
<1>2. ASSUME NEW t \in Task, Claim(t) \/ StartTask(t) \/ StartRefused(t)
                             \/ DispatchEnds(t)
      PROVE  TerminalIsOver'
  <2>1. pc' = pc /\ work[t] \in {"queued", "claimed", "dispatching"}
    BY <1>2 DEF Claim, StartTask, StartRefused, DispatchEnds
  <2>2. /\ work'[t] \in {"claimed", "dispatching", "finished"}
        /\ \A s \in Task \ {t} : work'[s] = work[s]
    BY <1>1, <1>2 DEF Claim, StartTask, StartRefused, DispatchEnds, TypeOK
  <2>3. ledger[t] \notin Terminal
    BY <2>1 DEF TerminalIsOver
  <2>4. \/ ledger' = ledger
        \/ ledger' = [ledger EXCEPT ![t] = "running"]
    BY <1>2 DEF Claim, StartTask, StartRefused, DispatchEnds, Start
  <2>5. "running" \notin Terminal
    BY DEF Terminal
  <2>6. /\ ledger'[t] \notin Terminal
        /\ \A s \in Task \ {t} : ledger'[s] = ledger[s]
    BY <1>1, <2>3, <2>4, <2>5 DEF TypeOK
  <2>. QED
    BY <2>1, <2>2, <2>3, <2>6 DEF TerminalIsOver, AllTerminal
<1>3. CASE Submit
  <2>1. work' = [work EXCEPT ![cursor] = "queued"] /\ cursor \in Task
    BY <1>1, <1>3 DEF Submit, TypeOK
  <2>2. work[cursor] = "unsubmitted"
    BY <1>3, <2>1 DEF Submit, WaveInv, LoopOrder, Task
  <2>. QED
    BY <1>1, <1>3, <2>1, <2>2 DEF Submit, TerminalIsOver, TypeOK
<1>4. ASSUME NEW t \in Task, Collect(t) PROVE TerminalIsOver'
  <2>1. pc = "wait" /\ pc' = pc /\ work' = work /\ work[t] = "finished"
    BY <1>4 DEF Collect
  <2>2. \A s \in Task \ {t} : ledger'[s] = ledger[s]
    BY <1>1, <1>4 DEF Collect, Finish, TypeOK
  <2>. QED
    BY <2>1, <2>2 DEF TerminalIsOver
<1>5. CASE Joined
  BY <1>5 DEF Joined, TerminalIsOver, AllTerminal
<1>6. CASE TimeoutFires \/ ExpireLook \/ ExpireMark
  BY <1>6 DEF TimeoutFires, ExpireLook, ExpireMark, TerminalIsOver
<1>7. CASE Settle \/ CleanupRaises
  BY <1>7 DEF Settle, CleanupRaises, TerminalIsOver, AllTerminal
<1>8. CASE CleanupReplies
  <2>1. Running = {}
    BY <1>8 DEF CleanupReplies, TerminalIsOver, AllTerminal, Running, Terminal
  <2>2. orphans = {}
    BY <1>8, <2>1 DEF CleanupReplies, WaveInv, OrphansRead
  <2>3. \A t \in Task : ledger'[t] = ledger[t]
    BY <1>8, <2>2 DEF CleanupReplies
  <2>. QED
    BY <1>8, <2>3 DEF CleanupReplies, TerminalIsOver, AllTerminal
<1>9. CASE Close
  <2>1. \A t \in Task : work[t] = "finished" => work'[t] = "finished"
    BY <1>9 DEF Close
  <2>. QED
    BY <1>9, <2>1 DEF Close, TerminalIsOver, AllTerminal
<1>10. CASE Quiet
  BY <1>10 DEF Quiet, vars, TerminalIsOver, AllTerminal
<1>. QED
  BY <1>2, <1>3, <1>4, <1>5, <1>6, <1>7, <1>8, <1>9, <1>10
     DEF Next, Main, OwnStep, CleanupEnds, Pool

LEMMA TerminalIsOverInvariant == Spec => []TerminalIsOver
<1>1. Init => TerminalIsOver
  BY DEF Init, TerminalIsOver, Terminal
<1>2. WaveInv /\ TerminalIsOver /\ [Next]_vars => TerminalIsOver'
  <2>1. TerminalIsOver /\ UNCHANGED vars => TerminalIsOver'
    BY DEF vars, TerminalIsOver, AllTerminal
  <2>. QED
    BY <2>1, NextTerminalIsOver
<1>. QED
  BY <1>1, <1>2, WaveInvariant, PTL DEF Spec

\* execute_wave without a timeout keeps its word: the caller has no result
\* while a dispatch that cleanup has not vouched for is under way.
THEOREM JoinGateWithoutTimeout ==
  ASSUME ~HasTimeout
  PROVE  Spec => []JoinGate
<1>1. WaveInv /\ TerminalIsOver => JoinGate
  BY DEF WaveInv, GateJudged, TerminalIsOver, JoinGate, AllTerminal, Dispatching
<1>. QED
  BY <1>1, WaveInvariant, TerminalIsOverInvariant, PTL

\* Without a timeout the recorded peak covers the dispatches under way.
THEOREM PeakWithoutTimeout ==
  ASSUME ~HasTimeout
  PROVE  Spec => []PeakCoversDispatches
<1>1. WaveInv /\ TerminalIsOver /\ CountsRunning => PeakCoversDispatches
  <2> SUFFICES ASSUME WaveInv, TerminalIsOver, CountsRunning
               PROVE  PeakCoversDispatches
    OBVIOUS
  <2>1. Dispatching \subseteq Running
    BY DEF WaveInv, TypeInv, TypeOK, Begun, TerminalIsOver, LedgerState,
           Dispatching, Running
  <2>2. /\ Cardinality(Dispatching) <= Cardinality(Running)
        /\ Cardinality(Dispatching) \in Nat
    BY <2>1, RunningFinite, FS_Subset, FS_CardinalityType
  <2>. QED
    BY <2>2, RunningFinite
       DEF CountsRunning, PeakCoversDispatches, WaveInv, TypeInv, TypeOK
<1>. QED
  BY <1>1, WaveInvariant, TerminalIsOverInvariant, CountCorrect, PTL

-----------------------------------------------------------------------------
\* execute_wave implements WaveJoin.

\* Once a result is returned nothing can begin: the whole Wave is terminal.
LEMMA ReturnedIsClosed ==
  ASSUME WaveInv, Gate = "returned"
  PROVE  \A t \in Task : ledger[t] # "pending"
BY DEF WaveInv, Gate, GateJudged, AllTerminal, Terminal

\* Settling one entry is a step of the promise.
LEMMA FinishSettles ==
  ASSUME TypeOK, NEW t \in Task, NEW s \in Terminal, Finish(t, s),
         pc # "closed", pc' # "closed"
  PROVE  Join!Settle({t})
<1>1. Gate = "open" /\ Gate' = Gate
  BY DEF Gate
<1>2. ledger[t] \notin Terminal
  BY DEF Finish, Terminal
<1>3. ledger' = [u \in Task |-> IF u \in {t} THEN s ELSE ledger[u]]
  BY DEF Finish, TypeOK
<1> DEFINE verdict == [u \in {t} |-> s]
<1>4. verdict \in [{t} -> Terminal]
  OBVIOUS
<1>5. ledger' = [u \in Task |-> IF u \in {t} THEN verdict[u] ELSE ledger[u]]
  BY <1>3
<1>. QED
  BY <1>1, <1>2, <1>4, <1>5 DEF Join!Settle

\* The cleanup callback settles the orphans it answers for.
LEMMA CleanupSettles ==
  ASSUME WaveInv, CleanupReplies
  PROVE  \E S \in SUBSET Task : Join!Settle(S)
<1> PICK reply \in [orphans -> Terminal \cup {"none"}] :
      LET settled == {t \in orphans : reply[t] \in Terminal} IN
      ledger' = [t \in Task |-> IF t \in settled THEN reply[t] ELSE ledger[t]]
  BY DEF CleanupReplies
<1> DEFINE settled == {t \in orphans : reply[t] \in Terminal}
           verdict == [t \in settled |-> reply[t]]
<1>1. Gate = "open" /\ Gate' = Gate
  BY DEF CleanupReplies, Gate
<1>2. settled \subseteq Running
  BY DEF CleanupReplies, WaveInv, OrphansRead
<1>3. settled \in SUBSET Task /\ \A t \in settled : ledger[t] \notin Terminal
  BY <1>2 DEF Running, Terminal
<1>4. verdict \in [settled -> Terminal]
  OBVIOUS
<1>5. ledger' = [t \in Task |-> IF t \in settled THEN verdict[t] ELSE ledger[t]]
  OBVIOUS
<1> HIDE DEF settled, verdict
<1>. QED
  BY <1>1, <1>3, <1>4, <1>5 DEF Join!Settle

LEMMA StepsImplementWaveJoin ==
  ASSUME WaveInv, [Next]_vars
  PROVE  [Join!JoinNext]_(Join!joinVars)
<1>1. TypeOK
  BY DEF WaveInv, TypeInv
<1> USE DEF poolVars, ledgerVars, gateVars
<1>2. ASSUME NEW t \in Task, StartTask(t) PROVE Join!Begin(t)
  <2>1. Gate' = Gate
    BY <1>2 DEF StartTask, Gate
  <2>2. ledger[t] = "pending" /\ ledger' = [ledger EXCEPT ![t] = "running"]
    BY <1>2 DEF StartTask, Start
  <2>. QED
    BY <2>1, <2>2, ReturnedIsClosed DEF Join!Begin
<1>3. ASSUME NEW t \in Task, Collect(t) PROVE Join!Settle({t})
  <2>1. Normalize(answer[t]) \in Terminal
    BY <1>3, NormalizeIsTerminal DEF Collect, WaveInv, TypeInv, Answered
  <2>. QED
    BY <1>1, <1>3, <2>1, FinishSettles DEF Collect
<1>4. ASSUME ExpireMark PROVE Join!Settle({cursor})
  <2>1. cursor \in Task /\ "timed_out" \in Terminal
    BY <1>1 DEF TypeOK, Terminal
  <2>2. pc # "closed" /\ pc' # "closed"
    BY <1>4 DEF ExpireMark, NextExpiry
  <2>3. Finish(cursor, "timed_out")
    BY <1>4 DEF ExpireMark
  <2>. QED
    BY <1>1, <2>1, <2>2, <2>3, FinishSettles
<1>5. ASSUME Close PROVE Join!Return \/ Join!Refuse
  <2>1. Gate = "open" /\ ledger' = ledger
    BY <1>5 DEF Close, Gate
  <2>2. Gate' = IF outcome' = "returned" THEN "returned" ELSE "refused"
    BY <1>5 DEF Close, Gate
  <2>3. outcome' = "returned" => AllTerminal
    BY <1>5 DEF Close
  <2>. QED
    BY <2>1, <2>2, <2>3
       DEF Join!Return, Join!Refuse, Join!AllSettled, AllTerminal
<1>6. ASSUME Submit \/ Joined \/ TimeoutFires \/ ExpireLook \/ Settle
             \/ CleanupRaises
      PROVE  UNCHANGED Join!joinVars
  BY <1>6
     DEF Submit, Joined, TimeoutFires, ExpireLook, NextExpiry, Settle,
         CleanupRaises, Gate, Join!joinVars
<1>7. ASSUME NEW t \in Task, Claim(t) \/ StartRefused(t) \/ DispatchEnds(t)
      PROVE  UNCHANGED Join!joinVars
  BY <1>7 DEF Claim, StartRefused, DispatchEnds, Gate, Join!joinVars
<1>8. ASSUME UNCHANGED vars PROVE UNCHANGED Join!joinVars
  BY <1>8 DEF vars, Gate, Join!joinVars
<1>9. \A t \in Task : {t} \in SUBSET Task
  OBVIOUS
<1>10. cursor \in Task
  BY <1>1 DEF TypeOK
<1>. QED
  BY <1>2, <1>3, <1>4, <1>5, <1>6, <1>7, <1>8, <1>9, <1>10, CleanupSettles
     DEF Next, Main, OwnStep, CleanupEnds, Pool, Quiet, Join!JoinNext

\* Every behaviour of execute_wave is one that WaveJoin promises: statuses
\* settle at most once, and a result is returned only for a Wave that has
\* joined and never outdated afterwards.
THEOREM ImplementsPromise == Spec => ImplementsWaveJoin
<1>1. Init => Join!JoinInit
  BY DEF Init, Join!JoinInit, Gate
<1>. QED
  BY <1>1, StepsImplementWaveJoin, WaveInvariant, PTL
     DEF Spec, ImplementsWaveJoin, Join!JoinSpec

-----------------------------------------------------------------------------
\* The evidence after the gate.

\* Where line 212 catches the timeout, the ledger that the gate has judged
\* does not change any more, with or without a timeout or a cleanup callback.
THEOREM ClosedStaysFrozen ==
  ASSUME TimeoutCaught
  PROVE  Spec => ClosedIsFrozen
<1> DEFINE Caught == outcome # "TimeoutError"
<1>1. Init => Caught
  BY DEF Init
<1>2. Caught /\ [Next]_vars => Caught'
  BY DEF Next, Main, OwnStep, CleanupEnds, Pool, Quiet, Submit, Joined, TimeoutFires, ExpireLook,
         ExpireMark, Settle, CleanupReplies, CleanupRaises, Close, Collect,
         Claim, StartTask, StartRefused, DispatchEnds, vars, gateVars
<1>3. WaveInv /\ Caught /\ [Next]_vars => [pc = "closed" => ledger' = ledger]_vars
  <2> SUFFICES ASSUME WaveInv, Caught, [Next]_vars, pc = "closed"
               PROVE  ledger' = ledger
    OBVIOUS
  <2>1. \A t \in Task : ledger[t] # "pending"
    BY DEF WaveInv, NothingPending
  <2>2. ASSUME NEW t \in Task PROVE ~StartTask(t)
    BY <2>1 DEF StartTask, Start
  <2>. QED
    BY <2>2
       DEF Next, Main, OwnStep, CleanupEnds, Pool, Quiet, Submit, Joined, TimeoutFires, ExpireLook,
           ExpireMark, Settle, CleanupReplies, CleanupRaises, Close, Collect,
           Claim, StartRefused, DispatchEnds, vars, ledgerVars
<1> HIDE DEF Caught
<1>. QED
  BY <1>1, <1>2, <1>3, WaveInvariant, PTL DEF Spec, ClosedIsFrozen

=============================================================================
