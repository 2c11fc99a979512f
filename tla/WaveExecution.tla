--------------------------- MODULE WaveExecution ---------------------------
(***************************************************************************)
(* execute_wave and its WaveLedger (harness_runtime/wave_execution.py):    *)
(* one main thread submits every task of a Wave to a ThreadPoolExecutor,   *)
(* collects the futures as they complete, and either joins them all or,    *)
(* after a timeout, cancels what it can, asks the adapter to clean the     *)
(* orphans up and decides whether the Wave may close.                      *)
(*                                                                         *)
(* Tasks are named by their position in ledger.task_ids (WaveLedger        *)
(* refuses an empty tuple and a tuple with duplicates).  The pool's        *)
(* threads are anonymous: work[t] says where the thread that holds task t  *)
(* is.  Steps are the code's critical sections and the reads and writes    *)
(* it makes outside of them; future.done() and future.cancel() are one     *)
(* step because a change between the two leads where a change before them  *)
(* leads.                                                                  *)
(***************************************************************************)
EXTENDS Integers, FiniteSets

CONSTANTS
  NumTasks,       \* len(ledger.task_ids)
  MaxParallel,    \* max_parallel
  HasTimeout,     \* timeout_s is not None
  HasCleanup,     \* cleanup is not None
  TimeoutCaught,  \* concurrent.futures.TimeoutError is the builtin
                  \* TimeoutError that line 212 names (Python >= 3.11;
                  \* pyproject.toml:14 allows 3.9)
  Outcomes        \* how a dispatch may end, a subset of DispatchOutcome

Terminal == {"completed", "failed", "timed_out", "cancelled"}

\* The statuses an adapter may answer with, an alias of one, an exception,
\* and a status string the ledger does not know.
DispatchOutcome == Terminal \cup {"done", "exception", "nonterminal"}

WaveAssumption ==
  /\ NumTasks \in Nat \ {0}
  /\ MaxParallel \in Nat \ {0}
  /\ HasTimeout \in BOOLEAN
  /\ HasCleanup \in BOOLEAN
  /\ TimeoutCaught \in BOOLEAN
  /\ Outcomes \subseteq DispatchOutcome

ASSUME WaveParameters == WaveAssumption

Task == 1..NumTasks
PoolSize == IF MaxParallel < NumTasks THEN MaxParallel ELSE NumTasks

VARIABLES
  pc,             \* control point of execute_wave's own thread
  cursor,         \* the task its submit or expiry loop is at
  work,           \* per task: the state of its future and of its thread
  answer,         \* per task: how its dispatch ended
  ledger,         \* entries[t].status
  active,         \* _active_count
  maxActive,      \* _max_active
  orphans,        \* orphan_ids, as read when the finally block begins
  cleanupStatus,  \* cleanup_status
  outcome         \* what the caller gets

vars == <<pc, cursor, work, answer, ledger, active, maxActive, orphans,
          cleanupStatus, outcome>>
poolVars == <<work, answer>>
ledgerVars == <<ledger, active, maxActive>>
gateVars == <<orphans, cleanupStatus, outcome>>

ControlPoint == {"submit", "wait", "expire", "mark", "settle", "cleanup",
                 "close", "closed"}
WorkState == {"unsubmitted", "queued", "claimed", "dispatching", "finished",
              "cancelled"}
LedgerState == {"pending", "running"} \cup Terminal

Running == {t \in Task : ledger[t] = "running"}
Dispatching == {t \in Task : work[t] = "dispatching"}
Busy == {t \in Task : work[t] \in {"claimed", "dispatching"}}
AllTerminal == \A t \in Task : ledger[t] \in Terminal

Init ==
  /\ pc = "submit"
  /\ cursor = 1
  /\ work = [t \in Task |-> "unsubmitted"]
  /\ answer = [t \in Task |-> "none"]
  /\ ledger = [t \in Task |-> "pending"]
  /\ active = 0
  /\ maxActive = 0
  /\ orphans = {}
  /\ cleanupStatus = "not_required"
  /\ outcome = "none"

-----------------------------------------------------------------------------
\* The ledger, under its lock.  Definitions named ...Slip are what the
\* definition after them would be if the code had slipped there; no action
\* uses them, and each is a slip that some property below rules out.

\* A start that does not look at the entry's status
StartGuardSlip(t) ==
  /\ ledger' = [ledger EXCEPT ![t] = "running"]
  /\ active' = active + 1
  /\ maxActive' = IF active + 1 > maxActive THEN active + 1 ELSE maxActive

\* WaveLedger.start
Start(t) ==
  /\ ledger[t] = "pending"
  /\ ledger' = [ledger EXCEPT ![t] = "running"]
  /\ active' = active + 1
  /\ maxActive' = IF active + 1 > maxActive THEN active + 1 ELSE maxActive

\* A finish that always decrements the count
FinishAlwaysCountsSlip(t, status) ==
  /\ ledger[t] \in {"running", "pending"}
  /\ ledger' = [ledger EXCEPT ![t] = status]
  /\ active' = active - 1
  /\ UNCHANGED maxActive

\* WaveLedger.finish, which accepts a pending entry as well as a running one
Finish(t, status) ==
  /\ ledger[t] \in {"running", "pending"}
  /\ ledger' = [ledger EXCEPT ![t] = status]
  /\ active' = IF ledger[t] = "running" THEN active - 1 ELSE active
  /\ UNCHANGED maxActive

\* _normalize_outcome inside the try block that turns an exception into
\* "failed"
Normalize(o) ==
  CASE o = "done" -> "completed"
    [] o \in {"exception", "nonterminal"} -> "failed"
    [] OTHER -> o

-----------------------------------------------------------------------------
\* The pool's threads: run_one on the futures of the executor's FIFO queue.

\* A free thread takes the oldest future that was not cancelled.
Claim(t) ==
  /\ work[t] = "queued"
  /\ \A s \in Task : s < t => work[s] # "queued"
  /\ Cardinality(Busy) < PoolSize
  /\ work' = [work EXCEPT ![t] = "claimed"]
  /\ UNCHANGED <<pc, cursor, answer, ledgerVars, gateVars>>

\* ledger.start accepts, dispatch is called
StartTask(t) ==
  /\ work[t] = "claimed"
  /\ Start(t)
  /\ work' = [work EXCEPT ![t] = "dispatching"]
  /\ UNCHANGED <<pc, cursor, answer, gateVars>>

\* ledger.start raises: the entry has expired and dispatch is not called
StartRefused(t) ==
  /\ work[t] = "claimed"
  /\ ledger[t] # "pending"
  /\ work' = [work EXCEPT ![t] = "finished"]
  /\ answer' = [answer EXCEPT ![t] = "exception"]
  /\ UNCHANGED <<pc, cursor, ledgerVars, gateVars>>

\* The adapter's dispatch ends, one way or another.
DispatchEnds(t) ==
  /\ work[t] = "dispatching"
  /\ \E o \in Outcomes : answer' = [answer EXCEPT ![t] = o]
  /\ work' = [work EXCEPT ![t] = "finished"]
  /\ UNCHANGED <<pc, cursor, ledgerVars, gateVars>>

-----------------------------------------------------------------------------
\* The main thread.

\* One turn of the submit loop.
Submit ==
  /\ pc = "submit"
  /\ work' = [work EXCEPT ![cursor] = "queued"]
  /\ IF cursor = NumTasks
     THEN pc' = "wait" /\ cursor' = 1
     ELSE cursor' = cursor + 1 /\ UNCHANGED pc
  /\ UNCHANGED <<answer, ledgerVars, gateVars>>

\* A task that counts as over once its dispatch was called
CollectEarlySlip(t) ==
  /\ pc = "wait"
  /\ work[t] \in {"dispatching", "finished"}
  /\ Finish(t, "completed")
  /\ UNCHANGED <<pc, cursor, poolVars, gateVars>>

\* as_completed yields a finished future that it has not yielded before.
\* Until a timeout the ledger is terminal exactly for the yielded ones.
Collect(t) ==
  /\ pc = "wait"
  /\ work[t] = "finished"
  /\ Finish(t, Normalize(answer[t]))
  /\ UNCHANGED <<pc, cursor, poolVars, gateVars>>

\* as_completed is exhausted.
Joined ==
  /\ pc = "wait"
  /\ AllTerminal
  /\ pc' = "settle"
  /\ UNCHANGED <<cursor, poolVars, ledgerVars, gateVars>>

\* as_completed raises while a future is not yielded, finished or not.
TimeoutFires ==
  /\ HasTimeout
  /\ pc = "wait"
  /\ ~AllTerminal
  /\ IF TimeoutCaught
     THEN pc' = "expire" /\ UNCHANGED outcome
     ELSE pc' = "settle" /\ outcome' = "TimeoutError"
  /\ UNCHANGED <<cursor, poolVars, ledgerVars, orphans, cleanupStatus>>

\* The expiry loop goes on to the next future or falls through.
NextExpiry ==
  IF cursor = NumTasks
  THEN pc' = "settle" /\ cursor' = 1 /\ cleanupStatus' = "required"
  ELSE pc' = "expire" /\ cursor' = cursor + 1 /\ UNCHANGED cleanupStatus

\* A cancelled future that is taken for a settled one
ExpireLookSlip ==
  /\ pc = "expire"
  /\ work' = [work EXCEPT ![cursor] = IF @ = "queued" THEN "cancelled" ELSE @]
  /\ IF work[cursor] \notin {"finished", "queued"} /\ ledger[cursor] = "pending"
     THEN pc' = "mark" /\ UNCHANGED <<cursor, cleanupStatus>>
     ELSE NextExpiry
  /\ UNCHANGED <<answer, ledgerVars, orphans, outcome>>

\* A future that is not done is cancelled if no thread has it, and the
\* entry's status is read, without the ledger's lock.
ExpireLook ==
  /\ pc = "expire"
  /\ work' = [work EXCEPT ![cursor] = IF @ = "queued" THEN "cancelled" ELSE @]
  /\ IF work[cursor] # "finished" /\ ledger[cursor] = "pending"
     THEN pc' = "mark" /\ UNCHANGED <<cursor, cleanupStatus>>
     ELSE NextExpiry
  /\ UNCHANGED <<answer, ledgerVars, orphans, outcome>>

\* ledger.finish(task_id, "timed_out") on the strength of that read
ExpireMark ==
  /\ pc = "mark"
  /\ Finish(cursor, "timed_out")
  /\ NextExpiry
  /\ UNCHANGED <<poolVars, orphans, outcome>>

\* The finally block reads the active tasks, and calls cleanup if it has to.
Settle ==
  /\ pc = "settle"
  /\ orphans' = Running
  /\ pc' = IF Running # {} /\ HasCleanup THEN "cleanup" ELSE "close"
  /\ UNCHANGED <<cursor, poolVars, ledgerVars, cleanupStatus, outcome>>

\* A cleanup whose answer is taken for any task it names
CleanupRepliesSlip ==
  /\ pc = "cleanup"
  /\ \E reply \in [Task -> Terminal \cup {"none"}] :
       LET settled == {t \in Task : reply[t] \in Terminal} IN
       /\ ledger' = [t \in Task |->
                       IF t \in settled THEN reply[t] ELSE ledger[t]]
       /\ active' = active - Cardinality(settled \cap Running)
       /\ cleanupStatus' = IF Running \ settled = {} THEN "passed"
                                                     ELSE "failed"
  /\ pc' = "close"
  /\ UNCHANGED <<cursor, poolVars, maxActive, orphans, outcome>>

\* cleanup answers, for each orphan, with a terminal status or without one.
CleanupReplies ==
  /\ pc = "cleanup"
  /\ \E reply \in [orphans -> Terminal \cup {"none"}] :
       LET settled == {t \in orphans : reply[t] \in Terminal} IN
       /\ ledger' = [t \in Task |->
                       IF t \in settled THEN reply[t] ELSE ledger[t]]
       /\ active' = active - Cardinality(settled)
       /\ cleanupStatus' = IF Running \ settled = {} THEN "passed"
                                                     ELSE "failed"
  /\ pc' = "close"
  /\ UNCHANGED <<cursor, poolVars, maxActive, orphans, outcome>>

CleanupRaises ==
  /\ pc = "cleanup"
  /\ cleanupStatus' = "failed"
  /\ pc' = "close"
  /\ UNCHANGED <<cursor, poolVars, ledgerVars, orphans, outcome>>

\* A shutdown that waits for the pool's threads
CloseWaitsSlip ==
  /\ pc = "close"
  /\ Busy = {}
  /\ work' = [t \in Task |-> IF work[t] = "queued" THEN "cancelled"
                                                   ELSE work[t]]
  /\ outcome' = IF outcome = "TimeoutError" THEN outcome
                ELSE IF AllTerminal THEN "returned" ELSE "WaveJoinError"
  /\ pc' = "closed"
  /\ UNCHANGED <<cursor, answer, ledgerVars, orphans, cleanupStatus>>

\* A gate that is open to a Wave whose cleanup was tried
CloseUnjoinedSlip ==
  /\ pc = "close"
  /\ work' = [t \in Task |-> IF work[t] = "queued" THEN "cancelled"
                                                   ELSE work[t]]
  /\ outcome' = IF outcome = "TimeoutError" THEN outcome ELSE "returned"
  /\ pc' = "closed"
  /\ UNCHANGED <<cursor, answer, ledgerVars, orphans, cleanupStatus>>

\* A gate that is closed to a Wave with a failed task
CloseFailedSlip ==
  /\ pc = "close"
  /\ work' = [t \in Task |-> IF work[t] = "queued" THEN "cancelled"
                                                   ELSE work[t]]
  /\ outcome' = IF outcome = "TimeoutError" THEN outcome
                ELSE IF \A t \in Task : ledger[t] = "completed"
                     THEN "returned" ELSE "WaveJoinError"
  /\ pc' = "closed"
  /\ UNCHANGED <<cursor, answer, ledgerVars, orphans, cleanupStatus>>

\* shutdown(wait=False, cancel_futures=True), then the join gate; an
\* exception that is under way passes the gate by.
Close ==
  /\ pc = "close"
  /\ work' = [t \in Task |-> IF work[t] = "queued" THEN "cancelled"
                                                   ELSE work[t]]
  /\ outcome' = IF outcome = "TimeoutError" THEN outcome
                ELSE IF AllTerminal THEN "returned" ELSE "WaveJoinError"
  /\ pc' = "closed"
  /\ UNCHANGED <<cursor, answer, ledgerVars, orphans, cleanupStatus>>

\* The caller has its answer and no thread of the pool is at work.
Quiet ==
  /\ pc = "closed"
  /\ Busy = {}
  /\ UNCHANGED vars

\* What the thread does by itself, and what it waits for in cleanup(orphan_ids)
OwnStep ==
  \/ Submit \/ Joined \/ TimeoutFires \/ ExpireLook \/ ExpireMark
  \/ Settle \/ Close
  \/ \E t \in Task : Collect(t)

CleanupEnds == CleanupReplies \/ CleanupRaises

Main == OwnStep \/ CleanupEnds

Pool(t) == Claim(t) \/ StartTask(t) \/ StartRefused(t)

Next ==
  \/ Main
  \/ \E t \in Task : Pool(t)
  \/ \E t \in Task : DispatchEnds(t)
  \/ Quiet

Spec == Init /\ [][Next]_vars

\* execute_wave's thread and the pool's threads are scheduled; whether a
\* dispatch ever ends is up to the adapter, and so is whether cleanup, which
\* is called on the main thread with no bound (line 223), ever returns.  The
\* deadline of as_completed is a clock's, so TimeoutFires is fair together
\* with the thread it wakes.
FairSpec ==
  /\ Spec
  /\ WF_vars(OwnStep)
  /\ \A t \in Task : WF_vars(Pool(t))

\* The same, with an adapter all of whose dispatches end.
FairDispatchSpec ==
  /\ FairSpec
  /\ \A t \in Task : WF_vars(DispatchEnds(t))

-----------------------------------------------------------------------------
\* Properties.

\* Every variable keeps its type.
TypeOK ==
  /\ pc \in ControlPoint
  /\ cursor \in Task
  /\ work \in [Task -> WorkState]
  /\ answer \in [Task -> DispatchOutcome \cup {"none"}]
  /\ ledger \in [Task -> LedgerState]
  /\ active \in Int
  /\ maxActive \in Nat
  /\ orphans \in SUBSET Task
  /\ cleanupStatus \in {"not_required", "required", "passed", "failed"}
  /\ outcome \in {"none", "returned", "WaveJoinError", "TimeoutError"}

\* _active_count is the number of entries that are running, whatever the
\* order in which threads start, the main thread collects, entries expire
\* and orphans are cleaned up (start and finish, lines 74-95).
CountsRunning ==
  /\ active = Cardinality(Running)
  /\ active <= maxActive

\* A status the ledger holds was earned: it is what the task's own dispatch
\* ended with, or the task expired, or the cleanup callback vouched for it
\* (lines 205-218 and 220-228).  No result is invented or moved between tasks.
StatusEarned ==
  \A t \in Task \ orphans :
    \/ ledger[t] \in {"pending", "running", "timed_out"}
    \/ work[t] = "finished" /\ ledger[t] = Normalize(answer[t])

\* The report never claims less concurrency than there is: the dispatches
\* under way are at most the peak that the ledger has recorded.
PeakCoversDispatches == Cardinality(Dispatching) <= maxActive

\* "refuse to return before it joins" (line 181): when the caller gets a
\* result, a dispatch that is still under way belongs to an orphan that the
\* cleanup callback has vouched for.
JoinGate == outcome = "returned" => Dispatching \subseteq orphans

\* actual_parallelism, which the validator of the evidence bounds by
\* planned_parallelism (line 288), is at most the size of the pool.
MeasuredWithinPool == maxActive <= PoolSize

\* A refusal names its culprit: WaveJoinError is raised only when an orphan
\* is left that cleanup did not settle, never for a task that is pending.
RefusalNamesOrphans ==
  outcome = "WaveJoinError" =>
    /\ Running # {}
    /\ \A t \in Task : ledger[t] # "pending"
    /\ cleanupStatus # "passed"

\* Once the gate is closed by a join or by a refusal, the ledger it judged is
\* final: no thread that the timeout left behind can begin a task.
ClosedIsFrozen == [][pc = "closed" => ledger' = ledger]_vars

\* A hung dispatch cannot hold the Wave (the timeout of lines 204-218): with
\* one, execute_wave ends even if no dispatch ever does.  What can still hold
\* it is the adapter's cleanup callback, and only where it was asked about an
\* orphan: nothing bounds that call.
GateEnds == <>[](pc = "closed" \/ (pc = "cleanup" /\ orphans # {}))

\* "an incomplete join raises WaveJoinError" (line 185): a Wave that ends
\* before all of its entries are terminal ends with that error.
IncompleteJoinRefused ==
  (pc = "closed" /\ ~AllTerminal) => outcome = "WaveJoinError"

\* Without one, it ends with a result as soon as every dispatch ends.
JoinEnds == <>(outcome = "returned")

-----------------------------------------------------------------------------
\* The abstract promise.

Gate == IF pc # "closed" THEN "open"
        ELSE IF outcome = "returned" THEN "returned" ELSE "refused"

Join == INSTANCE WaveJoin WITH status <- ledger, gate <- Gate

\* execute_wave keeps the promise of WaveJoin: statuses settle once, and a
\* result is returned only for a Wave that has joined, and is never outdated.
ImplementsWaveJoin == Join!JoinSpec

-----------------------------------------------------------------------------
\* What holds between the steps: the parts of the inductive invariant that
\* WaveExecutionProofs uses.

\* A finished future has an outcome to normalize.
Answered == \A t \in Task : work[t] = "finished" => answer[t] \in DispatchOutcome

\* The orphans are read once, and stay running until cleanup speaks.
OrphansRead ==
  /\ pc \in {"submit", "wait", "expire", "mark", "settle"} => orphans = {}
  /\ pc = "cleanup" => orphans \subseteq Running

\* The caller's answer is decided at the gate; a TimeoutError that was not
\* caught is on its way from the settling on.
OutcomeDecided ==
  /\ pc \in {"submit", "wait", "expire", "mark"} => outcome = "none"
  /\ pc \in {"settle", "cleanup", "close"} => outcome \in {"none", "TimeoutError"}
  /\ pc = "closed" => outcome # "none"

\* The expiry loop leaves no entry pending behind it, and unless the timeout
\* escaped nothing is pending when the Wave is judged.
NothingPending ==
  /\ pc \in {"expire", "mark"} =>
       \A t \in Task : t < cursor => ledger[t] # "pending"
  /\ pc \in {"settle", "cleanup", "close", "closed"} /\ outcome # "TimeoutError" =>
       \A t \in Task : ledger[t] # "pending"

\* What is said of the cleanup is true when the Wave is judged.
CleanupTold ==
  cleanupStatus = "passed" =>
    /\ pc \in {"close", "closed"}
    /\ outcome # "TimeoutError" => Running = {}

\* A result is returned for a Wave that is terminal, and only for one.
GateJudged ==
  /\ outcome = "returned" => AllTerminal
  /\ outcome = "WaveJoinError" => Running # {}

\* A dispatch begins after its entry has left "pending".
Begun ==
  \A t \in Task : work[t] \in {"dispatching", "finished"} => ledger[t] # "pending"

\* The submit loop goes through the tasks once, and the expiry loop begins at
\* the first future.
LoopOrder ==
  /\ pc = "submit" => \A t \in Task : t >= cursor => work[t] = "unsubmitted"
  /\ pc = "wait" => cursor = 1

\* Without a timeout nothing expires, the Wave is settled when it has joined,
\* and a terminal entry is one whose dispatch is over.
TerminalIsOver ==
  ~HasTimeout =>
    /\ pc \notin {"expire", "mark"}
    /\ pc \in {"settle", "cleanup", "close", "closed"} => AllTerminal
    /\ \A t \in Task : ledger[t] \in Terminal => work[t] = "finished"

=============================================================================
