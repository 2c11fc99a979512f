---------------------------- MODULE LoopSession ----------------------------
(***************************************************************************)
(* A Loop session (harness_runtime/loop_runtime.py, cc-loop-step): a JSON  *)
(* state file that says which lifecycle command comes next, and two        *)
(* append-only logs beside it, the session audit and the phase audit.      *)
(*                                                                         *)
(* Every call loads the state, decides on that copy, and then writes what  *)
(* it decided, one file after the other.  The state file is replaced       *)
(* atomically; nothing is locked, so calls interleave between any two of   *)
(* these writes, and a call may be killed there.                           *)
(*                                                                         *)
(* A call that is refused (E_LOOP001) changes nothing and is left out,     *)
(* like cc-loop-step inspect.  So are times and the telemetry events,      *)
(* which are best effort.  A phase is named by its command: COMMAND_PHASE  *)
(* maps the six lifecycle commands one to one.                             *)
(***************************************************************************)
EXTENDS Naturals, Sequences, FiniteSets

CONSTANTS
  Caller,       \* who calls cc-loop-step for this session id
  MaxCalls,     \* bound: calls that are accepted
  MaxCrashes    \* bound: calls that are killed

LoopAssumption == MaxCalls \in Nat /\ MaxCrashes \in Nat

ASSUME LoopParameters == LoopAssumption

Command == {"cc-propose", "cc-apply", "cc-review", "cc-fix", "cc-test",
            "cc-archive"}
Result == {"passed", "blocked"}     \* "partial" is treated as "blocked" is

\* --condition: none, the one routed condition, or a declared stop condition
Condition == {"none", "auto_fixable_open_findings", "stop_condition"}

Ending == {"completed", "stopped"}

VARIABLES
  file,      \* .cairness/runtime/loop-sessions/<id>.json
  audit,     \* .cairness/loop-audit/sessions/<id>.jsonl
  phases,    \* .cairness/loop-audit/phases/<id>.jsonl
  todo,      \* per caller: the writes its call has decided on and not made
  calls,     \* calls accepted so far
  crashes,   \* calls killed so far
  faults     \* history: did calls overlap, was one killed

vars == <<file, audit, phases, todo, calls, crashes, faults>>
logs == <<audit, phases>>

Step == [cmd : Command, result : Result, condition : Condition,
         next : Command \cup Ending]
State == [status : {"absent", "active"} \cup Ending, entry : Command,
          expected : Command \cup {""}, steps : Seq(Step), paused : BOOLEAN]
PhaseEvent == [event : {"phase_started", "phase_ended", "phase_paused",
                        "phase_resumed"},
               phase : Command]
AuditEvent == [event : {"session_started"}, cmd : Command]
              \cup [event : {"step_recorded"}, step : Step]
Write == [to : {"file"}, what : State] \cup [to : {"audit"}, what : AuditEvent]
         \cup [to : {"phases"}, what : PhaseEvent]

NoSession == [status |-> "absent", entry |-> "cc-propose", expected |-> "",
              steps |-> <<>>, paused |-> FALSE]

Init ==
  /\ file = NoSession
  /\ audit = <<>>
  /\ phases = <<>>
  /\ todo = [c \in Caller |-> <<>>]
  /\ calls = 0
  /\ crashes = 0
  /\ faults = {}

-----------------------------------------------------------------------------
\* loop_continuation of the manifests.  Definitions named ...Slip are what
\* the definition after them would be if the code had slipped there; no
\* action uses them, and each is a slip that some property below rules out.

HasContinuation(cmd) == cmd # "cc-archive"

\* on_pass
OnPass(cmd) ==
  CASE cmd = "cc-propose" -> "cc-apply"
    [] cmd \in {"cc-apply", "cc-fix"} -> "cc-review"
    [] cmd = "cc-review" -> "cc-test"
    [] cmd = "cc-test" -> "cc-archive"

\* record_step knows what to do with the condition; it does not look at it
\* when the command did not pass or has no continuation.
ConditionKnown(cmd, result, condition) ==
  \/ result # "passed"
  \/ ~HasContinuation(cmd)
  \/ condition = "auto_fixable_open_findings" => cmd = "cc-review"

\* A fix that goes straight to the test
NextOfFixSlip(cmd, result, condition) ==
  IF result # "passed" THEN "stopped"
  ELSE IF ~HasContinuation(cmd) THEN "completed"
  ELSE IF condition = "stop_condition" THEN "stopped"
  ELSE IF condition = "auto_fixable_open_findings" THEN "cc-fix"
  ELSE IF cmd = "cc-fix" THEN "cc-test"
  ELSE OnPass(cmd)

\* What record_step decides: the next command or how the session ends
NextOf(cmd, result, condition) ==
  IF result # "passed" THEN "stopped"
  ELSE IF ~HasContinuation(cmd) THEN "completed"
  ELSE IF condition = "stop_condition" THEN "stopped"
  ELSE IF condition = "auto_fixable_open_findings" THEN "cc-fix"
  ELSE OnPass(cmd)

-----------------------------------------------------------------------------
\* The calls.

\* The command that the recorded history calls for
Due(s) == IF s.steps = <<>> THEN s.entry ELSE s.steps[Len(s.steps)].next

\* _load_state accepts the file and finds the session active.
Loads == file.status = "active" /\ file.expected = Due(file)

ToFile(s) == [to |-> "file", what |-> s]
ToAudit(e) == [to |-> "audit", what |-> e]
ToPhases(event, cmd) ==
  [to |-> "phases", what |-> [event |-> event, phase |-> cmd]]

\* A caller's call is accepted and has decided what to write.
Decide(c, writes) ==
  /\ todo[c] = <<>>
  /\ calls < MaxCalls
  /\ calls' = calls + 1
  /\ todo' = [todo EXCEPT ![c] = writes]
  /\ faults' = IF \E d \in Caller : todo[d] # <<>>
               THEN faults \cup {"overlap"} ELSE faults
  /\ UNCHANGED <<file, logs, crashes>>

\* start_session, when the session does not exist
Start(c) ==
  /\ file.status = "absent"
  /\ \E cmd \in Command :
       /\ HasContinuation(cmd)
       /\ Decide(c, <<ToFile([status |-> "active", entry |-> cmd,
                              expected |-> cmd, steps |-> <<>>,
                              paused |-> FALSE]),
                      ToAudit([event |-> "session_started", cmd |-> cmd]),
                      ToPhases("phase_started", cmd)>>)

\* A step that leaves the old command, or no history, behind
AdvancedStaleSlip(s, step) ==
  [s EXCEPT !.status = IF step.next \in Ending THEN step.next ELSE "active",
            !.steps = Append(@, step)]

AdvancedForgetsSlip(s, step) ==
  [s EXCEPT !.status = IF step.next \in Ending THEN step.next ELSE "active",
            !.expected = IF step.next \in Ending THEN "" ELSE step.next,
            !.steps = <<step>>]

\* The state that record_step leaves, for a step that it has decided on
Advanced(s, step) ==
  [s EXCEPT !.status = IF step.next \in Ending THEN step.next ELSE "active",
            !.expected = IF step.next \in Ending THEN "" ELSE step.next,
            !.steps = Append(@, step)]

\* A step that is audited before it is recorded
RecordAuditFirstSlip(c) ==
  /\ Loads
  /\ ~file.paused
  /\ \E result \in Result, condition \in Condition :
       LET cmd == file.expected
           step == [cmd |-> cmd, result |-> result, condition |-> condition,
                    next |-> NextOf(cmd, result, condition)] IN
       /\ ConditionKnown(cmd, result, condition)
       /\ Decide(c, <<ToPhases("phase_ended", cmd)>>
                    \o (IF step.next \in Ending THEN <<>>
                        ELSE <<ToPhases("phase_started", step.next)>>)
                    \o <<ToAudit([event |-> "step_recorded", step |-> step]),
                         ToFile(Advanced(file, step))>>)

\* A phase whose end is written after the step it belongs to
RecordEndLastSlip(c) ==
  /\ Loads
  /\ ~file.paused
  /\ \E result \in Result, condition \in Condition :
       LET cmd == file.expected
           step == [cmd |-> cmd, result |-> result, condition |-> condition,
                    next |-> NextOf(cmd, result, condition)] IN
       /\ ConditionKnown(cmd, result, condition)
       /\ Decide(c, <<ToFile(Advanced(file, step)),
                      ToAudit([event |-> "step_recorded", step |-> step]),
                      ToPhases("phase_ended", cmd)>>
                    \o (IF step.next \in Ending THEN <<>>
                        ELSE <<ToPhases("phase_started", step.next)>>))

\* record_step, called with the expected command: the phase ends, the next
\* one starts, the state is replaced, the step is audited.
Record(c) ==
  /\ Loads
  /\ ~file.paused
  /\ \E result \in Result, condition \in Condition :
       LET cmd == file.expected
           step == [cmd |-> cmd, result |-> result, condition |-> condition,
                    next |-> NextOf(cmd, result, condition)] IN
       /\ ConditionKnown(cmd, result, condition)
       /\ Decide(c, <<ToPhases("phase_ended", cmd)>>
                    \o (IF step.next \in Ending THEN <<>>
                        ELSE <<ToPhases("phase_started", step.next)>>)
                    \o <<ToFile(Advanced(file, step)),
                         ToAudit([event |-> "step_recorded", step |-> step])>>)

\* pause_session
Pause(c) ==
  /\ Loads
  /\ ~file.paused
  /\ Decide(c, <<ToFile([file EXCEPT !.paused = TRUE]),
                 ToPhases("phase_paused", file.expected)>>)

\* A resume of a session that has ended
ResumeEndedSlip(c) ==
  /\ file.status # "absent"
  /\ file.steps # <<>>
  /\ Decide(c, <<ToFile([file EXCEPT !.paused = FALSE, !.status = "active"]),
                 ToPhases("phase_resumed", file.steps[Len(file.steps)].cmd)>>)

\* resume_session
Resume(c) ==
  /\ Loads
  /\ file.paused
  /\ Decide(c, <<ToFile([file EXCEPT !.paused = FALSE]),
                 ToPhases("phase_resumed", file.expected)>>)

\* The next of the writes: _write_json, _append_audit or _append_phase_audit.
Perform(c) ==
  /\ todo[c] # <<>>
  /\ LET write == Head(todo[c]) IN
       /\ file' = IF write.to = "file" THEN write.what ELSE file
       /\ audit' = IF write.to = "audit" THEN Append(audit, write.what)
                                         ELSE audit
       /\ phases' = IF write.to = "phases" THEN Append(phases, write.what)
                                           ELSE phases
  /\ todo' = [todo EXCEPT ![c] = Tail(@)]
  /\ UNCHANGED <<calls, crashes, faults>>

\* The call is killed between two writes.
Crash(c) ==
  /\ todo[c] # <<>>
  /\ crashes < MaxCrashes
  /\ crashes' = crashes + 1
  /\ todo' = [todo EXCEPT ![c] = <<>>]
  /\ faults' = faults \cup {"crash"}
  /\ UNCHANGED <<file, logs, calls>>

Next ==
  \E c \in Caller :
    Start(c) \/ Record(c) \/ Pause(c) \/ Resume(c) \/ Perform(c) \/ Crash(c)

Spec == Init /\ [][Next]_vars

-----------------------------------------------------------------------------
\* Properties.

\* Every variable keeps its type.
TypeOK ==
  /\ file \in State
  /\ audit \in Seq(AuditEvent)
  /\ phases \in Seq(PhaseEvent)
  /\ todo \in [Caller -> Seq(Write)]
  /\ calls \in Nat
  /\ crashes \in Nat
  /\ faults \in SUBSET {"overlap", "crash"}

\* A state whose history is a path of the continuation graph, ending where
\* its status and its expected command say
OnPath(s) ==
  /\ \A i \in 1..Len(s.steps) :
       /\ s.steps[i].cmd = IF i = 1 THEN s.entry ELSE s.steps[i-1].next
       /\ ConditionKnown(s.steps[i].cmd, s.steps[i].result,
                         s.steps[i].condition)
       /\ s.steps[i].next = NextOf(s.steps[i].cmd, s.steps[i].result,
                                   s.steps[i].condition)
  /\ s.status = "active" => s.expected = Due(s) /\ s.expected \in Command
  /\ s.status \in Ending => s.steps # <<>> /\ Due(s) = s.status

\* "enforced ordering" (README.md:151): however calls interleave and wherever
\* they are killed, the recorded history is a path of the continuation graph,
\* and a session never locks itself out with "expected command drift"
\* (lines 334-337).
FollowsManifests == OnPath(file)

\* No interleaving carries a change to its test past an unreviewed fix: what
\* was fixed is followed by a review that passed before cc-test is recorded.
FixIsReviewed ==
  \A i, k \in 1..Len(file.steps) :
    file.steps[i].cmd = "cc-fix" /\ file.steps[k].cmd = "cc-test" /\ i < k =>
      \E j \in (i+1)..(k-1) :
        file.steps[j].cmd = "cc-review" /\ file.steps[j].result = "passed"

\* The phase audit has an end for every step of the state file, in every
\* interleaving and after every kill: record_step appends it first.
Ended == {k \in 1..Len(phases) : phases[k].event = "phase_ended"}

EveryStepEnded == Cardinality(Ended) >= Len(file.steps)

Idle == \A c \in Caller : todo[c] = <<>>

\* The session audit never holds more than the state file does: a step that
\* is audited was recorded, as long as calls do not overlap, even if killed.
AuditNeverInvents ==
  "overlap" \notin faults =>
    \A k \in 1..Len(audit) :
      audit[k].event = "step_recorded" =>
        \E i \in 1..Len(file.steps) : file.steps[i] = audit[k].step

\* Between calls that never overlapped and were never killed, the two logs
\* tell the story of the state file: the audit its steps, in order, and the
\* phases one end for each.
LogsAgree ==
  faults = {} /\ Idle /\ file.status # "absent" =>
    /\ Len(audit) = Len(file.steps) + 1
    /\ \A i \in 1..Len(file.steps) : audit[i+1].step = file.steps[i]
    /\ Cardinality(Ended) = Len(file.steps)

\* "blocked/partial stop rules" (README.md:151): once a session is stopped or
\* completed it stays so and its history is closed, and a step is recorded
\* only in a phase that is not paused, as long as calls do not overlap.
EndingIsFinal ==
  [][("overlap" \notin faults') =>
       /\ file.status \in Ending => file' = file
       /\ file.paused => file'.steps = file.steps]_vars

\* "Record every continuation decision in the loop audit" (the codex skill,
\* SKILL.md:126), whether or not a call is killed.
EveryDecisionAudited ==
  Idle => \A i \in 1..Len(file.steps) :
            \E k \in 1..Len(audit) :
              audit[k] = [event |-> "step_recorded", step |-> file.steps[i]]

\* cc-review stops on "command_status_blocked_or_partial_without_auto_fixable_
\* findings" (cc-review.yaml:124): with such findings it goes on to cc-fix.
FixableReviewGoesOn ==
  \A i \in 1..Len(file.steps) :
    /\ file.steps[i].cmd = "cc-review"
    /\ file.steps[i].condition = "auto_fixable_open_findings"
    => file.steps[i].next = "cc-fix"

-----------------------------------------------------------------------------
\* What holds between the writes: the parts of the inductive invariants that
\* LoopSessionProofs uses.

IsFile(write) == write.to = "file"
IsAudit(write) == write.to = "audit"
IsStep(write) == IsAudit(write) /\ write.what.event = "step_recorded"
IsEnd(write) == write.to = "phases" /\ write.what.event = "phase_ended"

\* A session that does not exist has no history, and none is yet to be unmade.
StartsEmpty ==
  /\ file.status = "absent" => file = NoSession
  /\ \A c \in Caller : \A k \in DOMAIN todo[c] :
       IsFile(todo[c][k]) => todo[c][k].what.status # "absent"

\* A call writes the state once, audits once and ends one phase.
WritesOnce ==
  \A c \in Caller : \A j, k \in DOMAIN todo[c] :
    \/ IsFile(todo[c][j]) /\ IsFile(todo[c][k])
    \/ IsAudit(todo[c][j]) /\ IsAudit(todo[c][k])
    \/ IsEnd(todo[c][j]) /\ IsEnd(todo[c][k])
    => j = k

\* The phase audit has, or will have by then, an end for every step of a state
\* that is yet to be written.
EndsAreAhead ==
  \A c \in Caller : \A k \in DOMAIN todo[c] :
    IsFile(todo[c][k]) =>
      Len(todo[c][k].what.steps) <=
        Cardinality(Ended) + (IF \E j \in DOMAIN todo[c] : j < k /\ IsEnd(todo[c][j])
                              THEN 1 ELSE 0)

\* If calls do not overlap: what a call is to write was decided on the state
\* that is still there, which it continues, ...
Continues(old, new) ==
  /\ old.status \notin Ending
  /\ old.paused => new.steps = old.steps
  /\ Len(old.steps) <= Len(new.steps)
  /\ \A i \in 1..Len(old.steps) : new.steps[i] = old.steps[i]

HasStep(s, step) == \E i \in 1..Len(s.steps) : s.steps[i] = step

\* ... and what it is to audit is recorded, or will be by then.
SerialCalls ==
  "overlap" \notin faults =>
    /\ \A c, d \in Caller : todo[c] # <<>> /\ todo[d] # <<>> => c = d
    /\ \A c \in Caller : \A k \in DOMAIN todo[c] :
         /\ IsFile(todo[c][k]) => Continues(file, todo[c][k].what)
         /\ IsStep(todo[c][k]) =>
              \/ HasStep(file, todo[c][k].what.step)
              \/ \E j \in DOMAIN todo[c] :
                   /\ j < k /\ IsFile(todo[c][j])
                   /\ HasStep(todo[c][j].what, todo[c][k].what.step)

\* The state that is there when a call has made its writes
Leaves(old, writes) ==
  LET files == {k \in DOMAIN writes : IsFile(writes[k])} IN
  IF files = {} THEN old ELSE writes[CHOOSE k \in files : TRUE].what

AuditsLeft(writes) == IF \E k \in DOMAIN writes : IsAudit(writes[k]) THEN 1 ELSE 0
EndsLeft(writes) == IF \E k \in DOMAIN writes : IsEnd(writes[k]) THEN 1 ELSE 0

\* An audit log, so many audit entries and so many phase ends tell the story of s.
Tells(log, audits, ends, s) ==
  /\ audits = Len(s.steps) + 1
  /\ \A i \in 1..Len(s.steps) : i + 1 <= Len(log) => log[i+1].step = s.steps[i]
  /\ ends = Len(s.steps)

\* With the writes that are left, they tell the story of what those leave.
WillTell(log, ended, old, writes) ==
  LET left == Leaves(old, writes) IN
  /\ left.status # "absent"
  /\ Tells(log, Len(log) + AuditsLeft(writes), ended + EndsLeft(writes), left)
  /\ \A k \in DOMAIN writes : IsAudit(writes[k]) /\ left.steps # <<>> =>
       /\ IsStep(writes[k])
       /\ writes[k].what.step = left.steps[Len(left.steps)]

\* Without kills, too, the logs and what is still to be written to them tell
\* the story of the state that the call under way leaves.
StoryHolds ==
  faults = {} =>
    /\ Idle => IF file.status = "absent" THEN audit = <<>> /\ Ended = {}
               ELSE Tells(audit, Len(audit), Cardinality(Ended), file)
    /\ \A c \in Caller :
         todo[c] # <<>> => WillTell(audit, Cardinality(Ended), file, todo[c])
=============================================================================
