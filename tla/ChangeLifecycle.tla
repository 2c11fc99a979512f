-------------------------- MODULE ChangeLifecycle --------------------------
(***************************************************************************)
(* The lifecycle of one change: the status in its spec.md, its event log   *)
(* events.jsonl, and the agents that advance both through                  *)
(* cc-state-transition, which delegates the append to cc-event-write.      *)
(* Nothing is locked, so invocations by several agents interleave at       *)
(* every read and write of the two files, and an invocation may be killed  *)
(* between any two of them.                                                *)
(*                                                                         *)
(* An agent calls the command with the --from states its manifest lists    *)
(* (runtime/commands/cc-*.yaml, state.change_from).  --dry-run and the     *)
(* shape checks of validate_event change nothing and are left out.         *)
(***************************************************************************)
EXTENDS Naturals, Sequences, FiniteSets

CONSTANTS
  Agent,        \* who runs lifecycle commands on the change
  MaxEvents,    \* bound: length of the event log
  MaxClock,     \* bound: seconds that pass
  MaxCrashes    \* bound: invocations that are killed

LifecycleAssumption ==
  /\ MaxEvents \in Nat
  /\ MaxClock \in Nat
  /\ MaxCrashes \in Nat

ASSUME LifecycleParameters == LifecycleAssumption

Command == {"cc-propose", "cc-apply", "cc-review", "cc-fix", "cc-test",
            "cc-archive"}
CoreStatus == {"propose", "apply", "review", "done"}
FromSet == CoreStatus \cup {"none"}
ToSet == CoreStatus \cup {"unchanged"}
Result == {"passed", "blocked"}     \* "partial" is treated as "blocked" is

VARIABLES
  spec,      \* status: of the last complete spec.md, "absent" before it exists
  torn,      \* spec.md is truncated and not written again yet
  log,       \* events.jsonl
  pc,        \* per agent: where its cc-state-transition is
  job,       \* per agent: the arguments of that invocation
  clock,     \* the second that default_event_id stamps
  crashes,   \* invocations killed so far
  faults     \* history: what went on besides one honest call at a time

vars == <<spec, torn, log, pc, job, clock, crashes, faults>>
files == <<spec, torn, log>>
environment == <<clock, crashes, faults>>

ControlPoint == {"idle", "precheck", "event", "append", "read", "truncate",
                 "fill"}
Job == [cmd : Command, from : FromSet, to : ToSet, result : Result,
        stamp : Nat]
Event == [cmd : Command, to : ToSet, stamp : Nat]
NoJob == [cmd |-> "cc-test", from |-> "review", to |-> "unchanged",
          result |-> "blocked", stamp |-> 0]

Init ==
  /\ spec = "absent"
  /\ torn = FALSE
  /\ log = <<>>
  /\ pc = [a \in Agent |-> "idle"]
  /\ job = [a \in Agent |-> NoJob]
  /\ clock = 0
  /\ crashes = 0
  /\ faults = {}

-----------------------------------------------------------------------------
\* The lifecycle that manifests and events.py declare.

\* state.change_from of a command's manifest
ChangeFrom(c) ==
  CASE c = "cc-propose" -> {"none", "propose"}
    [] c = "cc-apply" -> {"propose", "apply"}
    [] c = "cc-test" -> {"apply", "review"}
    [] OTHER -> {"review"}

\* COMMAND_TO
CommandTo(c) ==
  CASE c = "cc-propose" -> "propose"
    [] c = "cc-test" -> "unchanged"
    [] c = "cc-archive" -> "done"
    [] OTHER -> "review"

\* The destination that main() insists on
ExpectedTo(c, result) == IF result = "blocked" THEN "unchanged"
                                               ELSE CommandTo(c)

\* Definitions named ...Slip are what the definition after them would be if
\* the code had slipped there; no action uses them, and each is a slip that
\* some property below rules out.

\* will_change_spec: a passed result and a core advance (spec_changes)
WillChange(j) ==
  /\ j.result = "passed"
  /\ j.to \in CoreStatus
  /\ j.to # j.from
  /\ j.from # "none"

\* read_spec_status returns a status
Readable == spec # "absent" /\ ~torn

-----------------------------------------------------------------------------
\* cc-event-check: E_EVENT020.

\* A latest event that may be a no-op, and one that is the first event
LatestToNoopSlip == {log[i].to : i \in {k \in DOMAIN log : k = Len(log)}}

LatestToFirstSlip ==
  LET meaningful == {i \in DOMAIN log : log[i].to # "unchanged"} IN
  {log[i].to : i \in {k \in meaningful : \A m \in meaningful : k <= m}}

\* The destinations of the latest event that is not a no-op, if any
LatestTo ==
  LET meaningful == {i \in DOMAIN log : log[i].to # "unchanged"} IN
  {log[i].to : i \in {k \in meaningful : \A m \in meaningful : m <= k}}

\* SPEC_STATUS_COMPATIBLE_EVENT_TO
Compatible(status) == IF status = "apply" THEN {"propose", "review"}
                                          ELSE {status}

Flagged == Readable /\ ~(LatestTo \subseteq Compatible(spec))

-----------------------------------------------------------------------------
\* What agents do to spec.md themselves.

OthersBusy(a) == \E b \in Agent \ {a} : pc[b] # "idle"

\* cc-propose scaffolds spec.md before it records the creation.
Scaffold ==
  /\ spec = "absent"
  /\ spec' = "propose"
  /\ UNCHANGED <<torn, log, pc, job, environment>>

\* cc-apply puts the change into the transient status of work in progress.
MarkApplying ==
  /\ spec = "propose"
  /\ ~torn
  /\ spec' = "apply"
  /\ faults' = IF \E a \in Agent : pc[a] # "idle"
               THEN faults \cup {"overlap"} ELSE faults
  /\ UNCHANGED <<torn, log, pc, job, clock, crashes>>

\* The state from which an honest caller runs the command: the status it
\* reads, or none when it has just created the change.
HonestFrom(c, from) ==
  \/ from = spec
  \/ c = "cc-propose" /\ from = "none" /\ spec = "propose"

\* An agent invokes cc-state-transition; main() has accepted its --to.
Invoke(a) ==
  /\ pc[a] = "idle"
  /\ Len(log) + Cardinality({b \in Agent : pc[b] # "idle"}) < MaxEvents
  /\ \E c \in Command, result \in Result, to \in ToSet :
     \E from \in ChangeFrom(c) :
       /\ to = ExpectedTo(c, result)
       /\ job' = [job EXCEPT ![a] = [cmd |-> c, from |-> from, to |-> to,
                                     result |-> result, stamp |-> 0]]
       /\ faults' = faults
            \cup (IF OthersBusy(a) THEN {"overlap"} ELSE {})
            \cup (IF HonestFrom(c, from) THEN {} ELSE {"stale_from"})
  /\ pc' = [pc EXCEPT ![a] = "precheck"]
  /\ UNCHANGED <<files, clock, crashes>>

-----------------------------------------------------------------------------
\* transition() and the cc-event-write it runs.

Goto(a, point) ==
  /\ pc' = [pc EXCEPT ![a] = point]
  /\ UNCHANGED job

\* The process ends; its arguments are forgotten.
Leave(a) ==
  /\ pc' = [pc EXCEPT ![a] = "idle"]
  /\ job' = [job EXCEPT ![a] = NoJob]

\* A precheck that trusts the caller's --from
PrecheckHoldsSlip(j) == WillChange(j) => Readable

\* The precheck compares --from with spec.md only when it will be rewritten.
PrecheckHolds(j) == WillChange(j) => Readable /\ spec = j.from

\* A transition that rewrites spec.md before it records the event
PrecheckPassesSlip(a) ==
  /\ pc[a] = "precheck"
  /\ PrecheckHolds(job[a])
  /\ Goto(a, IF WillChange(job[a]) THEN "read" ELSE "event")
  /\ UNCHANGED <<files, environment>>

PrecheckPasses(a) ==
  /\ pc[a] = "precheck"
  /\ PrecheckHolds(job[a])
  /\ Goto(a, "event")
  /\ UNCHANGED <<files, environment>>

\* E_STATE003, E_STATE001, or check_branch_contract finds a passed cc-apply
\* on a protected or undeclared branch.
TransitionRefused(a) ==
  /\ pc[a] = "precheck"
  /\ \/ ~PrecheckHolds(job[a])
     \/ job[a].cmd = "cc-apply" /\ job[a].result = "passed"
  /\ Leave(a)
  /\ UNCHANGED <<files, environment>>

\* An append without the duplicate guard
StampEventSlip(a) ==
  /\ pc[a] = "event"
  /\ pc' = [pc EXCEPT ![a] = "append"]
  /\ job' = [job EXCEPT ![a].stamp = clock]
  /\ UNCHANGED <<files, environment>>

\* default_event_id and existing_event_ids: an id that the log holds is
\* refused (E_EVENTW001, E_STATE004).
StampEvent(a) ==
  /\ pc[a] = "event"
  /\ IF \E i \in DOMAIN log : log[i].cmd = job[a].cmd /\ log[i].stamp = clock
     THEN Leave(a)
     ELSE /\ pc' = [pc EXCEPT ![a] = "append"]
          /\ job' = [job EXCEPT ![a].stamp = clock]
  /\ UNCHANGED <<files, environment>>

\* append_event; a no-op transition is complete with it.
AppendEvent(a) ==
  /\ pc[a] = "append"
  /\ log' = Append(log, [cmd |-> job[a].cmd, to |-> job[a].to,
                         stamp |-> job[a].stamp])
  /\ IF WillChange(job[a]) THEN Goto(a, "read") ELSE Leave(a)
  /\ UNCHANGED <<spec, torn, environment>>

\* write_spec_status reads spec.md; without a status line it gives up
\* (E_STATE005).
ReadSpec(a) ==
  /\ pc[a] = "read"
  /\ IF Readable THEN Goto(a, "truncate") ELSE Leave(a)
  /\ UNCHANGED <<files, environment>>

\* write_text opens the file for writing ...
TruncateSpec(a) ==
  /\ pc[a] = "truncate"
  /\ torn' = TRUE
  /\ Goto(a, "fill")
  /\ UNCHANGED <<spec, log, environment>>

\* ... and writes what was read with the new status.
FillSpec(a) ==
  /\ pc[a] = "fill"
  /\ torn' = FALSE
  /\ spec' = job[a].to
  /\ Leave(a)
  /\ UNCHANGED <<log, environment>>

-----------------------------------------------------------------------------
\* The environment.

\* The invocation is killed.
Crash(a) ==
  /\ pc[a] # "idle"
  /\ crashes < MaxCrashes
  /\ crashes' = crashes + 1
  /\ faults' = faults \cup {"crash"}
  /\ Leave(a)
  /\ UNCHANGED <<files, clock>>

Tick ==
  /\ clock < MaxClock
  /\ clock' = clock + 1
  /\ UNCHANGED <<files, pc, job, crashes, faults>>

Transition(a) ==
  \/ PrecheckPasses(a) \/ TransitionRefused(a) \/ StampEvent(a)
  \/ AppendEvent(a) \/ ReadSpec(a) \/ TruncateSpec(a) \/ FillSpec(a)

Next ==
  \/ Scaffold
  \/ MarkApplying
  \/ Tick
  \/ \E a \in Agent : Invoke(a) \/ Transition(a) \/ Crash(a)

Spec == Init /\ [][Next]_vars

-----------------------------------------------------------------------------
\* Properties.

\* Every variable keeps its type.
TypeOK ==
  /\ spec \in CoreStatus \cup {"absent"}
  /\ torn \in BOOLEAN
  /\ log \in Seq(Event)
  /\ pc \in [Agent -> ControlPoint]
  /\ job \in [Agent -> Job]
  /\ clock \in Nat
  /\ crashes \in Nat
  /\ faults \in SUBSET {"overlap", "stale_from", "crash"}

Recorded(status) == \E i \in DOMAIN log : log[i].to = status

\* "never spec ahead of event (silent)" (line 230): whatever the agents do at
\* once and wherever they are killed, spec.md shows an outcome of a command
\* only when the log holds the event of that outcome.
SpecNeverAhead == spec \in {"review", "done"} => Recorded(spec)

\* An archived change was brought to review first, in the log's own order:
\* no interleaving of the unlocked reads and writes lets a change skip review.
ReviewThenDone ==
  \E i, j \in DOMAIN log : i < j /\ log[i].to = "review" /\ log[j].to = "done"

ArchivedAfterReview == spec = "done" => ReviewThenDone

\* E_EVENT020 raises no false alarm: between calls of honest agents that
\* never overlapped and were never killed, log and spec.md agree.
NoFalseAlarm ==
  faults = {} /\ (\A a \in Agent : pc[a] = "idle") => ~Flagged

\* A status advance is never taken back, as long as calls do not overlap,
\* even if some are killed and some are made with a stale --from.
Rank(status) ==
  CASE status = "absent" -> 0
    [] status = "propose" -> 1
    [] status = "apply" -> 2
    [] status = "review" -> 3
    [] status = "done" -> 4

SerialAdvance == [][("overlap" \notin faults') => Rank(spec') >= Rank(spec)]_vars

\* The same without that proviso: the precheck is there to refuse "a re-run
\* or wrong caller" (line 14).
NeverTakenBack == [][Rank(spec') >= Rank(spec)]_spec

\* Event ids stay unique as long as calls do not overlap: the duplicate guard
\* of cc-event-write refuses a second call within the same second.
SerialIdsUnique ==
  "overlap" \notin faults =>
    \A i, j \in DOMAIN log :
      log[i].cmd = log[j].cmd /\ log[i].stamp = log[j].stamp => i = j

\* a is killed between its event and the end of its spec write
Cut(a) ==
  /\ pc[a] \in {"read", "truncate", "fill"}
  /\ crashes' > crashes
  /\ pc'[a] = "idle" /\ pc[a] # pc'[a]

\* "A crash between step 2 and step 3 leaves an event ahead of spec.md -
\* which cc-event-check E_EVENT020 detects" (lines 19-21).
CrashDetected ==
  [][(\E a \in Agent : Cut(a) /\ ~OthersBusy(a)) /\ "overlap" \notin faults
       => Flagged']_vars

\* It does when the crash hits a change that is not in the transient status
\* and does not fall inside the rewriting of spec.md.
PlainCrashDetected ==
  [][(\E a \in Agent : Cut(a) /\ ~OthersBusy(a)) /\ "overlap" \notin faults
       => Flagged' \/ torn \/ spec = "apply"]_vars

-----------------------------------------------------------------------------
\* What holds between the steps: the parts of the inductive invariant that
\* ChangeLifecycleProofs uses.

\* Arguments keep to the manifest and to COMMAND_TO.
LegalJobs ==
  \A a \in Agent :
    /\ job[a].from \in ChangeFrom(job[a].cmd)
    /\ job[a].to = ExpectedTo(job[a].cmd, job[a].result)

\* An archiving that has passed its precheck has seen a recorded review.
PrecheckedReview ==
  \A a \in Agent :
    pc[a] \in {"event", "append"} /\ WillChange(job[a]) /\ job[a].to = "done"
      => Recorded("review")

\* spec.md is rewritten only for an advance whose event is in the log.
EventBeforeSpec ==
  \A a \in Agent :
    pc[a] \in {"read", "truncate", "fill"} =>
      /\ WillChange(job[a])
      /\ Recorded(job[a].to)
      /\ job[a].to = "done" => ReviewThenDone

\* The rest is about calls that do not overlap.  At most one is under way, ...
OneAtATime ==
  \A a, b \in Agent : pc[a] # "idle" /\ pc[b] # "idle" => a = b

\* ... so that what its precheck saw is still so when it rewrites spec.md, ...
PrecheckStillHolds ==
  \A a \in Agent :
    pc[a] \in {"event", "append", "read", "truncate", "fill"} /\ WillChange(job[a])
      => spec = job[a].from

\* ... the id that it stamped is still unused when it appends, ...
StampIsFresh ==
  \A a \in Agent : pc[a] = "append" =>
    \A i \in DOMAIN log : ~ (log[i].cmd = job[a].cmd /\ log[i].stamp = job[a].stamp)

\* ... and while it rewrites spec.md its event is the latest.
LatestIsItsOwn ==
  \A a \in Agent : pc[a] \in {"read", "truncate", "fill"} => LatestTo = {job[a].to}

SerialInv ==
  "overlap" \notin faults =>
    OneAtATime /\ PrecheckStillHolds /\ StampIsFresh /\ LatestIsItsOwn

\* Without kills and stale arguments, too: nobody but a call that is filling it
\* leaves spec.md torn, callers were right about the status, and the latest
\* event fits to it except while it is rewritten.
HonestInv ==
  faults = {} =>
    /\ torn => \E a \in Agent : pc[a] = "fill"
    /\ spec = "absent" => LatestTo = {}
    /\ \A a \in Agent : pc[a] # "idle" => HonestFrom(job[a].cmd, job[a].from)
    /\ (\A a \in Agent : pc[a] \notin {"read", "truncate", "fill"})
         => LatestTo \subseteq Compatible(spec)
=============================================================================
