--------------------------- MODULE RuntimeEvents ---------------------------
(***************************************************************************)
(* .cairness/observability/runtime-events.jsonl: cc-verify, execute_wave,  *)
(* cc-cairn update and others append one line each, side by side and       *)
(* without a lock; the dashboard summarises the lines that it can read.    *)
(*                                                                         *)
(* os.write may write less than it is given (a full disk, a quota), and    *)
(* its answer is not looked at: the line is cut, and the next one goes on  *)
(* where it ends.  A line is the sequence of the pieces in it.             *)
(***************************************************************************)
EXTENDS SequencesExt

CONSTANTS
  Recorder,     \* processes that record
  LogicalRun,   \* the runs of cc-verify that retries belong to
  Recordable,   \* the events that are recorded
  MaxRecords,   \* bound: recordings
  MaxTears      \* bound: lines that are cut

VARIABLES
  place,      \* is tracking on; is this the framework's own source tree
  lines,      \* of the file
  unended,    \* the last line has no newline yet
  recorder,   \* per process: idle, or the event to write and the lines at open
  happened,   \* history: events whose recording has returned True
  tears,      \* history: lines cut
  split       \* history: a line was cut within a character

ledgerVars == <<place, lines, unended, recorder, happened, tears, split>>

-----------------------------------------------------------------------------
\* The events.  "unsaid" and "none" stand for a field that is not there.

Event == [type |-> "verification_run", command |-> "none", status |-> "passed", run |-> "none",
          kind |-> "primary", terminal |-> "unsaid", phase |-> "none", class |-> "none",
          routing |-> "none", escape |-> "unknown", reused |-> FALSE,
          tasks |-> {}, cleanup |-> "none", wide |-> FALSE]

\* classify_failure: what the texts of the results tell, the first that holds
FailureClass(status, told) ==
  CASE status = "passed" -> "none"
    [] status # "passed" /\ "transient" \in told -> "transient"
    [] status # "passed" /\ "transient" \notin told /\ "policy" \in told -> "policy_block"
    [] status # "passed" /\ {"transient", "policy"} \cap told = {}
         /\ (status = "blocked" \/ "environment" \in told) -> "environment"
    [] OTHER -> "test_failure"

\* record_verification_run: of a logical run that may be retried.  A test
\* selection of a normal run may have found no changed file; one of a ci run
\* says what a normal run would have selected, and whether that escapes.
VerificationEvents ==
  {[Event EXCEPT !.status = s, !.run = r, !.kind = k, !.terminal = t, !.phase = p,
                 !.class = FailureClass(s, told), !.routing = x[1], !.escape = x[2]] :
     s \in {"passed", "failed", "blocked"}, r \in LogicalRun \cup {"none"},
     k \in {"primary", "retry", "probe"}, t \in {"unsaid", "yes", "no"},
     p \in {"none", "apply"}, told \in SUBSET {"transient", "policy", "environment"},
     x \in ({"none", "normal", "nothing changed"} \X {"unknown"})
           \cup ({"shadow"} \X {"unknown", "yes", "no"})}

\* record_wave_execution, whose ids and statuses may be any text
WaveEvents ==
  {[Event EXCEPT !.type = "wave_run", !.status = "completed", !.wide = TRUE,
                 !.tasks = ts, !.cleanup = c] :
     ts \in SUBSET {"completed", "timed_out", "running"},
     c \in {"none", "not_required", "required", "failed"}}

\* record_upgrade_run
UpgradeEvents ==
  {[Event EXCEPT !.type = "upgrade_run", !.status = s] : s \in {"passed", "failed"}}

\* record_execution_run, of the commands that measure themselves
Executed(command, status) ==
  [Event EXCEPT !.type = "execution_run", !.command = command, !.status = status]

\* record_wave_plan
PlanEvents == {Executed("cc-wave-plan", s) : s \in {"passed", "failed"}}

\* record_context_pack: built, or reused
PackEvents ==
  {[Executed("cc-context-pack", s) EXCEPT !.reused = r] : s \in {"passed", "failed"}, r \in BOOLEAN}

\* record_loop_step
LoopEvents == {Executed("cc-loop-step", s) : s \in {"passed", "failed"}}

\* record_phase_run, which says whether the run was the last attempt
PhaseEvents ==
  {[Event EXCEPT !.type = "phase_run", !.status = s, !.kind = k, !.terminal = t, !.phase = "apply"] :
     s \in {"passed", "blocked"}, k \in {"primary", "retry"}, t \in {"yes", "no"}}

AnyEvent == VerificationEvents \cup WaveEvents \cup UpgradeEvents \cup PlanEvents
            \cup PackEvents \cup LoopEvents \cup PhaseEvents

ASSUME LedgerAssumption == Recordable \subseteq AnyEvent

\* _append_runtime_event records nothing where tracking is off, and in the
\* framework's own tree only what has a test selection.
Recorded(event) == place.tracked /\ (place.framework => event.routing # "none")

Idle == [pc |-> "idle", event |-> <<>>, at |-> 0]

LedgerInit ==
  /\ place \in [tracked : BOOLEAN, framework : BOOLEAN]
  /\ lines = <<>> /\ unended = FALSE /\ recorder = [r \in Recorder |-> Idle]
  /\ happened = {} /\ tears = 0 /\ split = FALSE

-----------------------------------------------------------------------------
\* _append_runtime_event

Number == Cardinality(happened) + Cardinality({r \in Recorder : recorder[r].pc # "idle"})

\* Events are told apart by a number, as they are by their time.
Open(r, event) ==
  /\ recorder[r].pc = "idle" /\ Recorded(event)
  /\ Number < MaxRecords
  /\ recorder' = [recorder EXCEPT ![r] =
       [pc |-> "open", at |-> Len(lines),
        event |-> <<r, Cardinality({e \in happened : e[1] = r}), event>>]]
  /\ UNCHANGED <<place, lines, unended, happened, tears, split>>

Piece(r, kind) == [event |-> recorder[r].event, kind |-> kind]

\* A file that is not opened for appending
WrittenSlip(r, piece) ==
  IF unended THEN [lines EXCEPT ![Len(lines)] = Append(@, piece)]
  ELSE Append(SubSeq(lines, 1, recorder[r].at), <<piece>>)
Written(r, piece) ==
  IF unended THEN [lines EXCEPT ![Len(lines)] = Append(@, piece)]
  ELSE Append(lines, <<piece>>)

Returned(r) ==
  /\ recorder' = [recorder EXCEPT ![r] = Idle]
  /\ happened' = happened \cup {recorder[r].event}

\* O_APPEND: a write goes to the end of the file, wherever that is by now.
Write(r) ==
  /\ recorder[r].pc = "open"
  /\ lines' = Written(r, Piece(r, "whole")) /\ unended' = FALSE
  /\ Returned(r)
  /\ UNCHANGED <<place, tears, split>>

\* Cut at the newline only, before it, or within a character of more than one
\* byte.
Tear(r, kind) ==
  /\ recorder[r].pc = "open" /\ tears < MaxTears
  /\ kind = "split" => recorder[r].event[3].wide
  /\ lines' = Written(r, Piece(r, kind)) /\ unended' = TRUE
  /\ tears' = tears + 1 /\ split' = (split \/ kind = "split")
  /\ Returned(r) /\ UNCHANGED place

\* Killed, or refused by the file system, before the write
Abandon(r) ==
  /\ recorder[r].pc = "open"
  /\ recorder' = [recorder EXCEPT ![r] = Idle]
  /\ UNCHANGED <<place, lines, unended, happened, tears, split>>

LedgerNext ==
  \E r \in Recorder :
    \/ \E event \in Recordable : Open(r, event)
    \/ \E kind \in {"newline", "cut", "split"} : Tear(r, kind)
    \/ Write(r) \/ Abandon(r)

LedgerSpec == LedgerInit /\ [][LedgerNext]_ledgerVars

-----------------------------------------------------------------------------
\* The reports

\* discover_runtime_events skips what is no JSON object; a character that is
\* cut makes it fail for the whole file.
Readable(line) == Len(line) = 1 /\ line[1].kind \in {"whole", "newline"}
Discovered == {lines[i][1].event : i \in {k \in DOMAIN lines : Readable(lines[k])}}

OfType(events, type) == {e \in events : e[3].type = type}
Runs(events) == OfType(events, "verification_run")

\* collection_summary, of a project without lifecycle events
Collection(events) ==
  IF Runs(events) \cup OfType(events, "upgrade_run") = {} THEN "not_collected" ELSE "partial"

\* _is_quality_terminal: what an event does not say, its kind says
QualityTerminal(event) ==
  \/ event.terminal = "yes"
  \/ event.terminal = "unsaid" /\ event.kind \notin {"retry", "shadow", "probe"}

\* verification_metrics: logical runs with a failed attempt, and those of them
\* with a passed terminal one - in whatever order the two were.
Failed(events) ==
  {r \in LogicalRun : \E e \in Runs(events) :
                        e[3].run = r /\ e[3].status \in {"failed", "blocked"}}
Recovered(events) ==
  {r \in Failed(events) : \E e \in Runs(events) :
     e[3].run = r /\ e[3].status = "passed" /\ QualityTerminal(e[3])}

\* verification_metrics: the quality gate's part of the report, without
\* logical_runs, which counts terminal runs where no event names a logical one
\* and so may be above the truth when the line that names one is lost.
QualityGate(events) ==
  LET judged == {e \in Runs(events) : QualityTerminal(e[3])}
  IN [total |-> Cardinality(judged),
      passed |-> Cardinality({e \in judged : e[3].status = "passed"}),
      retries |-> Cardinality({e \in Runs(events) : e[3].kind = "retry"}),
      failed |-> Cardinality(Failed(events)),
      recovered |-> Cardinality(Recovered(events)),
      excluded |-> Cardinality(Runs(events)) - Cardinality(judged)]

\* test_routing_metrics: normal selections over changed files, and what ci
\* runs say of the normal ones.  Nobody looked is not the same as none.
RoutingMetrics(events) ==
  LET samples == {e \in Runs(events) : e[3].routing \in {"normal", "shadow"}}
      told == {e \in Runs(events) : e[3].escape # "unknown"}
  IN [normal |-> Cardinality({e \in samples : e[3].routing = "normal"}),
      observed |-> Cardinality(samples),
      looked |-> Cardinality(told),
      escapes |-> Cardinality({e \in told : e[3].escape = "yes"})]

\* execution_metrics
ExecutionMetrics(events) ==
  LET runs == OfType(events, "execution_run")
  IN [total |-> Cardinality(runs), reuses |-> Cardinality({e \in runs : e[3].reused})]

\* wave_metrics: joined Waves have tasks, all of them terminal
WaveMetrics(events) ==
  LET waves == OfType(events, "wave_run")
  IN [total |-> Cardinality(waves),
      joined |-> Cardinality({e \in waves : e[3].tasks # {} /\ "running" \notin e[3].tasks}),
      cleanup |-> Cardinality({e \in waves : e[3].cleanup \in {"required", "failed"}})]

\* phase_metrics, which counts verification runs too that name their phase
PhaseMetrics(events) ==
  LET phased == {e \in events : e[3].phase # "none"}
  IN [total |-> Cardinality(phased),
      terminal |-> Cardinality({e \in phased : QualityTerminal(e[3])})]

\* cohort_metrics: a group per phase and mode, which every verification run has
\* (and no execution_run of those above)
CohortMetrics(events) ==
  LET grouped == Runs(events) \cup
                   {e \in events : e[3].type = "phase_run" /\ e[3].phase # "none"}
  IN [total |-> Cardinality({<<e[3].phase, e \in Runs(events)>> : e \in grouped}),
      runs |-> Cardinality(grouped)]

\* upgrade_metrics
UpgradeMetrics(events) ==
  LET runs == OfType(events, "upgrade_run")
  IN [total |-> Cardinality(runs),
      failed |-> Cardinality({e \in runs : e[3].status = "failed"})]

-----------------------------------------------------------------------------
\* Properties

\* One report of two sets of events: each of its counts is the truth's, but for
\* at most n that are missing.
Close(reported, truth, n) ==
  \A k \in DOMAIN truth : reported[k] <= truth[k] /\ truth[k] <= reported[k] + n

\* What is reported has happened, and each line that is cut costs the reports
\* two events at most, its own and the next - whichever processes write at the
\* same time and as long as no character is cut: no count of any report, over
\* events or over groups of them, is above the truth or further below it.  (A
\* rate may be above: the event that is missing may be the failure.)  Nothing
\* is there of a project that does not want to be tracked.
LedgerIsFaithful ==
  /\ ~place.tracked => lines = <<>>
  /\ place.framework => \A e \in Discovered : e[3].routing # "none"
  /\ Discovered \subseteq happened
  /\ Collection(Discovered) = "partial" => Collection(happened) = "partial"
  /\ split \/ LET n == 2 * tears IN
       /\ Close(QualityGate(Discovered), QualityGate(happened), n)
       /\ Close(RoutingMetrics(Discovered), RoutingMetrics(happened), n)
       /\ Close(ExecutionMetrics(Discovered), ExecutionMetrics(happened), n)
       /\ Close(WaveMetrics(Discovered), WaveMetrics(happened), n)
       /\ Close(PhaseMetrics(Discovered), PhaseMetrics(happened), n)
       /\ Close(CohortMetrics(Discovered), CohortMetrics(happened), n)
       /\ Close(UpgradeMetrics(Discovered), UpgradeMetrics(happened), n)
  /\ \A i, j \in DOMAIN lines :
       Readable(lines[i]) /\ Readable(lines[j]) /\ lines[i][1].event = lines[j][1].event => i = j

-----------------------------------------------------------------------------
\* The parts of the inductive invariant that VerificationProofs uses.

Told == Recorder \X Nat \X Recordable
TextLine == Seq([event : Told, kind : {"whole", "newline", "cut", "split"}])

LedgerTypeOK ==
  /\ lines \in Seq(TextLine) /\ unended \in BOOLEAN
  /\ recorder \in [Recorder -> {Idle} \cup [pc : {"open"}, event : Told, at : Nat]]
  /\ happened \subseteq Told /\ IsFiniteSet(happened)
  /\ tears \in Nat

\* Events are numbered per process, so that one that is to be written is new.
ToldBy(r) == {e \in happened : e[1] = r}
NumbersFit ==
  /\ \A r \in Recorder : recorder[r].pc = "open" =>
       LET e == recorder[r].event
       IN e[1] = r /\ e[2] = Cardinality(ToldBy(r)) /\ Recorded(e[3])
  /\ \A e \in happened : e[2] < Cardinality(ToldBy(e[1])) /\ Recorded(e[3])

\* Lines begin with different events that have happened.
LinesTell ==
  /\ unended => lines # <<>>
  /\ \A i \in DOMAIN lines : lines[i] # <<>> /\ lines[i][1].event \in happened
  /\ \A i, j \in DOMAIN lines : lines[i][1].event = lines[j][1].event => i = j

\* What no later write can spoil.  A line without its end may be spoilt, and
\* with it the next event is: two for each that is cut.
Kept == {lines[i][1].event :
           i \in {k \in DOMAIN lines : Readable(lines[k]) /\ (unended => k # Len(lines))}}
LossBounded == Cardinality(happened \ Kept) + (IF unended THEN 1 ELSE 0) <= 2 * tears

LedgerInv == LedgerTypeOK /\ NumbersFit /\ LinesTell /\ LossBounded

=============================================================================
