----------------------- MODULE ChangeLifecycleProofs -----------------------
(***************************************************************************)
(* Theorems about ChangeLifecycle, for every set of agents, every          *)
(* interleaving of their invocations and every number of kills.            *)
(***************************************************************************)
EXTENDS ChangeLifecycle, SequenceTheorems, TLAPS

-----------------------------------------------------------------------------
\* Facts about the pure parts.

LEMMA NoJobIsJob == NoJob \in Job
BY DEF NoJob, Job, Command, FromSet, ToSet, CoreStatus, Result

\* A passed invocation that rewrites spec.md advances it to review or, from
\* review, to done.
LEMMA Advances ==
  ASSUME NEW j \in Job, j.from \in ChangeFrom(j.cmd),
         j.to = ExpectedTo(j.cmd, j.result), WillChange(j)
  PROVE  /\ j.to \in {"review", "done"}
         /\ j.to = "done" => j.from = "review"
BY DEF Job, Command, Result, ChangeFrom, ExpectedTo, CommandTo, WillChange,
       CoreStatus

\* Appending an event keeps the ones before it where they are.
LEMMA AppendKeeps ==
  ASSUME log \in Seq(Event), NEW e \in Event, log' = Append(log, e)
  PROVE  /\ DOMAIN log' = DOMAIN log \cup {Len(log) + 1}
         /\ \A i \in DOMAIN log : i < Len(log) + 1 /\ log'[i] = log[i]
         /\ log'[Len(log) + 1] = e
BY AppendProperties

-----------------------------------------------------------------------------
\* Type correctness.

LEMMA InitTypeOK == Init => TypeOK
<1> SUFFICES ASSUME Init PROVE TypeOK
  OBVIOUS
<1>1. log \in Seq(Event)
  BY EmptySeq DEF Init
<1>2. job \in [Agent -> Job] /\ pc \in [Agent -> ControlPoint]
  BY NoJobIsJob DEF Init, ControlPoint
<1>3. /\ spec \in CoreStatus \cup {"absent"}
      /\ torn \in BOOLEAN
      /\ clock \in Nat /\ crashes \in Nat
      /\ faults \in SUBSET {"overlap", "stale_from", "crash"}
  BY DEF Init
<1>. QED
  BY <1>1, <1>2, <1>3 DEF TypeOK

\* An agent's step leaves its control point and its arguments well typed.
LEMMA GotoTyped ==
  ASSUME TypeOK, NEW a \in Agent, NEW point \in ControlPoint,
         Goto(a, point) \/ Leave(a)
  PROVE  pc' \in [Agent -> ControlPoint] /\ job' \in [Agent -> Job]
BY NoJobIsJob DEF TypeOK, Goto, Leave, ControlPoint

LEMMA NextTypeOK ==
  ASSUME TypeOK, EventBeforeSpec, [Next]_vars
  PROVE  TypeOK'
<1> USE DEF files, environment
<1>1. CASE Scaffold \/ MarkApplying \/ Tick \/ UNCHANGED vars
  <2>1. UNCHANGED <<torn, log, pc, job, crashes>>
    BY <1>1 DEF Scaffold, MarkApplying, Tick, vars
  <2>2. spec' \in CoreStatus \cup {"absent"}
    BY <1>1 DEF Scaffold, MarkApplying, Tick, vars, TypeOK, CoreStatus
  <2>3. clock' \in Nat
    BY <1>1 DEF Scaffold, MarkApplying, Tick, vars, TypeOK
  <2>4. faults' \in SUBSET {"overlap", "stale_from", "crash"}
    BY <1>1 DEF Scaffold, MarkApplying, Tick, vars, TypeOK
  <2>. QED
    BY <2>1, <2>2, <2>3, <2>4 DEF TypeOK
<1>2. ASSUME NEW a \in Agent, Invoke(a) PROVE TypeOK'
  <2> PICK c \in Command, result \in Result, to \in ToSet :
        \E from \in ChangeFrom(c) :
        /\ job' = [job EXCEPT ![a] = [cmd |-> c, from |-> from, to |-> to,
                                      result |-> result, stamp |-> 0]]
        /\ faults' = faults
             \cup (IF OthersBusy(a) THEN {"overlap"} ELSE {})
             \cup (IF HonestFrom(c, from) THEN {} ELSE {"stale_from"})
    BY <1>2 DEF Invoke
  <2> PICK from \in ChangeFrom(c) :
        /\ job' = [job EXCEPT ![a] = [cmd |-> c, from |-> from, to |-> to,
                                      result |-> result, stamp |-> 0]]
        /\ faults' = faults
             \cup (IF OthersBusy(a) THEN {"overlap"} ELSE {})
             \cup (IF HonestFrom(c, from) THEN {} ELSE {"stale_from"})
    OBVIOUS
  <2>1. from \in FromSet
    BY DEF ChangeFrom, FromSet, CoreStatus, Command
  <2>2. job' \in [Agent -> Job]
    BY <2>1 DEF TypeOK, Job
  <2>. QED
    BY <1>2, <2>2 DEF Invoke, TypeOK, ControlPoint
<1>3. ASSUME NEW a \in Agent,
             PrecheckPasses(a) \/ TransitionRefused(a) \/ ReadSpec(a)
             \/ TruncateSpec(a)
      PROVE  TypeOK'
  <2>1. \E point \in ControlPoint : Goto(a, point) \/ Leave(a)
    BY <1>3 DEF PrecheckPasses, TransitionRefused, ReadSpec, TruncateSpec,
                ControlPoint
  <2>2. UNCHANGED <<spec, log, clock, crashes, faults>> /\ torn' \in BOOLEAN
    BY <1>3 DEF PrecheckPasses, TransitionRefused, ReadSpec, TruncateSpec, TypeOK
  <2>. QED
    BY <2>1, <2>2, GotoTyped DEF TypeOK
<1>4. ASSUME NEW a \in Agent, StampEvent(a) PROVE TypeOK'
  <2>1. UNCHANGED <<spec, torn, log, clock, crashes, faults>>
    BY <1>4 DEF StampEvent
  <2>2. CASE Leave(a)
    <3>1. "idle" \in ControlPoint
      BY DEF ControlPoint
    <3>. QED
      BY <2>1, <2>2, <3>1, GotoTyped DEF TypeOK
  <2>3. CASE /\ pc' = [pc EXCEPT ![a] = "append"]
             /\ job' = [job EXCEPT ![a].stamp = clock]
    <3>1. pc' \in [Agent -> ControlPoint]
      BY <2>3 DEF TypeOK, ControlPoint
    <3>2. [job[a] EXCEPT !.stamp = clock] \in Job
      BY DEF TypeOK, Job
    <3>3. job' \in [Agent -> Job]
      BY <2>3, <3>2 DEF TypeOK
    <3>. QED
      BY <2>1, <3>1, <3>3 DEF TypeOK
  <2>. QED
    BY <1>4, <2>2, <2>3 DEF StampEvent
<1>5. ASSUME NEW a \in Agent, AppendEvent(a) PROVE TypeOK'
  <2>1. [cmd |-> job[a].cmd, to |-> job[a].to, stamp |-> job[a].stamp] \in Event
    BY DEF TypeOK, Job, Event
  <2>2. log' \in Seq(Event)
    BY <1>5, <2>1 DEF AppendEvent, TypeOK
  <2>3. \E point \in ControlPoint : Goto(a, point) \/ Leave(a)
    BY <1>5 DEF AppendEvent, ControlPoint
  <2>. QED
    BY <1>5, <2>2, <2>3, GotoTyped DEF AppendEvent, TypeOK
<1>6. ASSUME NEW a \in Agent, FillSpec(a) PROVE TypeOK'
  <2>1. job[a].to \in CoreStatus
    BY <1>6 DEF FillSpec, EventBeforeSpec, WillChange
  <2>2. Leave(a) /\ "idle" \in ControlPoint
    BY <1>6 DEF FillSpec, ControlPoint
  <2>. QED
    BY <1>6, <2>1, <2>2, GotoTyped DEF FillSpec, TypeOK
<1>7. ASSUME NEW a \in Agent, Crash(a) PROVE TypeOK'
  BY <1>7, NoJobIsJob DEF Crash, Leave, TypeOK, ControlPoint
<1>. QED
  BY <1>1, <1>2, <1>3, <1>4, <1>5, <1>6, <1>7 DEF Next, Transition

-----------------------------------------------------------------------------
\* Safety: spec.md and the log.

LifecycleInv ==
  /\ TypeOK
  /\ LegalJobs
  /\ PrecheckedReview
  /\ EventBeforeSpec
  /\ SpecNeverAhead
  /\ ArchivedAfterReview

LEMMA InitLifecycleInv == Init => LifecycleInv
<1> SUFFICES ASSUME Init PROVE LifecycleInv
  OBVIOUS
<1>1. LegalJobs
  BY DEF Init, LegalJobs, NoJob, ChangeFrom, ExpectedTo
<1>2. PrecheckedReview /\ EventBeforeSpec /\ SpecNeverAhead /\ ArchivedAfterReview
  BY DEF Init, PrecheckedReview, EventBeforeSpec, SpecNeverAhead, ArchivedAfterReview
<1>. QED
  BY <1>1, <1>2, InitTypeOK DEF LifecycleInv

\* What the log says of the parts of the invariant, for a step that leaves
\* the log alone.
LEMMA LogKept ==
  ASSUME log' = log
  PROVE  /\ \A status : Recorded(status)' <=> Recorded(status)
         /\ ReviewThenDone' <=> ReviewThenDone
BY DEF Recorded, ReviewThenDone

\* The log only grows, so what it records stays recorded and in its order.
LEMMA LogGrows ==
  ASSUME log \in Seq(Event), NEW e \in Event, log' = Append(log, e)
  PROVE  /\ \A status : Recorded(status) => Recorded(status)'
         /\ ReviewThenDone => ReviewThenDone'
         /\ \E i \in DOMAIN log' : log'[i].to = e.to
         /\ Recorded("review") /\ e.to = "done" => ReviewThenDone'
<1>1. /\ DOMAIN log' = DOMAIN log \cup {Len(log) + 1}
      /\ \A i \in DOMAIN log : i < Len(log) + 1 /\ log'[i] = log[i]
      /\ log'[Len(log) + 1] = e
  BY AppendKeeps
<1>. QED
  BY <1>1 DEF Recorded, ReviewThenDone

\* A step of one agent that leaves both files alone and takes it to a point
\* where nothing new is asked of it.
LEMMA QuietStep ==
  ASSUME LifecycleInv, TypeOK', NEW a \in Agent, UNCHANGED <<spec, log>>,
         \/ Leave(a)
         \/ Goto(a, "truncate") /\ pc[a] = "read"
         \/ Goto(a, "fill") /\ pc[a] = "truncate"
  PROVE  LifecycleInv'
<1>1. TypeOK /\ LegalJobs /\ PrecheckedReview /\ EventBeforeSpec
  BY DEF LifecycleInv
<1>2. \A b \in Agent \ {a} : pc'[b] = pc[b] /\ job'[b] = job[b]
  BY <1>1 DEF Leave, Goto, TypeOK
<1>3. \/ pc'[a] = "idle" /\ job'[a] = NoJob
      \/ /\ pc'[a] \in {"truncate", "fill"} /\ job'[a] = job[a]
         /\ pc[a] \in {"read", "truncate"}
  BY <1>1 DEF Leave, Goto, TypeOK
<1>4. NoJob.from \in ChangeFrom(NoJob.cmd) /\ NoJob.to = ExpectedTo(NoJob.cmd, NoJob.result)
  BY DEF NoJob, ChangeFrom, ExpectedTo
<1>5. LegalJobs'
  BY <1>1, <1>2, <1>3, <1>4 DEF LegalJobs
<1>6. PrecheckedReview'
  BY <1>1, <1>2, <1>3, LogKept DEF PrecheckedReview, WillChange
<1>7. EventBeforeSpec'
  BY <1>1, <1>2, <1>3, LogKept DEF EventBeforeSpec, WillChange
<1>8. SpecNeverAhead' /\ ArchivedAfterReview'
  BY LogKept DEF LifecycleInv, SpecNeverAhead, ArchivedAfterReview
<1>. QED
  BY <1>5, <1>6, <1>7, <1>8 DEF LifecycleInv

\* The invocation, the precheck and the stamping of the event.
LEMMA BeginningKeeps ==
  ASSUME LifecycleInv, TypeOK', NEW a \in Agent,
         Invoke(a) \/ PrecheckPasses(a) \/ StampEvent(a)
  PROVE  LifecycleInv'
<1>1. TypeOK /\ LegalJobs /\ PrecheckedReview /\ EventBeforeSpec /\ SpecNeverAhead
  BY DEF LifecycleInv
<1>2. UNCHANGED <<spec, log>>
  BY DEF Invoke, PrecheckPasses, StampEvent, files
<1>3. SpecNeverAhead' /\ ArchivedAfterReview'
  BY <1>2, LogKept DEF LifecycleInv, SpecNeverAhead, ArchivedAfterReview
<1>4. CASE Invoke(a)
  <2>1. /\ pc'[a] = "precheck"
        /\ \A b \in Agent \ {a} : pc'[b] = pc[b] /\ job'[b] = job[b]
    BY <1>1, <1>4 DEF Invoke, TypeOK
  <2>2. /\ job'[a].from \in ChangeFrom(job'[a].cmd)
        /\ job'[a].to = ExpectedTo(job'[a].cmd, job'[a].result)
    <3> PICK c \in Command, result \in Result, to \in ToSet :
          \E from \in ChangeFrom(c) :
            /\ to = ExpectedTo(c, result)
            /\ job' = [job EXCEPT ![a] = [cmd |-> c, from |-> from, to |-> to,
                                          result |-> result, stamp |-> 0]]
      BY <1>4 DEF Invoke
    <3> PICK from \in ChangeFrom(c) :
            /\ to = ExpectedTo(c, result)
            /\ job' = [job EXCEPT ![a] = [cmd |-> c, from |-> from, to |-> to,
                                          result |-> result, stamp |-> 0]]
      OBVIOUS
    <3>1. job'[a] = [cmd |-> c, from |-> from, to |-> to, result |-> result,
                     stamp |-> 0]
      BY <1>1 DEF TypeOK
    <3>. QED
      BY <3>1
  <2>3. LegalJobs'
    BY <1>1, <2>1, <2>2 DEF LegalJobs
  <2>4. PrecheckedReview' /\ EventBeforeSpec'
    BY <1>1, <1>2, <2>1, LogKept DEF PrecheckedReview, EventBeforeSpec, WillChange
  <2>. QED
    BY <1>3, <2>3, <2>4 DEF LifecycleInv
<1>5. CASE PrecheckPasses(a)
  <2>1. /\ pc'[a] = "event" /\ job' = job
        /\ \A b \in Agent \ {a} : pc'[b] = pc[b]
    BY <1>1, <1>5 DEF PrecheckPasses, Goto, TypeOK
  <2>2. WillChange(job[a]) /\ job[a].to = "done" => spec = "review"
    BY <1>1, <1>5, Advances DEF PrecheckPasses, PrecheckHolds, LegalJobs, TypeOK
  <2>3. WillChange(job[a]) /\ job[a].to = "done" => Recorded("review")
    BY <1>1, <2>2 DEF SpecNeverAhead
  <2>4. LegalJobs'
    BY <1>1, <2>1 DEF LegalJobs
  <2>5. PrecheckedReview' /\ EventBeforeSpec'
    BY <1>1, <1>2, <2>1, <2>3, LogKept
       DEF PrecheckedReview, EventBeforeSpec, WillChange
  <2>. QED
    BY <1>3, <2>4, <2>5 DEF LifecycleInv
<1>6. CASE StampEvent(a)
  <2>1. CASE Leave(a)
    BY <1>2, <2>1, QuietStep
  <2>2. CASE /\ pc' = [pc EXCEPT ![a] = "append"]
             /\ job' = [job EXCEPT ![a].stamp = clock]
    <3>1. /\ pc'[a] = "append" /\ pc[a] = "event"
          /\ \A b \in Agent \ {a} : pc'[b] = pc[b]
      BY <1>1, <1>6, <2>2 DEF StampEvent, TypeOK
    <3>2. \A b \in Agent : /\ job'[b].cmd = job[b].cmd /\ job'[b].to = job[b].to
                           /\ job'[b].from = job[b].from
                           /\ job'[b].result = job[b].result
      BY <1>1, <2>2 DEF TypeOK, Job
    <3>3. \A b \in Agent : WillChange(job[b])' <=> WillChange(job[b])
      BY <3>2 DEF WillChange
    <3>4. LegalJobs'
      BY <1>1, <3>2 DEF LegalJobs
    <3>5. PrecheckedReview' /\ EventBeforeSpec'
      BY <1>1, <1>2, <3>1, <3>2, <3>3, LogKept DEF PrecheckedReview, EventBeforeSpec
    <3>. QED
      BY <1>3, <3>4, <3>5 DEF LifecycleInv
  <2>. QED
    BY <1>6, <2>1, <2>2 DEF StampEvent
<1>. QED
  BY <1>4, <1>5, <1>6

\* The append: the log grows by the event the spec write relies on.
LEMMA AppendEventKeeps ==
  ASSUME LifecycleInv, TypeOK', NEW a \in Agent, AppendEvent(a)
  PROVE  LifecycleInv'
<1>1. TypeOK /\ LegalJobs /\ PrecheckedReview /\ EventBeforeSpec
  BY DEF LifecycleInv
<1> DEFINE e == [cmd |-> job[a].cmd, to |-> job[a].to, stamp |-> job[a].stamp]
<1>2. e \in Event /\ e.to = job[a].to
  BY <1>1 DEF TypeOK, Job, Event
<1>3. log \in Seq(Event) /\ log' = Append(log, e) /\ spec' = spec /\ pc[a] = "append"
  BY <1>1 DEF AppendEvent, TypeOK
<1> HIDE DEF e
<1>4. /\ \A status : Recorded(status) => Recorded(status)'
      /\ ReviewThenDone => ReviewThenDone'
      /\ \E i \in DOMAIN log' : log'[i].to = job[a].to
      /\ Recorded("review") /\ job[a].to = "done" => ReviewThenDone'
  BY <1>2, <1>3, LogGrows
<1>5. SpecNeverAhead' /\ ArchivedAfterReview'
  BY <1>3, <1>4 DEF LifecycleInv, SpecNeverAhead, ArchivedAfterReview
<1>6. \A b \in Agent \ {a} : pc'[b] = pc[b] /\ job'[b] = job[b]
  BY <1>1 DEF AppendEvent, Leave, Goto, TypeOK
<1>7. \/ pc'[a] = "idle" /\ job'[a] = NoJob
      \/ pc'[a] = "read" /\ job'[a] = job[a] /\ WillChange(job[a])
  BY <1>1 DEF AppendEvent, Leave, Goto, TypeOK
<1>8. NoJob.from \in ChangeFrom(NoJob.cmd) /\ NoJob.to = ExpectedTo(NoJob.cmd, NoJob.result)
  BY DEF NoJob, ChangeFrom, ExpectedTo
<1>9. LegalJobs'
  BY <1>1, <1>6, <1>7, <1>8 DEF LegalJobs
<1>10. PrecheckedReview'
  BY <1>1, <1>4, <1>6, <1>7 DEF PrecheckedReview, WillChange
<1>11. job[a].to = "done" /\ WillChange(job[a]) => ReviewThenDone'
  BY <1>1, <1>3, <1>4 DEF PrecheckedReview
<1>12. EventBeforeSpec'
  <2> SUFFICES ASSUME NEW b \in Agent, pc'[b] \in {"read", "truncate", "fill"}
               PROVE  /\ WillChange(job[b])'
                      /\ Recorded(job[b].to)'
                      /\ job'[b].to = "done" => ReviewThenDone'
    BY DEF EventBeforeSpec
  <2>1. CASE b = a
    <3>1. job'[a] = job[a] /\ WillChange(job[a])
      BY <1>7, <2>1
    <3>2. WillChange(job[a])'
      BY <3>1 DEF WillChange
    <3>. QED
      BY <1>4, <1>11, <2>1, <3>1, <3>2 DEF Recorded
  <2>2. CASE b # a
    <3>1. job'[b] = job[b] /\ pc'[b] = pc[b]
      BY <1>6, <2>2
    <3>2. /\ WillChange(job[b]) /\ Recorded(job[b].to)
          /\ job[b].to = "done" => ReviewThenDone
      BY <1>1, <3>1 DEF EventBeforeSpec
    <3>3. WillChange(job[b])'
      BY <3>1, <3>2 DEF WillChange
    <3>4. Recorded(job[b].to)'
      <4>1. \E i \in DOMAIN log' : log'[i].to = job[b].to
        BY <1>4, <3>2 DEF Recorded
      <4>. QED
        BY <3>1, <4>1 DEF Recorded
    <3>. QED
      BY <1>4, <3>1, <3>2, <3>3, <3>4
  <2>. QED
    BY <2>1, <2>2
<1>. QED
  BY <1>5, <1>9, <1>10, <1>12 DEF LifecycleInv

\* The rewriting of spec.md shows what the log already holds.
LEMMA FillKeeps ==
  ASSUME LifecycleInv, TypeOK', NEW a \in Agent, FillSpec(a)
  PROVE  LifecycleInv'
<1>1. TypeOK /\ LegalJobs /\ PrecheckedReview /\ EventBeforeSpec
  BY DEF LifecycleInv
<1>2. /\ Recorded(job[a].to)
      /\ job[a].to = "done" => ReviewThenDone
  BY <1>1 DEF EventBeforeSpec, FillSpec
<1>3. log' = log /\ spec' = job[a].to /\ Leave(a)
  BY DEF FillSpec
<1>4. SpecNeverAhead' /\ ArchivedAfterReview'
  BY <1>2, <1>3, LogKept DEF SpecNeverAhead, ArchivedAfterReview, Recorded
<1>5. /\ \A b \in Agent \ {a} : pc'[b] = pc[b] /\ job'[b] = job[b]
      /\ pc'[a] = "idle" /\ job'[a] = NoJob
  BY <1>1, <1>3 DEF Leave, TypeOK
<1>6. NoJob.from \in ChangeFrom(NoJob.cmd) /\ NoJob.to = ExpectedTo(NoJob.cmd, NoJob.result)
  BY DEF NoJob, ChangeFrom, ExpectedTo
<1>7. LegalJobs'
  BY <1>1, <1>5, <1>6 DEF LegalJobs
<1>8. PrecheckedReview' /\ EventBeforeSpec'
  BY <1>1, <1>3, <1>5, LogKept DEF PrecheckedReview, EventBeforeSpec, WillChange
<1>. QED
  BY <1>4, <1>7, <1>8 DEF LifecycleInv

LEMMA NextLifecycleInv == LifecycleInv /\ [Next]_vars => LifecycleInv'
<1> SUFFICES ASSUME LifecycleInv, [Next]_vars
             PROVE  LifecycleInv'
  OBVIOUS
<1>1. TypeOK'
  BY NextTypeOK DEF LifecycleInv
<1>2. CASE Scaffold \/ MarkApplying \/ Tick \/ UNCHANGED vars
  <2>1. UNCHANGED <<log, pc, job>>
    BY <1>2 DEF Scaffold, MarkApplying, Tick, vars, files
  <2>2. spec' = spec \/ spec' \in {"propose", "apply"}
    BY <1>2 DEF Scaffold, MarkApplying, Tick, vars, files
  <2>. QED
    BY <1>1, <2>1, <2>2, LogKept
       DEF LifecycleInv, LegalJobs, PrecheckedReview, EventBeforeSpec,
           SpecNeverAhead, ArchivedAfterReview, WillChange
<1>3. ASSUME NEW a \in Agent, Invoke(a) \/ PrecheckPasses(a) \/ StampEvent(a)
      PROVE  LifecycleInv'
  BY <1>1, <1>3, BeginningKeeps
<1>4. ASSUME NEW a \in Agent,
             TransitionRefused(a) \/ ReadSpec(a) \/ TruncateSpec(a) \/ Crash(a)
      PROVE  LifecycleInv'
  <2>1. UNCHANGED <<spec, log>>
    BY <1>4 DEF TransitionRefused, ReadSpec, TruncateSpec, Crash, files
  <2>2. \/ Leave(a)
        \/ Goto(a, "truncate") /\ pc[a] = "read"
        \/ Goto(a, "fill") /\ pc[a] = "truncate"
    BY <1>4 DEF TransitionRefused, ReadSpec, TruncateSpec, Crash
  <2>. QED
    BY <1>1, <2>1, <2>2, QuietStep
<1>5. ASSUME NEW a \in Agent, AppendEvent(a) PROVE LifecycleInv'
  BY <1>1, <1>5, AppendEventKeeps
<1>6. ASSUME NEW a \in Agent, FillSpec(a) PROVE LifecycleInv'
  BY <1>1, <1>6, FillKeeps
<1>. QED
  BY <1>2, <1>3, <1>4, <1>5, <1>6 DEF Next, Transition

LEMMA LifecycleInvariant == Spec => []LifecycleInv
BY InitLifecycleInv, NextLifecycleInv, PTL DEF Spec

\* Every variable keeps its type.
THEOREM TypeCorrect == Spec => []TypeOK
<1>1. LifecycleInv => TypeOK
  BY DEF LifecycleInv
<1>. QED
  BY <1>1, LifecycleInvariant, PTL

\* spec.md never shows an outcome whose event the log does not hold, for any
\* number of agents at once and any number of kills.
THEOREM SpecIsNeverAhead == Spec => []SpecNeverAhead
<1>1. LifecycleInv => SpecNeverAhead
  BY DEF LifecycleInv
<1>. QED
  BY <1>1, LifecycleInvariant, PTL

\* An archived change has a review recorded before its archiving.
THEOREM ArchivedChangesWereReviewed == Spec => []ArchivedAfterReview
<1>1. LifecycleInv => ArchivedAfterReview
  BY DEF LifecycleInv
<1>. QED
  BY <1>1, LifecycleInvariant, PTL

-----------------------------------------------------------------------------
\* The latest event.

\* An event that is no no-op becomes the latest, and a no-op changes nothing.
LEMMA LatestAfterAppend ==
  ASSUME log \in Seq(Event), NEW e \in Event, log' = Append(log, e)
  PROVE  /\ e.to # "unchanged" => LatestTo' = {e.to}
         /\ e.to = "unchanged" => LatestTo' = LatestTo
<1> DEFINE n == Len(log) + 1
           Meaningful == {i \in DOMAIN log : log[i].to # "unchanged"}
           Meaningful2 == {i \in DOMAIN log' : log'[i].to # "unchanged"}
           Last == {k \in Meaningful : \A m \in Meaningful : m <= k}
           Last2 == {k \in Meaningful2 : \A m \in Meaningful2 : m <= k}
<1>1. /\ DOMAIN log' = DOMAIN log \cup {n}
      /\ \A i \in DOMAIN log : i < n /\ log'[i] = log[i]
      /\ log'[n] = e
      /\ DOMAIN log = 1 .. Len(log) /\ Len(log) \in Nat
  BY AppendKeeps, LenProperties
<1>2. LatestTo = {log[i].to : i \in Last} /\ LatestTo' = {log'[i].to : i \in Last2}
  BY DEF LatestTo
<1>3. CASE e.to # "unchanged"
  <2>1. n \in Meaningful2 /\ \A m \in Meaningful2 : m <= n
    BY <1>1, <1>3
  <2>2. \A m \in Meaningful2 : m \in Int
    BY <1>1
  <2>3. Last2 = {n}
    BY <2>1, <2>2
  <2>. QED
    BY <1>1, <1>2, <1>3, <2>3
<1>4. CASE e.to = "unchanged"
  <2>1. Meaningful2 = Meaningful
    BY <1>1, <1>4
  <2>2. Last2 = Last /\ \A i \in Last : log'[i] = log[i]
    BY <1>1, <2>1
  <2>. QED
    BY <1>2, <1>4, <2>2
<1>. QED
  BY <1>3, <1>4

LEMMA LatestKept ==
  ASSUME log' = log
  PROVE  LatestTo' = LatestTo
BY DEF LatestTo

\* A rewriting call advances from the status before the outcome.
LEMMA AdvancesFrom ==
  ASSUME NEW j \in Job, j.from \in ChangeFrom(j.cmd),
         j.to = ExpectedTo(j.cmd, j.result), WillChange(j)
  PROVE  \/ j.to = "review" /\ j.from \in {"propose", "apply"}
         \/ j.to = "done" /\ j.from = "review"
BY DEF Job, Command, Result, ChangeFrom, ExpectedTo, CommandTo, WillChange,
       CoreStatus

-----------------------------------------------------------------------------
\* Calls that do not overlap.

LEMMA InitSerialInv == Init => SerialInv /\ HonestInv
<1> SUFFICES ASSUME Init PROVE SerialInv /\ HonestInv
  OBVIOUS
<1>1. DOMAIN log = {} /\ \A a \in Agent : pc[a] = "idle"
  BY DEF Init
<1>2. LatestTo = {}
  BY <1>1 DEF LatestTo
<1>3. torn = FALSE /\ spec = "absent"
  BY DEF Init
<1>. QED
  BY <1>1, <1>2, <1>3 DEF SerialInv, OneAtATime, PrecheckStillHolds, StampIsFresh,
     LatestIsItsOwn, HonestInv

\* Steps that touch neither file and leave the status of nobody else.
LEMMA QuietKeepsSerial ==
  ASSUME LifecycleInv, SerialInv, NEW a \in Agent, UNCHANGED <<spec, log>>,
         faults \subseteq faults',
         \/ Leave(a)
         \/ Goto(a, "truncate") /\ pc[a] = "read"
         \/ Goto(a, "fill") /\ pc[a] = "truncate"
         \/ Goto(a, "event") /\ pc[a] = "precheck" /\ PrecheckHolds(job[a])
  PROVE  SerialInv'
<1> SUFFICES ASSUME "overlap" \notin faults'
             PROVE  (OneAtATime /\ PrecheckStillHolds /\ StampIsFresh /\ LatestIsItsOwn)'
  BY DEF SerialInv
<1>1. OneAtATime /\ PrecheckStillHolds /\ StampIsFresh /\ LatestIsItsOwn /\ TypeOK
  BY DEF SerialInv, LifecycleInv
<1>2. \A b \in Agent \ {a} : pc'[b] = pc[b] /\ job'[b] = job[b]
  BY <1>1 DEF Leave, Goto, TypeOK
<1>3. \/ pc'[a] = "idle"
      \/ /\ pc'[a] \in {"truncate", "fill"} /\ job'[a] = job[a]
         /\ pc[a] \in {"read", "truncate"}
      \/ /\ pc'[a] = "event" /\ job'[a] = job[a] /\ pc[a] = "precheck"
         /\ WillChange(job[a]) => spec = job[a].from
  BY <1>1 DEF Leave, Goto, TypeOK, PrecheckHolds
<1>4. OneAtATime'
  BY <1>1, <1>2, <1>3 DEF OneAtATime
<1>5. PrecheckStillHolds'
  BY <1>1, <1>2, <1>3 DEF PrecheckStillHolds, WillChange
<1>6. StampIsFresh'
  BY <1>1, <1>2, <1>3 DEF StampIsFresh
<1>7. LatestIsItsOwn'
  BY <1>1, <1>2, <1>3, LatestKept DEF LatestIsItsOwn
<1>. QED
  BY <1>4, <1>5, <1>6, <1>7

\* An honest beginning: nobody else is under way.
LEMMA InvokeKeepsSerial ==
  ASSUME LifecycleInv, SerialInv, NEW a \in Agent, Invoke(a)
  PROVE  SerialInv'
<1> SUFFICES ASSUME "overlap" \notin faults'
             PROVE  (OneAtATime /\ PrecheckStillHolds /\ StampIsFresh /\ LatestIsItsOwn)'
  BY DEF SerialInv
<1>1. /\ pc \in [Agent -> ControlPoint] /\ job \in [Agent -> Job]
      /\ pc' = [pc EXCEPT ![a] = "precheck"]
  BY DEF LifecycleInv, TypeOK, Invoke
<1>2. ~ OthersBusy(a)
  BY DEF Invoke
<1>3. pc'[a] = "precheck" /\ \A b \in Agent \ {a} : pc'[b] = "idle"
  BY <1>1, <1>2 DEF OthersBusy
<1>. QED
  BY <1>3 DEF OneAtATime, PrecheckStillHolds, StampIsFresh, LatestIsItsOwn

LEMMA StampKeepsSerial ==
  ASSUME LifecycleInv, SerialInv, NEW a \in Agent, StampEvent(a)
  PROVE  SerialInv'
<1>1. UNCHANGED <<spec, log, faults>> /\ pc[a] = "event"
  BY DEF StampEvent, files, environment
<1>2. CASE Leave(a)
  BY <1>1, <1>2, QuietKeepsSerial
<1>3. CASE /\ pc' = [pc EXCEPT ![a] = "append"]
           /\ job' = [job EXCEPT ![a].stamp = clock]
           /\ \A i \in DOMAIN log : ~ (log[i].cmd = job[a].cmd /\ log[i].stamp = clock)
  <2> SUFFICES ASSUME "overlap" \notin faults'
               PROVE  (OneAtATime /\ PrecheckStillHolds /\ StampIsFresh /\ LatestIsItsOwn)'
    BY DEF SerialInv
  <2>1. OneAtATime /\ PrecheckStillHolds /\ TypeOK
    BY <1>1 DEF SerialInv, LifecycleInv
  <2>2. pc'[a] = "append" /\ \A b \in Agent \ {a} : pc'[b] = pc[b] /\ pc[b] = "idle"
    BY <1>1, <1>3, <2>1 DEF OneAtATime, TypeOK
  <2>3. /\ job'[a].cmd = job[a].cmd /\ job'[a].to = job[a].to /\ job'[a].from = job[a].from
        /\ job'[a].result = job[a].result /\ job'[a].stamp = clock
    BY <1>3, <2>1 DEF TypeOK, Job
  <2>4. OneAtATime' /\ LatestIsItsOwn'
    BY <2>2 DEF OneAtATime, LatestIsItsOwn
  <2>5. PrecheckStillHolds'
    BY <1>1, <2>1, <2>2, <2>3 DEF PrecheckStillHolds, WillChange
  <2>6. StampIsFresh'
    BY <1>1, <1>3, <2>2, <2>3 DEF StampIsFresh
  <2>. QED
    BY <2>4, <2>5, <2>6
<1>. QED
  BY <1>2, <1>3 DEF StampEvent

LEMMA AppendKeepsSerial ==
  ASSUME LifecycleInv, SerialInv, NEW a \in Agent, AppendEvent(a)
  PROVE  SerialInv'
<1> SUFFICES ASSUME "overlap" \notin faults'
             PROVE  (OneAtATime /\ PrecheckStillHolds /\ StampIsFresh /\ LatestIsItsOwn)'
  BY DEF SerialInv
<1>1. UNCHANGED <<spec, faults>> /\ pc[a] = "append"
  BY DEF AppendEvent, environment
<1>2. OneAtATime /\ PrecheckStillHolds /\ TypeOK
  BY <1>1 DEF SerialInv, LifecycleInv
<1>3. \/ pc'[a] = "idle"
      \/ pc'[a] = "read" /\ job'[a] = job[a] /\ WillChange(job[a])
  BY <1>2 DEF AppendEvent, Leave, Goto, TypeOK
<1>4. \A b \in Agent \ {a} : pc'[b] = "idle"
  BY <1>1, <1>2 DEF AppendEvent, Leave, Goto, TypeOK, OneAtATime
<1>5. OneAtATime' /\ StampIsFresh'
  BY <1>3, <1>4 DEF OneAtATime, StampIsFresh
<1>6. PrecheckStillHolds'
  BY <1>1, <1>2, <1>3, <1>4 DEF PrecheckStillHolds, WillChange
<1>7. LatestIsItsOwn'
  <2> DEFINE e == [cmd |-> job[a].cmd, to |-> job[a].to, stamp |-> job[a].stamp]
  <2>1. e \in Event /\ e.to = job[a].to /\ log \in Seq(Event) /\ log' = Append(log, e)
    BY <1>2 DEF TypeOK, Job, Event, AppendEvent
  <2> HIDE DEF e
  <2>2. WillChange(job[a]) => LatestTo' = {job[a].to}
    BY <2>1, LatestAfterAppend DEF WillChange, CoreStatus
  <2>. QED
    BY <1>3, <1>4, <2>2 DEF LatestIsItsOwn
<1>. QED
  BY <1>5, <1>6, <1>7

\* The steps that change spec.md
LEMMA SpecKeepsSerial ==
  ASSUME LifecycleInv, SerialInv,
         \/ Scaffold \/ MarkApplying
         \/ \E a \in Agent : FillSpec(a)
  PROVE  SerialInv'
<1> SUFFICES ASSUME "overlap" \notin faults'
             PROVE  (OneAtATime /\ PrecheckStillHolds /\ StampIsFresh /\ LatestIsItsOwn)'
  BY DEF SerialInv
<1>1. /\ log' = log /\ faults \subseteq faults'
      /\ pc \in [Agent -> ControlPoint] /\ job \in [Agent -> Job]
  BY DEF Scaffold, MarkApplying, FillSpec, environment, LifecycleInv, TypeOK
<1>2. OneAtATime /\ PrecheckStillHolds /\ StampIsFresh /\ LatestIsItsOwn
  BY <1>1 DEF SerialInv
<1>3. CASE Scaffold
  <2>1. spec = "absent" /\ UNCHANGED <<log, pc, job>>
    BY <1>3 DEF Scaffold
  <2>2. \A a \in Agent : job[a].from # spec
    BY <1>1, <2>1 DEF Job, FromSet, CoreStatus
  <2>3. PrecheckStillHolds'
    BY <1>2, <2>1, <2>2 DEF PrecheckStillHolds, WillChange
  <2>. QED
    BY <1>2, <2>1, <2>3, LatestKept DEF OneAtATime, StampIsFresh, LatestIsItsOwn
<1>4. CASE MarkApplying
  <2>1. \A a \in Agent : pc'[a] = "idle"
    BY <1>4 DEF MarkApplying
  <2>. QED
    BY <2>1 DEF OneAtATime, PrecheckStillHolds, StampIsFresh, LatestIsItsOwn
<1>5. CASE \E a \in Agent : FillSpec(a)
  <2>1. PICK a \in Agent : FillSpec(a)
    BY <1>5
  <2>2. \A b \in Agent : pc'[b] = "idle"
    BY <1>1, <1>2, <2>1 DEF FillSpec, Leave, OneAtATime
  <2>. QED
    BY <2>2 DEF OneAtATime, PrecheckStillHolds, StampIsFresh, LatestIsItsOwn
<1>. QED
  BY <1>3, <1>4, <1>5

LEMMA NextSerialInv ==
  ASSUME LifecycleInv, SerialInv, [Next]_vars
  PROVE  SerialInv'
<1>1. CASE Scaffold \/ MarkApplying \/ \E a \in Agent : FillSpec(a)
  BY <1>1, SpecKeepsSerial
<1>2. CASE Tick \/ UNCHANGED vars
  <2>1. UNCHANGED <<spec, log, pc, job, faults>>
    BY <1>2 DEF Tick, vars, files
  <2>. QED
    BY <2>1, LatestKept DEF SerialInv, OneAtATime, PrecheckStillHolds, StampIsFresh,
       LatestIsItsOwn, WillChange
<1>3. ASSUME NEW a \in Agent,
             \/ PrecheckPasses(a) \/ TransitionRefused(a) \/ ReadSpec(a)
             \/ TruncateSpec(a) \/ Crash(a)
      PROVE  SerialInv'
  <2>1. UNCHANGED <<spec, log>> /\ faults \subseteq faults'
    BY <1>3 DEF PrecheckPasses, TransitionRefused, ReadSpec, TruncateSpec, Crash, files,
       environment
  <2>2. \/ Leave(a)
        \/ Goto(a, "truncate") /\ pc[a] = "read"
        \/ Goto(a, "fill") /\ pc[a] = "truncate"
        \/ Goto(a, "event") /\ pc[a] = "precheck" /\ PrecheckHolds(job[a])
    BY <1>3 DEF PrecheckPasses, TransitionRefused, ReadSpec, TruncateSpec, Crash
  <2>. QED
    BY <2>1, <2>2, QuietKeepsSerial
<1>4. ASSUME NEW a \in Agent, Invoke(a) PROVE SerialInv'
  BY <1>4, InvokeKeepsSerial
<1>5. ASSUME NEW a \in Agent, StampEvent(a) \/ AppendEvent(a) PROVE SerialInv'
  BY <1>5, StampKeepsSerial, AppendKeepsSerial
<1>. QED
  BY <1>1, <1>2, <1>3, <1>4, <1>5 DEF Next, Transition

LEMMA SerialInvariant == Spec => []SerialInv
<1>1. LifecycleInv /\ SerialInv /\ [Next]_vars => SerialInv'
  BY NextSerialInv
<1>. QED
  BY <1>1, InitSerialInv, LifecycleInvariant, PTL DEF Spec

-----------------------------------------------------------------------------
\* Ids.

\* A fresh stamp keeps ids apart.
LEMMA IdsStayUnique ==
  ASSUME LifecycleInv, SerialInv, SerialIdsUnique, [Next]_vars
  PROVE  SerialIdsUnique'
<1> SUFFICES ASSUME "overlap" \notin faults', NEW i \in DOMAIN log', NEW j \in DOMAIN log',
                    log'[i].cmd = log'[j].cmd, log'[i].stamp = log'[j].stamp
             PROVE  i = j
  BY DEF SerialIdsUnique
<1>1. TypeOK
  BY DEF LifecycleInv
<1>2. CASE log' = log /\ "overlap" \notin faults
  BY <1>2 DEF SerialIdsUnique
<1>3. ASSUME NEW a \in Agent, AppendEvent(a), "overlap" \notin faults PROVE i = j
  <2> DEFINE e == [cmd |-> job[a].cmd, to |-> job[a].to, stamp |-> job[a].stamp]
  <2>1. /\ e \in Event /\ e.cmd = job[a].cmd /\ e.stamp = job[a].stamp
        /\ log \in Seq(Event) /\ log' = Append(log, e)
    BY <1>1, <1>3 DEF TypeOK, Job, Event, AppendEvent
  <2> HIDE DEF e
  <2>2. /\ DOMAIN log' = DOMAIN log \cup {Len(log) + 1}
        /\ \A k \in DOMAIN log : k < Len(log) + 1 /\ log'[k] = log[k]
        /\ log'[Len(log) + 1] = e
    BY <2>1, AppendKeeps
  <2>3. \A k \in DOMAIN log : ~ (log[k].cmd = e.cmd /\ log[k].stamp = e.stamp)
    BY <1>3, <2>1 DEF SerialInv, StampIsFresh, AppendEvent
  <2>. QED
    BY <1>3, <2>2, <2>3 DEF SerialIdsUnique
<1>4. "overlap" \notin faults
  BY DEF Next, Transition, Scaffold, MarkApplying, Tick, Invoke, PrecheckPasses,
     TransitionRefused, StampEvent, AppendEvent, ReadSpec, TruncateSpec, FillSpec, Crash,
     environment, vars
<1>5. log' = log \/ \E a \in Agent : AppendEvent(a)
  BY DEF Next, Transition, Scaffold, MarkApplying, Tick, Invoke, PrecheckPasses,
     TransitionRefused, StampEvent, ReadSpec, TruncateSpec, FillSpec, Crash, files, vars
<1>. QED
  BY <1>2, <1>3, <1>4, <1>5

\* The duplicate guard of cc-event-write keeps ids unique, for any number of
\* agents and kills, as long as calls do not overlap.
THEOREM IdsAreUnique == Spec => []SerialIdsUnique
<1>1. Init => SerialIdsUnique
  BY DEF Init, SerialIdsUnique
<1>2. LifecycleInv /\ SerialInv /\ SerialIdsUnique /\ [Next]_vars => SerialIdsUnique'
  BY IdsStayUnique
<1>. QED
  BY <1>1, <1>2, LifecycleInvariant, SerialInvariant, PTL DEF Spec

-----------------------------------------------------------------------------
\* Honest calls.

\* An honest caller of a command that does not rewrite spec.md names the status
\* that is there, or none.
LEMMA HonestNoop ==
  ASSUME NEW j \in Job, j.from \in ChangeFrom(j.cmd),
         j.to = ExpectedTo(j.cmd, j.result), ~WillChange(j), HonestFrom(j.cmd, j.from),
         spec # "none"
  PROVE  j.to = "unchanged" \/ (j.to = spec /\ spec \in {"propose", "review", "done"})
<1>1. CASE j.result = "blocked" \/ j.cmd = "cc-test"
  <2>1. CommandTo("cc-test") = "unchanged"
    BY DEF CommandTo
  <2>. QED
    BY <1>1, <2>1 DEF ExpectedTo
<1>2. CASE j.result = "passed" /\ j.cmd # "cc-test"
  <2>1. j.to = CommandTo(j.cmd) /\ CommandTo(j.cmd) \in {"propose", "review", "done"}
    BY <1>2 DEF ExpectedTo, CommandTo
  <2>2. j.to = j.from \/ j.from = "none"
    BY <1>2, <2>1 DEF WillChange, CoreStatus
  <2>3. j.from = "none" => j.cmd = "cc-propose"
    BY DEF ChangeFrom
  <2>4. j.cmd = "cc-propose" => j.to = "propose"
    BY <2>1 DEF CommandTo
  <2>5. j.from = spec \/ (j.cmd = "cc-propose" /\ j.from = "none" /\ spec = "propose")
    BY DEF HonestFrom
  <2>6. j.from = "none" => spec = "propose" \/ spec = "none"
    BY <2>5
  <2>7. CASE j.from # "none"
    BY <2>1, <2>2, <2>5, <2>7
  <2>8. CASE j.from = "none" /\ spec = "propose"
    BY <2>1, <2>3, <2>4, <2>8
  <2>9. CASE j.from = "none" /\ spec = "none"
    BY <2>9
  <2>. QED
    BY <2>6, <2>7, <2>8, <2>9
<1>. QED
  BY <1>1, <1>2 DEF Job, Result

\* What is known while honest calls follow each other.
LEMMA HonestFacts ==
  ASSUME LifecycleInv, SerialInv, HonestInv, faults = {}, NEW a \in Agent, pc[a] # "idle"
  PROVE  /\ \A b \in Agent \ {a} : pc[b] = "idle"
         /\ spec \in CoreStatus
         /\ torn => pc[a] = "fill"
         /\ HonestFrom(job[a].cmd, job[a].from)
         /\ pc[a] \in {"read", "truncate", "fill"} => LatestTo = {job[a].to}
         /\ pc[a] \notin {"read", "truncate", "fill"} => LatestTo \subseteq Compatible(spec)
<1>1. OneAtATime /\ LatestIsItsOwn /\ TypeOK
  BY DEF SerialInv, LifecycleInv
<1>2. /\ torn => \E b \in Agent : pc[b] = "fill"
      /\ HonestFrom(job[a].cmd, job[a].from)
      /\ (\A b \in Agent : pc[b] \notin {"read", "truncate", "fill"})
           => LatestTo \subseteq Compatible(spec)
  BY DEF HonestInv
<1>3. \A b \in Agent \ {a} : pc[b] = "idle"
  BY <1>1 DEF OneAtATime
<1>4. job[a].from # "absent"
  BY <1>1 DEF TypeOK, Job, FromSet, CoreStatus
<1>5. spec \in CoreStatus
  BY <1>1, <1>2, <1>4 DEF HonestFrom, TypeOK, CoreStatus
<1>. QED
  BY <1>1, <1>2, <1>3, <1>5 DEF LatestIsItsOwn

\* Steps of a call that leave the files alone, and the call itself.
LEMMA QuietKeepsHonest ==
  ASSUME LifecycleInv, SerialInv, HonestInv, faults = {}, NEW a \in Agent, pc[a] # "idle",
         UNCHANGED <<spec, log>>, torn' => pc'[a] = "fill",
         pc' = [pc EXCEPT ![a] = pc'[a]], 
         (job'[a].cmd = job[a].cmd /\ job'[a].from = job[a].from) \/ pc'[a] = "idle",
         pc[a] \in {"read", "truncate", "fill"} => pc'[a] \in {"read", "truncate", "fill"}
  PROVE  HonestInv'
<1>1. /\ \A b \in Agent \ {a} : pc[b] = "idle" /\ pc'[b] = "idle"
      /\ spec \in CoreStatus
      /\ HonestFrom(job[a].cmd, job[a].from)
      /\ pc[a] \notin {"read", "truncate", "fill"} => LatestTo \subseteq Compatible(spec)
  BY HonestFacts DEF LifecycleInv, TypeOK
<1>2. torn' => \E b \in Agent : pc'[b] = "fill"
  OBVIOUS
<1>3. spec' # "absent"
  BY <1>1 DEF CoreStatus
<1>4. \A b \in Agent : pc'[b] # "idle" => HonestFrom(job[b].cmd, job[b].from)'
  BY <1>1 DEF HonestFrom
<1>5. (\A b \in Agent : pc'[b] \notin {"read", "truncate", "fill"})
        => LatestTo' \subseteq Compatible(spec')
  BY <1>1, LatestKept
<1>. QED
  BY <1>2, <1>3, <1>4, <1>5 DEF HonestInv, Compatible

LEMMA NextHonestInv ==
  ASSUME LifecycleInv, SerialInv, HonestInv, [Next]_vars
  PROVE  HonestInv'
<1> SUFFICES ASSUME faults' = {}
             PROVE  HonestInv'
  BY DEF HonestInv
<1>0. TypeOK /\ LegalJobs /\ EventBeforeSpec
  BY DEF LifecycleInv
<1>1. faults = {}
  BY DEF Next, Transition, Scaffold, MarkApplying, Tick, Invoke, PrecheckPasses,
     TransitionRefused, StampEvent, AppendEvent, ReadSpec, TruncateSpec, FillSpec, Crash,
     environment, vars
<1>2. SerialInv /\ OneAtATime /\ PrecheckStillHolds /\ LatestIsItsOwn
  BY <1>1 DEF SerialInv
<1>3. CASE Scaffold
  <2>1. spec = "absent" /\ spec' = "propose" /\ UNCHANGED <<torn, log, pc, job>>
    BY <1>3 DEF Scaffold
  <2>2. \A a \in Agent : pc[a] = "idle"
    BY <1>1, <2>1, HonestFacts DEF CoreStatus
  <2>3. torn' = FALSE /\ LatestTo' = {}
    BY <1>0, <1>1, <2>1, <2>2, LatestKept DEF HonestInv, TypeOK
  <2>. QED
    BY <2>1, <2>2, <2>3 DEF HonestInv
<1>4. CASE MarkApplying
  <2>1. /\ spec = "propose" /\ spec' = "apply" /\ UNCHANGED <<torn, log, pc, job>> /\ ~torn
        /\ \A a \in Agent : pc[a] = "idle"
    BY <1>4 DEF MarkApplying
  <2>2. LatestTo' \subseteq Compatible(spec')
    BY <1>1, <2>1, LatestKept DEF HonestInv, Compatible
  <2>. QED
    BY <2>1, <2>2 DEF HonestInv, Compatible
<1>5. ASSUME NEW a \in Agent, Invoke(a) PROVE HonestInv'
  <2>1. /\ UNCHANGED <<spec, torn, log>> /\ pc' = [pc EXCEPT ![a] = "precheck"]
        /\ pc[a] = "idle" /\ ~OthersBusy(a)
    BY <1>5 DEF Invoke, files
  <2>2. \A b \in Agent : pc[b] = "idle"
    BY <2>1 DEF OthersBusy
  <2>3. pc'[a] = "precheck" /\ \A b \in Agent \ {a} : pc'[b] = "idle"
    BY <1>0, <2>1, <2>2 DEF TypeOK
  <2>4. /\ torn' = FALSE /\ LatestTo' \subseteq Compatible(spec)
        /\ spec = "absent" => LatestTo' = {}
    BY <1>0, <1>1, <2>1, <2>2, LatestKept DEF HonestInv, TypeOK
  <2>5. HonestFrom(job'[a].cmd, job'[a].from)
    <3>1. PICK c \in Command, result \in Result, to \in ToSet :
            \E from \in ChangeFrom(c) :
              /\ job' = [job EXCEPT ![a] = [cmd |-> c, from |-> from, to |-> to,
                                            result |-> result, stamp |-> 0]]
              /\ HonestFrom(c, from)
      BY <1>5 DEF Invoke
    <3>2. PICK from \in ChangeFrom(c) :
              /\ job' = [job EXCEPT ![a] = [cmd |-> c, from |-> from, to |-> to,
                                            result |-> result, stamp |-> 0]]
              /\ HonestFrom(c, from)
      BY <3>1
    <3>3. job'[a] = [cmd |-> c, from |-> from, to |-> to, result |-> result, stamp |-> 0]
      BY <1>0, <3>2 DEF TypeOK
    <3>. QED
      BY <3>2, <3>3
  <2>6. HonestFrom(job[a].cmd, job[a].from)'
    BY <2>1, <2>5 DEF HonestFrom
  <2>. QED
    BY <2>1, <2>3, <2>4, <2>6 DEF HonestInv, Compatible
<1>6. ASSUME NEW a \in Agent,
             PrecheckPasses(a) \/ TransitionRefused(a) \/ StampEvent(a)
      PROVE  HonestInv'
  <2>1. /\ UNCHANGED <<spec, torn, log>> /\ pc[a] \in {"precheck", "event"}
        /\ pc' = [pc EXCEPT ![a] = pc'[a]]
    BY <1>0, <1>6 DEF PrecheckPasses, TransitionRefused, StampEvent, Goto, Leave, files, TypeOK
  <2>2. ~torn
    BY <1>1, <2>1, HonestFacts
  <2>3. (job'[a].cmd = job[a].cmd /\ job'[a].from = job[a].from) \/ pc'[a] = "idle"
    BY <1>0, <1>6 DEF PrecheckPasses, TransitionRefused, StampEvent, Goto, Leave, TypeOK, Job
  <2>. QED
    BY <1>1, <2>1, <2>2, <2>3, QuietKeepsHonest
<1>7. ASSUME NEW a \in Agent, AppendEvent(a) PROVE HonestInv'
  <2> DEFINE e == [cmd |-> job[a].cmd, to |-> job[a].to, stamp |-> job[a].stamp]
  <2>1. /\ e \in Event /\ e.to = job[a].to /\ log \in Seq(Event) /\ log' = Append(log, e)
        /\ UNCHANGED <<spec, torn>> /\ pc[a] = "append"
    BY <1>0, <1>7 DEF TypeOK, Job, Event, AppendEvent
  <2> HIDE DEF e
  <2>2. /\ \A b \in Agent \ {a} : pc[b] = "idle"
        /\ spec \in CoreStatus /\ ~torn
        /\ HonestFrom(job[a].cmd, job[a].from)
        /\ LatestTo \subseteq Compatible(spec)
    BY <1>1, <2>1, HonestFacts
  <2>3. /\ \A b \in Agent \ {a} : pc'[b] = "idle"
        /\ \/ pc'[a] = "read" /\ job' = job /\ WillChange(job[a])
           \/ pc'[a] = "idle" /\ ~WillChange(job[a])
    BY <1>0, <1>7, <2>2 DEF AppendEvent, Goto, Leave, TypeOK
  <2>4. ~WillChange(job[a]) => LatestTo' \subseteq Compatible(spec)
    <3>1. ASSUME ~WillChange(job[a])
          PROVE  \/ job[a].to = "unchanged"
                 \/ job[a].to = spec /\ spec \in {"propose", "review", "done"}
      <4>1. spec # "none" /\ job[a] \in Job
        BY <1>0, <2>2 DEF CoreStatus, TypeOK
      <4>. QED
        BY <1>0, <2>2, <3>1, <4>1, HonestNoop DEF LegalJobs
    <3>. QED
      BY <2>1, <2>2, <3>1, LatestAfterAppend DEF Compatible
  <2>5. spec' # "absent"
    BY <2>1, <2>2 DEF CoreStatus
  <2>6. \A b \in Agent : pc'[b] # "idle" => HonestFrom(job[b].cmd, job[b].from)'
    BY <2>1, <2>2, <2>3 DEF HonestFrom
  <2>7. (\A b \in Agent : pc'[b] \notin {"read", "truncate", "fill"})
          => LatestTo' \subseteq Compatible(spec')
    BY <2>1, <2>3, <2>4
  <2>8. torn' => \E b \in Agent : pc'[b] = "fill"
    BY <2>1, <2>2
  <2>. QED
    BY <2>5, <2>6, <2>7, <2>8 DEF HonestInv, Compatible
<1>8. ASSUME NEW a \in Agent, ReadSpec(a) \/ TruncateSpec(a) PROVE HonestInv'
  <2>1. pc[a] \in {"read", "truncate"}
    BY <1>8 DEF ReadSpec, TruncateSpec
  <2>2. pc[a] = "read" => Readable
    <3>1. spec \in CoreStatus /\ (torn => pc[a] = "fill")
      BY <1>1, <2>1, HonestFacts
    <3>. QED
      BY <3>1 DEF Readable, CoreStatus
  <2>3. /\ pc[a] \in {"read", "truncate"} /\ UNCHANGED <<spec, log, job>>
        /\ \/ pc' = [pc EXCEPT ![a] = "truncate"] /\ torn' = torn /\ pc[a] = "read"
           \/ pc' = [pc EXCEPT ![a] = "fill"]
    BY <1>8, <2>2 DEF ReadSpec, TruncateSpec, files, Goto
  <2>4. /\ torn' => pc'[a] = "fill"
        /\ pc' = [pc EXCEPT ![a] = pc'[a]] /\ pc'[a] \in {"truncate", "fill"}
    BY <1>0, <1>1, <2>2, <2>3 DEF TypeOK, Readable
  <2>. QED
    BY <1>1, <2>3, <2>4, QuietKeepsHonest
<1>9. ASSUME NEW a \in Agent, FillSpec(a) PROVE HonestInv'
  <2>1. /\ pc[a] = "fill" /\ spec' = job[a].to /\ torn' = FALSE /\ log' = log /\ Leave(a)
    BY <1>9 DEF FillSpec
  <2>2. \A b \in Agent : pc'[b] = "idle"
    BY <1>0, <1>2, <2>1 DEF Leave, OneAtATime, TypeOK
  <2>3. LatestTo' = {job[a].to}
    BY <1>2, <2>1, LatestKept DEF LatestIsItsOwn
  <2>4. job[a].to \in {"review", "done"}
    BY <1>0, <2>1, Advances DEF EventBeforeSpec, LegalJobs, TypeOK
  <2>. QED
    BY <2>1, <2>2, <2>3, <2>4 DEF HonestInv, Compatible
<1>10. CASE Tick \/ UNCHANGED vars
  <2>1. UNCHANGED <<spec, torn, log, pc, job, faults>>
    BY <1>10 DEF Tick, vars, files
  <2>. QED
    BY <2>1, LatestKept DEF HonestInv, HonestFrom, Compatible
<1>11. ~ \E a \in Agent : Crash(a)
  BY DEF Crash
<1>. QED
  BY <1>3, <1>4, <1>5, <1>6, <1>7, <1>8, <1>9, <1>10, <1>11 DEF Next, Transition

LEMMA HonestInvariant == Spec => []HonestInv
<1>1. LifecycleInv /\ SerialInv /\ HonestInv /\ [Next]_vars => HonestInv'
  BY NextHonestInv
<1>. QED
  BY <1>1, InitSerialInv, LifecycleInvariant, SerialInvariant, PTL DEF Spec

\* E_EVENT020 raises no false alarm, for any number of agents, as long as they
\* call one after the other, with the status that they read, and nobody is killed.
THEOREM NoFalseAlarms == Spec => []NoFalseAlarm
<1>1. HonestInv => NoFalseAlarm
  BY DEF HonestInv, NoFalseAlarm, Flagged
<1>. QED
  BY <1>1, HonestInvariant, PTL

-----------------------------------------------------------------------------
\* Action properties.

\* A status advance is never taken back, for any number of kills and stale
\* callers, as long as calls do not overlap.
THEOREM SerialCallsAdvance == Spec => SerialAdvance
<1>1. LifecycleInv /\ SerialInv /\ [Next]_vars
        => [("overlap" \notin faults') => Rank(spec') >= Rank(spec)]_vars
  <2> SUFFICES ASSUME LifecycleInv, SerialInv, Next, "overlap" \notin faults'
               PROVE  Rank(spec') >= Rank(spec)
    BY DEF vars
  <2>1. TypeOK /\ LegalJobs /\ EventBeforeSpec
    BY DEF LifecycleInv
  <2>2. CASE spec' = spec
    BY <2>1, <2>2 DEF Rank, TypeOK, CoreStatus
  <2>3. CASE Scaffold \/ MarkApplying
    BY <2>3 DEF Scaffold, MarkApplying, Rank
  <2>4. ASSUME NEW a \in Agent, FillSpec(a) PROVE Rank(spec') >= Rank(spec)
    <3>1. "overlap" \notin faults /\ pc[a] = "fill" /\ spec' = job[a].to
      BY <2>4 DEF FillSpec, environment
    <3>2. WillChange(job[a]) /\ spec = job[a].from
      BY <2>1, <3>1 DEF EventBeforeSpec, SerialInv, PrecheckStillHolds
    <3>3. \/ spec' = "review" /\ spec \in {"propose", "apply"}
          \/ spec' = "done" /\ spec = "review"
      BY <2>1, <3>1, <3>2, AdvancesFrom DEF LegalJobs, TypeOK
    <3>. QED
      BY <3>3 DEF Rank
  <2>5. spec' = spec \/ Scaffold \/ MarkApplying \/ \E a \in Agent : FillSpec(a)
    BY DEF Next, Transition, Tick, Invoke, PrecheckPasses, TransitionRefused, StampEvent,
       AppendEvent, ReadSpec, TruncateSpec, Crash, files
  <2>. QED
    BY <2>2, <2>3, <2>4, <2>5
<1>. QED
  BY <1>1, LifecycleInvariant, SerialInvariant, PTL DEF Spec, SerialAdvance

\* A kill between the event and the rewriting of spec.md is flagged, unless it
\* hits the rewriting itself or a change in the transient status.
THEOREM PlainCrashesAreDetected == Spec => PlainCrashDetected
<1>1. LifecycleInv /\ SerialInv /\ [Next]_vars
        => [(\E a \in Agent : Cut(a) /\ ~OthersBusy(a)) /\ "overlap" \notin faults
              => Flagged' \/ torn \/ spec = "apply"]_vars
  <2> SUFFICES ASSUME LifecycleInv, SerialInv, Next, "overlap" \notin faults,
                      NEW a \in Agent, Cut(a), ~torn, spec # "apply"
               PROVE  Flagged'
    BY DEF vars
  <2>1. TypeOK /\ LegalJobs /\ EventBeforeSpec
    BY DEF LifecycleInv
  <2>2. WillChange(job[a]) /\ spec = job[a].from /\ LatestTo = {job[a].to}
    BY <2>1 DEF Cut, EventBeforeSpec, SerialInv, PrecheckStillHolds, LatestIsItsOwn
  <2>3. \/ job[a].to = "review" /\ spec = "propose"
        \/ job[a].to = "done" /\ spec = "review"
    BY <2>1, <2>2, AdvancesFrom DEF LegalJobs, TypeOK
  <2>4. UNCHANGED <<spec, torn, log>>
    <3>1. crashes' # crashes
      BY <2>1 DEF Cut, TypeOK
    <3>2. \E b \in Agent : Crash(b)
      BY <3>1 DEF Next, Transition, Scaffold, MarkApplying, Tick, Invoke, PrecheckPasses,
         TransitionRefused, StampEvent, AppendEvent, ReadSpec, TruncateSpec, FillSpec,
         environment
    <3>. QED
      BY <3>2 DEF Crash, files
  <2>. QED
    BY <2>2, <2>3, <2>4, LatestKept DEF Flagged, Readable, Compatible
<1>. QED
  BY <1>1, LifecycleInvariant, SerialInvariant, PTL DEF Spec, PlainCrashDetected
=============================================================================
