------------------------- MODULE LoopSessionProofs -------------------------
(***************************************************************************)
(* Theorems about LoopSession, for every set of callers, every             *)
(* interleaving of their writes and every number of kills.                 *)
(***************************************************************************)
EXTENDS LoopSession, SequenceTheorems, FiniteSetTheorems, TLAPS

-----------------------------------------------------------------------------
\* Facts about the pure parts.

\* record_step decides on a command or on an ending.
LEMMA NextOfTyped ==
  ASSUME NEW cmd \in Command, NEW result \in Result, NEW condition \in Condition
  PROVE  NextOf(cmd, result, condition) \in Command \cup Ending
BY DEF Command, Result, Condition, NextOf, OnPass, HasContinuation, Ending

LEMMA EndingIsNoCommand == Command \cap Ending = {} /\ "active" \notin Ending
BY DEF Command, Ending

\* A new session is at the beginning of a path.
LEMMA FreshOnPath ==
  ASSUME NEW cmd \in Command
  PROVE  LET s == [status |-> "active", entry |-> cmd, expected |-> cmd,
                   steps |-> <<>>, paused |-> FALSE]
         IN  s \in State /\ OnPath(s)
<1> DEFINE s == [status |-> "active", entry |-> cmd, expected |-> cmd,
                 steps |-> <<>>, paused |-> FALSE]
<1>1. s.steps \in Seq(Step) /\ Len(s.steps) = 0
  BY EmptySeq
<1>2. s \in State
  BY <1>1 DEF State
<1>3. OnPath(s)
  BY <1>1, EndingIsNoCommand DEF OnPath, Due
<1>. QED
  BY <1>2, <1>3

\* A step that was due takes a path one further.
LEMMA AdvancedOnPath ==
  ASSUME NEW s \in State, OnPath(s), s.status = "active", NEW step \in Step,
         step.cmd = s.expected,
         ConditionKnown(step.cmd, step.result, step.condition),
         step.next = NextOf(step.cmd, step.result, step.condition)
  PROVE  Advanced(s, step) \in State /\ OnPath(Advanced(s, step))
<1> DEFINE t == Advanced(s, step)
<1>0. s.steps \in Seq(Step)
  BY DEF State
<1>1. s.steps \in Seq(Step) /\ Len(s.steps) \in Nat
  BY <1>0, LenProperties
<1>2. /\ t.status = IF step.next \in Ending THEN step.next ELSE "active"
      /\ t.expected = IF step.next \in Ending THEN "" ELSE step.next
      /\ t.steps = Append(s.steps, step)
      /\ t.entry = s.entry
  BY DEF Advanced, State
<1>3. t \in State
  <2>1. step.next \in Command \cup Ending
    BY DEF Step
  <2>2. Append(s.steps, step) \in Seq(Step)
    BY <1>1
  <2>. QED
    BY <2>1, <2>2 DEF Advanced, State
<1>4. /\ Len(t.steps) = Len(s.steps) + 1
      /\ \A i \in 1..Len(s.steps) : t.steps[i] = s.steps[i]
      /\ t.steps[Len(s.steps) + 1] = step
  <2>1. /\ Len(Append(s.steps, step)) = Len(s.steps) + 1
        /\ \A i \in 1..Len(s.steps) : Append(s.steps, step)[i] = s.steps[i]
        /\ Append(s.steps, step)[Len(s.steps) + 1] = step
    BY <1>1, AppendProperties
  <2>. QED
    BY <1>2, <2>1
<1>5. step.cmd = Due(s)
  BY DEF OnPath
<1>a. t.steps # <<>>
  <2>1. Len(t.steps) # 0
    BY <1>1, <1>4
  <2>. QED
    BY <2>1, EmptySeq
<1>6. Due(t) = step.next
  BY <1>4, <1>a DEF Due
<1>7. ASSUME NEW i \in 1..Len(t.steps)
      PROVE  /\ t.steps[i].cmd = IF i = 1 THEN t.entry ELSE t.steps[i-1].next
             /\ ConditionKnown(t.steps[i].cmd, t.steps[i].result,
                               t.steps[i].condition)
             /\ t.steps[i].next = NextOf(t.steps[i].cmd, t.steps[i].result,
                                         t.steps[i].condition)
  <2>1. CASE i \in 1..Len(s.steps)
    <3>1. t.steps[i] = s.steps[i]
      BY <1>4, <2>1
    <3>2. i # 1 => i - 1 \in 1..Len(s.steps)
      BY <1>1, <2>1
    <3>3. i # 1 => t.steps[i-1] = s.steps[i-1]
      BY <1>4, <3>2
    <3>. QED
      BY <1>2, <2>1, <3>1, <3>3 DEF OnPath
  <2>2. CASE i = Len(s.steps) + 1
    <3>1. t.steps[i] = step
      BY <1>4, <2>2
    <3>2. i # 1 => /\ i - 1 = Len(s.steps) /\ i - 1 \in 1..Len(s.steps)
                   /\ s.steps # <<>>
      BY <1>1, <2>2, EmptySeq
    <3>3. i = 1 => s.steps = <<>>
      BY <1>1, <2>2, EmptySeq
    <3>4. step.cmd = IF i = 1 THEN t.entry ELSE t.steps[i-1].next
      BY <1>2, <1>4, <1>5, <3>2, <3>3 DEF Due
    <3>. QED
      BY <3>1, <3>4
  <2>. QED
    BY <1>1, <1>4, <2>1, <2>2
<1>8. t.status = "active" => t.expected = Due(t) /\ t.expected \in Command
  BY <1>2, <1>6, EndingIsNoCommand DEF Step
<1>9. t.status \in Ending => t.steps # <<>> /\ Due(t) = t.status
  <2> HIDE DEF t
  <2>. QED
    BY <1>2, <1>6, <1>a, EndingIsNoCommand
<1>10. OnPath(t)
  BY <1>7, <1>8, <1>9 DEF OnPath
<1>. QED
  BY <1>3, <1>10

\* Pausing and resuming leave the path alone.
LEMMA PausedOnPath ==
  ASSUME NEW s \in State, OnPath(s), NEW b \in BOOLEAN
  PROVE  [s EXCEPT !.paused = b] \in State /\ OnPath([s EXCEPT !.paused = b])
BY DEF State, OnPath, Due

-----------------------------------------------------------------------------
\* The invariant: whatever is still to be written to the state file is on a
\* path too, since it was computed from a copy of the file that was.

GoodWrite == {w \in Write : w.to = "file" => w.what \in State /\ OnPath(w.what)}

LoopInv ==
  /\ TypeOK
  /\ OnPath(file)
  /\ todo \in [Caller -> Seq(GoodWrite)]

LEMMA WritesTyped ==
  /\ \A s \in State : OnPath(s) => ToFile(s) \in GoodWrite
  /\ \A e \in AuditEvent : ToAudit(e) \in GoodWrite
  /\ \A event \in {"phase_started", "phase_ended", "phase_paused",
                   "phase_resumed"}, cmd \in Command :
       ToPhases(event, cmd) \in GoodWrite
BY DEF ToFile, ToAudit, ToPhases, GoodWrite, Write, PhaseEvent

LEMMA InitLoopInv == Init => LoopInv
<1> SUFFICES ASSUME Init PROVE LoopInv
  OBVIOUS
<1>1. /\ <<>> \in Seq(Step) /\ <<>> \in Seq(AuditEvent)
      /\ <<>> \in Seq(PhaseEvent) /\ <<>> \in Seq(Write)
      /\ <<>> \in Seq(GoodWrite)
  BY EmptySeq
<1>2. file \in State
  BY <1>1 DEF Init, NoSession, State, Command
<1>3. TypeOK
  BY <1>1, <1>2 DEF Init, TypeOK
<1>4. Len(file.steps) = 0 /\ file.status = "absent"
  BY EmptySeq DEF Init, NoSession
<1>5. OnPath(file)
  BY <1>4 DEF OnPath, Ending
<1>6. todo \in [Caller -> Seq(GoodWrite)]
  BY <1>1 DEF Init
<1>. QED
  BY <1>3, <1>5, <1>6 DEF LoopInv

\* A call that decides on good writes.
LEMMA DecideKeeps ==
  ASSUME LoopInv, NEW c \in Caller, NEW writes \in Seq(GoodWrite),
         Decide(c, writes)
  PROVE  LoopInv'
<1>1. writes \in Seq(Write)
  BY DEF GoodWrite
<1>2. UNCHANGED <<file, audit, phases, crashes>>
  BY DEF Decide, logs
<1>3. todo' \in [Caller -> Seq(Write)] /\ todo' \in [Caller -> Seq(GoodWrite)]
  BY <1>1 DEF Decide, LoopInv, TypeOK
<1>4. calls' \in Nat /\ faults' \in SUBSET {"overlap", "crash"}
  BY DEF Decide, LoopInv, TypeOK
<1>5. OnPath(file)'
  BY <1>2 DEF LoopInv, OnPath, Due
<1>. QED
  BY <1>2, <1>3, <1>4, <1>5 DEF LoopInv, TypeOK

LEMMA StartKeeps ==
  ASSUME LoopInv, NEW c \in Caller, Start(c)
  PROVE  LoopInv'
<1> PICK cmd \in Command :
      Decide(c, <<ToFile([status |-> "active", entry |-> cmd, expected |-> cmd,
                          steps |-> <<>>, paused |-> FALSE]),
                  ToAudit([event |-> "session_started", cmd |-> cmd]),
                  ToPhases("phase_started", cmd)>>)
  BY DEF Start
<1> DEFINE w1 == ToFile([status |-> "active", entry |-> cmd, expected |-> cmd,
                         steps |-> <<>>, paused |-> FALSE])
           w2 == ToAudit([event |-> "session_started", cmd |-> cmd])
           w3 == ToPhases("phase_started", cmd)
<1>1. w1 \in GoodWrite
  BY FreshOnPath, WritesTyped
<1>2. w2 \in GoodWrite
  BY WritesTyped DEF AuditEvent
<1>3. w3 \in GoodWrite
  BY WritesTyped
<1> HIDE DEF w1, w2, w3
<1>4. <<w1, w2, w3>> \in Seq(GoodWrite)
  BY <1>1, <1>2, <1>3
<1>5. Decide(c, <<w1, w2, w3>>)
  BY DEF w1, w2, w3
<1>. QED
  BY <1>4, <1>5, DecideKeeps

LEMMA RecordKeeps ==
  ASSUME LoopInv, NEW c \in Caller, Record(c)
  PROVE  LoopInv'
<1> DEFINE step(result, condition) ==
      [cmd |-> file.expected, result |-> result, condition |-> condition,
       next |-> NextOf(file.expected, result, condition)]
<1> PICK result \in Result, condition \in Condition :
      /\ ConditionKnown(file.expected, result, condition)
      /\ Decide(c, <<ToPhases("phase_ended", file.expected)>>
                \o (IF step(result, condition).next \in Ending THEN <<>>
                    ELSE <<ToPhases("phase_started", step(result, condition).next)>>)
                \o <<ToFile(Advanced(file, step(result, condition))),
                     ToAudit([event |-> "step_recorded",
                              step |-> step(result, condition)])>>)
  BY DEF Record
<1> DEFINE st == step(result, condition)
           first == <<ToPhases("phase_ended", file.expected)>>
           middle == IF st.next \in Ending THEN <<>>
                     ELSE <<ToPhases("phase_started", st.next)>>
           last == <<ToFile(Advanced(file, st)),
                     ToAudit([event |-> "step_recorded", step |-> st])>>
<1>1. file \in State /\ OnPath(file) /\ file.status = "active"
  BY DEF LoopInv, TypeOK, Record, Loads
<1>2. file.expected \in Command
  BY <1>1 DEF OnPath
<1>3. st \in Step /\ st.cmd = file.expected
      /\ st.next = NextOf(st.cmd, st.result, st.condition)
      /\ ConditionKnown(st.cmd, st.result, st.condition)
  BY <1>2, NextOfTyped DEF Step
<1> HIDE DEF st
<1>4. Advanced(file, st) \in State /\ OnPath(Advanced(file, st))
  BY <1>1, <1>3, AdvancedOnPath
<1>5. first \in Seq(GoodWrite)
  BY <1>2, WritesTyped
<1>6. middle \in Seq(GoodWrite)
  <2>1. st.next \notin Ending => st.next \in Command
    BY <1>3 DEF Step
  <2>. QED
    BY <2>1, WritesTyped, EmptySeq
<1>7. last \in Seq(GoodWrite)
  <2>1. ToFile(Advanced(file, st)) \in GoodWrite
    BY <1>4, WritesTyped
  <2>2. ToAudit([event |-> "step_recorded", step |-> st]) \in GoodWrite
    BY <1>3, WritesTyped DEF AuditEvent
  <2>. QED
    BY <2>1, <2>2
<1>8. Decide(c, first \o middle \o last)
  BY DEF st
<1> HIDE DEF first, middle, last
<1>9. first \o middle \o last \in Seq(GoodWrite)
  BY <1>5, <1>6, <1>7, ConcatProperties
<1>. QED
  BY <1>8, <1>9, DecideKeeps

LEMMA PauseKeeps ==
  ASSUME LoopInv, NEW c \in Caller, Pause(c) \/ Resume(c)
  PROVE  LoopInv'
<1>1. file \in State /\ OnPath(file) /\ file.status = "active"
  BY DEF LoopInv, TypeOK, Pause, Resume, Loads
<1>2. file.expected \in Command
  BY <1>1 DEF OnPath
<1>3. \A b \in BOOLEAN : ToFile([file EXCEPT !.paused = b]) \in GoodWrite
  BY <1>1, PausedOnPath, WritesTyped
<1>b. \A v, w \in GoodWrite : <<v, w>> \in Seq(GoodWrite)
  OBVIOUS
<1>4. /\ ToPhases("phase_paused", file.expected) \in GoodWrite
      /\ ToPhases("phase_resumed", file.expected) \in GoodWrite
  BY <1>2, WritesTyped
<1>5. \E writes \in Seq(GoodWrite) : Decide(c, writes)
  <2>1. CASE Pause(c)
    <3>1. <<ToFile([file EXCEPT !.paused = TRUE]),
            ToPhases("phase_paused", file.expected)>> \in Seq(GoodWrite)
      BY <1>3, <1>4, <1>b
    <3>. QED
      BY <2>1, <3>1 DEF Pause
  <2>2. CASE Resume(c)
    <3>1. <<ToFile([file EXCEPT !.paused = FALSE]),
            ToPhases("phase_resumed", file.expected)>> \in Seq(GoodWrite)
      BY <1>3, <1>4, <1>b
    <3>. QED
      BY <2>2, <3>1 DEF Resume
  <2>. QED
    BY <2>1, <2>2
<1>. QED
  BY <1>5, DecideKeeps

\* A write puts a good state, or leaves the state alone.
LEMMA PerformKeeps ==
  ASSUME LoopInv, NEW c \in Caller, Perform(c)
  PROVE  LoopInv'
<1> DEFINE write == Head(todo[c])
<1>1. todo[c] \in Seq(GoodWrite) /\ todo[c] \in Seq(Write) /\ todo[c] # <<>>
  BY DEF LoopInv, TypeOK, Perform
<1>2. /\ write \in GoodWrite
      /\ Tail(todo[c]) \in Seq(GoodWrite) /\ Tail(todo[c]) \in Seq(Write)
  BY <1>1, HeadTailProperties
<1>3. /\ todo' \in [Caller -> Seq(Write)]
      /\ todo' \in [Caller -> Seq(GoodWrite)]
  BY <1>2 DEF Perform, LoopInv, TypeOK
<1>4. /\ write.to = "file" => write.what \in State /\ OnPath(write.what)
      /\ write.to = "audit" => write.what \in AuditEvent
      /\ write.to = "phases" => write.what \in PhaseEvent
  BY <1>2 DEF GoodWrite, Write
<1>5. /\ file' = IF write.to = "file" THEN write.what ELSE file
      /\ audit' = IF write.to = "audit" THEN Append(audit, write.what) ELSE audit
      /\ phases' = IF write.to = "phases" THEN Append(phases, write.what)
                                          ELSE phases
      /\ UNCHANGED <<calls, crashes, faults>>
  BY DEF Perform
<1> HIDE DEF write
<1>6. audit' \in Seq(AuditEvent) /\ phases' \in Seq(PhaseEvent)
  BY <1>4, <1>5 DEF LoopInv, TypeOK
<1>7. file' \in State /\ OnPath(file')
  BY <1>4, <1>5 DEF LoopInv, TypeOK
<1>8. OnPath(file)'
  BY <1>7 DEF OnPath, Due
<1>. QED
  BY <1>3, <1>5, <1>6, <1>7, <1>8 DEF LoopInv, TypeOK

LEMMA NextLoopInv == LoopInv /\ [Next]_vars => LoopInv'
<1> SUFFICES ASSUME LoopInv, [Next]_vars
             PROVE  LoopInv'
  OBVIOUS
<1>1. ASSUME NEW c \in Caller, Crash(c) PROVE LoopInv'
  <2>1. UNCHANGED <<file, audit, phases, calls>>
    BY <1>1 DEF Crash, logs
  <2>2. <<>> \in Seq(Write) /\ <<>> \in Seq(GoodWrite)
    BY EmptySeq
  <2>3. todo' \in [Caller -> Seq(Write)] /\ todo' \in [Caller -> Seq(GoodWrite)]
    BY <1>1, <2>2 DEF Crash, LoopInv, TypeOK
  <2>4. crashes' \in Nat /\ faults' \in SUBSET {"overlap", "crash"}
    BY <1>1 DEF Crash, LoopInv, TypeOK
  <2>5. OnPath(file)'
    BY <2>1 DEF LoopInv, OnPath, Due
  <2>. QED
    BY <2>1, <2>3, <2>4, <2>5 DEF LoopInv, TypeOK
<1>2. CASE UNCHANGED vars
  BY <1>2 DEF vars, LoopInv, TypeOK, OnPath, Due
<1>. QED
  BY <1>1, <1>2, StartKeeps, RecordKeeps, PauseKeeps, PerformKeeps DEF Next

LEMMA LoopInvariant == Spec => []LoopInv
BY InitLoopInv, NextLoopInv, PTL DEF Spec

\* Every variable keeps its type.
THEOREM TypeCorrect == Spec => []TypeOK
<1>1. LoopInv => TypeOK
  BY DEF LoopInv
<1>. QED
  BY <1>1, LoopInvariant, PTL

\* The recorded history of a session is a path of the continuation graph, and
\* the session never locks itself out, in every interleaving of any number of
\* callers and after any number of kills.
THEOREM HistoryFollowsManifests == Spec => []FollowsManifests
<1>1. LoopInv => FollowsManifests
  BY DEF LoopInv, FollowsManifests
<1>. QED
  BY <1>1, LoopInvariant, PTL

\* Only a review that passed leads to the test, and that is what stands
\* between an earlier fix and the test.
THEOREM FixesAreReviewed == Spec => []FixIsReviewed
<1>1. LoopInv => FixIsReviewed
  <2> SUFFICES ASSUME LoopInv, NEW i \in 1..Len(file.steps),
                      NEW k \in 1..Len(file.steps),
                      file.steps[i].cmd = "cc-fix",
                      file.steps[k].cmd = "cc-test", i < k
               PROVE  \E j \in (i+1)..(k-1) :
                        file.steps[j].cmd = "cc-review"
                        /\ file.steps[j].result = "passed"
    BY DEF FixIsReviewed
  <2>1. file.steps \in Seq(Step)
    BY DEF LoopInv, TypeOK, State
  <2>2. k - 1 \in 1..Len(file.steps) /\ k # 1 /\ i <= k - 1
    BY <2>1, LenProperties
  <2> DEFINE before == file.steps[k-1]
  <2>3. before \in Step
    BY <2>1, <2>2, ElementOfSeq
  <2>4. /\ before.next = "cc-test"
        /\ before.next = NextOf(before.cmd, before.result, before.condition)
    BY <2>2 DEF LoopInv, OnPath
  <2> HIDE DEF before
  <2>5. before.cmd = "cc-review" /\ before.result = "passed"
    BY <2>3, <2>4
       DEF Step, Command, Result, Condition, NextOf, OnPass, HasContinuation
  <2>6. i # k - 1
    BY <2>5 DEF before
  <2>. QED
    BY <2>2, <2>5, <2>6 DEF before
<1>. QED
  BY <1>1, LoopInvariant, PTL

-----------------------------------------------------------------------------
\* What a call has decided to write: the state s with write f, an audit entry
\* with write a and the end of a phase with write e (0: none).

Call(c, w, s, f, a, e) ==
  /\ Decide(c, w)
  /\ w \in Seq(GoodWrite) /\ s \in State
  /\ f \in 1..Len(w) /\ a \in 0..Len(w) /\ e \in 0..Len(w)
  /\ w[f] = ToFile(s) /\ s.status # "absent"
  /\ \A k \in 1..Len(w) : /\ IsFile(w[k]) <=> k = f
                          /\ IsAudit(w[k]) <=> k = a
                          /\ IsEnd(w[k]) <=> k = e
  /\ \/ /\ file.status = "absent"
        /\ a # 0 /\ e = 0 /\ s.steps = <<>> /\ ~IsStep(w[a])
     \/ /\ file.status = "active"
        /\ a = 0 /\ e = 0 /\ s.steps = file.steps
     \/ /\ file.status = "active" /\ ~file.paused
        /\ e # 0 /\ e < f /\ f < a
        /\ \E st \in Step :
             /\ s.steps = Append(file.steps, st)
             /\ w[a] = ToAudit([event |-> "step_recorded", step |-> st])

\* What the helpers build.
LEMMA KindsOfWrites ==
  /\ \A s : IsFile(ToFile(s)) /\ ~IsAudit(ToFile(s)) /\ ~IsEnd(ToFile(s))
  /\ \A x : IsAudit(ToAudit(x)) /\ ~IsFile(ToAudit(x)) /\ ~IsEnd(ToAudit(x))
  /\ \A event, cmd :
       /\ ~IsFile(ToPhases(event, cmd)) /\ ~IsAudit(ToPhases(event, cmd))
       /\ IsEnd(ToPhases(event, cmd)) <=> event = "phase_ended"
BY DEF IsFile, IsAudit, IsEnd, ToFile, ToAudit, ToPhases

LEMMA StartCall ==
  ASSUME LoopInv, NEW c \in Caller, Start(c)
  PROVE  \E w, s, f, a, e : Call(c, w, s, f, a, e)
<1> PICK cmd \in Command :
      Decide(c, <<ToFile([status |-> "active", entry |-> cmd, expected |-> cmd,
                          steps |-> <<>>, paused |-> FALSE]),
                  ToAudit([event |-> "session_started", cmd |-> cmd]),
                  ToPhases("phase_started", cmd)>>)
  BY DEF Start
<1> DEFINE s == [status |-> "active", entry |-> cmd, expected |-> cmd,
                 steps |-> <<>>, paused |-> FALSE]
           w1 == ToFile(s)
           w2 == ToAudit([event |-> "session_started", cmd |-> cmd])
           w3 == ToPhases("phase_started", cmd)
           w == <<w1, w2, w3>>
<1>1. s \in State /\ s.status # "absent" /\ s.steps = <<>>
  BY FreshOnPath
<1>2. w1 \in GoodWrite /\ w2 \in GoodWrite /\ w3 \in GoodWrite
  BY FreshOnPath, WritesTyped DEF AuditEvent
<1>3. /\ IsFile(w1) /\ ~IsAudit(w1) /\ ~IsEnd(w1)
      /\ ~IsFile(w2) /\ IsAudit(w2) /\ ~IsEnd(w2)
      /\ ~IsFile(w3) /\ ~IsAudit(w3) /\ ~IsEnd(w3)
  BY KindsOfWrites
<1>4. ~IsStep(w2)
  BY DEF IsStep, ToAudit
<1>5. Decide(c, w) /\ file.status = "absent" /\ w1 = ToFile(s)
  BY DEF Start
<1> HIDE DEF s, w1, w2, w3
<1>6. w \in Seq(GoodWrite) /\ Len(w) = 3
  BY <1>2
<1>7. w[1] = w1 /\ w[2] = w2 /\ w[3] = w3
  OBVIOUS
<1> HIDE DEF w
<1>8. \A k \in 1..Len(w) : /\ IsFile(w[k]) <=> k = 1
                           /\ IsAudit(w[k]) <=> k = 2
                           /\ IsEnd(w[k]) <=> k = 0
  <2> SUFFICES ASSUME NEW k \in 1..Len(w)
               PROVE  /\ IsFile(w[k]) <=> k = 1
                      /\ IsAudit(w[k]) <=> k = 2
                      /\ IsEnd(w[k]) <=> k = 0
    OBVIOUS
  <2>1. k = 1 \/ k = 2 \/ k = 3
    BY <1>6
  <2>. QED
    BY <2>1, <1>3, <1>7
<1>9. Call(c, w, s, 1, 2, 0)
  BY <1>1, <1>4, <1>5, <1>6, <1>7, <1>8 DEF Call
<1>. QED
  BY <1>9

LEMMA PauseCall ==
  ASSUME LoopInv, NEW c \in Caller, Pause(c) \/ Resume(c)
  PROVE  \E w, s, f, a, e : Call(c, w, s, f, a, e)
<1>1. file \in State /\ OnPath(file) /\ file.status = "active"
  BY DEF LoopInv, TypeOK, Pause, Resume, Loads
<1>2. file.expected \in Command
  BY <1>1 DEF OnPath
<1>3. PICK b \in BOOLEAN, event \in {"phase_paused", "phase_resumed"} :
        Decide(c, <<ToFile([file EXCEPT !.paused = b]),
                    ToPhases(event, file.expected)>>)
  BY DEF Pause, Resume
<1> DEFINE s == [file EXCEPT !.paused = b]
           w1 == ToFile(s)
           w2 == ToPhases(event, file.expected)
           w == <<w1, w2>>
<1>4. s \in State /\ s.status = "active" /\ s.steps = file.steps /\ w1 \in GoodWrite
  BY <1>1, PausedOnPath, WritesTyped DEF State
<1>5. w2 \in GoodWrite
  BY <1>2, WritesTyped
<1>6. /\ IsFile(w1) /\ ~IsAudit(w1) /\ ~IsEnd(w1)
      /\ ~IsFile(w2) /\ ~IsAudit(w2) /\ ~IsEnd(w2)
  BY KindsOfWrites
<1>7. Decide(c, w) /\ w1 = ToFile(s)
  BY <1>3
<1> HIDE DEF s, w1, w2
<1>8. w \in Seq(GoodWrite) /\ Len(w) = 2 /\ w[1] = w1 /\ w[2] = w2
  BY <1>4, <1>5
<1> HIDE DEF w
<1>9. \A k \in 1..Len(w) : /\ IsFile(w[k]) <=> k = 1
                           /\ IsAudit(w[k]) <=> k = 0
                           /\ IsEnd(w[k]) <=> k = 0
  <2> SUFFICES ASSUME NEW k \in 1..Len(w)
               PROVE  /\ IsFile(w[k]) <=> k = 1
                      /\ IsAudit(w[k]) <=> k = 0
                      /\ IsEnd(w[k]) <=> k = 0
    OBVIOUS
  <2>1. k = 1 \/ k = 2
    BY <1>8
  <2>. QED
    BY <2>1, <1>6, <1>8
<1>10. Call(c, w, s, 1, 0, 0)
  BY <1>1, <1>4, <1>7, <1>8, <1>9 DEF Call
<1>. QED
  BY <1>10

LEMMA RecordCall ==
  ASSUME LoopInv, NEW c \in Caller, Record(c)
  PROVE  \E w, s, f, a, e : Call(c, w, s, f, a, e)
<1> DEFINE step(result, condition) ==
      [cmd |-> file.expected, result |-> result, condition |-> condition,
       next |-> NextOf(file.expected, result, condition)]
<1> PICK result \in Result, condition \in Condition :
      /\ ConditionKnown(file.expected, result, condition)
      /\ Decide(c, <<ToPhases("phase_ended", file.expected)>>
                \o (IF step(result, condition).next \in Ending THEN <<>>
                    ELSE <<ToPhases("phase_started", step(result, condition).next)>>)
                \o <<ToFile(Advanced(file, step(result, condition))),
                     ToAudit([event |-> "step_recorded",
                              step |-> step(result, condition)])>>)
  BY DEF Record
<1> DEFINE st == step(result, condition)
           s == Advanced(file, st)
           w1 == ToPhases("phase_ended", file.expected)
           w2 == ToPhases("phase_started", st.next)
           w3 == ToFile(s)
           w4 == ToAudit([event |-> "step_recorded", step |-> st])
           middle == IF st.next \in Ending THEN <<>> ELSE <<w2>>
           w == <<w1>> \o middle \o <<w3, w4>>
<1>1. file \in State /\ OnPath(file) /\ file.status = "active" /\ ~file.paused
  BY DEF LoopInv, TypeOK, Record, Loads
<1>2. file.expected \in Command
  BY <1>1 DEF OnPath
<1>3. st \in Step /\ st.cmd = file.expected
      /\ st.next = NextOf(st.cmd, st.result, st.condition)
      /\ ConditionKnown(st.cmd, st.result, st.condition)
  BY <1>2, NextOfTyped DEF Step
<1>4. Decide(c, w)
  OBVIOUS
<1> HIDE DEF st
<1>5. s \in State /\ OnPath(s)
  BY <1>1, <1>3, AdvancedOnPath
<1>6. s.steps = Append(file.steps, st) /\ s.status # "absent"
  BY <1>1, <1>3 DEF Advanced, State, Ending, Step
<1>7. w1 \in GoodWrite /\ w3 \in GoodWrite /\ w4 \in GoodWrite
  BY <1>2, <1>3, <1>5, WritesTyped DEF AuditEvent
<1>8. st.next \notin Ending => w2 \in GoodWrite
  BY <1>3, WritesTyped DEF Step
<1>9. /\ ~IsFile(w1) /\ ~IsAudit(w1) /\ IsEnd(w1)
      /\ ~IsFile(w2) /\ ~IsAudit(w2) /\ ~IsEnd(w2)
      /\ IsFile(w3) /\ ~IsAudit(w3) /\ ~IsEnd(w3)
      /\ ~IsFile(w4) /\ IsAudit(w4) /\ ~IsEnd(w4)
  BY KindsOfWrites
<1>10. w3 = ToFile(s) /\ w4 = ToAudit([event |-> "step_recorded", step |-> st])
  OBVIOUS
<1> HIDE DEF s, w1, w2, w3, w4
<1> DEFINE m == IF st.next \in Ending THEN 0 ELSE 1
<1>11. middle \in Seq(GoodWrite) /\ Len(middle) = m /\ (m = 1 => middle[1] = w2)
  BY <1>8, EmptySeq
<1>12. /\ <<w1>> \in Seq(GoodWrite) /\ Len(<<w1>>) = 1 /\ <<w1>>[1] = w1
       /\ <<w3, w4>> \in Seq(GoodWrite) /\ Len(<<w3, w4>>) = 2
       /\ <<w3, w4>>[1] = w3 /\ <<w3, w4>>[2] = w4
  BY <1>7
<1>13. m \in {0, 1}
  OBVIOUS
<1> HIDE DEF middle, m
<1>14. /\ <<w1>> \o middle \in Seq(GoodWrite) /\ Len(<<w1>> \o middle) = 1 + m
       /\ (<<w1>> \o middle)[1] = w1 /\ (m = 1 => (<<w1>> \o middle)[2] = w2)
  <2> DEFINE x == <<w1>>
  <2> HIDE DEF x
  <2>1. x \in Seq(GoodWrite) /\ Len(x) = 1 /\ x[1] = w1
    BY <1>12 DEF x
  <2>2. /\ x \o middle \in Seq(GoodWrite) /\ Len(x \o middle) = 1 + m
        /\ \A i \in 1..(1 + m) :
             (x \o middle)[i] = IF i <= 1 THEN x[i] ELSE middle[i - 1]
    BY <1>11, <2>1, ConcatProperties
  <2>3. (x \o middle)[1] = w1 /\ (m = 1 => (x \o middle)[2] = w2)
    BY <1>11, <1>13, <2>1, <2>2
  <2>. QED
    BY <2>2, <2>3 DEF x
<1>15. /\ w \in Seq(GoodWrite) /\ Len(w) = 3 + m
       /\ w[1] = w1 /\ (m = 1 => w[2] = w2) /\ w[2 + m] = w3 /\ w[3 + m] = w4
  <2> DEFINE x == <<w1>> \o middle
             y == <<w3, w4>>
  <2> HIDE DEF x, y
  <2>1. /\ x \in Seq(GoodWrite) /\ Len(x) = 1 + m /\ x[1] = w1 /\ (m = 1 => x[2] = w2)
        /\ y \in Seq(GoodWrite) /\ Len(y) = 2 /\ y[1] = w3 /\ y[2] = w4
    BY <1>12, <1>14 DEF x, y
  <2>2. /\ x \o y \in Seq(GoodWrite) /\ Len(x \o y) = 3 + m
        /\ \A i \in 1..(3 + m) :
             (x \o y)[i] = IF i <= 1 + m THEN x[i] ELSE y[i - (1 + m)]
    <3>1. /\ x \o y \in Seq(GoodWrite) /\ Len(x \o y) = Len(x) + Len(y)
          /\ \A i \in 1..(Len(x) + Len(y)) :
               (x \o y)[i] = IF i <= Len(x) THEN x[i] ELSE y[i - Len(x)]
      BY <2>1, ConcatProperties
    <3>2. Len(x) + Len(y) = 3 + m
      BY <1>13, <2>1
    <3>. QED
      BY <2>1, <3>1, <3>2
  <2>3. CASE m = 0
    BY <2>1, <2>2, <2>3 DEF x, y
  <2>4. CASE m = 1
    BY <2>1, <2>2, <2>4 DEF x, y
  <2>. QED
    BY <1>13, <2>3, <2>4
<1> HIDE DEF w
<1>16. \A k \in 1..Len(w) : /\ IsFile(w[k]) <=> k = 2 + m
                            /\ IsAudit(w[k]) <=> k = 3 + m
                            /\ IsEnd(w[k]) <=> k = 1
  <2> SUFFICES ASSUME NEW k \in 1..Len(w)
               PROVE  /\ IsFile(w[k]) <=> k = 2 + m
                      /\ IsAudit(w[k]) <=> k = 3 + m
                      /\ IsEnd(w[k]) <=> k = 1
    OBVIOUS
  <2>1. CASE m = 0
    <3>1. k = 1 \/ k = 2 \/ k = 3
      BY <1>15, <2>1
    <3>. QED
      BY <2>1, <3>1, <1>9, <1>15
  <2>2. CASE m = 1
    <3>1. k = 1 \/ k = 2 \/ k = 3 \/ k = 4
      BY <1>15, <2>2
    <3>. QED
      BY <2>2, <3>1, <1>9, <1>15
  <2>. QED
    BY <1>13, <2>1, <2>2
<1>17. 2 + m \in 1..Len(w) /\ 3 + m \in 0..Len(w) /\ 1 \in 0..Len(w)
       /\ 1 < 2 + m /\ 2 + m < 3 + m
  BY <1>13, <1>15
<1>18. Call(c, w, s, 2 + m, 3 + m, 1)
  BY <1>1, <1>3, <1>4, <1>5, <1>6, <1>10, <1>15, <1>16, <1>17 DEF Call
<1>. QED
  BY <1>18

LEMMA EveryCall ==
  ASSUME LoopInv, NEW c \in Caller, Start(c) \/ Record(c) \/ Pause(c) \/ Resume(c)
  PROVE  \E w, s, f, a, e : Call(c, w, s, f, a, e)
BY StartCall, RecordCall, PauseCall

\* What a decision changes.
LEMMA CallEffect ==
  ASSUME LoopInv, NEW c \in Caller, NEW w, NEW s, NEW f, NEW a, NEW e,
         Call(c, w, s, f, a, e)
  PROVE  /\ todo'[c] = w /\ w # <<>> /\ todo[c] = <<>>
         /\ \A d \in Caller : d # c => todo'[d] = todo[d]
         /\ UNCHANGED <<file, audit, phases>>
         /\ DOMAIN w = 1..Len(w) /\ Len(w) \in Nat \ {0}
         /\ faults \subseteq faults'
         /\ "overlap" \notin faults' => \A d \in Caller : todo[d] = <<>>
<1>1. w \in Seq(GoodWrite) /\ f \in 1..Len(w) /\ Decide(c, w)
  BY DEF Call
<1>2. Len(w) \in Nat /\ DOMAIN w = 1..Len(w)
  BY <1>1, LenProperties
<1>3. Len(w) # 0 /\ w # <<>>
  <2>1. Len(w) # 0
    BY <1>1, <1>2
  <2>. QED
    BY <2>1, EmptySeq
<1>4. todo \in [Caller -> Seq(Write)]
  BY DEF LoopInv, TypeOK
<1>. QED
  BY <1>1, <1>2, <1>3, <1>4 DEF Decide, logs

\* What a write changes, and which of its call's are left.
LEMMA PerformEffect ==
  ASSUME LoopInv, NEW c \in Caller, Perform(c)
  PROVE  /\ Len(todo[c]) \in Nat \ {0} /\ DOMAIN todo[c] = 1..Len(todo[c])
         /\ DOMAIN todo'[c] = 1..(Len(todo[c]) - 1)
         /\ \A k \in 1..(Len(todo[c]) - 1) :
              k + 1 \in 1..Len(todo[c]) /\ todo'[c][k] = todo[c][k + 1]
         /\ todo'[c] = <<>> <=> Len(todo[c]) = 1
         /\ todo[c] # <<>>
         /\ \A d \in Caller : d # c => todo'[d] = todo[d]
         /\ file' = IF IsFile(todo[c][1]) THEN todo[c][1].what ELSE file
         /\ audit' = IF IsAudit(todo[c][1]) THEN Append(audit, todo[c][1].what)
                                            ELSE audit
         /\ phases' = IF todo[c][1].to = "phases"
                      THEN Append(phases, todo[c][1].what) ELSE phases
         /\ todo[c][1] \in GoodWrite
         /\ UNCHANGED faults
<1> DEFINE w == todo[c]
<1>1. w \in Seq(GoodWrite) /\ w # <<>> /\ todo \in [Caller -> Seq(Write)]
  BY DEF LoopInv, TypeOK, Perform
<1>2. Len(w) \in Nat \ {0} /\ DOMAIN w = 1..Len(w)
  BY <1>1, LenProperties, EmptySeq
<1>3. /\ Tail(w) \in Seq(GoodWrite) /\ Len(Tail(w)) = Len(w) - 1
      /\ \A k \in 1..(Len(w) - 1) : Tail(w)[k] = w[k + 1]
  BY <1>1, HeadTailProperties
<1>4. DOMAIN Tail(w) = 1..(Len(w) - 1)
  BY <1>3, LenProperties
<1>5. Tail(w) = <<>> <=> Len(w) = 1
  <2>1. Tail(w) = <<>> <=> Len(Tail(w)) = 0
    BY <1>3, EmptySeq
  <2>. QED
    BY <1>2, <1>3, <2>1
<1>6. Head(w) = w[1] /\ w[1] \in GoodWrite
  BY <1>1, <1>2
<1>7. todo'[c] = Tail(w) /\ \A d \in Caller : d # c => todo'[d] = todo[d]
  BY <1>1 DEF Perform
<1>8. \A k \in 1..(Len(w) - 1) : k + 1 \in 1..Len(w)
  BY <1>2
<1>9. /\ file' = IF IsFile(w[1]) THEN w[1].what ELSE file
      /\ audit' = IF IsAudit(w[1]) THEN Append(audit, w[1].what) ELSE audit
      /\ phases' = IF w[1].to = "phases" THEN Append(phases, w[1].what) ELSE phases
      /\ UNCHANGED faults
  BY <1>6 DEF Perform, IsFile, IsAudit
<1>. QED
  BY <1>1, <1>2, <1>3, <1>4, <1>5, <1>6, <1>7, <1>8, <1>9

\* The ends of phases are counted.
LEMMA EndedCounts ==
  ASSUME TypeOK
  PROVE  /\ IsFiniteSet(Ended) /\ Cardinality(Ended) \in Nat
         /\ Ended \subseteq 1..Len(phases) /\ Len(phases) \in Nat
<1>1. Len(phases) \in Nat
  BY LenProperties DEF TypeOK
<1>2. Ended \in SUBSET (1..Len(phases))
  BY DEF Ended
<1>3. IsFiniteSet(1..Len(phases))
  BY <1>1, FS_Interval
<1>4. IsFiniteSet(Ended)
  BY <1>2, <1>3, FS_Subset
<1>. QED
  BY <1>1, <1>2, <1>4, FS_CardinalityType

LEMMA EndedGrows ==
  ASSUME LoopInv, NEW c \in Caller, Perform(c)
  PROVE  Cardinality(Ended)' = Cardinality(Ended)
                               + (IF IsEnd(todo[c][1]) THEN 1 ELSE 0)
<1> DEFINE write == todo[c][1]
<1>1. /\ phases \in Seq(PhaseEvent) /\ Len(phases) \in Nat /\ IsFiniteSet(Ended)
      /\ Cardinality(Ended) \in Nat /\ Ended \subseteq 1..Len(phases)
  BY EndedCounts DEF LoopInv, TypeOK
<1>2. /\ write \in GoodWrite
      /\ phases' = IF write.to = "phases" THEN Append(phases, write.what) ELSE phases
  BY PerformEffect
<1> HIDE DEF write
<1>3. CASE write.to # "phases"
  <2>1. ~IsEnd(write) /\ phases' = phases
    BY <1>2, <1>3 DEF IsEnd
  <2>2. Ended' = Ended
    BY <2>1 DEF Ended
  <2>. QED
    BY <1>1, <2>1, <2>2 DEF write
<1>4. CASE write.to = "phases"
  <2>1. write.what \in PhaseEvent
    BY <1>2, <1>4 DEF GoodWrite, Write
  <2>2. /\ Len(phases') = Len(phases) + 1
        /\ \A k \in 1..Len(phases) : phases'[k] = phases[k]
        /\ phases'[Len(phases) + 1] = write.what
    BY <1>1, <1>2, <1>4, <2>1, AppendProperties
  <2>3. CASE IsEnd(write)
    <3>1. Ended' = Ended \cup {Len(phases) + 1}
      BY <1>1, <2>2, <2>3 DEF Ended, IsEnd
    <3>2. Len(phases) + 1 \notin Ended
      BY <1>1
    <3>3. Cardinality(Ended') = Cardinality(Ended) + 1
      BY <1>1, <3>1, <3>2, FS_AddElement
    <3>. QED
      BY <2>3, <3>3 DEF write
  <2>4. CASE ~IsEnd(write)
    <3>1. Ended' = Ended
      BY <1>1, <1>4, <2>2, <2>4 DEF Ended, IsEnd
    <3>. QED
      BY <1>1, <2>4, <3>1 DEF write
  <2>. QED
    BY <2>3, <2>4
<1>. QED
  BY <1>3, <1>4

-----------------------------------------------------------------------------
\* A call writes the state once, and the ends of phases are ahead of the state.

EndsInv == StartsEmpty /\ WritesOnce /\ EveryStepEnded /\ EndsAreAhead

LEMMA InitEndsInv == Init => EndsInv
<1> SUFFICES ASSUME Init PROVE EndsInv
  OBVIOUS
<1>1. \A c \in Caller : todo[c] = <<>> /\ DOMAIN todo[c] = {}
  BY DEF Init
<1>2. file.steps = <<>> /\ Len(file.steps) = 0
  BY DEF Init, NoSession
<1>3. Cardinality(Ended) \in Nat
  BY InitLoopInv, EndedCounts DEF LoopInv
<1>4. EveryStepEnded
  BY <1>2, <1>3 DEF EveryStepEnded
<1>. QED
  BY <1>1, <1>4 DEF EndsInv, StartsEmpty, WritesOnce, EndsAreAhead, Init

LEMMA CallKeepsEnds ==
  ASSUME LoopInv, EndsInv, NEW c \in Caller, NEW w, NEW s, NEW f, NEW a, NEW e,
         Call(c, w, s, f, a, e)
  PROVE  EndsInv'
<1>1. /\ todo'[c] = w /\ \A d \in Caller : d # c => todo'[d] = todo[d]
      /\ UNCHANGED <<file, phases>>
      /\ DOMAIN w = 1..Len(w) /\ Len(w) \in Nat \ {0}
  BY CallEffect
<1>2. /\ w[f] = ToFile(s) /\ s.status # "absent" /\ f \in 1..Len(w)
      /\ e \in 0..Len(w)
      /\ \A k \in 1..Len(w) : /\ IsFile(w[k]) <=> k = f
                              /\ IsAudit(w[k]) <=> k = a
                              /\ IsEnd(w[k]) <=> k = e
  BY DEF Call
<1>3. w[f].what = s
  BY <1>2 DEF ToFile
<1>4. Cardinality(Ended) \in Nat /\ Ended' = Ended
  BY <1>1, EndedCounts DEF LoopInv, Ended
<1>5. file.steps \in Seq(Step) /\ Len(file.steps) \in Nat
  BY LenProperties DEF LoopInv, TypeOK, State
<1>6. StartsEmpty'
  <2>1. (file.status = "absent" => file = NoSession)'
    BY <1>1 DEF EndsInv, StartsEmpty
  <2>2. ASSUME NEW d \in Caller, NEW k \in DOMAIN todo'[d], IsFile(todo'[d][k])
        PROVE  todo'[d][k].what.status # "absent"
    <3>1. CASE d = c
      BY <1>1, <1>2, <1>3, <2>2, <3>1
    <3>2. CASE d # c
      BY <1>1, <2>2, <3>2 DEF EndsInv, StartsEmpty
    <3>. QED
      BY <3>1, <3>2
  <2>. QED
    BY <2>1, <2>2 DEF StartsEmpty
<1>7. WritesOnce'
  <2> SUFFICES ASSUME NEW d \in Caller,
                      NEW j \in DOMAIN todo'[d], NEW k \in DOMAIN todo'[d],
                      \/ IsFile(todo'[d][j]) /\ IsFile(todo'[d][k])
                      \/ IsAudit(todo'[d][j]) /\ IsAudit(todo'[d][k])
                      \/ IsEnd(todo'[d][j]) /\ IsEnd(todo'[d][k])
               PROVE  j = k
    BY DEF WritesOnce
  <2>1. CASE d = c
    BY <1>1, <1>2, <2>1
  <2>2. CASE d # c
    BY <1>1, <2>2 DEF EndsInv, WritesOnce
  <2>. QED
    BY <2>1, <2>2
<1>8. EveryStepEnded'
  BY <1>1, <1>4 DEF EndsInv, EveryStepEnded
<1>9. EndsAreAhead'
  <2> SUFFICES ASSUME NEW d \in Caller, NEW k \in DOMAIN todo'[d],
                      IsFile(todo'[d][k])
               PROVE  Len(todo'[d][k].what.steps) <=
                        Cardinality(Ended)
                        + (IF \E j \in DOMAIN todo'[d] : j < k /\ IsEnd(todo'[d][j])
                           THEN 1 ELSE 0)
    BY <1>4 DEF EndsAreAhead
  <2>1. CASE d # c
    BY <1>1, <2>1 DEF EndsInv, EndsAreAhead
  <2>2. CASE d = c
    <3>1. k = f /\ todo'[d][k].what = s
      BY <1>1, <1>2, <1>3, <2>2
    <3>2. Len(file.steps) <= Cardinality(Ended)
      BY <1>4, <1>5 DEF EndsInv, EveryStepEnded
    <3>3. CASE s.steps = <<>> \/ s.steps = file.steps
      BY <1>4, <1>5, <3>1, <3>2, <3>3
    <3>4. CASE \E st \in Step : e # 0 /\ e < f /\ s.steps = Append(file.steps, st)
      <4>1. Len(s.steps) = Len(file.steps) + 1
        BY <1>5, <3>4, AppendProperties
      <4>2. e \in DOMAIN todo'[d] /\ e < k /\ IsEnd(todo'[d][e])
        BY <1>1, <1>2, <2>2, <3>1, <3>4
      <4>. QED
        BY <1>4, <1>5, <3>1, <3>2, <4>1, <4>2
    <3>. QED
      BY <3>3, <3>4 DEF Call
  <2>. QED
    BY <2>1, <2>2
<1>. QED
  BY <1>6, <1>7, <1>8, <1>9 DEF EndsInv

LEMMA PerformKeepsEnds ==
  ASSUME LoopInv, EndsInv, NEW c \in Caller, Perform(c)
  PROVE  EndsInv'
<1> DEFINE w == todo[c]
           n == Len(todo[c])
           more == IF IsEnd(todo[c][1]) THEN 1 ELSE 0
<1>1. /\ n \in Nat \ {0} /\ DOMAIN w = 1..n
      /\ DOMAIN todo'[c] = 1..(n - 1)
      /\ \A k \in 1..(n - 1) : k + 1 \in 1..n /\ todo'[c][k] = w[k + 1]
      /\ \A d \in Caller : d # c => todo'[d] = todo[d]
      /\ file' = IF IsFile(w[1]) THEN w[1].what ELSE file
  BY PerformEffect
<1>2. Cardinality(Ended) \in Nat /\ Cardinality(Ended)' = Cardinality(Ended) + more
  BY EndedGrows, EndedCounts DEF LoopInv
<1>3. more \in {0, 1} /\ (more = 1 <=> IsEnd(w[1]))
  OBVIOUS
<1>4. LoopInv'
  BY PerformKeeps
<1>5. Len(file.steps) \in Nat /\ Len(file'.steps) \in Nat
  BY <1>4, LenProperties DEF LoopInv, TypeOK, State
<1>6. \A d \in Caller : \A k \in DOMAIN todo[d] :
        IsFile(todo[d][k]) => Len(todo[d][k].what.steps) \in Nat
  <2> SUFFICES ASSUME NEW d \in Caller, NEW k \in DOMAIN todo[d],
                      IsFile(todo[d][k])
               PROVE  Len(todo[d][k].what.steps) \in Nat
    OBVIOUS
  <2>1. todo[d] \in Seq(GoodWrite)
    BY DEF LoopInv
  <2>2. todo[d][k] \in GoodWrite
    BY <2>1, ElementOfSeq, LenProperties
  <2>3. todo[d][k].what.steps \in Seq(Step)
    BY <2>2 DEF GoodWrite, IsFile, State
  <2>. QED
    BY <2>3, LenProperties
<1> HIDE DEF w, n, more
<1>7. StartsEmpty'
  <2>1. (file.status = "absent" => file = NoSession)'
    <3>1. CASE IsFile(w[1])
      BY <1>1, <3>1 DEF EndsInv, StartsEmpty, w
    <3>2. CASE ~IsFile(w[1])
      BY <1>1, <3>2 DEF EndsInv, StartsEmpty
    <3>. QED
      BY <3>1, <3>2
  <2>2. ASSUME NEW d \in Caller, NEW k \in DOMAIN todo'[d], IsFile(todo'[d][k])
        PROVE  todo'[d][k].what.status # "absent"
    <3>1. CASE d = c
      BY <1>1, <2>2, <3>1 DEF EndsInv, StartsEmpty, w
    <3>2. CASE d # c
      BY <1>1, <2>2, <3>2 DEF EndsInv, StartsEmpty
    <3>. QED
      BY <3>1, <3>2
  <2>. QED
    BY <2>1, <2>2 DEF StartsEmpty
<1>8. WritesOnce'
  <2> SUFFICES ASSUME NEW d \in Caller,
                      NEW j \in DOMAIN todo'[d], NEW k \in DOMAIN todo'[d],
                      \/ IsFile(todo'[d][j]) /\ IsFile(todo'[d][k])
                      \/ IsAudit(todo'[d][j]) /\ IsAudit(todo'[d][k])
                      \/ IsEnd(todo'[d][j]) /\ IsEnd(todo'[d][k])
               PROVE  j = k
    BY DEF WritesOnce
  <2>1. CASE d = c
    <3>1. /\ j \in 1..(n - 1) /\ k \in 1..(n - 1)
          /\ j + 1 \in DOMAIN todo[c] /\ k + 1 \in DOMAIN todo[c]
          /\ todo'[d][j] = todo[c][j + 1] /\ todo'[d][k] = todo[c][k + 1]
      BY <1>1, <2>1 DEF w
    <3>2. j + 1 = k + 1
      BY <3>1 DEF EndsInv, WritesOnce
    <3>. QED
      BY <1>1, <3>1, <3>2
  <2>2. CASE d # c
    BY <1>1, <2>2 DEF EndsInv, WritesOnce
  <2>. QED
    BY <2>1, <2>2
<1>9. EveryStepEnded'
  <2>1. CASE IsFile(w[1])
    <3>1. Len(w[1].what.steps) <=
            Cardinality(Ended) + (IF \E j \in DOMAIN todo[c] : j < 1 /\ IsEnd(todo[c][j])
                                  THEN 1 ELSE 0)
      BY <1>1, <2>1 DEF EndsInv, EndsAreAhead, w
    <3>2. ~ \E j \in DOMAIN todo[c] : j < 1 /\ IsEnd(todo[c][j])
      BY <1>1 DEF w
    <3>. QED
      BY <1>1, <1>2, <1>3, <1>5, <2>1, <3>1, <3>2 DEF EveryStepEnded
  <2>2. CASE ~IsFile(w[1])
    BY <1>1, <1>2, <1>3, <1>5, <2>2 DEF EndsInv, EveryStepEnded
  <2>. QED
    BY <2>1, <2>2
<1>10. EndsAreAhead'
  <2> SUFFICES ASSUME NEW d \in Caller, NEW k \in DOMAIN todo'[d],
                      IsFile(todo'[d][k])
               PROVE  Len(todo'[d][k].what.steps) <=
                        Cardinality(Ended)'
                        + (IF \E j \in DOMAIN todo'[d] : j < k /\ IsEnd(todo'[d][j])
                           THEN 1 ELSE 0)
    BY DEF EndsAreAhead
  <2>1. CASE d # c
    <3>1. Len(todo[d][k].what.steps) <=
            Cardinality(Ended) + (IF \E j \in DOMAIN todo[d] : j < k /\ IsEnd(todo[d][j])
                                  THEN 1 ELSE 0)
          /\ Len(todo[d][k].what.steps) \in Nat
      BY <1>1, <1>6, <2>1 DEF EndsInv, EndsAreAhead
    <3>2. todo'[d] = todo[d]
      BY <1>1, <2>1
    <3>. QED
      BY <1>2, <1>3, <3>1, <3>2
  <2>2. CASE d = c
    <3>1. /\ k \in 1..(n - 1) /\ k + 1 \in 1..n
          /\ k + 1 \in DOMAIN todo[c] /\ todo'[d][k] = todo[c][k + 1]
      BY <1>1, <2>2 DEF w
    <3>2. /\ Len(todo[c][k + 1].what.steps) <=
               Cardinality(Ended)
               + (IF \E j \in DOMAIN todo[c] : j < k + 1 /\ IsEnd(todo[c][j])
                  THEN 1 ELSE 0)
          /\ Len(todo[c][k + 1].what.steps) \in Nat
      BY <1>6, <3>1 DEF EndsInv, EndsAreAhead
    <3>3. ASSUME NEW j \in DOMAIN todo[c], j < k + 1, IsEnd(todo[c][j]), more = 0
          PROVE  \E i \in DOMAIN todo'[d] : i < k /\ IsEnd(todo'[d][i])
      <4>1. j # 1
        BY <1>3, <3>3 DEF w
      <4>2. j - 1 \in 1..(n - 1) /\ (j - 1) + 1 = j /\ j - 1 < k
        BY <1>1, <3>1, <3>3, <4>1 DEF w
      <4>3. todo'[d][j - 1] = todo[c][j]
        BY <1>1, <2>2, <4>2 DEF w
      <4>. QED
        BY <1>1, <2>2, <3>3, <4>2, <4>3
    <3>. QED
      BY <1>2, <1>3, <3>1, <3>2, <3>3
  <2>. QED
    BY <2>1, <2>2
<1>. QED
  BY <1>7, <1>8, <1>9, <1>10 DEF EndsInv

LEMMA CrashKeepsEnds ==
  ASSUME LoopInv, EndsInv, NEW c \in Caller, Crash(c)
  PROVE  EndsInv'
<1>1. /\ UNCHANGED <<file, phases>> /\ todo'[c] = <<>> /\ DOMAIN todo'[c] = {}
      /\ \A d \in Caller : d # c => todo'[d] = todo[d]
  BY DEF LoopInv, TypeOK, Crash, logs
<1>2. Ended' = Ended
  BY <1>1 DEF Ended
<1>3. StartsEmpty' /\ WritesOnce'
  BY <1>1 DEF EndsInv, StartsEmpty, WritesOnce
<1>4. EveryStepEnded'
  BY <1>1, <1>2 DEF EndsInv, EveryStepEnded
<1>5. EndsAreAhead'
  <2> SUFFICES ASSUME NEW d \in Caller, NEW k \in DOMAIN todo'[d],
                      IsFile(todo'[d][k])
               PROVE  Len(todo'[d][k].what.steps) <=
                        Cardinality(Ended)
                        + (IF \E j \in DOMAIN todo'[d] : j < k /\ IsEnd(todo'[d][j])
                           THEN 1 ELSE 0)
    BY <1>2 DEF EndsAreAhead
  <2>1. d # c /\ todo'[d] = todo[d]
    BY <1>1
  <2>. QED
    BY <2>1 DEF EndsInv, EndsAreAhead
<1>. QED
  BY <1>3, <1>4, <1>5 DEF EndsInv

LEMMA NextEndsInv == LoopInv /\ EndsInv /\ [Next]_vars => EndsInv'
<1> SUFFICES ASSUME LoopInv, EndsInv, [Next]_vars PROVE EndsInv'
  OBVIOUS
<1>1. CASE UNCHANGED vars
  BY <1>1 DEF vars, EndsInv, StartsEmpty, WritesOnce, EveryStepEnded, EndsAreAhead,
              Ended
<1>2. ASSUME NEW c \in Caller, Start(c) \/ Record(c) \/ Pause(c) \/ Resume(c)
      PROVE  EndsInv'
  BY <1>2, EveryCall, CallKeepsEnds
<1>. QED
  BY <1>1, <1>2, PerformKeepsEnds, CrashKeepsEnds DEF Next

LEMMA EndsInvariant == Spec => []EndsInv
BY InitEndsInv, NextEndsInv, LoopInvariant, PTL DEF Spec

\* The phase audit has an end for every step of the state file, whatever the
\* interleaving and whoever is killed: record_step appends the end before it
\* replaces the state.
THEOREM StepsAreEnded == Spec => []EveryStepEnded
<1>1. EndsInv => EveryStepEnded
  BY DEF EndsInv
<1>. QED
  BY <1>1, EndsInvariant, PTL

-----------------------------------------------------------------------------
\* Calls that do not overlap: each builds on the state that is there.

CallsInv == SerialCalls /\ AuditNeverInvents

LEMMA InitCallsInv == Init => CallsInv
<1> SUFFICES ASSUME Init PROVE CallsInv
  OBVIOUS
<1>1. \A c \in Caller : todo[c] = <<>> /\ DOMAIN todo[c] = {}
  BY DEF Init
<1>2. audit = <<>> /\ Len(audit) = 0
  BY DEF Init
<1>3. AuditNeverInvents
  BY <1>2 DEF AuditNeverInvents
<1>. QED
  BY <1>1, <1>3 DEF CallsInv, SerialCalls

\* What a call has decided to write continues the state it found.
LEMMA CallContinues ==
  ASSUME LoopInv, EndsInv, NEW c \in Caller, NEW w, NEW s, NEW f, NEW a, NEW e,
         Call(c, w, s, f, a, e)
  PROVE  /\ Continues(file, s)
         /\ a # 0 /\ IsStep(w[a]) => f < a /\ HasStep(s, w[a].what.step)
<1>1. file.steps \in Seq(Step) /\ Len(file.steps) \in Nat
  BY LenProperties DEF LoopInv, TypeOK, State
<1>2. CASE file.status = "absent" /\ s.steps = <<>> /\ ~IsStep(w[a])
  <2>1. file.steps = <<>> /\ file.status \notin Ending /\ Len(file.steps) = 0
    <3>1. file = NoSession
      BY <1>2 DEF EndsInv, StartsEmpty
    <3>2. file.steps = <<>> /\ Len(file.steps) = 0
      BY <3>1, EmptySeq DEF NoSession
    <3>. QED
      BY <1>2, <3>2 DEF Ending
  <2>. QED
    BY <1>2, <2>1 DEF Continues
<1>3. CASE file.status = "active" /\ a = 0 /\ s.steps = file.steps
  BY <1>1, <1>3, EndingIsNoCommand DEF Continues
<1>4. ASSUME file.status = "active", ~file.paused, f < a, NEW st \in Step,
             s.steps = Append(file.steps, st),
             w[a] = ToAudit([event |-> "step_recorded", step |-> st])
      PROVE  Continues(file, s) /\ f < a /\ HasStep(s, w[a].what.step)
  <2>1. /\ Len(s.steps) = Len(file.steps) + 1
        /\ \A i \in 1..Len(file.steps) : s.steps[i] = file.steps[i]
        /\ s.steps[Len(file.steps) + 1] = st
    BY <1>1, <1>4, AppendProperties
  <2>2. Continues(file, s)
    BY <1>1, <1>4, <2>1, EndingIsNoCommand DEF Continues
  <2>3. w[a].what.step = st
    BY <1>4 DEF ToAudit
  <2>4. Len(file.steps) + 1 \in 1..Len(s.steps)
    BY <1>1, <2>1
  <2>. QED
    BY <1>4, <2>1, <2>2, <2>3, <2>4 DEF HasStep
<1>5. \/ file.status = "absent" /\ s.steps = <<>> /\ ~IsStep(w[a])
      \/ file.status = "active" /\ a = 0 /\ s.steps = file.steps
      \/ /\ file.status = "active" /\ ~file.paused /\ f < a
         /\ \E st \in Step :
              /\ s.steps = Append(file.steps, st)
              /\ w[a] = ToAudit([event |-> "step_recorded", step |-> st])
  BY DEF Call
<1>. QED
  BY <1>2, <1>3, <1>4, <1>5

LEMMA CallKeepsCalls ==
  ASSUME LoopInv, EndsInv, CallsInv, NEW c \in Caller,
         NEW w, NEW s, NEW f, NEW a, NEW e, Call(c, w, s, f, a, e)
  PROVE  CallsInv'
<1>1. /\ todo'[c] = w /\ \A d \in Caller : d # c => todo'[d] = todo[d]
      /\ UNCHANGED <<file, audit>> /\ faults \subseteq faults'
      /\ DOMAIN w = 1..Len(w) /\ Len(w) \in Nat \ {0}
      /\ "overlap" \notin faults' => \A d \in Caller : todo[d] = <<>>
  BY CallEffect
<1>2. /\ w[f] = ToFile(s) /\ f \in 1..Len(w)
      /\ \A k \in 1..Len(w) : /\ IsFile(w[k]) <=> k = f
                              /\ IsAudit(w[k]) <=> k = a
  BY DEF Call
<1>3. w[f].what = s
  BY <1>2 DEF ToFile
<1>4. /\ Continues(file, s)
      /\ a # 0 /\ IsStep(w[a]) => f < a /\ HasStep(s, w[a].what.step)
  BY CallContinues
<1>5. Continues(file', s)
  BY <1>1, <1>4 DEF Continues
<1>6. AuditNeverInvents'
  BY <1>1 DEF CallsInv, AuditNeverInvents
<1>7. ASSUME "overlap" \notin faults' PROVE
        /\ \A d1, d2 \in Caller : todo'[d1] # <<>> /\ todo'[d2] # <<>> => d1 = d2
        /\ \A d \in Caller : \A k \in DOMAIN todo'[d] :
             /\ IsFile(todo'[d][k]) => Continues(file', todo'[d][k].what)
             /\ IsStep(todo'[d][k]) =>
                  \/ HasStep(file', todo'[d][k].what.step)
                  \/ \E j \in DOMAIN todo'[d] :
                       /\ j < k /\ IsFile(todo'[d][j])
                       /\ HasStep(todo'[d][j].what, todo'[d][k].what.step)
  <2>1. \A d \in Caller : d # c => todo'[d] = <<>> /\ DOMAIN todo'[d] = {}
    BY <1>1, <1>7
  <2>2. ASSUME NEW k \in DOMAIN w, IsFile(w[k]) PROVE w[k].what = s
    BY <1>1, <1>2, <1>3, <2>2
  <2>3. ASSUME NEW k \in DOMAIN w, IsStep(w[k])
        PROVE  \E j \in DOMAIN w : /\ j < k /\ IsFile(w[j])
                                   /\ HasStep(w[j].what, w[k].what.step)
    <3>1. k = a /\ a # 0
      BY <1>1, <1>2, <2>3 DEF IsStep
    <3>. QED
      BY <1>1, <1>2, <1>3, <1>4, <2>3, <3>1
  <2>4. \A k \in DOMAIN w : IsFile(w[k]) => Continues(file', w[k].what)
    BY <1>5, <2>2
  <2>5. ASSUME NEW d \in Caller, NEW k \in DOMAIN todo'[d]
        PROVE  /\ IsFile(todo'[d][k]) => Continues(file', todo'[d][k].what)
               /\ IsStep(todo'[d][k]) =>
                    \E j \in DOMAIN todo'[d] :
                      /\ j < k /\ IsFile(todo'[d][j])
                      /\ HasStep(todo'[d][j].what, todo'[d][k].what.step)
    <3>1. d = c
      BY <2>1
    <3>2. todo'[d] = w
      BY <1>1, <3>1
    <3>. QED
      BY <2>3, <2>4, <3>2
  <2>6. \A d1, d2 \in Caller : todo'[d1] # <<>> /\ todo'[d2] # <<>> => d1 = d2
    BY <2>1
  <2>. QED
    BY <2>5, <2>6
<1>8. SerialCalls'
  BY <1>7 DEF SerialCalls
<1>. QED
  BY <1>6, <1>8 DEF CallsInv

LEMMA PerformKeepsCalls ==
  ASSUME LoopInv, EndsInv, CallsInv, NEW c \in Caller, Perform(c)
  PROVE  CallsInv'
<1> DEFINE w == todo[c]
           n == Len(todo[c])
<1>1. /\ n \in Nat \ {0} /\ DOMAIN w = 1..n /\ w # <<>>
      /\ DOMAIN todo'[c] = 1..(n - 1)
      /\ \A k \in 1..(n - 1) : k + 1 \in 1..n /\ todo'[c][k] = w[k + 1]
      /\ \A d \in Caller : d # c => todo'[d] = todo[d]
      /\ file' = IF IsFile(w[1]) THEN w[1].what ELSE file
      /\ audit' = IF IsAudit(w[1]) THEN Append(audit, w[1].what) ELSE audit
      /\ w[1] \in GoodWrite
      /\ faults' = faults
  BY PerformEffect
<1>2. 1 \in DOMAIN w /\ w = todo[c]
  BY <1>1
<1> HIDE DEF w, n
<1> SUFFICES ASSUME "overlap" \notin faults
             PROVE  CallsInv'
  BY <1>1 DEF CallsInv, SerialCalls, AuditNeverInvents
<1>3. /\ \A d \in Caller : todo[d] # <<>> => d = c
      /\ \A k \in DOMAIN w :
           /\ IsFile(w[k]) => Continues(file, w[k].what)
           /\ IsStep(w[k]) =>
                \/ HasStep(file, w[k].what.step)
                \/ \E j \in DOMAIN w :
                     j < k /\ IsFile(w[j]) /\ HasStep(w[j].what, w[k].what.step)
  BY <1>1, <1>2 DEF CallsInv, SerialCalls
<1>4. ASSUME NEW step, HasStep(file, step) PROVE HasStep(file', step)
  <2>1. CASE IsFile(w[1])
    <3>1. Continues(file, w[1].what) /\ file' = w[1].what
      BY <1>1, <1>2, <1>3, <2>1
    <3>2. Len(file.steps) \in Nat /\ Len(file'.steps) \in Nat
      BY PerformKeeps, LenProperties DEF LoopInv, TypeOK, State
    <3>. QED
      BY <1>4, <3>1, <3>2 DEF HasStep, Continues
  <2>2. CASE ~IsFile(w[1])
    BY <1>1, <1>4, <2>2
  <2>. QED
    BY <2>1, <2>2
<1>5. \A k \in 1..(n - 1) : IsFile(w[k + 1]) => ~IsFile(w[1])
  <2> SUFFICES ASSUME NEW k \in 1..(n - 1), IsFile(w[k + 1]), IsFile(w[1])
               PROVE  FALSE
    OBVIOUS
  <2>1. k + 1 \in DOMAIN w /\ k + 1 # 1
    BY <1>1
  <2>. QED
    BY <1>2, <2>1 DEF EndsInv, WritesOnce
<1>6. AuditNeverInvents'
  <2>1. audit \in Seq(AuditEvent) /\ Len(audit) \in Nat
    BY LenProperties DEF LoopInv, TypeOK
  <2>2. \A k \in 1..Len(audit) :
          audit[k].event = "step_recorded" => HasStep(file', audit[k].step)
    BY <1>4 DEF CallsInv, AuditNeverInvents, HasStep
  <2>3. CASE ~IsAudit(w[1])
    BY <1>1, <2>2, <2>3 DEF AuditNeverInvents, HasStep
  <2>4. CASE IsAudit(w[1])
    <3>1. w[1].what \in AuditEvent
      BY <1>1, <2>4 DEF GoodWrite, Write, IsAudit
    <3>2. /\ Len(audit') = Len(audit) + 1
          /\ \A k \in 1..Len(audit) : audit'[k] = audit[k]
          /\ audit'[Len(audit) + 1] = w[1].what
      BY <1>1, <2>1, <2>4, <3>1, AppendProperties
    <3>3. ASSUME w[1].what.event = "step_recorded"
          PROVE  HasStep(file', w[1].what.step)
      <4>1. IsStep(w[1])
        BY <2>4, <3>3 DEF IsStep
      <4>2. HasStep(file, w[1].what.step)
        BY <1>1, <1>2, <1>3, <4>1
      <4>. QED
        BY <1>4, <4>2
    <3>4. \A k \in 1..Len(audit') :
            audit'[k].event = "step_recorded" => HasStep(file', audit'[k].step)
      BY <2>1, <2>2, <3>2, <3>3
    <3>. QED
      BY <3>4 DEF AuditNeverInvents, HasStep
  <2>. QED
    BY <2>3, <2>4
<1>7. \A d1, d2 \in Caller : todo'[d1] # <<>> /\ todo'[d2] # <<>> => d1 = d2
  BY <1>1, <1>3
<1>8. ASSUME NEW d \in Caller, NEW k \in DOMAIN todo'[d]
      PROVE  /\ IsFile(todo'[d][k]) => Continues(file', todo'[d][k].what)
             /\ IsStep(todo'[d][k]) =>
                  \/ HasStep(file', todo'[d][k].what.step)
                  \/ \E j \in DOMAIN todo'[d] :
                       /\ j < k /\ IsFile(todo'[d][j])
                       /\ HasStep(todo'[d][j].what, todo'[d][k].what.step)
  <2>0. d # c => todo'[d] = <<>> /\ DOMAIN <<>> = {}
    BY <1>1, <1>3
  <2>1. d = c
    BY <2>0
  <2>2. /\ k \in 1..(n - 1) /\ k + 1 \in DOMAIN w
        /\ todo'[d][k] = w[k + 1]
    BY <1>1, <2>1
  <2>3. ASSUME IsFile(w[k + 1]) PROVE Continues(file', w[k + 1].what)
    <3>1. Continues(file, w[k + 1].what) /\ file' = file
      BY <1>1, <1>3, <1>5, <2>2, <2>3
    <3>. QED
      BY <3>1
  <2>4. ASSUME IsStep(w[k + 1])
        PROVE  \/ HasStep(file', w[k + 1].what.step)
               \/ \E j \in 1..(n - 1) :
                    /\ j < k /\ IsFile(w[j + 1])
                    /\ HasStep(w[j + 1].what, w[k + 1].what.step)
    <3>1. CASE HasStep(file, w[k + 1].what.step)
      BY <1>4, <3>1
    <3>2. ASSUME NEW j \in DOMAIN w, j < k + 1, IsFile(w[j]),
                 HasStep(w[j].what, w[k + 1].what.step)
          PROVE  \/ HasStep(file', w[k + 1].what.step)
                 \/ \E i \in 1..(n - 1) :
                      /\ i < k /\ IsFile(w[i + 1])
                      /\ HasStep(w[i + 1].what, w[k + 1].what.step)
      <4>1. CASE j = 1
        BY <1>1, <3>2, <4>1
      <4>2. CASE j # 1
        <5>1. j - 1 \in 1..(n - 1) /\ (j - 1) + 1 = j /\ j - 1 < k
          BY <1>1, <2>2, <3>2, <4>2
        <5>. QED
          BY <3>2, <5>1
      <4>. QED
        BY <4>1, <4>2
    <3>. QED
      BY <1>3, <2>2, <2>4, <3>1, <3>2
  <2>5. IsFile(todo'[d][k]) => Continues(file', todo'[d][k].what)
    BY <2>2, <2>3
  <2>6. IsStep(todo'[d][k]) =>
          \/ HasStep(file', todo'[d][k].what.step)
          \/ \E j \in DOMAIN todo'[d] :
               /\ j < k /\ IsFile(todo'[d][j])
               /\ HasStep(todo'[d][j].what, todo'[d][k].what.step)
    BY <1>1, <2>1, <2>2, <2>4
  <2>. QED
    BY <2>5, <2>6
<1>9. SerialCalls'
  BY <1>7, <1>8 DEF SerialCalls
<1>. QED
  BY <1>6, <1>9 DEF CallsInv

LEMMA NextCallsInv == LoopInv /\ EndsInv /\ CallsInv /\ [Next]_vars => CallsInv'
<1> SUFFICES ASSUME LoopInv, EndsInv, CallsInv, [Next]_vars PROVE CallsInv'
  OBVIOUS
<1>1. CASE UNCHANGED vars
  BY <1>1 DEF vars, CallsInv, SerialCalls, AuditNeverInvents
<1>2. ASSUME NEW c \in Caller, Start(c) \/ Record(c) \/ Pause(c) \/ Resume(c)
      PROVE  CallsInv'
  BY <1>2, EveryCall, CallKeepsCalls
<1>3. ASSUME NEW c \in Caller, Crash(c) PROVE CallsInv'
  <2>1. /\ UNCHANGED <<file, audit>> /\ todo'[c] = <<>> /\ DOMAIN todo'[c] = {}
        /\ \A d \in Caller : d # c => todo'[d] = todo[d]
        /\ faults \subseteq faults'
    BY <1>3 DEF LoopInv, TypeOK, Crash, logs
  <2>2. AuditNeverInvents'
    BY <2>1 DEF CallsInv, AuditNeverInvents
  <2>3. SerialCalls'
    BY <2>1 DEF CallsInv, SerialCalls
  <2>. QED
    BY <2>2, <2>3 DEF CallsInv
<1>. QED
  BY <1>1, <1>2, <1>3, PerformKeepsCalls DEF Next

LEMMA CallsInvariant == Spec => []CallsInv
BY InitCallsInv, NextCallsInv, LoopInvariant, EndsInvariant, PTL DEF Spec

\* What the session audit says was recorded was recorded, if calls do not
\* overlap, even if they are killed: record_step replaces the state first.
THEOREM AuditIsHonest == Spec => []AuditNeverInvents
<1>1. CallsInv => AuditNeverInvents
  BY DEF CallsInv
<1>. QED
  BY <1>1, CallsInvariant, PTL

\* A session that has ended stays as it is, and a paused one records no step,
\* as long as calls do not overlap: every call is decided on the state that it
\* is going to replace.
THEOREM EndingsAreFinal == Spec => EndingIsFinal
<1>1. ASSUME LoopInv, EndsInv, CallsInv, [Next]_vars
      PROVE  [("overlap" \notin faults') =>
                /\ file.status \in Ending => file' = file
                /\ file.paused => file'.steps = file.steps]_vars
  <2>1. CASE UNCHANGED vars
    BY <2>1
  <2>2. ASSUME NEW c \in Caller, Start(c) \/ Record(c) \/ Pause(c) \/ Resume(c)
        PROVE  file' = file
    BY <1>1, <2>2, EveryCall, CallEffect
  <2>3. ASSUME NEW c \in Caller, Crash(c) PROVE file' = file
    BY <2>3 DEF Crash
  <2>4. ASSUME NEW c \in Caller, Perform(c), "overlap" \notin faults'
        PROVE  /\ file.status \in Ending => file' = file
               /\ file.paused => file'.steps = file.steps
    <3>1. /\ file' = IF IsFile(todo[c][1]) THEN todo[c][1].what ELSE file
          /\ 1 \in DOMAIN todo[c] /\ "overlap" \notin faults
      BY <1>1, <2>4, PerformEffect
    <3>2. IsFile(todo[c][1]) => Continues(file, todo[c][1].what)
      BY <1>1, <3>1 DEF CallsInv, SerialCalls
    <3>. QED
      BY <3>1, <3>2 DEF Continues
  <2>. QED
    BY <1>1, <2>1, <2>2, <2>3, <2>4 DEF Next
<1>. QED
  BY <1>1, LoopInvariant, EndsInvariant, CallsInvariant, PTL
     DEF Spec, EndingIsFinal

-----------------------------------------------------------------------------
\* Calls that do not overlap and are not killed: the logs and what is left to
\* write tell the story of the state that the call under way leaves.

LEMMA InitStory == Init => StoryHolds
<1> SUFFICES ASSUME Init PROVE StoryHolds
  OBVIOUS
<1>1. file.status = "absent" /\ audit = <<>> /\ \A c \in Caller : todo[c] = <<>>
  BY DEF Init, NoSession
<1>2. Ended = {}
  BY DEF Init, Ended
<1>. QED
  BY <1>1, <1>2 DEF StoryHolds

\* A call leaves what it writes.
LEMMA LeavesItsFile ==
  ASSUME NEW old, NEW w, NEW f \in DOMAIN w,
         \A k \in DOMAIN w : IsFile(w[k]) <=> k = f
  PROVE  Leaves(old, w) = w[f].what
<1>1. {k \in DOMAIN w : IsFile(w[k])} = {f}
  OBVIOUS
<1>2. (CHOOSE k \in {f} : TRUE) = f
  OBVIOUS
<1>. QED
  BY <1>1, <1>2 DEF Leaves

LEMMA LeavesTheRest ==
  ASSUME NEW old, NEW w, \A k \in DOMAIN w : ~IsFile(w[k])
  PROVE  Leaves(old, w) = old
<1>1. {k \in DOMAIN w : IsFile(w[k])} = {}
  OBVIOUS
<1>. QED
  BY <1>1 DEF Leaves

LEMMA CallKeepsStory ==
  ASSUME LoopInv, EndsInv, StoryHolds, NEW c \in Caller,
         NEW w, NEW s, NEW f, NEW a, NEW e, Call(c, w, s, f, a, e)
  PROVE  StoryHolds'
<1>1. /\ todo'[c] = w /\ w # <<>> /\ todo[c] = <<>>
      /\ \A d \in Caller : d # c => todo'[d] = todo[d]
      /\ UNCHANGED <<file, audit, phases>> /\ faults \subseteq faults'
      /\ DOMAIN w = 1..Len(w) /\ Len(w) \in Nat \ {0}
      /\ "overlap" \notin faults' => \A d \in Caller : todo[d] = <<>>
  BY CallEffect
<1>2. /\ w[f] = ToFile(s) /\ f \in 1..Len(w) /\ s.status # "absent" /\ s \in State
      /\ a \in 0..Len(w) /\ e \in 0..Len(w)
      /\ \A k \in 1..Len(w) : /\ IsFile(w[k]) <=> k = f
                              /\ IsAudit(w[k]) <=> k = a
                              /\ IsEnd(w[k]) <=> k = e
  BY DEF Call
<1> SUFFICES ASSUME faults' = {} PROVE StoryHolds'
  BY DEF StoryHolds
<1>3. /\ faults = {} /\ Idle
      /\ IF file.status = "absent" THEN audit = <<>> /\ Ended = {}
         ELSE Tells(audit, Len(audit), Cardinality(Ended), file)
  BY <1>1 DEF StoryHolds, Idle
<1>4. ~Idle' /\ \A d \in Caller : todo'[d] # <<>> => d = c
  BY <1>1, <1>3 DEF Idle
<1>5. Cardinality(Ended) \in Nat /\ Ended' = Ended
  BY <1>1, EndedCounts DEF LoopInv, Ended
<1>6. /\ file.steps \in Seq(Step) /\ Len(file.steps) \in Nat
      /\ audit \in Seq(AuditEvent) /\ Len(audit) \in Nat
  BY LenProperties DEF LoopInv, TypeOK, State
<1>7. Leaves(file, w) = s
  <2>1. w[f].what = s
    BY <1>2 DEF ToFile
  <2>. QED
    BY <1>1, <1>2, <2>1, LeavesItsFile
<1>8. /\ AuditsLeft(w) = IF a = 0 THEN 0 ELSE 1
      /\ EndsLeft(w) = IF e = 0 THEN 0 ELSE 1
  BY <1>1, <1>2 DEF AuditsLeft, EndsLeft
<1>9. /\ Tells(audit, Len(audit) + AuditsLeft(w), Cardinality(Ended) + EndsLeft(w), s)
      /\ a # 0 /\ s.steps # <<>> =>
           /\ IsStep(w[a])
           /\ w[a].what.step = s.steps[Len(s.steps)]
  <2>1. CASE file.status = "absent" /\ a # 0 /\ e = 0 /\ s.steps = <<>>
    <3>1. Len(audit) = 0 /\ Cardinality(Ended) = 0 /\ Len(s.steps) = 0
      BY <1>3, <2>1, FS_EmptySet
    <3>. QED
      BY <1>8, <2>1, <3>1 DEF Tells
  <2>2. CASE file.status = "active" /\ a = 0 /\ e = 0 /\ s.steps = file.steps
    BY <1>3, <1>5, <1>6, <1>8, <2>2 DEF Tells
  <2>3. ASSUME file.status = "active", e # 0, f < a, NEW st \in Step,
               s.steps = Append(file.steps, st),
               w[a] = ToAudit([event |-> "step_recorded", step |-> st])
        PROVE  /\ Tells(audit, Len(audit) + AuditsLeft(w),
                        Cardinality(Ended) + EndsLeft(w), s)
               /\ IsStep(w[a])
               /\ w[a].what.step = s.steps[Len(s.steps)]
    <3>1. /\ Len(s.steps) = Len(file.steps) + 1
          /\ \A i \in 1..Len(file.steps) : s.steps[i] = file.steps[i]
          /\ s.steps[Len(file.steps) + 1] = st
      BY <1>6, <2>3, AppendProperties
    <3>2. a # 0
      BY <1>1, <1>2, <2>3
    <3>3. IsStep(w[a]) /\ w[a].what.step = st
      BY <2>3 DEF IsStep, IsAudit, ToAudit
    <3>4. Tells(audit, Len(audit), Cardinality(Ended), file)
      BY <1>3, <2>3
    <3>5. Tells(audit, Len(audit) + 1, Cardinality(Ended) + 1, s)
      <4>1. /\ Len(audit) = Len(file.steps) + 1
            /\ \A i \in 1..Len(file.steps) :
                 i + 1 <= Len(audit) => audit[i + 1].step = file.steps[i]
            /\ Cardinality(Ended) = Len(file.steps)
        BY <3>4 DEF Tells
      <4>2. ASSUME NEW i \in 1..Len(s.steps), i + 1 <= Len(audit)
            PROVE  audit[i + 1].step = s.steps[i]
        <5>1. i \in 1..Len(file.steps)
          BY <1>6, <3>1, <4>1, <4>2
        <5>. QED
          BY <3>1, <4>1, <4>2, <5>1
      <4>. QED
        BY <1>6, <3>1, <4>1, <4>2 DEF Tells
    <3>. QED
      BY <1>8, <2>3, <3>1, <3>2, <3>3, <3>5
  <2>. QED
    BY <2>1, <2>2, <2>3 DEF Call
<1>10. WillTell(audit, Cardinality(Ended), file, w)
  BY <1>1, <1>2, <1>7, <1>9 DEF WillTell
<1>. QED
  BY <1>1, <1>4, <1>5, <1>10 DEF StoryHolds

LEMMA LeavesTyped ==
  ASSUME LoopInv, NEW c \in Caller
  PROVE  /\ Leaves(file, todo[c]) \in State
         /\ Len(Leaves(file, todo[c]).steps) \in Nat
<1> DEFINE files == {k \in DOMAIN todo[c] : IsFile(todo[c][k])}
<1>1. file \in State
  BY DEF LoopInv, TypeOK
<1>2. ASSUME NEW k \in files PROVE todo[c][k].what \in State
  <2>1. todo[c] \in Seq(GoodWrite)
    BY DEF LoopInv
  <2>2. todo[c][k] \in GoodWrite
    BY <2>1, ElementOfSeq, LenProperties
  <2>. QED
    BY <2>2 DEF GoodWrite, IsFile
<1>3. files # {} => (CHOOSE k \in files : TRUE) \in files
  OBVIOUS
<1>4. Leaves(file, todo[c]) =
        IF files = {} THEN file ELSE todo[c][CHOOSE k \in files : TRUE].what
  BY DEF Leaves
<1> HIDE DEF files
<1>5. Leaves(file, todo[c]) \in State
  BY <1>1, <1>2, <1>3, <1>4
<1>6. Leaves(file, todo[c]).steps \in Seq(Step)
  BY <1>5 DEF State
<1>. QED
  BY <1>5, <1>6, LenProperties

LEMMA PerformKeepsStory ==
  ASSUME LoopInv, EndsInv, CallsInv, StoryHolds, NEW c \in Caller, Perform(c)
  PROVE  StoryHolds'
<1> DEFINE w == todo[c]
           v == todo'[c]
           n == Len(todo[c])
           left == Leaves(file, todo[c])
<1>1. /\ n \in Nat \ {0} /\ DOMAIN w = 1..n /\ w # <<>>
      /\ DOMAIN v = 1..(n - 1)
      /\ \A k \in 1..(n - 1) : k + 1 \in 1..n /\ v[k] = w[k + 1]
      /\ v = <<>> <=> n = 1
      /\ \A d \in Caller : d # c => todo'[d] = todo[d]
      /\ file' = IF IsFile(w[1]) THEN w[1].what ELSE file
      /\ audit' = IF IsAudit(w[1]) THEN Append(audit, w[1].what) ELSE audit
      /\ w[1] \in GoodWrite
      /\ faults' = faults
  BY PerformEffect
<1>2. /\ Cardinality(Ended) \in Nat
      /\ Cardinality(Ended)' = Cardinality(Ended) + (IF IsEnd(w[1]) THEN 1 ELSE 0)
  BY EndedGrows, EndedCounts DEF LoopInv
<1>3. \A j, k \in DOMAIN w :
        \/ IsFile(w[j]) /\ IsFile(w[k])
        \/ IsAudit(w[j]) /\ IsAudit(w[k])
        \/ IsEnd(w[j]) /\ IsEnd(w[k])
        => j = k
  BY DEF EndsInv, WritesOnce
<1> SUFFICES ASSUME faults = {} PROVE StoryHolds'
  BY <1>1 DEF StoryHolds
<1>4. /\ \A d \in Caller : d # c => todo'[d] = <<>>
      /\ WillTell(audit, Cardinality(Ended), file, w)
  BY <1>1 DEF CallsInv, SerialCalls, StoryHolds
<1>5. Idle' <=> v = <<>>
  BY <1>4 DEF Idle
<1>6. left = Leaves(file, w) /\ v = todo'[c] /\ Len(left.steps) \in Nat
  BY LeavesTyped
<1> HIDE DEF w, v, n, left
<1>7. Leaves(file', v) = left
  <2>1. CASE IsFile(w[1])
    <3>1. \A k \in DOMAIN w : IsFile(w[k]) <=> k = 1
      BY <1>1, <1>3, <2>1
    <3>2. left = w[1].what
      <4>1. 1 \in DOMAIN w
        BY <1>1
      <4>. QED
        BY <1>6, <3>1, <4>1, LeavesItsFile
    <3>3. \A k \in DOMAIN v : ~IsFile(v[k])
      BY <1>1, <3>1
    <3>. QED
      BY <1>1, <2>1, <3>2, <3>3, LeavesTheRest
  <2>2. ASSUME NEW f \in DOMAIN w, IsFile(w[f]), f # 1
        PROVE  Leaves(file', v) = left
    <3>1. \A k \in DOMAIN w : IsFile(w[k]) <=> k = f
      BY <1>3, <2>2
    <3>2. left = w[f].what
      BY <1>6, <3>1, LeavesItsFile
    <3>3. f - 1 \in DOMAIN v /\ v[f - 1] = w[f]
      BY <1>1, <2>2
    <3>4. ASSUME NEW k \in DOMAIN v PROVE IsFile(v[k]) <=> k = f - 1
      <4>1. k + 1 \in DOMAIN w /\ v[k] = w[k + 1]
        BY <1>1
      <4>2. IsFile(w[k + 1]) <=> k + 1 = f
        BY <3>1, <4>1
      <4>. QED
        BY <1>1, <4>1, <4>2
    <3>5. Leaves(file', v) = v[f - 1].what
      BY <3>3, <3>4, LeavesItsFile
    <3>. QED
      BY <3>2, <3>3, <3>5
  <2>3. CASE \A k \in DOMAIN w : ~IsFile(w[k])
    <3>1. left = file /\ file' = file
      BY <1>1, <1>6, <2>3, LeavesTheRest
    <3>2. \A k \in DOMAIN v : ~IsFile(v[k])
      BY <1>1, <2>3
    <3>. QED
      BY <3>1, <3>2, LeavesTheRest
  <2>. QED
    BY <2>1, <2>2, <2>3
<1>8. /\ AuditsLeft(w) = AuditsLeft(v) + (IF IsAudit(w[1]) THEN 1 ELSE 0)
      /\ EndsLeft(w) = EndsLeft(v) + (IF IsEnd(w[1]) THEN 1 ELSE 0)
      /\ AuditsLeft(v) \in {0, 1} /\ EndsLeft(v) \in {0, 1}
  <2>1. ASSUME NEW k \in DOMAIN w, k # 1 PROVE k - 1 \in DOMAIN v /\ v[k - 1] = w[k]
    BY <1>1, <2>1
  <2>2. 1 \in DOMAIN w
    BY <1>1
  <2>3. AuditsLeft(w) = AuditsLeft(v) + (IF IsAudit(w[1]) THEN 1 ELSE 0)
    <3>1. CASE IsAudit(w[1])
      <4>1. \A k \in DOMAIN v : ~IsAudit(v[k])
        BY <1>1, <1>3, <2>2, <3>1
      <4>. QED
        BY <2>2, <3>1, <4>1 DEF AuditsLeft
    <3>2. CASE ~IsAudit(w[1])
      <4>1. (\E k \in DOMAIN w : IsAudit(w[k])) <=> \E k \in DOMAIN v : IsAudit(v[k])
        BY <1>1, <2>1, <3>2
      <4>. QED
        BY <3>2, <4>1 DEF AuditsLeft
    <3>. QED
      BY <3>1, <3>2
  <2>4. EndsLeft(w) = EndsLeft(v) + (IF IsEnd(w[1]) THEN 1 ELSE 0)
    <3>1. CASE IsEnd(w[1])
      <4>1. \A k \in DOMAIN v : ~IsEnd(v[k])
        BY <1>1, <1>3, <2>2, <3>1
      <4>. QED
        BY <2>2, <3>1, <4>1 DEF EndsLeft
    <3>2. CASE ~IsEnd(w[1])
      <4>1. (\E k \in DOMAIN w : IsEnd(w[k])) <=> \E k \in DOMAIN v : IsEnd(v[k])
        BY <1>1, <2>1, <3>2
      <4>. QED
        BY <3>2, <4>1 DEF EndsLeft
    <3>. QED
      BY <3>1, <3>2
  <2>. QED
    BY <2>3, <2>4 DEF AuditsLeft, EndsLeft
<1>9. /\ left.status # "absent"
      /\ Tells(audit, Len(audit) + AuditsLeft(w), Cardinality(Ended) + EndsLeft(w), left)
      /\ \A k \in DOMAIN w : IsAudit(w[k]) /\ left.steps # <<>> =>
           /\ IsStep(w[k])
           /\ w[k].what.step = left.steps[Len(left.steps)]
  BY <1>4, <1>6 DEF WillTell
<1>10. audit \in Seq(AuditEvent) /\ Len(audit) \in Nat
  BY LenProperties DEF LoopInv, TypeOK
<1>11. Cardinality(Ended)' + EndsLeft(v) = Cardinality(Ended) + EndsLeft(w)
  BY <1>2, <1>8
<1>12. Tells(audit', Len(audit') + AuditsLeft(v), Cardinality(Ended)' + EndsLeft(v),
             left)
  <2>1. CASE ~IsAudit(w[1])
    BY <1>1, <1>8, <1>9, <1>10, <1>11, <2>1
  <2>2. CASE IsAudit(w[1])
    <3>1. w[1].what \in AuditEvent
      BY <1>1, <2>2 DEF GoodWrite, Write, IsAudit
    <3>2. /\ Len(audit') = Len(audit) + 1
          /\ \A k \in 1..Len(audit) : audit'[k] = audit[k]
          /\ audit'[Len(audit) + 1] = w[1].what
      BY <1>1, <1>10, <2>2, <3>1, AppendProperties
    <3>3. AuditsLeft(w) = 1 /\ AuditsLeft(v) = 0
      BY <1>8, <2>2 DEF AuditsLeft
    <3>4. Len(audit) = Len(left.steps)
      BY <1>6, <1>9, <1>10, <3>3 DEF Tells
    <3>5. ASSUME NEW i \in 1..Len(left.steps), i + 1 <= Len(audit')
          PROVE  audit'[i + 1].step = left.steps[i]
      <4>1. CASE i + 1 <= Len(audit)
        BY <1>9, <1>10, <3>2, <3>4, <4>1 DEF Tells
      <4>2. CASE i = Len(audit)
        <5>1. left.steps # <<>>
          BY <3>4, <3>5, <4>2, EmptySeq
        <5>2. w[1].what.step = left.steps[Len(left.steps)]
          BY <1>1, <1>9, <2>2, <5>1
        <5>. QED
          BY <3>2, <3>4, <4>2, <5>2
      <4>. QED
        BY <1>10, <3>2, <3>4, <4>1, <4>2
    <3>. QED
      BY <1>9, <1>10, <1>11, <3>2, <3>3, <3>5 DEF Tells
  <2>. QED
    BY <2>1, <2>2
<1>13. WillTell(audit', Cardinality(Ended)', file', v)
  <2>1. ASSUME NEW k \in DOMAIN v, IsAudit(v[k]), left.steps # <<>>
        PROVE  IsStep(v[k]) /\ v[k].what.step = left.steps[Len(left.steps)]
    <3>1. k + 1 \in DOMAIN w /\ v[k] = w[k + 1]
      BY <1>1
    <3>. QED
      BY <1>9, <2>1, <3>1
  <2>. QED
    BY <1>7, <1>9, <1>12, <2>1 DEF WillTell
<1>14. v = <<>> => /\ file'.status # "absent"
                   /\ Tells(audit', Len(audit'), Cardinality(Ended)', file')
  <2> SUFFICES ASSUME v = <<>>
               PROVE  /\ file'.status # "absent"
                      /\ Tells(audit', Len(audit'), Cardinality(Ended)', file')
    OBVIOUS
  <2>1. DOMAIN v = {}
    BY <1>1
  <2>2. AuditsLeft(v) = 0 /\ EndsLeft(v) = 0 /\ left = file'
    BY <1>7, <2>1, LeavesTheRest DEF AuditsLeft, EndsLeft
  <2>3. LoopInv'
    BY PerformKeeps
  <2>4. Cardinality(Ended)' \in Nat /\ Len(audit') \in Nat
    BY <1>2, <2>3, LenProperties DEF LoopInv, TypeOK
  <2>. QED
    BY <1>9, <1>12, <2>2, <2>4
<1>15. \A d \in Caller : todo'[d] # <<>> =>
         WillTell(audit', Cardinality(Ended)', file', todo'[d])
  BY <1>4, <1>6, <1>13
<1>. QED
  BY <1>5, <1>14, <1>15 DEF StoryHolds

LEMMA NextStory ==
  LoopInv /\ EndsInv /\ CallsInv /\ StoryHolds /\ [Next]_vars => StoryHolds'
<1> SUFFICES ASSUME LoopInv, EndsInv, CallsInv, StoryHolds, [Next]_vars
             PROVE  StoryHolds'
  OBVIOUS
<1>1. CASE UNCHANGED vars
  BY <1>1 DEF vars, StoryHolds, Idle, Ended
<1>2. ASSUME NEW c \in Caller, Start(c) \/ Record(c) \/ Pause(c) \/ Resume(c)
      PROVE  StoryHolds'
  BY <1>2, EveryCall, CallKeepsStory
<1>3. ASSUME NEW c \in Caller, Crash(c) PROVE StoryHolds'
  <2>1. faults' # {}
    BY <1>3 DEF Crash
  <2>. QED
    BY <2>1 DEF StoryHolds
<1>. QED
  BY <1>1, <1>2, <1>3, PerformKeepsStory DEF Next

\* Between calls that were neither overlapped nor killed, the session audit has
\* the steps of the state file, in order, and the phase audit an end for each.
THEOREM LogsTellTheStory == Spec => []LogsAgree
<1>1. Spec => []StoryHolds
  BY InitStory, NextStory, LoopInvariant, EndsInvariant, CallsInvariant, PTL DEF Spec
<1>2. LoopInv /\ StoryHolds => LogsAgree
  <2> SUFFICES ASSUME LoopInv, StoryHolds, faults = {}, Idle, file.status # "absent"
               PROVE  /\ Len(audit) = Len(file.steps) + 1
                      /\ \A i \in 1..Len(file.steps) :
                           audit[i+1].step = file.steps[i]
                      /\ Cardinality(Ended) = Len(file.steps)
    BY DEF LogsAgree
  <2>1. /\ Len(audit) = Len(file.steps) + 1
        /\ \A i \in 1..Len(file.steps) :
             i + 1 <= Len(audit) => audit[i+1].step = file.steps[i]
        /\ Cardinality(Ended) = Len(file.steps)
    BY DEF StoryHolds, Tells
  <2>2. Len(file.steps) \in Nat
    BY LenProperties DEF LoopInv, TypeOK, State
  <2>. QED
    BY <2>1, <2>2
<1>. QED
  BY <1>1, <1>2, LoopInvariant, PTL

=============================================================================
