------------------------------ MODULE WavePlan ------------------------------
(***************************************************************************)
(* cc-wave-plan: derive the Waves of a change from the tasks that its      *)
(* tasks.md declares, keep them in wave-plan.json, and check later that    *)
(* the file still fits.  Agents edit tasks.md in between; wave_execution   *)
(* dispatches the tasks of a Wave side by side.                            *)
(*                                                                         *)
(* Tasks are numbers, in the order of their ids.  Duplicate ids and        *)
(* metadata that cannot be read are one thing here, an unreadable          *)
(* declaration: each is refused before anything is planned (E_WAVE006).    *)
(* What a task writes is what it names.  The planner compares the names as *)
(* they are written and looks for no file that two of them share: src/ and *)
(* src/a.py, or a.py and ./a.py, are apart for it.                         *)
(***************************************************************************)
EXTENDS Integers, SequencesExt

CONSTANTS
  Task,           \* the declared tasks, a set of numbers
  Unknown,        \* ids that a dependency may name and no task has
  FileEntry,      \* what a task may name as its files, each as it is written:
                  \* a file, a directory, a glob, a path with ./ in front
  Declarations,   \* what tasks.md may say: [Task -> [deps, files, safe]]
  MaxParallel,    \* the values of --max-parallel
  MaxPlanEdits    \* bound: edits of tasks.md

PlanAssumption ==
  /\ Task \subseteq Nat /\ IsFiniteSet(Task) /\ Task \cap Unknown = {}
  /\ Declarations \subseteq
       [Task -> [deps : SUBSET (Task \cup Unknown), files : SUBSET FileEntry, safe : BOOLEAN]]
  /\ MaxParallel \subseteq Int

ASSUME PlanParameters == PlanAssumption

VARIABLES
  declared, readable, \* tasks.md
  stored,             \* wave-plan.json: absent, torn, or a plan
  checked,            \* what the last check said: [passed, max]
  planEdits

planVars == <<declared, readable, stored, checked, planEdits>>

Invalid == [what |-> "plan", valid |-> FALSE, waves |-> <<>>]
Absent == [what |-> "absent", valid |-> FALSE, waves |-> <<>>]
Torn == [what |-> "torn", valid |-> FALSE, waves |-> <<>>]
Unchecked == [passed |-> FALSE, max |-> 0]

PlanInit ==
  /\ declared \in Declarations /\ readable = TRUE
  /\ stored = Absent /\ checked = Unchecked /\ planEdits = 0

-----------------------------------------------------------------------------
\* plan_waves

\* _layered_kahn: a task leaves with the first layer that has seen all its
\* dependencies leave.  Left(d)[n]: the tasks of the first n layers.
Freed(d, gone) == gone \cup {t \in Task : d[t].deps \subseteq gone}
Left(d) == LET left[n \in Nat] == IF n = 0 THEN {} ELSE Freed(d, left[n-1])
           IN left
Scheduled(d) == Left(d)[Cardinality(Task)]
Layers(d) == LET left == Left(d)
             IN [n \in 1..Cardinality(Task) |-> left[n] \ left[n-1]]

\* _detect_cycle ends in the same answer as an unscheduled task does: an
\* invalid plan.  What is told apart by its error code is not told apart here.

\* _detect_layer_overlap: two parallel-safe tasks of one layer name the same.
Overlap(d) ==
  \E layer \in ToSet(Layers(d)) : \E t \in layer, u \in layer :
    t # u /\ d[t].safe /\ d[u].safe /\ d[t].files \cap d[u].files # {}

\* _make_wave
Wave(d, tasks) == [tasks |-> tasks, writes |-> [i \in DOMAIN tasks |-> d[tasks[i]].files],
                   allSafe |-> \A i \in DOMAIN tasks : d[tasks[i]].safe]

InOrder(tasks) == CHOOSE s \in [1..Cardinality(tasks) -> tasks] :
                    \A i, j \in DOMAIN s : i < j => s[i] < s[j]
Smaller(a, b) == IF a < b THEN a ELSE b

\* _split_layer_into_waves: a Wave for each task that is not parallel-safe,
\* then the others in chunks of max.
SplitLayer(d, layer, max) ==
  LET group == InOrder({t \in layer : d[t].safe})
      solo == InOrder({t \in layer : ~d[t].safe})
  IN [i \in DOMAIN solo |-> Wave(d, <<solo[i]>>)]
     \o [i \in 1..((Len(group) + max - 1) \div max) |->
           Wave(d, SubSeq(group, (i-1) * max + 1, Smaller(i * max, Len(group))))]

PlanWaves(d, max) ==
  IF max < 1 \/ Scheduled(d) # Task \/ Overlap(d) THEN Invalid
  ELSE [what |-> "plan", valid |-> TRUE,
        waves |-> LET layers == Layers(d) IN
                  FlattenSeq([n \in DOMAIN layers |-> SplitLayer(d, layers[n], max)])]

\* generate
Generate(max) == IF readable THEN PlanWaves(declared, max) ELSE Invalid

-----------------------------------------------------------------------------
\* cc-wave-plan, and with --check

WritePlan ==
  /\ \E max \in MaxParallel : stored' = Generate(max)
  /\ stored' # stored /\ checked' = Unchecked
  /\ UNCHANGED <<declared, readable, planEdits>>

\* write_text is killed between its truncation and its end.
TearPlan ==
  /\ stored.what = "plan" /\ stored' = Torn /\ checked' = Unchecked
  /\ UNCHANGED <<declared, readable, planEdits>>

StaleSlip(plan) == stored.what = "plan" /\ Len(stored.waves) # Len(plan.waves)
Stale(plan) ==
  stored.what = "plan" /\ (stored.valid # plan.valid \/ stored.waves # plan.waves)

\* check_consistency.  A plan that is absent is no issue; one that is torn
\* ends the program.
CheckPlan ==
  /\ \E max \in MaxParallel :
       LET plan == Generate(max)
       IN checked' = [passed |-> plan.valid /\ stored.what # "torn" /\ ~Stale(plan),
                      max |-> max]
  /\ checked' # checked
  /\ UNCHANGED <<declared, readable, stored, planEdits>>

\* An agent changes what tasks.md says of one task.
EditTasks ==
  /\ planEdits < MaxPlanEdits
  /\ \E d \in Declarations, t \in Task :
       d # declared /\ d = [declared EXCEPT ![t] = d[t]] /\ declared' = d
  /\ readable' \in BOOLEAN
  /\ planEdits' = planEdits + 1 /\ checked' = Unchecked
  /\ UNCHANGED stored

PlanNext == WritePlan \/ TearPlan \/ CheckPlan \/ EditTasks

PlanSpec == PlanInit /\ [][PlanNext]_planVars

-----------------------------------------------------------------------------
\* Properties

TasksOf(w) == ToSet(w.tasks)

\* What execute_wave may be given: every task is in one Wave, after all it
\* depends on; no more than max of them in a Wave, and tasks that share a Wave
\* are parallel-safe and name nothing in common, as it is written.
Legal(waves, d, max) ==
  /\ \A t \in Task : \E i \in DOMAIN waves :
       /\ t \in TasksOf(waves[i])
       /\ \A k \in DOMAIN waves \ {i} : t \notin TasksOf(waves[k])
       /\ \A u \in d[t].deps : \E k \in 1..(i-1) : u \in TasksOf(waves[k])
  /\ \A i \in DOMAIN waves :
       /\ 1 <= Len(waves[i].tasks) /\ Len(waves[i].tasks) <= max
       /\ TasksOf(waves[i]) \subseteq Task
       /\ \A t \in TasksOf(waves[i]), u \in TasksOf(waves[i]) :
            t # u => /\ d[t].files \cap d[u].files = {}
                     /\ d[t].safe /\ d[u].safe

Waits(d) == \E S \in SUBSET Task :
              S # {} /\ \A t \in S : d[t].deps \cap (S \cup Unknown) # {}

\* plan_waves against its definition, for every declaration: a plan is given
\* exactly if no set of tasks waits for itself or for what is not declared and
\* no layer has an overlap, and it is a legal one.
PlanIsLegal ==
  \A max \in MaxParallel :
    LET plan == PlanWaves(declared, max) IN
      /\ plan.valid <=> max >= 1 /\ ~Waits(declared) /\ ~Overlap(declared)
      /\ plan.valid => Legal(plan.waves, declared, max)

\* A plan that is there and passes the check may be executed as tasks.md says
\* now, however often either was edited or written since.
CheckedPlanIsLegal ==
  checked.passed /\ stored.what = "plan" =>
    readable /\ stored.valid /\ Legal(stored.waves, declared, checked.max)

\* Whoever executes a plan, one that he has just been given or one that he
\* finds and has checked, executes what tasks.md declares: no task before those
\* it waits for, none forgotten, and no two at once that name the same file,
\* directory or glob in the same words.
ExecutedPlansAreLegal == PlanIsLegal /\ CheckedPlanIsLegal
=============================================================================
