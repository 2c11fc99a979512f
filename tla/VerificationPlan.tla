-------------------------- MODULE VerificationPlan --------------------------
(***************************************************************************)
(* One run of cc-verify: what it is asked, what git and the project say,   *)
(* the steps it plans from that, what becomes of each, and its verdict.    *)
(* Reuse of results is in VerificationCache.                               *)
(*                                                                         *)
(* The steps run one after the other and nothing else moves, so a group of *)
(* them is one action.  A step is <<name, what it is run on>>; cc-lint on  *)
(* two targets is two steps.                                               *)
(***************************************************************************)
EXTENDS TestRouting

CONSTANTS
  ChangePath,     \* paths in a change directory that is still there
  FrameworkPath,  \* paths under .claude, .cairness, .github, and README.md
  ProfilePath,    \* module files, lock files and sources of the language, but
                  \* for those under .claude and .cairness
  Printed,        \* per path, the path that its name, as git prints it, stands
                  \* for: another one if git puts the name in quotes
  Capability,     \* what the language profile can verify
  Requests,       \* command lines: a subset of Request
  Worlds          \* what they meet: a subset of World

Aux == {"review-coverage", "finding-locations", "risk-triage", "cc-wave-plan-check"}

Request == [scope : {"both", "harness", "project"}, changedOnly : BOOLEAN,
            mode : {"none", "normal", "ci", "optimize"},
            fixture : {"none", "there", "missing"}, change : {"none", "there", "missing"},
            role : BOOLEAN, checks : SUBSET Aux]

Ability == [enabled : BOOLEAN, optional : BOOLEAN, command : BOOLEAN, installed : BOOLEAN]

\* untold: changed paths that git does not name: the old name of a file that
\* it finds renamed, and all that a question has asked for that it fails to
\* answer.  failing: the test files that fail if they are run; erring: those of
\* them that cannot even be collected.
World ==
  {w \in [changed : SUBSET Path, untold : SUBSET Path, config : {"good", "bad", "bad policy"},
          replay : BOOLEAN, embedded : BOOLEAN, index : BOOLEAN, changes : BOOLEAN,
          policyFile : BOOLEAN, policy : Policy, resolved : BOOLEAN,
          ability : [Capability -> Ability], failing : SUBSET Test, erring : SUBSET Test] :
     w.untold \subseteq w.changed /\ w.erring \subseteq w.failing}

PlanRequestAssumption ==
  /\ ChangePath \subseteq FrameworkPath /\ FrameworkPath \subseteq Path
  /\ ProfilePath \subseteq Path /\ Printed \in [Path -> Path]
  /\ Requests \subseteq Request /\ Worlds \subseteq World

ASSUME PlanRequestParameters == PlanRequestAssumption

VARIABLES
  request, world,
  seen,       \* the changed paths that git has told
  stage,      \* the group of steps that is next
  results,    \* of the steps so far: [step, status]
  selection,  \* of tests
  escape,     \* what a full run says of the selection of a normal one
  report      \* the verdict: [status, mode]

verifyVars == <<request, world, seen, stage, results, selection, escape, report>>

NoSelection == [mode |-> "off", tests |-> {}, fallback |-> FALSE, unmatched |-> {}]
NoReport == [status |-> "none", mode |-> "none"]

VerifyInit ==
  /\ request \in Requests /\ world \in Worlds
  /\ seen = {} /\ stage = "mode" /\ results = {} /\ selection = NoSelection
  /\ escape = "unknown" /\ report = NoReport

-----------------------------------------------------------------------------
\* build_report, as far as the steps

ChangedOnly == request.changedOnly
HarnessOnly == request.scope = "harness"
ProjectOnly == request.scope = "project"

TestPolicyActive ==
  request.mode # "none" /\ request.fixture = "none" /\ ~HarnessOnly /\ world.policyFile

\* resolve_execution_policy: an explicit mode overrides --changed-only, unless
\* the configuration of the modes is not one.
Narrowed ==
  IF request.mode = "none" \/ world.config = "bad policy" THEN request.changedOnly
  ELSE request.mode = "normal"

ResolveMode ==
  /\ stage = "mode" /\ stage' = "changes"
  /\ request' = [request EXCEPT !.changedOnly = Narrowed]
  /\ UNCHANGED <<world, seen, results, selection, escape, report>>

\* git_changed_paths: the lines that git prints, each taken for a path
Listed == {Printed[p] : p \in world.changed \ world.untold}
GitChangedPaths ==
  /\ stage = "changes" /\ stage' = "harness"
  /\ seen' = IF ChangedOnly \/ TestPolicyActive THEN Listed ELSE {}
  /\ UNCHANGED <<request, world, results, selection, escape, report>>

-----------------------------------------------------------------------------
\* Planned steps

DocumentChecks == {"cc-sync-check", "cc-event-check", "cc-schema-check",
                   "cc-spec-scope-check", "cc-subagent-evidence-check"}
FrameworkChecks ==
  {"cc-readset", "cc-workflow-gen", "cc-doctor-check", "cc-upgrade-check"}
  \cup (IF world.embedded THEN {} ELSE {"cc-adapter-check"})
  \cup (IF world.replay THEN {} ELSE {"cc-behavior-check"})
  \cup (IF world.index THEN {"cc-index-check"} ELSE {})

HarnessChanged == ChangedOnly /\ seen \cap FrameworkPath # {}
ChangedDirs == IF ChangedOnly THEN seen \cap ChangePath ELSE {}

FullPlan ==
  {<<"cc-lint", "framework">>, <<"cc-deps-orphans", "project">>}
  \cup {<<name, "framework">> : name \in FrameworkChecks}
  \cup {<<name, "changes">> : name \in DocumentChecks}
  \cup (IF world.changes \/ request.change = "there" THEN {<<"cc-lint", "changes">>} ELSE {})

ChangedPlanSlip ==
  {<<"cc-deps-orphans", "project">>}
  \cup {<<name, "changes">> : name \in IF HarnessChanged THEN {} ELSE
                                        IF ChangedDirs = {} THEN {} ELSE DocumentChecks}
  \cup (IF HarnessChanged
        THEN {<<"cc-schema-check", "changes">>}
             \cup {<<name, "framework">> : name \in {"cc-lint"} \cup FrameworkChecks}
        ELSE {})
ChangedPlan ==
  {<<"cc-deps-orphans", "project">>}
  \cup {<<name, "changes">> : name \in IF ChangedDirs = {} THEN {}
                                        ELSE {"cc-lint"} \cup DocumentChecks}
  \cup (IF HarnessChanged
        THEN {<<"cc-schema-check", "changes">>}
             \cup {<<name, "framework">> : name \in {"cc-lint"} \cup FrameworkChecks}
        ELSE {})

\* harness_step_plan
HarnessSteps ==
  IF ProjectOnly THEN {} ELSE IF ChangedOnly THEN ChangedPlan ELSE FullPlan

\* auxiliary_step_plan: the role check needs no change directory.
AuxiliarySteps ==
  IF ProjectOnly THEN {}
  ELSE (IF request.role THEN {<<"cc-role-check", "project">>} ELSE {})
       \cup (IF request.change = "there" THEN {<<name, "change">> : name \in request.checks}
                                         ELSE {})

\* capability_plan
CapabilityStatus(a) ==
  IF ~a.enabled THEN "disabled"
  ELSE IF ~a.command THEN "skipped"
  ELSE IF ~a.installed THEN (IF a.optional THEN "skipped" ELSE "blocked")
  ELSE "planned"

\* has_profile_changes; project_checks_enabled
ProfileChanged == world.resolved /\ seen \cap ProfilePath # {}
ProjectChecksEnabled ==
  /\ ~HarnessOnly
  /\ ChangedOnly /\ request.fixture = "none" /\ ~ProjectOnly => ProfileChanged

-----------------------------------------------------------------------------
\* Results

Result(step, status) == [step |-> step, status |-> status]

\* run_step: a step passes exactly if it ends with 0.  One of them at most
\* ends otherwise, is out of time or cannot be started.
Ran(steps, culprit) ==
  {Result(s, IF s = culprit THEN "failed" ELSE "passed") : s \in steps}

Culprit(steps) == steps \cup {<<"none", "none">>}

Complaints ==
  (IF world.config = "bad" \/ (world.config = "bad policy" /\ request.mode # "none")
   THEN {Result(<<"harness-config", "project">>, "failed")} ELSE {})
  \cup (IF request.change = "missing" THEN {Result(<<"change-dir", "project">>, "failed")} ELSE {})

NothingChanged ==
  IF ~ProjectOnly /\ ChangedOnly /\ ~HarnessChanged /\ ChangedDirs = {}
  THEN {Result(<<"changed-only", "project">>, "skipped")} ELSE {}

RunHarness ==
  /\ stage = "harness" /\ stage' = "tests"
  /\ \E culprit \in Culprit(HarnessSteps \cup AuxiliarySteps) :
       results' = Complaints \cup NothingChanged \cup Ran(HarnessSteps \cup AuxiliarySteps, culprit)
  /\ UNCHANGED <<request, world, seen, selection, escape, report>>

Pytest == <<"pytest", "project">>
PolicyComplaint == {Result(<<"pytest-policy", "project">>, "failed")}

\* What pytest makes of the test files it is given.  If some cannot be collected
\* it names these and runs none of the others; out of time, it names none.
PytestOutcomes(tests) ==
  LET named == tests \cap (IF tests \cap world.erring = {} THEN world.failing ELSE world.erring)
  IN {[status |-> IF named = {} THEN "passed" ELSE "failed", failures |-> named],
      [status |-> "failed", failures |-> {}]}

\* In ci and optimize, what normal would have selected is looked up after the
\* run; where that is an error, the result of the run is not kept.
RunTests ==
  /\ stage = "tests" /\ stage' = "project"
  /\ IF ~TestPolicyActive THEN UNCHANGED <<results, selection, escape>>
     ELSE LET chosen == SelectTests(world.policy, seen, request.mode)
              shadow == SelectTests(world.policy, seen, "normal")
          IN /\ selection' = IF request.mode # "normal" /\ shadow.mode = "error"
                             THEN PolicyError ELSE chosen
             /\ IF selection'.mode = "error"
                THEN results' = results \cup PolicyComplaint /\ UNCHANGED escape
                ELSE IF selection'.mode = "none"
                THEN results' = results \cup {Result(Pytest, "skipped")} /\ UNCHANGED escape
                ELSE \E outcome \in PytestOutcomes(chosen.tests) :
                       /\ results' = results \cup {Result(Pytest, outcome.status)}
                       /\ escape' = IF request.mode = "normal" \/ seen = {} THEN "unknown"
                                    ELSE RoutingEscape(shadow, outcome.status, outcome.failures)
  /\ UNCHANGED <<request, world, seen, report>>

Overall == <<"project checks", "project">>
Planned == {c \in Capability : CapabilityStatus(world.ability[c]) = "planned"}
CapabilityStep(c) == <<"capability", c>>

\* project_step_plan
RunProject ==
  /\ stage = "project" /\ stage' = "report"
  /\ IF ~ProjectChecksEnabled \/ TestPolicyActive THEN UNCHANGED results
     ELSE IF request.fixture = "missing" \/ (request.fixture = "there" /\ ~world.resolved)
     THEN results' = results \cup {Result(Overall, "failed")}
     ELSE IF ~world.resolved \/ Capability = {}
     THEN results' = results \cup {Result(Overall, "skipped")}
     ELSE \E culprit \in Culprit({CapabilityStep(c) : c \in Planned}) :
            results' = results
              \cup Ran({CapabilityStep(c) : c \in Planned}, culprit)
              \cup {Result(CapabilityStep(c), CapabilityStatus(world.ability[c])) :
                      c \in {x \in Capability :
                               CapabilityStatus(world.ability[x]) \in {"skipped", "blocked"}}}
  /\ UNCHANGED <<request, world, seen, selection, escape, report>>

\* aggregate_status
Statuses == {r.status : r \in results}
Aggregate == IF "failed" \in Statuses THEN "failed"
             ELSE IF "blocked" \in Statuses THEN "blocked" ELSE "passed"

\* verification_mode
ModeName == IF ChangedOnly THEN "changed-only"
            ELSE IF HarnessOnly THEN "harness-only"
            ELSE IF ProjectOnly THEN "project-only" ELSE "full"

BuildReport ==
  /\ stage = "report" /\ stage' = "done"
  /\ report' = [status |-> Aggregate, mode |-> ModeName]
  /\ UNCHANGED <<request, world, seen, results, selection, escape>>

VerifyNext ==
  ResolveMode \/ GitChangedPaths \/ RunHarness \/ RunTests \/ RunProject \/ BuildReport

VerifySpec == VerifyInit /\ [][VerifyNext]_verifyVars

-----------------------------------------------------------------------------
\* Properties

Passed(step) == Result(step, "passed") \in results

\* The changed paths that git names, under a name that is theirs
Named == {p \in world.changed \ world.untold : Printed[p] = p}
Touched(paths) == Named \cap paths # {}

\* What must have been run and passed, as the request and the change have it
Demanded ==
  LET everything == ~ChangedOnly IN
    (IF ~ProjectOnly /\ (everything \/ Touched(ChangePath))
     THEN {<<name, "changes">> : name \in DocumentChecks} ELSE {})
    \cup (IF ~ProjectOnly /\ (everything \/ Touched(FrameworkPath))
          THEN {<<name, "framework">> : name \in FrameworkChecks} ELSE {})
    \cup (IF /\ ~HarnessOnly /\ world.resolved /\ ~TestPolicyActive
             /\ everything \/ ProjectOnly \/ request.fixture # "none" \/ Touched(ProfilePath)
          THEN {CapabilityStep(c) : c \in {x \in Capability :
                  /\ world.ability[x].enabled /\ world.ability[x].command
                  /\ world.ability[x].installed \/ ~world.ability[x].optional}}
          ELSE {})

\* A run that ends with 0 has run, and seen pass, all that a full run is for, or
\* all that the changed paths touch that git names as they are; a tool that is
\* required and missing, a bad configuration or a fixture that is not there
\* never passes.  Where git has named nothing that a check of the framework is
\* for, be it that it has failed, the results say that none was run.
NothingOmitted ==
  report.status = "passed" =>
    /\ \A step \in Demanded : Passed(step)
    /\ \A r \in results : r.status \in {"passed", "skipped"}
    /\ request.fixture # "missing" \/ HarnessOnly
    /\ \/ ProjectOnly \/ \E name \in DocumentChecks : Passed(<<name, "changes">>)
       \/ Result(<<"changed-only", "project">>, "skipped") \in results

\* Where the repository has a test policy, a pass of any mode says that no
\* failing test is itself named by git, or routed to by a rule from a path that
\* is, and none fails at all if git names one that is global or that the policy
\* does not know: what stands for a quoted name is one of these.  And where a
\* full run says that none of its failures would have escaped a normal one, no
\* test fails that the normal one passes over - or, if some cannot be collected,
\* none of these.
NoFailureMissed ==
  /\ report.status = "passed" /\ TestPolicyActive =>
       \A t \in world.failing :
         /\ Listed \cap ({t} \cup (world.policy.global \ Test)) = {}
         /\ \A r \in world.policy.rules :
              t \in r.tests => r.sources \cap (Listed \ Test) = {}
         /\ \A p \in Listed \ (Test \cup Guide) :
              Applying(world.policy, p) # {} \/ Namesake[p] # {}
  /\ escape = "no" =>
       (IF world.erring = {} THEN world.failing ELSE world.erring)
         \subseteq SelectTests(world.policy, seen, "normal").tests

\* What a run of cc-verify concludes is so: it leaves nothing out of what it
\* must run, and no test of what it may leave out has failed.
VerdictIsTrue == NothingOmitted /\ NoFailureMissed

-----------------------------------------------------------------------------
\* The parts of the inductive invariant that VerificationProofs uses.

VerifyTypeOK ==
  /\ request \in Request /\ world \in World /\ seen \subseteq Path
  /\ stage \in {"mode", "changes", "harness", "tests", "project", "report", "done"}
  /\ \A r \in results : r.status \in {"passed", "failed", "skipped", "blocked"}

After(s) ==
  stage \in CASE s = "changes" -> {"harness", "tests", "project", "report", "done"}
              [] s = "harness" -> {"tests", "project", "report", "done"}
              [] s = "tests" -> {"project", "report", "done"}
              [] s = "project" -> {"report", "done"}

\* What the plans are made from is what git prints, if anybody asks.
SeesChange ==
  After("changes") => seen = IF ChangedOnly \/ TestPolicyActive THEN Listed ELSE {}

\* Every planned step has been run, or it is told that none was planned.
Settled(step) == Passed(step) \/ Result(step, "failed") \in results
StepsSettled ==
  After("harness") =>
    /\ \A step \in HarnessSteps \cup AuxiliarySteps : Settled(step)
    /\ NothingChanged \subseteq results

\* No failing test was selected, or it is among the failures; what a full run
\* says of the selection of a normal one is so.
TestsJudged ==
  After("tests") /\ TestPolicyActive =>
    \/ "failed" \in Statuses
    \/ LET chosen == SelectTests(world.policy, seen, request.mode)
       IN chosen.mode # "error" /\ chosen.tests \cap world.failing = {}
EscapeJudged ==
  /\ ~After("tests") => escape = "unknown"
  /\ escape = "no" =>
       (IF world.erring = {} THEN world.failing ELSE world.erring)
         \subseteq SelectTests(world.policy, seen, "normal").tests

\* What the profile can verify has been, or is known to be missing.
ProjectJudged ==
  After("project") /\ ProjectChecksEnabled /\ ~TestPolicyActive =>
    /\ request.fixture = "missing" => "failed" \in Statuses
    /\ request.fixture # "missing" /\ world.resolved =>
         \A c \in Capability :
           /\ CapabilityStatus(world.ability[c]) = "planned" => Settled(CapabilityStep(c))
           /\ CapabilityStatus(world.ability[c]) = "blocked" => "blocked" \in Statuses

Concluded == report.status # "none" => stage = "done" /\ report.status = Aggregate

VerifyInv == /\ VerifyTypeOK /\ SeesChange /\ StepsSettled /\ TestsJudged
             /\ EscapeJudged /\ ProjectJudged /\ Concluded

=============================================================================
