---------------------------- MODULE TestRouting ----------------------------
(***************************************************************************)
(* tests/test-policy.yaml: which test files a change calls for.            *)
(*                                                                         *)
(* Patterns of the policy stand for the paths that they match.  Which      *)
(* tests bear a changed file's name is a constant; everything the policy   *)
(* may get wrong is in the policy.                                         *)
(***************************************************************************)
EXTENDS FiniteSets

CONSTANTS
  Path,      \* paths, the test files among them
  Test,      \* those discovered as test_*.py under tests/
  Guide,     \* those under cairn-core/docs/
  Foreign,   \* those outside the project root
  Namesake   \* per path, the tests that bear its name

Rule == [sources : SUBSET Path, tests : SUBSET Path]

\* place: where a test's layer comes from.  declared: legacy_files.
Policy == [wellFormed : BOOLEAN,
           place : [Test -> {"layer", "legacy", "legacy-no-rule", "nowhere"}],
           declared : SUBSET Path, rules : SUBSET Rule, global : SUBSET Path,
           attributes : SUBSET (SUBSET Path)]

RoutingAssumption ==
  /\ Test \subseteq Path /\ Guide \subseteq Path /\ Foreign \subseteq Path
  /\ Namesake \in [Path -> SUBSET Test]

ASSUME RoutingParameters == RoutingAssumption

-----------------------------------------------------------------------------
\* validate_test_policy, with _classify_with_policy
PolicyValid(policy) ==
  /\ policy.wellFormed
  /\ policy.declared \subseteq Test
  /\ \A t \in Test : policy.place[t] \in {"layer", "legacy"}
  /\ \A pattern \in policy.attributes : pattern \cap Test # {}
  /\ \A r \in policy.rules : r.sources # {} /\ r.tests \cap Test # {}

Full(fallback) == [mode |-> "full", tests |-> Test, fallback |-> fallback, unmatched |-> {}]
Selected(tests) == [mode |-> IF tests = {} THEN "none" ELSE "selected", tests |-> tests,
                    fallback |-> FALSE, unmatched |-> {}]
PolicyError == [mode |-> "error", tests |-> {}, fallback |-> FALSE, unmatched |-> {}]

Applying(policy, p) == {r \in policy.rules : p \in r.sources}

\* The tests that one changed path that is not global calls for
CalledFor(policy, p) ==
  IF p \in Test THEN {p}
  ELSE IF Applying(policy, p) # {}
       THEN UNION {r.tests \cap Test : r \in Applying(policy, p)}
  ELSE Namesake[p]

Unmatched(policy, changed) ==
  {p \in changed \ (Test \cup Guide) : Applying(policy, p) = {} /\ Namesake[p] = {}}

\* select_tests: everything for ci and optimize, and for a global or an unknown
\* path; the name of a path outside the project is an error, but not before the
\* mode has been looked at.
SelectTests(policy, changed, mode) ==
  IF ~PolicyValid(policy) THEN PolicyError
  ELSE IF mode \in {"ci", "optimize"} THEN Full(FALSE)
  ELSE IF changed \cap Foreign # {} THEN PolicyError
  ELSE IF changed \cap (policy.global \ Test) # {} THEN Full(TRUE)
  ELSE IF Unmatched(policy, changed) # {}
       THEN [Full(TRUE) EXCEPT !.unmatched = Unmatched(policy, changed)]
  ELSE Selected(UNION {CalledFor(policy, p) : p \in changed})

\* routing_escape: has a full run failed outside what normal would have run?
RoutingEscape(shadow, status, failures) ==
  IF status = "passed" THEN "no"
  ELSE IF failures = {} THEN "unknown"
  ELSE IF shadow.fallback \/ shadow.mode = "full" \/ failures \subseteq shadow.tests
       THEN "no" ELSE "yes"
=============================================================================
