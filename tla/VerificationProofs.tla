------------------------- MODULE VerificationProofs --------------------------
(***************************************************************************)
(* Theorems about a run of cc-verify: what it takes from its cache         *)
(* (VerificationCache), what it concludes (VerificationPlan) and what it   *)
(* and others record (RuntimeEvents), for every number of runs, files,     *)
(* edits, tests, policies and recordings.                                  *)
(***************************************************************************)
EXTENDS VerificationCache, VerificationPlan, RuntimeEvents, FiniteSetTheorems, TLAPS

-----------------------------------------------------------------------------
\* The cache

\* What is put into a key is of the right kind.
LEMMA DigestTyped ==
  ASSUME NEW t \in Tree, NEW S \in SUBSET VPath
  PROVE  Digest(t, S) \in [VPath -> Content \cup {"none"}]
BY CacheParameters DEF CacheAssumption, Digest, Tree, Content

LEMMA KeysAreTyped ==
  ASSUME NEW t \in Tree, NEW h \in Tree, NEW ix \in SUBSET (VPath \ Ignored)
  PROVE  /\ ChangedPaths(t, h, ix) \in SUBSET VPath
         /\ Diff(t, h, ix) \in SUBSET VPath /\ Others(t, ix) \in SUBSET VPath
         /\ Indexed(t, ix) \in Tree
         /\ Key(t, h, ix) \in KeyType
<1>1. /\ ChangedPaths(t, h, ix) \in SUBSET VPath
      /\ Diff(t, h, ix) \in SUBSET VPath /\ Others(t, ix) \in SUBSET VPath
  BY DEF ChangedPaths, Diff, Differing, Others
<1>2. Digest(t, ChangedPaths(t, h, ix)) \in [VPath -> Content \cup {"none"}]
  BY <1>1, DigestTyped
<1>3. h \in [VPath -> Content \cup {"none"}]
  BY DEF Tree
<1>4. Key(t, h, ix) \in KeyType
  BY <1>1, <1>2, <1>3 DEF Key, KeyType
<1>5. Indexed(t, ix) \in Tree
  BY DEF Indexed, Tree, Content
<1>. QED
  BY <1>1, <1>4, <1>5

LEMMA NoKeyTyped == NoKey \in KeyType /\ NoGit \in [VPath -> Content \cup {"none"}]
BY DEF NoKey, NoGit, KeyType

LEMMA WaitingTyped ==
  Waiting \in [pc : {"waiting", "listed", "keyed", "running"},
               key : KeyType, undisturbed : BOOLEAN]
BY NoKeyTyped DEF Waiting

\* Two trees under one key agree on every file that the key tells of: where it
\* is changed or configured the digests tell, elsewhere it is as in HEAD.
LEMMA KeyTellsCovered ==
  ASSUME NEW t \in Tree, NEW h \in Tree, NEW ix \in SUBSET (VPath \ Ignored),
         NEW u \in Tree, NEW g \in Tree, NEW jx \in SUBSET (VPath \ Ignored),
         Key(t, h, ix) = Key(u, g, jx), NEW p \in ToldByKey(t, h, ix) \cap ToldByKey(u, g, jx)
  PROVE  t[p] = u[p]
<1>1. h = g /\ ChangedPaths(t, h, ix) = ChangedPaths(u, g, jx)
      /\ Digest(t, ChangedPaths(t, h, ix)) = Digest(u, ChangedPaths(u, g, jx))
  BY DEF Key
<1>2. p \in VPath
  BY CacheParameters DEF CacheAssumption, ToldByKey
<1>3. Digest(t, ChangedPaths(t, h, ix))[p] = Digest(u, ChangedPaths(t, h, ix))[p]
  BY <1>1
<1>4. CASE p \in Configured
  BY <1>2, <1>3, <1>4 DEF Digest
<1>5. CASE p \notin Configured /\ p \in ChangedPaths(t, h, ix)
  BY <1>2, <1>3, <1>5 DEF Digest, ToldByKey
<1>6. CASE p \notin Configured /\ p \notin ChangedPaths(t, h, ix)
  <2>1. /\ p \notin Ignored
        /\ p \notin Hidden(t, h, ix) /\ p \notin Hidden(u, g, jx)
    BY <1>2, <1>6 DEF ToldByKey
  <2>2. t[p] = h[p]
    BY <1>2, <1>6, <2>1 DEF ChangedPaths, Diff, Differing, Indexed, Others
  <2>3. u[p] = g[p]
    BY <1>1, <1>2, <1>6, <2>1 DEF ChangedPaths, Diff, Differing, Indexed, Others
  <2>. QED
    BY <1>1, <2>2, <2>3
<1>. QED
  BY <1>4, <1>5, <1>6

-----------------------------------------------------------------------------
\* The invariant

LEMMA CacheInitInv == CacheInit => CacheInv
<1> SUFFICES ASSUME CacheInit PROVE CacheInv
  OBVIOUS
<1>1. CacheTypeOK
  <2>1. index \in SUBSET (VPath \ Ignored) /\ FirstTree \in Tree
    BY CacheParameters DEF CacheInit, CacheAssumption
  <2>2. head \in Tree
    BY <2>1 DEF CacheInit, Indexed, Tree, Content
  <2>. QED
    BY <2>1, <2>2, WaitingTyped DEF CacheInit, CacheTypeOK
<1>2. FiledHonestly /\ KeyIsPresent
  BY DEF CacheInit, FiledHonestly, KeyIsPresent, Waiting
<1>. QED
  BY <1>1, <1>2 DEF CacheInv

\* An edit or a commit keeps what was filed and leaves no run undisturbed.
LEMMA DisturbanceKeeps ==
  ASSUME CacheInv, Disturb, filed' = filed, objection' = objection,
         tree' \in Tree, head' \in Tree, index' \in SUBSET (VPath \ Ignored),
         treeChanges' \in Nat, cachedRuns' = cachedRuns
  PROVE  CacheInv'
<1>1. CacheTypeOK'
  BY DEF CacheInv, CacheTypeOK, Disturb
<1>2. FiledHonestly'
  BY DEF CacheInv, FiledHonestly, Passes
<1>3. KeyIsPresent'
  BY DEF CacheInv, CacheTypeOK, KeyIsPresent, Disturb
<1>. QED
  BY <1>1, <1>2, <1>3 DEF CacheInv

LEMMA CacheStepKeepsInv ==
  ASSUME CacheInv, [CacheNext]_cacheVars
  PROVE  CacheInv'
<1> USE DEF CacheInv
<1>0. /\ tree \in Tree /\ head \in Tree /\ index \in SUBSET (VPath \ Ignored)
      /\ \A v \in Verifier : verifier[v].key.changed \in SUBSET VPath
      /\ Key(tree, head, index) \in KeyType
      /\ ChangedPaths(tree, head, index) \in SUBSET VPath
      /\ Diff(tree, head, index) \in SUBSET VPath /\ Others(tree, index) \in SUBSET VPath
      /\ Indexed(tree, index) \in Tree
  BY KeysAreTyped DEF CacheTypeOK, KeyType
<1>1. ASSUME NEW v \in Verifier, ListChanges(v) PROVE CacheInv'
  <2>1. [NoKey EXCEPT !.head = head, !.changed = ChangedPaths(tree, head, index)] \in KeyType
    BY <1>0, NoKeyTyped DEF NoKey, KeyType, Tree
  <2>2. CacheTypeOK'
    BY <1>1, <2>1 DEF ListChanges, CacheTypeOK
  <2>3. KeyIsPresent'
    BY <1>1 DEF ListChanges, KeyIsPresent, CacheTypeOK, NoKey
  <2>. QED
    BY <1>1, <2>2, <2>3 DEF ListChanges, FiledHonestly, Passes
<1>2. ASSUME NEW v \in Verifier, GitSilent(v) PROVE CacheInv'
  <2>1. PICK h \in {head, NoGit}, diff \in {{}, Diff(tree, head, index)},
             others \in {{}, Others(tree, index)} :
          verifier' = [verifier EXCEPT ![v] =
            [pc |-> "listed", undisturbed |-> FALSE,
             key |-> [NoKey EXCEPT !.head = h, !.changed = diff \cup others]]]
    BY <1>2 DEF GitSilent
  <2>0. /\ h \in [VPath -> Content \cup {"none"}] /\ diff \cup others \in SUBSET VPath
        /\ NoGit \in [VPath -> Content \cup {"none"}]
    BY <1>0, NoKeyTyped DEF Tree, NoGit
  <2>2. [NoKey EXCEPT !.head = h, !.changed = diff \cup others] \in KeyType
    BY <2>0, NoKeyTyped DEF NoKey, KeyType
  <2>3. CacheTypeOK'
    BY <1>2, <2>1, <2>2 DEF GitSilent, CacheTypeOK
  <2>4. KeyIsPresent'
    BY <1>2, <2>1 DEF GitSilent, KeyIsPresent, CacheTypeOK
  <2>. QED
    BY <1>2, <2>3, <2>4 DEF GitSilent, FiledHonestly, Passes
<1>3. ASSUME NEW v \in Verifier, DigestFiles(v) PROVE CacheInv'
  <2>1. Digest(tree, verifier[v].key.changed) \in [VPath -> Content \cup {"none"}]
    BY <1>0, DigestTyped
  <2>5. [verifier[v].key EXCEPT !.digest = Digest(tree, verifier[v].key.changed)] \in KeyType
    BY <2>1 DEF CacheTypeOK, KeyType
  <2>2. CacheTypeOK'
    BY <1>3, <2>5 DEF DigestFiles, CacheTypeOK
  <2>3. ASSUME verifier[v].undisturbed
        PROVE  [verifier[v].key EXCEPT !.digest = Digest(tree, verifier[v].key.changed)]
                 = Key(tree, head, index)
    BY <1>3, <2>3 DEF DigestFiles, KeyIsPresent, CacheTypeOK, KeyType, Key
  <2>4. KeyIsPresent'
    BY <1>3, <2>3 DEF DigestFiles, KeyIsPresent, CacheTypeOK, Key
  <2>. QED
    BY <1>3, <2>2, <2>4 DEF DigestFiles, FiledHonestly, Passes
<1>4. ASSUME NEW v \in Verifier, Reuse(v) \/ NotSaved(v) PROVE CacheInv'
  <2>1. CacheTypeOK'
    BY <1>4, WaitingTyped DEF Reuse, NotSaved, CacheTypeOK
  <2>2. KeyIsPresent'
    BY <1>4 DEF Reuse, NotSaved, KeyIsPresent, CacheTypeOK, Waiting
  <2>. QED
    BY <1>4, <2>1, <2>2 DEF Reuse, NotSaved, FiledHonestly, Passes
<1>5. ASSUME NEW v \in Verifier, Miss(v) PROVE CacheInv'
  <2>1. CacheTypeOK'
    BY <1>5 DEF Miss, CacheTypeOK
  <2>2. KeyIsPresent'
    BY <1>5 DEF Miss, KeyIsPresent, CacheTypeOK
  <2>. QED
    BY <1>5, <2>1, <2>2 DEF Miss, FiledHonestly, Passes
<1>6. ASSUME NEW v \in Verifier, Save(v) PROVE CacheInv'
  <2>1. CacheTypeOK'
    BY <1>6, WaitingTyped DEF Save, CacheTypeOK
  <2>2. KeyIsPresent'
    BY <1>6 DEF Save, KeyIsPresent, CacheTypeOK, Waiting
  <2>3. verifier[v].undisturbed => verifier[v].key = Key(tree, head, index)
    BY <1>6 DEF Save, KeyIsPresent
  <2>4. FiledHonestly'
    BY <1>0, <1>6, <2>3 DEF Save, FiledHonestly, Passes, Key
  <2>. QED
    BY <2>1, <2>2, <2>4
<1>7. ASSUME NEW p \in VPath, NEW content \in Content, Edit(p, content) PROVE CacheInv'
  <2>1. /\ tree' \in Tree /\ head' \in Tree /\ index' \in SUBSET (VPath \ Ignored)
        /\ treeChanges' \in Nat /\ cachedRuns' = cachedRuns
    BY <1>0, <1>7 DEF Edit, CacheTypeOK, Tree
  <2>. QED
    BY <1>7, <2>1, DisturbanceKeeps DEF Edit
<1>8. ASSUME NEW p \in VPath, Track(p) PROVE CacheInv'
  <2>1. /\ tree' \in Tree /\ head' \in Tree /\ index' \in SUBSET (VPath \ Ignored)
        /\ treeChanges' \in Nat /\ cachedRuns' = cachedRuns
    BY <1>0, <1>8 DEF Track, CacheTypeOK
  <2>. QED
    BY <1>8, <2>1, DisturbanceKeeps DEF Track
<1>10. ASSUME Commit PROVE CacheInv'
  <2>1. /\ tree' \in Tree /\ head' \in Tree /\ index' \in SUBSET (VPath \ Ignored)
        /\ treeChanges' \in Nat /\ cachedRuns' = cachedRuns
    BY <1>0, <1>10 DEF Commit, CacheTypeOK
  <2>. QED
    BY <1>10, <2>1, DisturbanceKeeps DEF Commit
<1>9. CASE UNCHANGED cacheVars
  BY <1>9 DEF cacheVars, CacheTypeOK, FiledHonestly, KeyIsPresent, Passes
<1>. QED
  BY <1>1, <1>2, <1>3, <1>4, <1>5, <1>6, <1>7, <1>8, <1>9, <1>10
  DEF CacheNext

\* The types, the honesty of what is filed, and the keys of undisturbed runs
\* hold throughout.
THEOREM CacheInvHolds == CacheSpec => []CacheInv
<1>1. CacheInit => CacheInv
  BY CacheInitInv
<1>2. CacheInv /\ [CacheNext]_cacheVars => CacheInv'
  BY CacheStepKeepsInv
<1>. QED
  BY <1>1, <1>2, PTL DEF CacheSpec

LEMMA InvReuseIsTruth == CacheInv => ReuseIsTruth
<1> SUFFICES ASSUME CacheInv, NEW v \in Verifier, NEW e \in filed,
                    verifier[v].undisturbed, e.undisturbed,
                    objection[1] \in ToldByKey(tree, head, index)
                                       \cap ToldByKey(e.seen, e.key.head, e.index),
                    verifier[v].pc = "keyed", e.key = verifier[v].key
             PROVE  Passes(tree)
  BY DEF ReuseIsTruth, ReusedRightly
<1> USE DEF CacheInv
<1>1. /\ verifier[v].key = Key(tree, head, index)
      /\ tree \in Tree /\ head \in Tree /\ index \in SUBSET (VPath \ Ignored)
  BY DEF KeyIsPresent, CacheTypeOK
<1>2. /\ e.key = Key(e.seen, e.key.head, e.index) /\ Passes(e.seen)
      /\ e.seen \in Tree /\ e.key.head \in Tree /\ e.index \in SUBSET (VPath \ Ignored)
  BY DEF FiledHonestly, CacheTypeOK
<1>3. tree[objection[1]] = e.seen[objection[1]]
  BY <1>1, <1>2, KeyTellsCovered
<1>. QED
  BY <1>2, <1>3 DEF Passes

\* ReuseIsTruth: what cc-verify takes from its cache is what the step would
\* say now, under the conditions that ReuseIsTruth names.
THEOREM ReusedResultsAreTrue == CacheSpec => []ReuseIsTruth
BY CacheInvHolds, InvReuseIsTruth, PTL

-----------------------------------------------------------------------------
\* One run of cc-verify.

LEMMA VerifyConstants ==
  /\ ChangePath \subseteq Path /\ FrameworkPath \subseteq Path /\ ProfilePath \subseteq Path
  /\ Requests \subseteq Request /\ Worlds \subseteq World
  /\ Test \subseteq Path /\ Namesake \in [Path -> SUBSET Test] /\ Printed \in [Path -> Path]
BY PlanRequestParameters, RoutingParameters DEF PlanRequestAssumption, RoutingAssumption

LEMMA WorldTyped ==
  ASSUME world \in World
  PROVE  /\ world.changed \subseteq Path /\ Listed \subseteq Path
         /\ world.failing \subseteq Test /\ world.erring \subseteq world.failing
         /\ world.policy \in Policy /\ world.ability \in [Capability -> Ability]
<1>1. /\ world.changed \subseteq Path /\ world.failing \subseteq Test
      /\ world.erring \subseteq world.failing
      /\ world.policy \in Policy /\ world.ability \in [Capability -> Ability]
  BY DEF World
<1>2. Listed \subseteq Path
  BY <1>1, VerifyConstants DEF Listed
<1>. QED
  BY <1>1, <1>2

\* A changed path that git names as it is is in the list.
LEMMA NamedIsListed == Named \subseteq Listed
BY DEF Named, Listed

\* With a policy, a request has a mode.
LEMMA ActiveHasMode ==
  ASSUME request \in Request, TestPolicyActive
  PROVE  request.mode \in {"normal", "ci", "optimize"} /\ request.fixture = "none"
BY DEF Request, TestPolicyActive

LEMMA ResultTyped ==
  ASSUME NEW step, NEW status
  PROVE  Result(step, status).status = status
BY DEF Result

\* What is selected, by the way that select_tests takes
LEMMA SelectionCases ==
  ASSUME NEW policy, NEW changed, NEW mode
  PROVE  LET chosen == SelectTests(policy, changed, mode) IN
           \/ chosen.mode = "error" /\ chosen.tests = {} /\ chosen.fallback = FALSE
           \/ chosen.mode = "full" /\ chosen.tests = Test
           \/ /\ chosen.mode \in {"none", "selected"} /\ chosen.fallback = FALSE
              /\ PolicyValid(policy) /\ mode \notin {"ci", "optimize"}
              /\ changed \cap (policy.global \ Test) = {}
              /\ Unmatched(policy, changed) = {}
              /\ chosen.tests = UNION {CalledFor(policy, p) : p \in changed}
              /\ chosen.mode = "none" <=> chosen.tests = {}
BY DEF SelectTests, PolicyError, Full, Selected

\* A selection that holds no failing test says so of everything that the change
\* calls for.
LEMMA SelectionIsEnough ==
  ASSUME NEW policy \in Policy, NEW changed \in SUBSET Path, NEW mode,
         NEW failing \in SUBSET Test,
         SelectTests(policy, changed, mode).mode # "error",
         SelectTests(policy, changed, mode).tests \cap failing = {}
  PROVE  \A t \in failing :
           /\ changed \cap ({t} \cup (policy.global \ Test)) = {}
           /\ \A r \in policy.rules : t \in r.tests => r.sources \cap (changed \ Test) = {}
           /\ \A p \in changed \ (Test \cup Guide) :
                Applying(policy, p) # {} \/ Namesake[p] # {}
<1> DEFINE chosen == SelectTests(policy, changed, mode)
<1>1. CASE chosen.tests = Test
  BY <1>1
<1>2. CASE /\ changed \cap (policy.global \ Test) = {}
           /\ Unmatched(policy, changed) = {}
           /\ chosen.tests = UNION {CalledFor(policy, p) : p \in changed}
  <2> SUFFICES ASSUME NEW t \in failing
               PROVE  /\ changed \cap ({t} \cup (policy.global \ Test)) = {}
                      /\ \A r \in policy.rules : t \in r.tests => r.sources \cap (changed \ Test) = {}
                      /\ \A p \in changed \ (Test \cup Guide) :
                           Applying(policy, p) # {} \/ Namesake[p] # {}
    OBVIOUS
  <2>1. \A p \in changed : t \notin CalledFor(policy, p)
    BY <1>2
  <2>2. t \notin changed
    BY <2>1 DEF CalledFor
  <2>3. ASSUME NEW r \in policy.rules, t \in r.tests, NEW p \in r.sources \cap (changed \ Test)
        PROVE  FALSE
    <3>1. r \in Applying(policy, p)
      BY <2>3 DEF Applying
    <3>2. CalledFor(policy, p) = UNION {q.tests \cap Test : q \in Applying(policy, p)}
      BY <2>3, <3>1 DEF CalledFor
    <3>. QED
      BY <2>1, <2>3, <3>1, <3>2
  <2>4. \A p \in changed \ (Test \cup Guide) : Applying(policy, p) # {} \/ Namesake[p] # {}
    BY <1>2 DEF Unmatched
  <2>. QED
    BY <1>2, <2>2, <2>3, <2>4
<1>. QED
  BY <1>1, <1>2, SelectionCases

\* Where nothing has escaped, a normal run would have selected what failed.
LEMMA NothingEscapes ==
  ASSUME NEW policy, NEW changed, NEW status, NEW failing \in SUBSET Test,
         NEW failures,
         \/ status = "passed" /\ failing = {}
         \/ status # "passed" /\ failures \in {failing, {}},
         SelectTests(policy, changed, "normal").mode # "error",
         RoutingEscape(SelectTests(policy, changed, "normal"), status, failures) = "no"
  PROVE  failing \subseteq SelectTests(policy, changed, "normal").tests
<1> DEFINE shadow == SelectTests(policy, changed, "normal")
<1>1. shadow.fallback \/ shadow.mode = "full" => shadow.tests = Test
  BY SelectionCases
<1>. QED
  BY <1>1 DEF RoutingEscape

\* The operators of a run look at request, world and seen.
LEMMA SamePlans ==
  ASSUME UNCHANGED <<request, world, seen>>
  PROVE  /\ ChangedOnly' = ChangedOnly /\ HarnessOnly' = HarnessOnly
         /\ TestPolicyActive' = TestPolicyActive
         /\ HarnessSteps' = HarnessSteps /\ AuxiliarySteps' = AuxiliarySteps
         /\ ProjectChecksEnabled' = ProjectChecksEnabled /\ Listed' = Listed
         /\ NothingChanged' = NothingChanged
BY DEF Listed, NothingChanged, ChangedOnly, HarnessOnly, ProjectOnly, TestPolicyActive, HarnessSteps, AuxiliarySteps,
       ProjectChecksEnabled, ProfileChanged, ChangedPlan, FullPlan, HarnessChanged, ChangedDirs,
       FrameworkChecks, DocumentChecks

\* Results are added and never taken away.
LEMMA ResultsStay ==
  ASSUME results \subseteq results'
  PROVE  /\ \A step : Settled(step) => Settled(step)'
         /\ \A s : s \in Statuses => s \in Statuses'
BY DEF Settled, Passed, Statuses

LEMMA ResultTold ==
  ASSUME NEW step, NEW status, Result(step, status) \in results'
  PROVE  status \in Statuses'
<1>1. Result(step, status).status = status
  BY ResultTyped
<1>. QED
  BY <1>1 DEF Statuses

LEMMA RanSettles ==
  ASSUME NEW steps, NEW culprit
  PROVE  /\ \A r \in Ran(steps, culprit) : r.status \in {"passed", "failed"}
         /\ \A s \in steps : Result(s, "passed") \in Ran(steps, culprit)
                             \/ Result(s, "failed") \in Ran(steps, culprit)
BY DEF Ran, Result

LEMMA VerifyInitInv == VerifyInit => VerifyInv
<1> SUFFICES ASSUME VerifyInit PROVE VerifyInv
  OBVIOUS
<1>1. VerifyTypeOK
  BY VerifyConstants DEF VerifyInit, VerifyTypeOK
<1>2. stage = "mode" /\ escape = "unknown" /\ report.status = "none" /\ results = {}
  BY DEF VerifyInit, NoReport
<1>. QED
  BY <1>1, <1>2 DEF VerifyInv, SeesChange, StepsSettled, TestsJudged, EscapeJudged,
     ProjectJudged, Concluded, After

\* Before there is a report
LEMMA StillOpen ==
  ASSUME VerifyInv, stage # "done"
  PROVE  report.status = "none"
BY DEF VerifyInv, Concluded

LEMMA ModeStep ==
  ASSUME VerifyInv, ResolveMode
  PROVE  VerifyInv'
<1>1. /\ stage' = "changes" /\ UNCHANGED <<world, seen, results, escape, report>>
      /\ escape = "unknown" /\ report.status = "none"
  BY StillOpen DEF ResolveMode, VerifyInv, EscapeJudged, After
<1>2. request' \in Request
  BY DEF ResolveMode, VerifyInv, VerifyTypeOK, Request, Narrowed
<1>3. VerifyTypeOK'
  BY <1>1, <1>2 DEF VerifyInv, VerifyTypeOK
<1>. QED
  BY <1>1, <1>3 DEF VerifyInv, SeesChange, StepsSettled, TestsJudged, EscapeJudged,
     ProjectJudged, Concluded, After

LEMMA ChangesStep ==
  ASSUME VerifyInv, GitChangedPaths
  PROVE  VerifyInv'
<1>1. /\ stage' = "harness" /\ UNCHANGED <<request, world, results, escape, report>>
      /\ seen' = IF ChangedOnly \/ TestPolicyActive THEN Listed ELSE {}
      /\ escape = "unknown" /\ report.status = "none"
  BY StillOpen DEF GitChangedPaths, VerifyInv, EscapeJudged, After
<1>2. VerifyTypeOK'
  BY <1>1, WorldTyped DEF VerifyInv, VerifyTypeOK
<1>3. SeesChange'
  BY <1>1 DEF SeesChange, Listed, ChangedOnly, TestPolicyActive, HarnessOnly
<1>. QED
  BY <1>1, <1>2, <1>3 DEF VerifyInv, StepsSettled, TestsJudged, EscapeJudged,
     ProjectJudged, Concluded, After

LEMMA HarnessStep ==
  ASSUME VerifyInv, RunHarness
  PROVE  VerifyInv'
<1> DEFINE steps == HarnessSteps \cup AuxiliarySteps
<1>1. /\ stage = "harness" /\ stage' = "tests"
      /\ UNCHANGED <<request, world, seen, escape, report>>
      /\ escape = "unknown" /\ report.status = "none"
  BY StillOpen DEF RunHarness, VerifyInv, EscapeJudged, After
<1>2. PICK culprit \in Culprit(steps) :
        results' = Complaints \cup NothingChanged \cup Ran(steps, culprit)
  BY DEF RunHarness
<1>3. \A r \in Complaints \cup NothingChanged : r.status \in {"failed", "skipped"}
  <2>1. Complaints \cup NothingChanged \subseteq
          {Result(<<"harness-config", "project">>, "failed"),
           Result(<<"change-dir", "project">>, "failed"),
           Result(<<"changed-only", "project">>, "skipped")}
    BY DEF Complaints, NothingChanged
  <2>2. /\ Result(<<"harness-config", "project">>, "failed").status = "failed"
        /\ Result(<<"change-dir", "project">>, "failed").status = "failed"
        /\ Result(<<"changed-only", "project">>, "skipped").status = "skipped"
    BY ResultTyped
  <2>. QED
    BY <2>1, <2>2
<1>4. VerifyTypeOK'
  BY <1>1, <1>2, <1>3, RanSettles DEF VerifyInv, VerifyTypeOK
<1>5. StepsSettled'
  BY <1>1, <1>2, RanSettles, SamePlans DEF StepsSettled, Settled, Passed
<1>6. SeesChange'
  BY <1>1, SamePlans DEF VerifyInv, SeesChange, After
<1>. QED
  BY <1>1, <1>4, <1>5, <1>6 DEF VerifyInv, TestsJudged, EscapeJudged,
     ProjectJudged, Concluded, After

LEMMA TestsStep ==
  ASSUME VerifyInv, RunTests
  PROVE  VerifyInv'
<1> DEFINE chosen == SelectTests(world.policy, seen, request.mode)
           shadow == SelectTests(world.policy, seen, "normal")
<1>1. /\ stage = "tests" /\ stage' = "project" /\ UNCHANGED <<request, world, seen, report>>
      /\ escape = "unknown" /\ report.status = "none"
  BY StillOpen DEF RunTests, VerifyInv, EscapeJudged, After
<1>2. \/ ~TestPolicyActive /\ UNCHANGED <<results, escape>>
      \/ results' = results \cup PolicyComplaint /\ UNCHANGED escape
      \/ /\ chosen.mode = "none" /\ UNCHANGED escape
         /\ results' = results \cup {Result(Pytest, "skipped")}
      \/ /\ TestPolicyActive /\ chosen.mode # "error"
         /\ request.mode = "normal" \/ shadow.mode # "error"
         /\ \E outcome \in PytestOutcomes(chosen.tests) :
              /\ results' = results \cup {Result(Pytest, outcome.status)}
              /\ escape' = IF request.mode = "normal" \/ seen = {} THEN "unknown"
                           ELSE RoutingEscape(shadow, outcome.status, outcome.failures)
  BY DEF RunTests, PolicyError
<1> HIDE DEF chosen, shadow
<1>3. /\ world.failing \subseteq Test /\ world.erring \subseteq world.failing
      /\ request \in Request
  BY WorldTyped DEF VerifyInv, VerifyTypeOK
<1>4. /\ results \subseteq results'
      /\ \A r \in results' \ results : r.status \in {"passed", "failed", "skipped"}
  BY <1>2 DEF PolicyComplaint, Result, PytestOutcomes
<1>5. VerifyTypeOK'
  BY <1>1, <1>4 DEF VerifyInv, VerifyTypeOK
<1>6. StepsSettled' /\ SeesChange'
  BY <1>1, <1>4, SamePlans, ResultsStay DEF VerifyInv, StepsSettled, SeesChange, After
<1>7. TestsJudged' /\ EscapeJudged'
  <2>1. CASE ~TestPolicyActive /\ UNCHANGED <<results, escape>>
    BY <1>1, <2>1, SamePlans DEF TestsJudged, EscapeJudged, After
  <2>2. CASE results' = results \cup PolicyComplaint /\ UNCHANGED escape
    <3>1. "failed" \in Statuses'
      BY <2>2, ResultTold DEF PolicyComplaint
    <3>. QED
      BY <1>1, <2>2, <3>1 DEF TestsJudged, EscapeJudged, After
  <2>3. CASE chosen.mode = "none" /\ UNCHANGED escape
    <3>1. chosen.tests = {}
      BY <2>3, SelectionCases DEF chosen
    <3>. QED
      BY <1>1, <2>3, <3>1 DEF TestsJudged, EscapeJudged, After, chosen
  <2> DEFINE noted == IF world.erring = {} THEN world.failing ELSE world.erring
  <2>4. ASSUME TestPolicyActive, chosen.mode # "error",
               request.mode = "normal" \/ shadow.mode # "error",
               NEW outcome \in PytestOutcomes(chosen.tests),
               results' = results \cup {Result(Pytest, outcome.status)},
               escape' = IF request.mode = "normal" \/ seen = {} THEN "unknown"
                         ELSE RoutingEscape(shadow, outcome.status, outcome.failures)
        PROVE  TestsJudged' /\ EscapeJudged'
    <3>1. \/ outcome.status = "passed" /\ chosen.tests \cap world.failing = {}
          \/ outcome.status = "failed"
      BY <1>3, <2>4 DEF PytestOutcomes
    <3>2. outcome.status \in Statuses'
      BY <2>4, ResultTold
    <3>3. TestsJudged'
      BY <1>1, <2>4, <3>1, <3>2 DEF TestsJudged, chosen
    <3>4. ASSUME escape' = "no" PROVE noted \subseteq shadow.tests
      <4>1. request.mode \in {"ci", "optimize"} /\ shadow.mode # "error"
        BY <1>3, <2>4, <3>4, ActiveHasMode
      <4>2. chosen.tests = Test
        BY <2>4, <4>1, SelectionCases DEF chosen, SelectTests, Full, PolicyError
      <4>3. RoutingEscape(shadow, outcome.status, outcome.failures) = "no"
        BY <2>4, <3>4
      <4>4. \/ outcome.status = "passed" /\ noted = {}
            \/ outcome.status # "passed" /\ outcome.failures \in {noted, {}}
        <5>1. chosen.tests \cap world.erring = world.erring
              /\ chosen.tests \cap world.failing = world.failing
          BY <1>3, <4>2
        <5>2. chosen.tests \cap (IF chosen.tests \cap world.erring = {} THEN world.failing
                                                                   ELSE world.erring) = noted
          BY <5>1
        <5> HIDE DEF noted
        <5>3. PytestOutcomes(chosen.tests) =
                {[status |-> IF noted = {} THEN "passed" ELSE "failed", failures |-> noted],
                 [status |-> "failed", failures |-> {}]}
          BY <5>2 DEF PytestOutcomes
        <5>. QED
          BY <2>4, <5>3
      <4>5. noted \subseteq Test
        BY <1>3
      <4> HIDE DEF noted
      <4>. QED
        BY <4>1, <4>3, <4>4, <4>5, NothingEscapes DEF shadow
    <3>. QED
      BY <1>1, <3>3, <3>4 DEF EscapeJudged, After, shadow
  <2>. QED
    BY <1>2, <2>1, <2>2, <2>3, <2>4
<1>. QED
  BY <1>1, <1>5, <1>6, <1>7 DEF VerifyInv, ProjectJudged, Concluded, After

LEMMA ProjectStep ==
  ASSUME VerifyInv, RunProject
  PROVE  VerifyInv'
<1> DEFINE planned == {CapabilityStep(c) : c \in Planned}
           spared == {Result(CapabilityStep(c), CapabilityStatus(world.ability[c])) :
                        c \in {x \in Capability :
                                 CapabilityStatus(world.ability[x]) \in {"skipped", "blocked"}}}
<1>1. /\ stage = "project" /\ stage' = "report" /\ UNCHANGED <<request, world, seen, escape, report>>
      /\ report.status = "none"
  BY StillOpen DEF RunProject, VerifyInv
<1>2. \/ ~ProjectChecksEnabled /\ UNCHANGED results
      \/ TestPolicyActive /\ UNCHANGED results
      \/ /\ request.fixture = "missing" \/ ~world.resolved
         /\ results' = results \cup {Result(Overall, "failed")}
      \/ /\ request.fixture # "missing" /\ (~world.resolved \/ Capability = {})
         /\ results' = results \cup {Result(Overall, "skipped")}
      \/ /\ request.fixture # "missing"
         /\ \E culprit \in Culprit(planned) :
              results' = results \cup Ran(planned, culprit) \cup spared
  BY DEF RunProject
<1>3. \A r \in spared : r.status \in {"skipped", "blocked"}
  BY DEF Result
<1> HIDE DEF planned, spared
<1>4. /\ results \subseteq results'
      /\ \A r \in results' \ results : r.status \in {"passed", "failed", "skipped", "blocked"}
  BY <1>2, <1>3, RanSettles DEF Result
<1>5. VerifyTypeOK'
  BY <1>1, <1>4 DEF VerifyInv, VerifyTypeOK
<1>6. StepsSettled' /\ SeesChange' /\ TestsJudged' /\ EscapeJudged'
  <2>1. StepsSettled' /\ SeesChange'
    BY <1>1, <1>4, SamePlans, ResultsStay DEF VerifyInv, StepsSettled, SeesChange, After
  <2>2. TestsJudged' /\ EscapeJudged'
    BY <1>1, <1>4, SamePlans, ResultsStay DEF VerifyInv, TestsJudged, EscapeJudged, After
  <2>. QED
    BY <2>1, <2>2
<1>7. ProjectJudged'
  <2> SUFFICES ASSUME ProjectChecksEnabled, ~TestPolicyActive
               PROVE  /\ request.fixture = "missing" => "failed" \in Statuses'
                      /\ request.fixture # "missing" /\ world.resolved =>
                           \A c \in Capability :
                             /\ CapabilityStatus(world.ability[c]) = "planned" =>
                                  Settled(CapabilityStep(c))'
                             /\ CapabilityStatus(world.ability[c]) = "blocked" =>
                                  "blocked" \in Statuses'
    BY <1>1, SamePlans DEF ProjectJudged, After
  <2>1. CASE /\ request.fixture = "missing" \/ ~world.resolved
             /\ results' = results \cup {Result(Overall, "failed")}
    BY <2>1, ResultTold
  <2>2. CASE /\ request.fixture # "missing" /\ (~world.resolved \/ Capability = {})
    BY <2>2
  <2>3. ASSUME request.fixture # "missing", NEW culprit \in Culprit(planned),
               results' = results \cup Ran(planned, culprit) \cup spared,
               NEW c \in Capability
        PROVE  /\ CapabilityStatus(world.ability[c]) = "planned" => Settled(CapabilityStep(c))'
               /\ CapabilityStatus(world.ability[c]) = "blocked" => "blocked" \in Statuses'
    <3>1. ASSUME CapabilityStatus(world.ability[c]) = "planned"
          PROVE  Settled(CapabilityStep(c))'
      <4>1. CapabilityStep(c) \in planned
        BY <3>1 DEF planned, Planned
      <4>. QED
        BY <2>3, <4>1, RanSettles DEF Settled, Passed
    <3>2. ASSUME CapabilityStatus(world.ability[c]) = "blocked"
          PROVE  "blocked" \in Statuses'
      <4>1. Result(CapabilityStep(c), "blocked") \in results'
        BY <2>3, <3>2 DEF spared
      <4>. QED
        BY <4>1 DEF Statuses, Result
    <3>. QED
      BY <3>1, <3>2
  <2>. QED
    BY <1>2, <2>1, <2>2, <2>3
<1>. QED
  BY <1>1, <1>5, <1>6, <1>7 DEF VerifyInv, Concluded

\* The plans are made and carried out in order.
LEMMA VerifyInvariant == VerifySpec => []VerifyInv
<1>1. VerifyInv /\ [VerifyNext]_verifyVars => VerifyInv'
  <2> SUFFICES ASSUME VerifyInv, [VerifyNext]_verifyVars PROVE VerifyInv'
    OBVIOUS
  <2>1. CASE UNCHANGED verifyVars
    <3>1. UNCHANGED <<request, world, seen, stage, results, escape, report>>
      BY <2>1 DEF verifyVars
    <3>2. VerifyTypeOK' /\ Concluded' /\ EscapeJudged'
      BY <3>1 DEF VerifyInv, VerifyTypeOK, Concluded, EscapeJudged, After, Aggregate, Statuses
    <3>3. StepsSettled' /\ SeesChange' /\ TestsJudged'
      BY <3>1, SamePlans, ResultsStay
      DEF VerifyInv, StepsSettled, SeesChange, TestsJudged, After
    <3>4. ProjectJudged'
      BY <3>1, SamePlans, ResultsStay DEF VerifyInv, ProjectJudged, After
    <3>. QED
      BY <3>2, <3>3, <3>4 DEF VerifyInv
  <2>2. CASE BuildReport
    <3>1. /\ stage = "report" /\ stage' = "done"
          /\ UNCHANGED <<request, world, seen, results, escape>>
          /\ report' = [status |-> Aggregate, mode |-> ModeName]
      BY <2>2 DEF BuildReport
    <3>2. VerifyTypeOK' /\ EscapeJudged'
      BY <3>1 DEF VerifyInv, VerifyTypeOK, EscapeJudged, After
    <3>3. StepsSettled' /\ SeesChange' /\ TestsJudged'
      BY <3>1, SamePlans, ResultsStay
      DEF VerifyInv, StepsSettled, SeesChange, TestsJudged, After
    <3>4. ProjectJudged'
      BY <3>1, SamePlans, ResultsStay DEF VerifyInv, ProjectJudged, After
    <3>5. Concluded'
      BY <3>1 DEF Concluded, Aggregate, Statuses
    <3>. QED
      BY <3>2, <3>3, <3>4, <3>5 DEF VerifyInv
  <2>. QED
    BY <2>1, <2>2, ModeStep, ChangesStep, HarnessStep, TestsStep, ProjectStep DEF VerifyNext
<1>. QED
  BY VerifyInitInv, <1>1, PTL DEF VerifySpec

\* Nothing is omitted, by the invariant.
LEMMA PassedIsComplete ==
  ASSUME VerifyInv, report.status = "passed"
  PROVE  NothingOmitted
<1>1. stage = "done" /\ {"failed", "blocked"} \cap Statuses = {}
  BY DEF VerifyInv, Concluded, Aggregate
<1>2. \A r \in results : r.status \in {"passed", "skipped"}
  BY <1>1 DEF VerifyInv, VerifyTypeOK, Statuses
<1>3. \A step : Settled(step) => Passed(step)
  <2> SUFFICES ASSUME NEW step, Result(step, "failed") \in results PROVE FALSE
    BY DEF Settled
  <2>. QED
    BY <1>2, ResultTyped
<1>4. /\ \A step \in HarnessSteps \cup AuxiliarySteps : Passed(step)
      /\ ChangedOnly => Named \subseteq seen
  BY <1>1, <1>3, NamedIsListed DEF VerifyInv, StepsSettled, SeesChange, After
<1>5. request.fixture # "missing" \/ HarnessOnly
  BY <1>1 DEF VerifyInv, ProjectJudged, ProjectChecksEnabled, TestPolicyActive, After
<1>6. ASSUME ~ProjectOnly, ~ChangedOnly \/ Touched(ChangePath), NEW name \in DocumentChecks
      PROVE  <<name, "changes">> \in HarnessSteps
  <2>1. CASE ~ChangedOnly
    BY <1>6, <2>1 DEF HarnessSteps, FullPlan
  <2>2. CASE ChangedOnly
    <3>1. ChangedDirs # {}
      BY <1>4, <1>6, <2>2 DEF Touched, ChangedDirs
    <3>. QED
      BY <1>6, <2>2, <3>1 DEF HarnessSteps, ChangedPlan
  <2>. QED
    BY <2>1, <2>2
<1>7. ASSUME ~ProjectOnly, ~ChangedOnly \/ Touched(FrameworkPath),
             NEW name \in FrameworkChecks
      PROVE  <<name, "framework">> \in HarnessSteps
  <2>1. CASE ~ChangedOnly
    BY <1>7, <2>1 DEF HarnessSteps, FullPlan
  <2>2. CASE ChangedOnly
    <3>1. HarnessChanged
      BY <1>4, <1>7, <2>2 DEF Touched, HarnessChanged
    <3>. QED
      BY <1>7, <2>2, <3>1 DEF HarnessSteps, ChangedPlan
  <2>. QED
    BY <2>1, <2>2
<1>8. ASSUME ~HarnessOnly, world.resolved, ~TestPolicyActive,
             \/ ~ChangedOnly \/ ProjectOnly \/ request.fixture # "none" \/ Touched(ProfilePath),
             NEW c \in Capability, world.ability[c].enabled, world.ability[c].command,
             world.ability[c].installed \/ ~world.ability[c].optional
      PROVE  Passed(CapabilityStep(c))
  <2>1. ProjectChecksEnabled
    BY <1>4, <1>8 DEF ProjectChecksEnabled, ProfileChanged, Touched
  <2>2. CapabilityStatus(world.ability[c]) \in {"planned", "blocked"}
    BY <1>8 DEF CapabilityStatus
  <2>3. request.fixture # "missing"
    BY <1>5, <1>8
  <2>4. /\ CapabilityStatus(world.ability[c]) = "planned" => Settled(CapabilityStep(c))
        /\ CapabilityStatus(world.ability[c]) = "blocked" => "blocked" \in Statuses
    BY <1>1, <1>8, <2>1, <2>3 DEF VerifyInv, ProjectJudged, After
  <2>. QED
    BY <1>1, <1>3, <2>2, <2>4
<1>9. ASSUME NEW step \in Demanded PROVE Passed(step)
  BY <1>4, <1>6, <1>7, <1>8, <1>9 DEF Demanded
<1>10. \/ ProjectOnly \/ \E name \in DocumentChecks : Passed(<<name, "changes">>)
       \/ Result(<<"changed-only", "project">>, "skipped") \in results
  <2>1. NothingChanged \subseteq results
    BY <1>1 DEF VerifyInv, StepsSettled, After
  <2>2. CASE ~ProjectOnly /\ ChangedOnly /\ ~HarnessChanged /\ ChangedDirs = {}
    BY <2>1, <2>2 DEF NothingChanged
  <2>3. CASE ~ProjectOnly /\ (~ChangedOnly \/ HarnessChanged \/ ChangedDirs # {})
    <3>1. "cc-schema-check" \in DocumentChecks
      BY DEF DocumentChecks
    <3>2. <<"cc-schema-check", "changes">> \in HarnessSteps
      BY <2>3, <3>1 DEF HarnessSteps, FullPlan, ChangedPlan
    <3>. QED
      BY <1>4, <3>1, <3>2
  <2>. QED
    BY <2>2, <2>3
<1>. QED
  BY <1>2, <1>5, <1>9, <1>10 DEF NothingOmitted

\* VerdictIsTrue: a run of cc-verify that ends with 0 has left out nothing that
\* is called for by the changes that git names as they are, and no failing test
\* that it could have known of, for every policy, profile, change, command line
\* and answer of git.
THEOREM VerdictsAreTrue == VerifySpec => []VerdictIsTrue
<1>1. VerifyInv => VerdictIsTrue
  <2> SUFFICES ASSUME VerifyInv PROVE NothingOmitted /\ NoFailureMissed
    BY DEF VerdictIsTrue
  <2>1. NothingOmitted
    <3>1. CASE report.status = "passed"
      BY <3>1, PassedIsComplete
    <3>2. CASE report.status # "passed"
      BY <3>2 DEF NothingOmitted
    <3>. QED
      BY <3>1, <3>2
  <2>2. ASSUME report.status = "passed", TestPolicyActive, NEW t \in world.failing
        PROVE  /\ Listed \cap ({t} \cup (world.policy.global \ Test)) = {}
               /\ \A r \in world.policy.rules :
                    t \in r.tests => r.sources \cap (Listed \ Test) = {}
               /\ \A p \in Listed \ (Test \cup Guide) :
                    Applying(world.policy, p) # {} \/ Namesake[p] # {}
    <3>1. stage = "done" /\ "failed" \notin Statuses
      BY <2>2 DEF VerifyInv, Concluded, Aggregate
    <3>2. seen = Listed
      BY <2>2, <3>1 DEF VerifyInv, SeesChange, After
    <3>3. LET chosen == SelectTests(world.policy, Listed, request.mode)
          IN chosen.mode # "error" /\ chosen.tests \cap world.failing = {}
      BY <2>2, <3>1, <3>2 DEF VerifyInv, TestsJudged, After
    <3>4. world.policy \in Policy /\ Listed \in SUBSET Path /\ world.failing \in SUBSET Test
      BY WorldTyped DEF VerifyInv, VerifyTypeOK
    <3> DEFINE policy == world.policy
               changed == Listed
               failing == world.failing
               mode == request.mode
    <3> HIDE DEF policy, changed, failing, mode
    <3>5. /\ policy \in Policy /\ changed \in SUBSET Path /\ failing \in SUBSET Test
          /\ SelectTests(policy, changed, mode).mode # "error"
          /\ SelectTests(policy, changed, mode).tests \cap failing = {}
      BY <3>3, <3>4 DEF policy, changed, failing, mode
    <3>6. \A u \in failing :
            /\ changed \cap ({u} \cup (policy.global \ Test)) = {}
            /\ \A r \in policy.rules : u \in r.tests => r.sources \cap (changed \ Test) = {}
            /\ \A p \in changed \ (Test \cup Guide) :
                 Applying(policy, p) # {} \/ Namesake[p] # {}
      BY <3>5, SelectionIsEnough
    <3>. QED
      BY <2>2, <3>6 DEF policy, changed, failing
  <2>3. escape = "no" =>
          (IF world.erring = {} THEN world.failing ELSE world.erring)
            \subseteq SelectTests(world.policy, seen, "normal").tests
    BY DEF VerifyInv, EscapeJudged
  <2>4. NoFailureMissed
    BY <2>2, <2>3 DEF NoFailureMissed
  <2>. QED
    BY <2>1, <2>4
<1>. QED
  BY <1>1, VerifyInvariant, PTL

-----------------------------------------------------------------------------
\* What the reports count, when some events are missing.

LEMMA CountsAreClose ==
  ASSUME NEW T, IsFiniteSet(T), NEW S \in SUBSET T, NEW L, IsFiniteSet(L), T \ S \subseteq L,
         NEW n \in Nat, Cardinality(L) <= n
  PROVE  /\ Cardinality(S) \in Nat /\ Cardinality(T) \in Nat
         /\ Cardinality(S) <= Cardinality(T) /\ Cardinality(T) <= Cardinality(S) + n
<1>1. /\ IsFiniteSet(S) /\ Cardinality(S) \in Nat /\ Cardinality(T) \in Nat
      /\ Cardinality(S) <= Cardinality(T)
  BY FS_Subset, FS_CardinalityType
<1>2. /\ IsFiniteSet(T \ S) /\ Cardinality(T \ S) \in Nat /\ Cardinality(L) \in Nat
      /\ Cardinality(T \ S) <= Cardinality(L)
  BY FS_Subset, FS_CardinalityType
<1>3. S \cup (T \ S) = T /\ S \cap (T \ S) = {}
  OBVIOUS
<1>4. Cardinality(T) = Cardinality(S) + Cardinality(T \ S) - Cardinality({})
  BY <1>1, <1>2, <1>3, FS_Union
<1>. QED
  BY <1>1, <1>2, <1>4, FS_EmptySet

LEMMA RestCounts ==
  ASSUME NEW T, IsFiniteSet(T), NEW S \in SUBSET T
  PROVE  Cardinality(T) - Cardinality(S) = Cardinality(T \ S)
<1>1. IsFiniteSet(S) /\ IsFiniteSet(T \ S)
  BY FS_Subset
<1>2. S \cup (T \ S) = T /\ S \cap (T \ S) = {}
  OBVIOUS
<1>3. Cardinality(T) = Cardinality(S) + Cardinality(T \ S) - Cardinality({})
  BY <1>1, <1>2, FS_Union
<1>4. Cardinality(S) \in Nat /\ Cardinality(T \ S) \in Nat
  BY <1>1, FS_CardinalityType
<1>. QED
  BY <1>3, <1>4, FS_EmptySet

LEMMA ImageIsSmaller ==
  ASSUME NEW S, IsFiniteSet(S), NEW f, DOMAIN f = S, f = [x \in S |-> f[x]]
  PROVE  /\ IsFiniteSet({f[x] : x \in S})
         /\ Cardinality({f[x] : x \in S}) <= Cardinality(S)
<1>1. f \in Surjection(S, {f[x] : x \in S})
  BY DEF Surjection
<1>. QED
  BY <1>1, FS_Surjection

\* H is what has happened, D what can still be read of it.
Few(H, D, n) == /\ IsFiniteSet(H) /\ D \subseteq H /\ n \in Nat
                /\ IsFiniteSet(H \ D) /\ Cardinality(H \ D) <= n

Near(d, h, n) == d \in Nat /\ h \in Nat /\ d <= h /\ h <= d + n

\* Groups of events rather than events
LEMMA GroupsAreNear ==
  ASSUME NEW H, NEW D, NEW n, Few(H, D, n),
         NEW f, DOMAIN f = H, f = [x \in H |-> f[x]],
         NEW T, T \subseteq {f[x] : x \in H}, NEW S, S \subseteq T,
         \A g \in T \ S : \E e \in H \ D : f[e] = g
  PROVE  Near(Cardinality(S), Cardinality(T), n)
<1> USE DEF Few
<1> DEFINE g == [x \in H \ D |-> f[x]]
           L == {g[x] : x \in H \ D}
<1>1. IsFiniteSet(T)
  <2>1. IsFiniteSet({f[x] : x \in H})
    BY ImageIsSmaller
  <2>. QED
    BY <2>1, FS_Subset
<1>2. IsFiniteSet(H \ D) /\ Cardinality(H \ D) \in Nat
  BY FS_Subset, FS_CardinalityType
<1>3. IsFiniteSet(L) /\ Cardinality(L) <= Cardinality(H \ D)
  <2>1. DOMAIN g = H \ D /\ g = [x \in H \ D |-> g[x]]
    OBVIOUS
  <2> HIDE DEF g
  <2>. QED
    BY <1>2, <2>1, ImageIsSmaller
<1>4. T \ S \subseteq L
  OBVIOUS
<1>5. Cardinality(L) <= n
  BY <1>2, <1>3, FS_CardinalityType
<1>. QED
  BY <1>1, <1>3, <1>4, <1>5, CountsAreClose DEF Near

\* A report counts the events of a kind.
LEMMA KindIsNear ==
  ASSUME NEW H, NEW D, NEW n, Few(H, D, n), NEW T, NEW S,
         T \subseteq H, S = T \cap D
  PROVE  Near(Cardinality(S), Cardinality(T), n)
<1>1. IsFiniteSet(T) /\ S \in SUBSET T /\ T \ S \subseteq H \ D
  BY FS_Subset DEF Few
<1>. QED
  BY <1>1, CountsAreClose DEF Few, Near

LEMMA QualityIsClose ==
  ASSUME NEW H, NEW D, NEW n, Few(H, D, n)
  PROVE  Close(QualityGate(D), QualityGate(H), n)
<1> DEFINE judged(E) == {e \in Runs(E) : QualityTerminal(e[3])}
           passed(E) == {e \in judged(E) : e[3].status = "passed"}
           retries(E) == {e \in Runs(E) : e[3].kind = "retry"}
           excluded(E) == Runs(E) \ judged(E)
           run == [e \in H |-> e[3].run]
           q == QualityGate(D)
           t == QualityGate(H)
<1>1. /\ judged(H) \subseteq H /\ judged(D) = judged(H) \cap D
      /\ passed(H) \subseteq H /\ passed(D) = passed(H) \cap D
      /\ retries(H) \subseteq H /\ retries(D) = retries(H) \cap D
      /\ excluded(H) \subseteq H /\ excluded(D) = excluded(H) \cap D
  BY DEF Few, Runs, OfType
<1>2. /\ Cardinality(Runs(D)) - Cardinality(judged(D)) = Cardinality(excluded(D))
      /\ Cardinality(Runs(H)) - Cardinality(judged(H)) = Cardinality(excluded(H))
  <2>1. /\ IsFiniteSet(Runs(D)) /\ judged(D) \in SUBSET Runs(D)
        /\ IsFiniteSet(Runs(H)) /\ judged(H) \in SUBSET Runs(H)
    BY FS_Subset DEF Few, Runs, OfType
  <2> HIDE DEF judged
  <2>. QED
    BY <2>1, RestCounts
<1>3. DOMAIN t = {"total", "passed", "retries", "failed", "recovered", "excluded"}
  BY DEF QualityGate
<1>4. /\ q.total = Cardinality(judged(D)) /\ t.total = Cardinality(judged(H))
      /\ q.passed = Cardinality(passed(D)) /\ t.passed = Cardinality(passed(H))
      /\ q.retries = Cardinality(retries(D)) /\ t.retries = Cardinality(retries(H))
      /\ q.excluded = Cardinality(excluded(D)) /\ t.excluded = Cardinality(excluded(H))
      /\ q.failed = Cardinality(Failed(D)) /\ t.failed = Cardinality(Failed(H))
      /\ q.recovered = Cardinality(Recovered(D)) /\ t.recovered = Cardinality(Recovered(H))
  BY <1>2 DEF QualityGate
<1>5. run = [e \in H |-> run[e]] /\ DOMAIN run = H /\ \A e \in H : run[e] = e[3].run
  OBVIOUS
<1> HIDE DEF run, judged, passed, retries, excluded, q, t
<1>6. Near(q.total, t.total, n) /\ Near(q.passed, t.passed, n)
  BY <1>1, <1>4, KindIsNear
<1>7. Near(q.retries, t.retries, n) /\ Near(q.excluded, t.excluded, n)
  BY <1>1, <1>4, KindIsNear
<1>8. Near(q.failed, t.failed, n)
  <2>1. Failed(H) \subseteq {run[e] : e \in H} /\ Failed(D) \subseteq Failed(H)
    BY <1>5 DEF Failed, Few, Runs, OfType
  <2>2. \A r \in Failed(H) \ Failed(D) : \E e \in H \ D : run[e] = r
    BY <1>5 DEF Failed, Few, Runs, OfType
  <2>. QED
    BY <1>4, <1>5, <2>1, <2>2, GroupsAreNear
<1>9. Near(q.recovered, t.recovered, n)
  <2>1. Recovered(H) \subseteq {run[e] : e \in H} /\ Recovered(D) \subseteq Recovered(H)
    BY <1>5 DEF Recovered, Failed, Few, Runs, OfType
  <2>2. \A r \in Recovered(H) \ Recovered(D) : \E e \in H \ D : run[e] = r
    BY <1>5 DEF Recovered, Failed, Few, Runs, OfType
  <2>. QED
    BY <1>4, <1>5, <2>1, <2>2, GroupsAreNear
<1>10. \A k \in DOMAIN t : q[k] <= t[k] /\ t[k] <= q[k] + n
  BY <1>3, <1>6, <1>7, <1>8, <1>9 DEF Near
<1>. QED
  BY <1>10 DEF Close, q, t

LEMMA RoutingIsClose ==
  ASSUME NEW H, NEW D, NEW n, Few(H, D, n)
  PROVE  Close(RoutingMetrics(D), RoutingMetrics(H), n)
<1> DEFINE samples(E) == {e \in Runs(E) : e[3].routing \in {"normal", "shadow"}}
           told(E) == {e \in Runs(E) : e[3].escape # "unknown"}
           normal(E) == {e \in samples(E) : e[3].routing = "normal"}
           escapes(E) == {e \in told(E) : e[3].escape = "yes"}
           q == RoutingMetrics(D)
           t == RoutingMetrics(H)
<1>1. /\ samples(H) \subseteq H /\ samples(D) = samples(H) \cap D
      /\ told(H) \subseteq H /\ told(D) = told(H) \cap D
      /\ normal(H) \subseteq H /\ normal(D) = normal(H) \cap D
      /\ escapes(H) \subseteq H /\ escapes(D) = escapes(H) \cap D
  BY DEF Few, Runs, OfType
<1>2. DOMAIN t = {"normal", "observed", "looked", "escapes"}
  BY DEF RoutingMetrics
<1>3. /\ q.normal = Cardinality(normal(D)) /\ t.normal = Cardinality(normal(H))
      /\ q.observed = Cardinality(samples(D)) /\ t.observed = Cardinality(samples(H))
      /\ q.looked = Cardinality(told(D)) /\ t.looked = Cardinality(told(H))
      /\ q.escapes = Cardinality(escapes(D)) /\ t.escapes = Cardinality(escapes(H))
  BY DEF RoutingMetrics
<1> HIDE DEF samples, told, normal, escapes, q, t
<1>4. Near(q.normal, t.normal, n) /\ Near(q.observed, t.observed, n)
  BY <1>1, <1>3, KindIsNear
<1>5. Near(q.looked, t.looked, n) /\ Near(q.escapes, t.escapes, n)
  BY <1>1, <1>3, KindIsNear
<1>6. \A k \in DOMAIN t : q[k] <= t[k] /\ t[k] <= q[k] + n
  BY <1>2, <1>4, <1>5 DEF Near
<1>. QED
  BY <1>6 DEF Close, q, t

LEMMA ExecutionIsClose ==
  ASSUME NEW H, NEW D, NEW n, Few(H, D, n)
  PROVE  Close(ExecutionMetrics(D), ExecutionMetrics(H), n)
<1> DEFINE runs(E) == OfType(E, "execution_run")
           reuses(E) == {e \in runs(E) : e[3].reused}
           q == ExecutionMetrics(D)
           t == ExecutionMetrics(H)
<1>1. /\ runs(H) \subseteq H /\ runs(D) = runs(H) \cap D
      /\ reuses(H) \subseteq H /\ reuses(D) = reuses(H) \cap D
  BY DEF Few, OfType
<1>2. DOMAIN t = {"total", "reuses"}
  BY DEF ExecutionMetrics
<1>3. /\ q.total = Cardinality(runs(D)) /\ t.total = Cardinality(runs(H))
      /\ q.reuses = Cardinality(reuses(D)) /\ t.reuses = Cardinality(reuses(H))
  BY DEF ExecutionMetrics
<1> HIDE DEF runs, reuses, q, t
<1>4. Near(q.total, t.total, n) /\ Near(q.reuses, t.reuses, n)
  BY <1>1, <1>3, KindIsNear
<1>5. \A k \in DOMAIN t : q[k] <= t[k] /\ t[k] <= q[k] + n
  BY <1>2, <1>4 DEF Near
<1>. QED
  BY <1>5 DEF Close, q, t

LEMMA WavesAreClose ==
  ASSUME NEW H, NEW D, NEW n, Few(H, D, n)
  PROVE  Close(WaveMetrics(D), WaveMetrics(H), n)
<1> DEFINE waves(E) == OfType(E, "wave_run")
           joined(E) == {e \in waves(E) : e[3].tasks # {} /\ "running" \notin e[3].tasks}
           cleanup(E) == {e \in waves(E) : e[3].cleanup \in {"required", "failed"}}
           q == WaveMetrics(D)
           t == WaveMetrics(H)
<1>1. /\ waves(H) \subseteq H /\ waves(D) = waves(H) \cap D
      /\ joined(H) \subseteq H /\ joined(D) = joined(H) \cap D
      /\ cleanup(H) \subseteq H /\ cleanup(D) = cleanup(H) \cap D
  BY DEF Few, OfType
<1>2. DOMAIN t = {"total", "joined", "cleanup"}
  BY DEF WaveMetrics
<1>3. /\ q.total = Cardinality(waves(D)) /\ t.total = Cardinality(waves(H))
      /\ q.joined = Cardinality(joined(D)) /\ t.joined = Cardinality(joined(H))
      /\ q.cleanup = Cardinality(cleanup(D)) /\ t.cleanup = Cardinality(cleanup(H))
  BY DEF WaveMetrics
<1> HIDE DEF waves, joined, cleanup, q, t
<1>4. Near(q.total, t.total, n) /\ Near(q.joined, t.joined, n) /\ Near(q.cleanup, t.cleanup, n)
  BY <1>1, <1>3, KindIsNear
<1>5. \A k \in DOMAIN t : q[k] <= t[k] /\ t[k] <= q[k] + n
  BY <1>2, <1>4 DEF Near
<1>. QED
  BY <1>5 DEF Close, q, t

LEMMA PhasesAreClose ==
  ASSUME NEW H, NEW D, NEW n, Few(H, D, n)
  PROVE  Close(PhaseMetrics(D), PhaseMetrics(H), n)
<1> DEFINE phased(E) == {e \in E : e[3].phase # "none"}
           terminal(E) == {e \in phased(E) : QualityTerminal(e[3])}
           q == PhaseMetrics(D)
           t == PhaseMetrics(H)
<1>1. /\ phased(H) \subseteq H /\ phased(D) = phased(H) \cap D
      /\ terminal(H) \subseteq H /\ terminal(D) = terminal(H) \cap D
  BY DEF Few
<1>2. DOMAIN t = {"total", "terminal"}
  BY DEF PhaseMetrics
<1>3. /\ q.total = Cardinality(phased(D)) /\ t.total = Cardinality(phased(H))
      /\ q.terminal = Cardinality(terminal(D)) /\ t.terminal = Cardinality(terminal(H))
  BY DEF PhaseMetrics
<1> HIDE DEF phased, terminal, q, t
<1>4. Near(q.total, t.total, n) /\ Near(q.terminal, t.terminal, n)
  BY <1>1, <1>3, KindIsNear
<1>5. \A k \in DOMAIN t : q[k] <= t[k] /\ t[k] <= q[k] + n
  BY <1>2, <1>4 DEF Near
<1>. QED
  BY <1>5 DEF Close, q, t

LEMMA CohortsAreClose ==
  ASSUME NEW H, NEW D, NEW n, Few(H, D, n)
  PROVE  Close(CohortMetrics(D), CohortMetrics(H), n)
<1> DEFINE grouped(E) == Runs(E) \cup
                           {e \in E : e[3].type = "phase_run" /\ e[3].phase # "none"}
           groups(E) == {<<e[3].phase, e \in Runs(E)>> : e \in grouped(E)}
           group == [e \in H |-> <<e[3].phase, e \in Runs(H)>>]
           q == CohortMetrics(D)
           t == CohortMetrics(H)
<1>1. grouped(H) \subseteq H /\ grouped(D) = grouped(H) \cap D
  BY DEF Few, Runs, OfType
<1>2. DOMAIN t = {"total", "runs"}
  BY DEF CohortMetrics
<1>3. /\ q.total = Cardinality(groups(D)) /\ t.total = Cardinality(groups(H))
      /\ q.runs = Cardinality(grouped(D)) /\ t.runs = Cardinality(grouped(H))
  BY DEF CohortMetrics
<1>4. group = [e \in H |-> group[e]] /\ DOMAIN group = H
      /\ \A e \in H : group[e] = <<e[3].phase, e \in Runs(H)>>
  OBVIOUS
<1>5. \A e \in grouped(D) : group[e] = <<e[3].phase, e \in Runs(D)>>
  <2>1. \A e \in D : (e \in Runs(D)) = (e \in Runs(H))
    BY DEF Few, Runs, OfType
  <2>. QED
    BY <1>1, <1>4, <2>1
<1>6. \A e \in grouped(H) : group[e] = <<e[3].phase, e \in Runs(H)>>
  BY <1>1, <1>4
<1> HIDE DEF grouped, group
<1>7. groups(H) = {group[e] : e \in grouped(H)}
  BY <1>6
<1>8. groups(D) = {group[e] : e \in grouped(D)}
  BY <1>5
<1> HIDE DEF groups, q, t
<1>9. Near(q.runs, t.runs, n)
  BY <1>1, <1>3, KindIsNear
<1>10. Near(q.total, t.total, n)
  <2>1. groups(H) \subseteq {group[e] : e \in H} /\ groups(D) \subseteq groups(H)
    BY <1>1, <1>7, <1>8
  <2>2. \A g \in groups(H) \ groups(D) : \E e \in H \ D : group[e] = g
    BY <1>1, <1>7, <1>8
  <2>. QED
    BY <1>3, <1>4, <2>1, <2>2, GroupsAreNear
<1>11. \A k \in DOMAIN t : q[k] <= t[k] /\ t[k] <= q[k] + n
  BY <1>2, <1>9, <1>10 DEF Near
<1>. QED
  BY <1>11 DEF Close, q, t

LEMMA UpgradesAreClose ==
  ASSUME NEW H, NEW D, NEW n, Few(H, D, n)
  PROVE  Close(UpgradeMetrics(D), UpgradeMetrics(H), n)
<1> DEFINE runs(E) == OfType(E, "upgrade_run")
           failed(E) == {e \in runs(E) : e[3].status = "failed"}
           q == UpgradeMetrics(D)
           t == UpgradeMetrics(H)
<1>1. /\ runs(H) \subseteq H /\ runs(D) = runs(H) \cap D
      /\ failed(H) \subseteq H /\ failed(D) = failed(H) \cap D
  BY DEF Few, OfType
<1>2. DOMAIN t = {"total", "failed"}
  BY DEF UpgradeMetrics
<1>3. /\ q.total = Cardinality(runs(D)) /\ t.total = Cardinality(runs(H))
      /\ q.failed = Cardinality(failed(D)) /\ t.failed = Cardinality(failed(H))
  BY DEF UpgradeMetrics
<1> HIDE DEF runs, failed, q, t
<1>4. Near(q.total, t.total, n) /\ Near(q.failed, t.failed, n)
  BY <1>1, <1>3, KindIsNear
<1>5. \A k \in DOMAIN t : q[k] <= t[k] /\ t[k] <= q[k] + n
  BY <1>2, <1>4 DEF Near
<1>. QED
  BY <1>5 DEF Close, q, t


-----------------------------------------------------------------------------
\* What a recording does to the file and to the numbers of its process

PieceOf == [event : Told, kind : {"whole", "newline", "cut", "split"}]

LEMMA AppendedPiece ==
  ASSUME NEW l \in TextLine, NEW p \in PieceOf
  PROVE  /\ Append(l, p) \in TextLine /\ Append(l, p) # <<>>
         /\ Len(Append(l, p)) = Len(l) + 1
         /\ l # <<>> => Len(Append(l, p)) >= 2 /\ Append(l, p)[1] = l[1]
         /\ <<p>> \in TextLine /\ <<p>> # <<>> /\ Len(<<p>>) = 1 /\ <<p>>[1] = p
<1>1. l \in Seq(PieceOf) /\ TextLine = Seq(PieceOf)
  BY DEF TextLine, PieceOf
<1>2. Append(l, p) \in Seq(PieceOf) /\ Len(Append(l, p)) = Len(l) + 1 /\ Len(l) \in Nat
  BY <1>1
<1>3. Append(l, p) # <<>>
  BY <1>2
<1>4. l # <<>> => Len(l) >= 1 /\ Append(l, p)[1] = l[1]
  BY <1>1
<1>5. <<p>> \in Seq(PieceOf) /\ <<p>> # <<>> /\ Len(<<p>>) = 1 /\ <<p>>[1] = p
  OBVIOUS
<1>. QED
  BY <1>1, <1>2, <1>3, <1>4, <1>5

LEMMA WrittenLines ==
  ASSUME LedgerTypeOK, LinesTell, NEW r \in Recorder, NEW p \in PieceOf,
         NEW w, w = Written(r, p)
  PROVE  /\ w \in Seq(TextLine) /\ w # <<>> /\ lines \in Seq(TextLine)
         /\ unended => /\ Len(w) = Len(lines) /\ Len(lines) \in DOMAIN lines
                       /\ \A i \in DOMAIN lines : i # Len(lines) => w[i] = lines[i]
                       /\ w[Len(lines)] = Append(lines[Len(lines)], p)
         /\ ~unended => /\ Len(w) = Len(lines) + 1
                        /\ \A i \in DOMAIN lines : w[i] = lines[i]
                        /\ w[Len(lines) + 1] = <<p>>
<1>1. lines \in Seq(TextLine)
  BY DEF LedgerTypeOK
<1>2. CASE unended
  <2>1. Len(lines) \in DOMAIN lines /\ lines[Len(lines)] \in TextLine
    BY <1>1, <1>2 DEF LinesTell
  <2>2. Append(lines[Len(lines)], p) \in TextLine
    BY <2>1, AppendedPiece
  <2>3. w = [lines EXCEPT ![Len(lines)] = Append(lines[Len(lines)], p)]
    BY <1>2 DEF Written
  <2>. QED
    BY <1>1, <1>2, <2>1, <2>2, <2>3
<1>3. CASE ~unended
  <2>1. <<p>> \in TextLine
    BY AppendedPiece, <<>> \in TextLine DEF TextLine
  <2>2. w = Append(lines, <<p>>)
    BY <1>3 DEF Written
  <2>. QED
    BY <1>1, <1>3, <2>1, <2>2
<1>. QED
  BY <1>2, <1>3

LEMMA EventIsNew ==
  ASSUME LedgerTypeOK, NumbersFit, NEW r \in Recorder, recorder[r].pc = "open"
  PROVE  /\ recorder[r].event \in Told /\ recorder[r].event \notin happened
         /\ recorder[r].event[1] = r /\ Recorded(recorder[r].event[3])
         /\ recorder[r].event[2] = Cardinality(ToldBy(r))
<1>1. recorder[r] \in [pc : {"open"}, event : Told, at : Nat]
  BY DEF LedgerTypeOK, Idle
<1>2. /\ recorder[r].event[1] = r /\ Recorded(recorder[r].event[3])
      /\ recorder[r].event[2] = Cardinality(ToldBy(r))
  BY DEF NumbersFit
<1>3. Cardinality(ToldBy(r)) \in Nat
  BY FS_Subset, FS_CardinalityType DEF LedgerTypeOK, ToldBy
<1>4. recorder[r].event \in happened => recorder[r].event[2] < Cardinality(ToldBy(r))
  BY <1>2 DEF NumbersFit
<1>. QED
  BY <1>1, <1>2, <1>3, <1>4

LEMMA NumbersStep ==
  ASSUME LedgerTypeOK, NumbersFit, NEW r \in Recorder, recorder[r].pc = "open",
         Returned(r), UNCHANGED place
  PROVE  NumbersFit' /\ happened' \subseteq Told /\ IsFiniteSet(happened')
<1> DEFINE e == recorder[r].event
<1>1. /\ e \in Told /\ e \notin happened /\ e[1] = r /\ Recorded(e[3])
      /\ e[2] = Cardinality(ToldBy(r))
  BY EventIsNew
<1>2. happened' = happened \cup {e} /\ recorder' = [recorder EXCEPT ![r] = Idle]
  BY DEF Returned
<1>3. happened' \subseteq Told /\ IsFiniteSet(happened')
  BY <1>1, <1>2, FS_AddElement DEF LedgerTypeOK
<1>4. \A s : Cardinality(ToldBy(s)) \in Nat /\ IsFiniteSet(ToldBy(s))
  BY FS_Subset, FS_CardinalityType DEF LedgerTypeOK, ToldBy
<1> HIDE DEF e
<1>5. {g \in happened' : g[1] = r} = ToldBy(r) \cup {e} /\ e \notin ToldBy(r)
  BY <1>1, <1>2 DEF ToldBy
<1>6. Cardinality({g \in happened' : g[1] = r}) = Cardinality(ToldBy(r)) + 1
  BY <1>4, <1>5, FS_AddElement
<1>7. \A s : s # r => {f \in happened' : f[1] = s} = ToldBy(s)
  BY <1>1, <1>2 DEF ToldBy
<1>8. \A x : Recorded(x)' = Recorded(x)
  BY DEF Recorded
<1>9. ASSUME NEW s \in Recorder, recorder'[s].pc = "open"
      PROVE  LET f == recorder'[s].event
             IN f[1] = s /\ f[2] = Cardinality({g \in happened' : g[1] = s}) /\ Recorded(f[3])
  <2>1. s # r /\ recorder'[s] = recorder[s]
    BY <1>2, <1>9 DEF LedgerTypeOK, Idle
  <2>. QED
    BY <1>7, <1>9, <2>1 DEF NumbersFit
<1>10. ASSUME NEW f \in happened'
       PROVE  f[2] < Cardinality({g \in happened' : g[1] = f[1]}) /\ Recorded(f[3])
  <2>1. CASE f = e
    <3>1. f[2] = Cardinality(ToldBy(r)) /\ f[1] = r /\ Recorded(f[3])
      BY <1>1, <2>1
    <3>. QED
      BY <1>4, <1>6, <3>1
  <2>2. CASE f \in happened /\ f[1] = r
    <3>1. f[2] < Cardinality(ToldBy(r)) /\ Recorded(f[3]) /\ f[2] \in Nat
      BY <2>2 DEF NumbersFit, LedgerTypeOK, Told
    <3>. QED
      BY <1>4, <1>6, <2>2, <3>1
  <2>3. CASE f \in happened /\ f[1] # r
    BY <1>7, <2>3 DEF NumbersFit
  <2>. QED
    BY <1>2, <2>1, <2>2, <2>3
<1>. QED
  BY <1>3, <1>8, <1>9, <1>10 DEF NumbersFit, ToldBy


\* A line that is cut loses its own event and the next.
LEMMA WriteStep ==
  ASSUME LedgerInv, NEW r \in Recorder, recorder[r].pc = "open",
         NEW k \in {"whole", "newline", "cut", "split"},
         lines' = Written(r, Piece(r, k)), unended' = (k # "whole"),
         tears' = IF k = "whole" THEN tears ELSE tears + 1,
         Returned(r), UNCHANGED place
  PROVE  LedgerInv'
<1> DEFINE e == recorder[r].event
           p == Piece(r, k)
           last == Len(lines)
<1> USE DEF LedgerInv
<1>1. /\ e \in Told /\ e \notin happened /\ p \in PieceOf /\ p.event = e /\ p.kind = k
  BY EventIsNew DEF Piece, PieceOf
<1>2. happened' = happened \cup {e} /\ recorder' = [recorder EXCEPT ![r] = Idle]
  BY DEF Returned
<1>3. NumbersFit' /\ happened' \subseteq Told /\ IsFiniteSet(happened')
  BY NumbersStep
<1>4. lines' = Written(r, p)
  OBVIOUS
<1> HIDE DEF e, p
<1>5. /\ lines' \in Seq(TextLine) /\ lines' # <<>> /\ lines \in Seq(TextLine)
      /\ unended => /\ Len(lines') = last /\ last \in DOMAIN lines
                    /\ \A i \in DOMAIN lines : i # last => lines'[i] = lines[i]
                    /\ lines'[last] = Append(lines[last], p)
      /\ ~unended => /\ Len(lines') = last + 1
                     /\ \A i \in DOMAIN lines : lines'[i] = lines[i]
                     /\ lines'[last + 1] = <<p>>
  BY <1>1, <1>4, WrittenLines
<1>6. LedgerTypeOK'
  <2>1. recorder' \in [Recorder -> {Idle} \cup [pc : {"open"}, event : Told, at : Nat]]
    BY <1>2 DEF LedgerTypeOK
  <2>2. tears' \in Nat /\ unended' \in BOOLEAN
    BY DEF LedgerTypeOK
  <2>. QED
    BY <1>3, <1>5, <2>1, <2>2 DEF LedgerTypeOK, Told, TextLine
<1>7. /\ <<p>> # <<>> /\ Len(<<p>>) = 1 /\ <<p>>[1] = p
      /\ unended => /\ lines'[last] # <<>> /\ Len(lines'[last]) >= 2
                    /\ lines'[last][1] = lines[last][1]
  <2>1. unended => lines[last] \in TextLine /\ lines[last] # <<>>
    BY <1>5 DEF LinesTell
  <2>2. <<>> \in TextLine
    BY DEF TextLine
  <2>. QED
    BY <1>1, <1>5, <2>1, <2>2, AppendedPiece
<1>8. \A i \in DOMAIN lines : lines'[i] # <<>> /\ lines'[i][1] = lines[i][1]
  BY <1>5, <1>7 DEF LinesTell
<1>9. DOMAIN lines' = IF unended THEN DOMAIN lines ELSE DOMAIN lines \cup {last + 1}
  <2>1. DOMAIN lines' = 1..Len(lines') /\ DOMAIN lines = 1..last /\ last \in Nat
    BY <1>5
  <2>2. CASE unended
    BY <1>5, <2>1, <2>2
  <2>3. CASE ~unended
    <3>1. Len(lines') = last + 1
      BY <1>5, <2>3
    <3> HIDE DEF last
    <3>2. 1..(last + 1) = (1..last) \cup {last + 1}
      BY <2>1
    <3>. QED
      BY <2>1, <2>3, <3>1, <3>2
  <2>. QED
    BY <2>2, <2>3
<1>10. ~unended => lines'[last + 1] # <<>> /\ lines'[last + 1][1].event = e
  BY <1>1, <1>5, <1>7
<1>11. LinesTell'
  <2>1. \A i \in DOMAIN lines' : lines'[i] # <<>> /\ lines'[i][1].event \in happened'
    BY <1>2, <1>8, <1>9, <1>10 DEF LinesTell
  <2>2. \A i, j \in DOMAIN lines' : lines'[i][1].event = lines'[j][1].event => i = j
    BY <1>1, <1>8, <1>9, <1>10 DEF LinesTell
  <2>. QED
    BY <1>5, <2>1, <2>2 DEF LinesTell
<1>12. LossBounded'
  <2> DEFINE lost == happened \ Kept
             lost2 == happened' \ Kept'
  <2>1. Kept \subseteq Kept'
    <3> SUFFICES ASSUME NEW i \in DOMAIN lines, Readable(lines[i]), unended => i # last
                 PROVE  lines[i][1].event \in Kept'
      BY DEF Kept
    <3>1. i \in DOMAIN lines' /\ lines'[i] = lines[i] /\ i <= last
      BY <1>5, <1>9
    <3>2. Readable(lines'[i]) /\ i # Len(lines')
      BY <1>5, <3>1 DEF Readable
    <3>. QED
      BY <3>1, <3>2 DEF Kept, Readable
  <2>2. k = "whole" /\ ~unended => e \in Kept'
    <3> SUFFICES ASSUME k = "whole", ~unended
                 PROVE  e \in Kept'
      OBVIOUS
    <3>1. Readable(lines'[last + 1]) /\ last + 1 \in DOMAIN lines'
      BY <1>1, <1>5, <1>7, <1>9 DEF Readable
    <3>. QED
      BY <1>10, <3>1 DEF Kept
  <2>3. IsFiniteSet(lost) /\ Cardinality(lost) \in Nat
    BY FS_Subset, FS_CardinalityType DEF LedgerTypeOK
  <2>4. lost2 \subseteq lost \cup {e} /\ (k = "whole" /\ ~unended => lost2 \subseteq lost)
    BY <1>2, <2>1, <2>2
  <2> HIDE DEF lost, lost2
  <2>5. /\ IsFiniteSet(lost \cup {e}) /\ Cardinality(lost \cup {e}) \in Nat
        /\ Cardinality(lost \cup {e}) <= Cardinality(lost) + 1
    <3>1. /\ IsFiniteSet(lost \cup {e})
          /\ \/ Cardinality(lost \cup {e}) = Cardinality(lost)
             \/ Cardinality(lost \cup {e}) = Cardinality(lost) + 1
      BY <2>3, FS_AddElement
    <3>. QED
      BY <2>3, <3>1
  <2>6. /\ Cardinality(lost2) \in Nat /\ Cardinality(lost2) <= Cardinality(lost) + 1
        /\ k = "whole" /\ ~unended => Cardinality(lost2) <= Cardinality(lost)
    BY <2>3, <2>4, <2>5, FS_Subset, FS_CardinalityType
  <2>7. Cardinality(lost) + (IF unended THEN 1 ELSE 0) <= 2 * tears
    BY DEF LossBounded, lost
  <2>8. Cardinality(lost2) + (IF unended' THEN 1 ELSE 0) <= 2 * tears'
    <3>1. tears \in Nat /\ unended \in BOOLEAN
      BY DEF LedgerTypeOK
    <3>2. CASE k = "whole"
      <4>1. tears' = tears /\ ~unended'
        BY <3>2
      <4>2. CASE unended
        BY <2>3, <2>6, <2>7, <3>1, <4>1, <4>2
      <4>3. CASE ~unended
        BY <2>3, <2>6, <2>7, <3>1, <3>2, <4>1, <4>3
      <4>. QED
        BY <4>2, <4>3
    <3>3. CASE k # "whole"
      BY <2>3, <2>6, <2>7, <3>1, <3>3
    <3>. QED
      BY <3>2, <3>3
  <2>. QED
    BY <2>8 DEF LossBounded, lost2
<1>. QED
  BY <1>3, <1>6, <1>11, <1>12

LEMMA StillStep ==
  ASSUME LedgerInv, UNCHANGED <<place, lines, unended, happened, tears>>, LedgerTypeOK',
         NumbersFit'
  PROVE  LedgerInv'
<1>1. LinesTell' /\ LossBounded'
  BY DEF LedgerInv, LinesTell, LossBounded, Kept, Readable
<1>. QED
  BY <1>1 DEF LedgerInv

LEMMA OpenStep ==
  ASSUME LedgerInv, NEW r \in Recorder, NEW event \in Recordable, Open(r, event)
  PROVE  LedgerInv'
<1> USE DEF LedgerInv
<1> DEFINE e == <<r, Cardinality(ToldBy(r)), event>>
<1>1. e \in Told
  <2>1. Cardinality(ToldBy(r)) \in Nat
    BY FS_Subset, FS_CardinalityType DEF LedgerTypeOK, ToldBy
  <2>. QED
    BY <2>1 DEF Told
<1>2. recorder' = [recorder EXCEPT ![r] = [pc |-> "open", at |-> Len(lines), event |-> e]]
  BY DEF Open, ToldBy
<1>3. /\ UNCHANGED <<place, lines, unended, happened, tears>> /\ Recorded(event)
      /\ e[1] = r /\ e[2] = Cardinality(ToldBy(r)) /\ e[3] = event
  BY DEF Open
<1> HIDE DEF e
<1>4. LedgerTypeOK'
  <2>1. Len(lines) \in Nat
    BY DEF LedgerTypeOK
  <2>2. recorder' \in [Recorder -> {Idle} \cup [pc : {"open"}, event : Told, at : Nat]]
    BY <1>1, <1>2, <2>1 DEF LedgerTypeOK
  <2>. QED
    BY <1>3, <2>2 DEF LedgerTypeOK, Told, TextLine
<1>5. (\A s : ToldBy(s)' = ToldBy(s)) /\ (\A x : Recorded(x)' = Recorded(x))
  BY <1>3 DEF ToldBy, Recorded
<1>6. ASSUME NEW s \in Recorder, recorder'[s].pc = "open"
      PROVE  LET f == recorder'[s].event
             IN f[1] = s /\ f[2] = Cardinality(ToldBy(s)) /\ Recorded(f[3])
  <2>1. s = r => recorder'[s].event = e
    BY <1>2 DEF LedgerTypeOK
  <2>2. s # r => recorder'[s] = recorder[s]
    BY <1>2 DEF LedgerTypeOK
  <2>. QED
    BY <1>3, <1>6, <2>1, <2>2 DEF NumbersFit
<1>7. NumbersFit'
  <2>1. \A f \in happened : f[2] < Cardinality(ToldBy(f[1])) /\ Recorded(f[3])
    BY DEF NumbersFit
  <2>. QED
    BY <1>3, <1>5, <1>6, <2>1 DEF NumbersFit
<1>. QED
  BY <1>3, <1>4, <1>7, StillStep

LEMMA AbandonStep ==
  ASSUME LedgerInv, NEW r \in Recorder, Abandon(r)
  PROVE  LedgerInv'
<1> USE DEF LedgerInv
<1>1. recorder' = [recorder EXCEPT ![r] = Idle] /\ Idle.pc = "idle"
  BY DEF Abandon, Idle
<1>2. UNCHANGED <<place, lines, unended, happened, tears>>
  BY DEF Abandon
<1>3. LedgerTypeOK'
  <2>1. recorder' \in [Recorder -> {Idle} \cup [pc : {"open"}, event : Told, at : Nat]]
    BY <1>1 DEF LedgerTypeOK
  <2>. QED
    BY <1>2, <2>1 DEF LedgerTypeOK, Told, TextLine
<1>4. (\A s : ToldBy(s)' = ToldBy(s)) /\ (\A x : Recorded(x)' = Recorded(x))
  BY <1>2 DEF ToldBy, Recorded
<1>5. \A s \in Recorder : recorder'[s].pc = "open" => recorder'[s] = recorder[s]
  BY <1>1 DEF LedgerTypeOK
<1>6. NumbersFit'
  BY <1>2, <1>4, <1>5 DEF NumbersFit
<1>. QED
  BY <1>2, <1>3, <1>6, StillStep

LEMMA LedgerInvariant == LedgerSpec => []LedgerInv
<1>1. LedgerInit => LedgerInv
  <2> SUFFICES ASSUME LedgerInit
               PROVE  LedgerInv
    OBVIOUS
  <2>1. lines = <<>> /\ happened = {} /\ tears = 0 /\ unended = FALSE
    BY DEF LedgerInit
  <2>2. \A s \in Recorder : recorder[s].pc = "idle"
    BY DEF LedgerInit, Idle
  <2>3. LedgerTypeOK
    <3>1. lines \in Seq(TextLine)
      BY <2>1
    <3>2. tears \in Nat /\ unended \in BOOLEAN
      BY <2>1
    <3>3. recorder \in [Recorder -> {Idle} \cup [pc : {"open"}, event : Told, at : Nat]]
      BY DEF LedgerInit
    <3>4. happened \subseteq Told /\ IsFiniteSet(happened)
      BY <2>1, FS_EmptySet
    <3>. QED
      BY <3>1, <3>2, <3>3, <3>4 DEF LedgerTypeOK
  <2>4. NumbersFit /\ LinesTell
    BY <2>1, <2>2 DEF NumbersFit, LinesTell
  <2>5. happened \ Kept = {}
    BY <2>1
  <2>6. LossBounded
    BY <2>1, <2>5, FS_EmptySet DEF LossBounded
  <2>. QED
    BY <2>3, <2>4, <2>6 DEF LedgerInv
<1>2. LedgerInv /\ [LedgerNext]_ledgerVars => LedgerInv'
  <2> SUFFICES ASSUME LedgerInv, [LedgerNext]_ledgerVars
               PROVE  LedgerInv'
    OBVIOUS
  <2>1. ASSUME NEW r \in Recorder, NEW event \in Recordable, Open(r, event)
        PROVE  LedgerInv'
    BY <2>1, OpenStep
  <2>2. ASSUME NEW r \in Recorder, NEW kind \in {"newline", "cut", "split"}, Tear(r, kind)
        PROVE  LedgerInv'
    BY <2>2, WriteStep DEF Tear
  <2>3. ASSUME NEW r \in Recorder, Write(r)
        PROVE  LedgerInv'
    BY <2>3, WriteStep DEF Write
  <2>4. ASSUME NEW r \in Recorder, Abandon(r)
        PROVE  LedgerInv'
    BY <2>4, AbandonStep
  <2>5. CASE UNCHANGED ledgerVars
    <3>1. UNCHANGED <<place, lines, unended, recorder, happened, tears>>
      BY <2>5 DEF ledgerVars
    <3>2. LedgerTypeOK' /\ NumbersFit'
      BY <3>1 DEF LedgerInv, LedgerTypeOK, NumbersFit, ToldBy, Recorded
    <3>. QED
      BY <3>1, <3>2, StillStep
  <2>. QED
    BY <2>1, <2>2, <2>3, <2>4, <2>5 DEF LedgerNext
<1>. QED
  BY <1>1, <1>2, PTL DEF LedgerSpec

\* LedgerIsFaithful, for any number of recordings: the events that the
\* dashboard reads have happened and are each there once, and a line that is
\* cut by os.write takes two events from every count of every report at most.
THEOREM LedgersAreFaithful == LedgerSpec => []LedgerIsFaithful
<1>1. ASSUME LedgerInv
      PROVE  LedgerIsFaithful
  <2> USE <1>1
  <2>1. Discovered \subseteq happened /\ Kept \subseteq Discovered
    BY DEF LedgerInv, LinesTell, Discovered, Kept
  <2>2. \A f \in happened : Recorded(f[3])
    BY DEF LedgerInv, NumbersFit
  <2>3. ~place.tracked => lines = <<>>
    <3>1. ~place.tracked => happened = {}
      BY <2>2 DEF Recorded
    <3>2. lines \in Seq(TextLine) /\ \A i \in DOMAIN lines : lines[i][1].event \in happened
      BY DEF LedgerInv, LinesTell, LedgerTypeOK
    <3>. QED
      BY <3>1, <3>2
  <2>4. place.framework => \A f \in Discovered : f[3].routing # "none"
    BY <2>1, <2>2 DEF Recorded
  <2>5. Collection(Discovered) = "partial" => Collection(happened) = "partial"
    BY <2>1 DEF Collection, Runs, OfType
  <2>6. Few(happened, Discovered, 2 * tears)
    <3>1. IsFiniteSet(happened) /\ tears \in Nat
      BY DEF LedgerInv, LedgerTypeOK
    <3>2. happened \ Discovered \subseteq happened \ Kept
      BY <2>1
    <3>3. /\ IsFiniteSet(happened \ Kept) /\ IsFiniteSet(happened \ Discovered)
          /\ Cardinality(happened \ Kept) \in Nat
          /\ Cardinality(happened \ Discovered) \in Nat
          /\ Cardinality(happened \ Discovered) <= Cardinality(happened \ Kept)
      BY <3>1, <3>2, FS_Subset, FS_CardinalityType
    <3>4. Cardinality(happened \ Kept) + (IF unended THEN 1 ELSE 0) <= 2 * tears
      BY DEF LedgerInv, LossBounded
    <3>5. Cardinality(happened \ Discovered) <= 2 * tears /\ 2 * tears \in Nat
      BY <3>1, <3>3, <3>4
    <3>. QED
      BY <2>1, <3>1, <3>3, <3>5 DEF Few
  <2>7. LET n == 2 * tears IN
          /\ Close(QualityGate(Discovered), QualityGate(happened), n)
          /\ Close(RoutingMetrics(Discovered), RoutingMetrics(happened), n)
          /\ Close(ExecutionMetrics(Discovered), ExecutionMetrics(happened), n)
          /\ Close(WaveMetrics(Discovered), WaveMetrics(happened), n)
          /\ Close(PhaseMetrics(Discovered), PhaseMetrics(happened), n)
          /\ Close(CohortMetrics(Discovered), CohortMetrics(happened), n)
          /\ Close(UpgradeMetrics(Discovered), UpgradeMetrics(happened), n)
    BY <2>6, QualityIsClose, RoutingIsClose, ExecutionIsClose, WavesAreClose,
       PhasesAreClose, CohortsAreClose, UpgradesAreClose
  <2>8. \A i, j \in DOMAIN lines :
          Readable(lines[i]) /\ Readable(lines[j]) /\ lines[i][1].event = lines[j][1].event
            => i = j
    BY DEF LedgerInv, LinesTell
  <2>. QED
    BY <2>1, <2>3, <2>4, <2>5, <2>7, <2>8 DEF LedgerIsFaithful
<1>. QED
  BY <1>1, LedgerInvariant, PTL
=============================================================================
