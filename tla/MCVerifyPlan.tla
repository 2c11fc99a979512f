----------------------------- MODULE MCVerifyPlan -----------------------------
(***************************************************************************)
(* What the framework's checks conclude about a project: a verification    *)
(* run and its cache, the Waves of a change, the order, the board and the  *)
(* scopes of all changes, and the ledger of what was run.  Each reads      *)
(* files that others write and none waits for another, so that they are    *)
(* checked side by side: the first state chooses which one moves.          *)
(***************************************************************************)
EXTENDS VerificationCache, WavePlan, VerificationPlan, RuntimeEvents, ChangeOrder,
        ChangeBoard, PathScopes

VARIABLE part   \* which one moves

-----------------------------------------------------------------------------
\* Cache: a file whose name git prints in quotes is not there yet; contents are
\* alike that are the same.
OnlyMain == [p \in VPath |-> IF p = "main" THEN "first" ELSE "missing"]
Same == {<<c, c>> : c \in VVersion}

-----------------------------------------------------------------------------
\* Three tasks: chains, circles, an unknown id, the same file named twice, an
\* unsafe one
Says(deps, safe) == [deps : deps, files : {{}, {"f"}}, safe : safe]
ThreeTasks ==
  {<<t1, t2, t3>> :
     t1 \in Says({{}, {3}}, BOOLEAN), t2 \in Says({{}, {1}, {9}}, {TRUE}),
     t3 \in Says({{}, {1}, {1, 2}}, BOOLEAN)}

-----------------------------------------------------------------------------
\* Paths: two tests; three sources, of which "named" bears the name of t1 and
\* "both" does too but has a rule for t2; one that everything depends on; a
\* module file; a framework file and a change, and a source that is part of the
\* framework; a guide; one outside; a change that git prints in quotes.
ManyPaths == {"t1", "t2", "named", "both", "global", "module", "harness", "change",
              "workflow", "guide", "outside", "umlaut", "quoted"}
Quotes == [p \in ManyPaths |-> IF p = "umlaut" THEN "quoted" ELSE p]
Namesakes == [p \in ManyPaths |-> IF p \in {"named", "both"} THEN {"t1"} ELSE {}]

GoodPolicy == [wellFormed |-> TRUE, place |-> [t \in Test |-> "layer"], declared |-> {},
               rules |-> {[sources |-> {"both"}, tests |-> {"t2"}]},
               global |-> {"global"}, attributes |-> {{"t1"}}]
Policies == {GoodPolicy, [GoodPolicy EXCEPT !.wellFormed = FALSE],
             [GoodPolicy EXCEPT !.place["t2"] = "nowhere"]}

Able(enabled, optional, installed) ==
  [c \in Capability |-> [enabled |-> enabled, optional |-> optional, command |-> TRUE,
                         installed |-> installed]]
Plain0 == [changed |-> {}, untold |-> {}, config |-> "good", replay |-> FALSE,
           embedded |-> FALSE, index |-> TRUE, changes |-> TRUE, policyFile |-> TRUE,
           policy |-> GoodPolicy, resolved |-> TRUE, ability |-> Able(TRUE, FALSE, TRUE),
           failing |-> {}, erring |-> {}]
ManyWorlds ==
  {[Plain0 EXCEPT !.changed = c, !.failing = f] :
     c \in {{p} : p \in ManyPaths} \cup {{}, {"named", "harness"}}, f \in {{}, {"t1"}, {"t2"}}}
  \cup {[Plain0 EXCEPT !.changed = c, !.erring = e, !.failing = {"t1", "t2"}] :
          c \in {{"named"}, {"both"}}, e \in {{"t1"}, {"t2"}}}
  \cup {[Plain0 EXCEPT !.changed = {"module", "workflow", "change"}, !.untold = u,
                       !.policyFile = FALSE] :
          u \in SUBSET {"module", "workflow", "change"}}
  \cup {[Plain0 EXCEPT !.changed = c, !.policyFile = FALSE, !.resolved = r, !.ability = a,
                       !.changes = r, !.embedded = ~r, !.replay = ~r, !.index = r] :
          c \in {{}, {"module"}, {"harness", "change"}, {"change"}}, r \in BOOLEAN,
          a \in {Able(TRUE, FALSE, TRUE), Able(TRUE, FALSE, FALSE), Able(TRUE, TRUE, FALSE),
                 Able(FALSE, FALSE, TRUE)}}
  \cup {[Plain0 EXCEPT !.untold = u, !.config = k, !.policy = y, !.changed = {"both"},
                       !.failing = {"t2"}] :
          u \in {{}, {"both"}}, k \in {"good", "bad", "bad policy"}, y \in Policies}

ManyRequests ==
  {r \in [scope : {"both", "harness", "project"}, changedOnly : BOOLEAN,
          mode : {"none", "normal", "ci"}, fixture : {"none", "there", "missing"},
          change : {"none", "there", "missing"}, role : BOOLEAN,
          checks : {{}, {"risk-triage"}}] :
     /\ r.fixture # "none" => r.scope = "both" /\ r.mode = "none" /\ r.change = "none"
     /\ r.change # "none" => ~r.changedOnly /\ r.mode = "none"
     /\ r.role = (r.change = "there") /\ (r.checks # {}) = r.role
     /\ r.mode # "none" => ~r.changedOnly}

-----------------------------------------------------------------------------
\* Events: attempts of a logical run, a retry that does not say that it is the
\* last; a probe, a ci run with an escape; a Wave joined and one that was not
Attempt(s, k, t) == [Event EXCEPT !.run = "l1", !.status = s, !.kind = k, !.terminal = t,
                                  !.class = FailureClass(s, {"policy"})]
ManyEvents ==
  {Attempt("failed", "primary", "yes"), Attempt("passed", "retry", "yes"),
   Attempt("passed", "retry", "unsaid"),
   [Event EXCEPT !.routing = "shadow", !.escape = "yes", !.phase = "apply"],
   [Event EXCEPT !.routing = "normal", !.kind = "probe"],
   [Event EXCEPT !.type = "wave_run", !.status = "completed", !.wide = TRUE,
                 !.tasks = {"completed", "timed_out"}, !.cleanup = "required"],
   [Event EXCEPT !.type = "wave_run", !.status = "completed", !.wide = TRUE,
                 !.tasks = {"running"}, !.cleanup = "failed"],
   [Event EXCEPT !.type = "upgrade_run", !.status = "failed"],
   [Executed("cc-context-pack", "passed") EXCEPT !.reused = TRUE],
   [Event EXCEPT !.type = "phase_run", !.status = "blocked", !.terminal = "no", !.phase = "apply"]}

-----------------------------------------------------------------------------
\* Where the parts stand that do not move
CacheRests == CacheInit /\ objection = <<"main", "missing">>
PlanRests == /\ declared = [t \in Task |-> [deps |-> Unknown, files |-> {}, safe |-> TRUE]]
             /\ readable = TRUE /\ stored = Absent /\ checked = Unchecked /\ planEdits = 0
VerifyRests == /\ request = "none" /\ world = "none"
               /\ seen = {} /\ stage = "done" /\ results = {} /\ selection = NoSelection
               /\ escape = "unknown" /\ report = NoReport
LedgerRests == LedgerInit /\ place = [tracked |-> TRUE, framework |-> FALSE]
OrderRests == OrderInit /\ dependsOn = [c \in Change |-> {}]
BoardRests == BoardInit
ScopesRest == /\ first = <<"a">> /\ second = <<"a">>
              /\ declaration = [done |-> TRUE, parallelSafe |-> TRUE, dependent |-> TRUE]

\* One of the changes may name a change that is not there.  Nothing tells the
\* changes apart, so that it may be the first.
OneWaits == \A c \in Change \ {"c1"} : dependsOn[c] \cap Ghost = {}

NotCache == PlanRests /\ VerifyRests /\ LedgerRests /\ OrderRests /\ BoardRests /\ ScopesRest
Init ==
  \/ part = "cache" /\ CacheInit /\ NotCache
  \/ part = "plan" /\ PlanInit /\ CacheRests /\ VerifyRests /\ LedgerRests
                   /\ OrderRests /\ BoardRests /\ ScopesRest
  \/ part = "verify" /\ VerifyInit /\ CacheRests /\ PlanRests /\ LedgerRests
                     /\ OrderRests /\ BoardRests /\ ScopesRest
  \/ part = "ledger" /\ LedgerInit /\ CacheRests /\ PlanRests /\ VerifyRests
                     /\ OrderRests /\ BoardRests /\ ScopesRest
  \/ part = "order" /\ OrderInit /\ OneWaits /\ CacheRests /\ PlanRests /\ VerifyRests
                    /\ LedgerRests /\ BoardRests /\ ScopesRest
  \/ part = "board" /\ BoardInit /\ CacheRests /\ PlanRests /\ VerifyRests
                    /\ LedgerRests /\ OrderRests /\ ScopesRest
  \/ part = "scopes" /\ ScopesInit /\ CacheRests /\ PlanRests /\ VerifyRests
                     /\ LedgerRests /\ OrderRests /\ BoardRests

Next ==
  /\ \/ /\ part = "cache" /\ CacheNext
        /\ UNCHANGED <<planVars, verifyVars, ledgerVars, orderVars, boardVars, scopeVars>>
     \/ /\ part = "plan" /\ PlanNext
        /\ UNCHANGED <<cacheVars, verifyVars, ledgerVars, orderVars, boardVars, scopeVars>>
     \/ /\ part = "verify" /\ VerifyNext
        /\ UNCHANGED <<cacheVars, planVars, ledgerVars, orderVars, boardVars, scopeVars>>
     \/ /\ part = "ledger" /\ LedgerNext
        /\ UNCHANGED <<cacheVars, planVars, verifyVars, orderVars, boardVars, scopeVars>>
     \/ /\ part = "order" /\ OrderNext
        /\ UNCHANGED <<cacheVars, planVars, verifyVars, ledgerVars, boardVars, scopeVars>>
     \/ /\ part = "board" /\ BoardNext
        /\ UNCHANGED <<cacheVars, planVars, verifyVars, ledgerVars, orderVars, scopeVars>>
     \/ /\ part = "scopes" /\ ScopesNext
        /\ UNCHANGED <<cacheVars, planVars, verifyVars, ledgerVars, orderVars, boardVars>>
  /\ UNCHANGED part

Spec ==
  Init /\ [][Next]_<<part, cacheVars, planVars, verifyVars, ledgerVars, orderVars,
                     boardVars, scopeVars>>
=============================================================================
