# Cairness in TLA+

Cairness is a governance framework for AI-assisted development. Agents work on
*changes*; a change has a `spec.md`, a log `events.jsonl`, and goes through the
lifecycle commands `cc-propose`, `cc-apply`, `cc-review`, `cc-fix`, `cc-test`
and `cc-archive`. The commands themselves are instructions to an agent; what
holds them together are Python scripts (`cairn-core/scripts/cc-*`) and the
library `cairn-core/scripts/harness_runtime`. This directory holds models of
the parts of it that keep state, with model-checking runs and proofs.

Nothing in those scripts is locked between processes. Several agents, a retry
after a kill and a background hook may touch the same files, and one component
runs threads. That is where tests reach least, and what the models are about.

## 1. The system

| Part | State | Operations | Interacts with | What makes it correct |
| --- | --- | --- | --- | --- |
| **Wave execution** (`wave_execution.py`) | a ledger of task statuses under a lock, futures, a thread pool | `execute_wave`, `WaveLedger.start`, `finish` | the adapter's `dispatch` and `cleanup` callbacks; its summary goes to `cc-wave-plan` | the Wave returns only when joined; every status is earned; counts are right; no dispatch holds it beyond its timeout |
| **Change lifecycle** (`cc-state-transition`, `cc-event-write`, `cc-event-check`, `events.py`, `branch_contract.py`) | `spec.md` status, `events.jsonl` | precheck, append event, rewrite status; consistency check | every lifecycle command, hooks, `cc-verify` | no silent drift between the two files; no advance is taken back; review before archive |
| **Loop session** (`loop_runtime.py`, `cc-loop-step`) | a JSON state file, a session audit, a phase audit | start, record, pause, resume | the manifests' `loop_continuation`, telemetry | history is a path of the continuation graph; endings are final; the logs tell the same story |
| **Wave planning** (`wave_plan.py`, `cc-wave-plan`) | `wave-plan.json` | plan, write, check | `tasks.md`, Wave execution | every task in one wave, dependencies first, no entry declared twice inside a wave; a checked plan fits the present `tasks.md` |
| **Verification cache** (`verification_cache.py`, `verification_runner.py`) | passed results under a content key | key, load, run, save | git, the worktree | a reused pass is a pass of the present tree |
| **Verification planning** (`cc-verify`, `verification_*.py`, `execution_policy.py`, `test_policy.py`) | none between runs | resolve mode, plan steps, select tests, aggregate | git, the profile, the test policy | a failure is never lost; a narrowed run misses nothing that the change calls for |
| **Deployment** (`cc-cairn.py` init, update, uninstall, `adapter_installation.py`, `onboarding.py`) | trees, backups, staged trees, assets, `install.yaml`, git hooks | install, replace, roll back, remove | the system installation, other projects' updates, the user's edits | no single failure or kill loses the user's work; a rollback restores; the record is true |
| **Knowledge index** (`cc-cairn.py` add-knowledge, `cc-index-check`) | `index.md` | add, remove, rename, roll back | overlapping calls | other entries stay |
| **Profiles and loop switch** (`cc-cairn.py` loop, profile, `cc-readset`) | the profile, `loop-config.yaml`, generated read sets | enable, disable, undo | overlapping calls | all or nothing; no loop without a trust envelope |
| **Observability** (`observability.py`) | `runtime-events.jsonl` | record, report | everybody, best effort, without a lock | what is reported has happened; a torn line costs little |
| **Dependencies** (`deps.py`, `cc-deps`) | none | order, check, orphans, conflicts | specs, tasks, `pre-commit` | circles are found, the order is safe, declared work is no orphan |
| **Intent routing** (`intent_router.py`, `cc-start`) | none | route | specs, reviews, dependencies | only legal commands are named |
| **Doctor** (`doctor.py`, `cmd_doctor`) | none; `--fix --apply` makes state directories | diagnose, fix, undo | what the deployment left, everybody who writes into the state directories | what is damaged is reported and what is whole is not; a fix is all or nothing |
| **Scopes** (`change_docs.py`) | none | match, overlap, label | `deps.py`, `cc-spec-scope-check` | an overlap is reported exactly if there is one |
| Loop gate (`cc-self-eval`) | the loop audit | checks, decision | Loop session, lifecycle | nothing outside the trust envelope is autonomous |
| Hooks (`hooks/`) | none | `pre-commit` refuses orphans, `no-spec-no-code` warns | git, lifecycle | – |
| Context, configuration, context packs, topics, versioning | none | discover, parse, select | everybody | stateless |
| Document, schema, role, evidence checks and lints | none | validate | `cc-verify`, `pre-commit` | stateless |
| Adapters, evals, benchmark, optimization, generation, upgrade, legacy audit | reports | offline | – | – |

The parts in bold are modelled, wholly or for the operations that section 2
names. `PROJECT.json` lists every part with its status and the hazards with
their lines.

### Hard behaviours

* *Wave*: pool threads start tasks while the main thread expires them; the
  status is read without the lock in one place; a dispatch may hang; a thread
  may outlive the call; `cleanup` may do anything, or not come back.
* *Lifecycle*: check and write are far apart, with a subprocess in between;
  `write_text` truncates before it writes; event ids have a resolution of one
  second.
* *Loop*: up to four writes to three files per call; the whole state is written
  back from a copy loaded at the beginning.
* *Deployment*: a dozen renames and copies in a row, undone by snapshots; a
  kill leaves any prefix of them; some steps are outside of every `try`; the
  rollback fails or is killed in turn, while it truncates what it puts back; a
  single backup that the next call removes; the source of the copy may be
  replaced while it is read.
* *add-knowledge, loop switch*: read, decide, write, check by a subprocess,
  write the old text back – with nothing to tell that somebody wrote between.
* *Verification*: git, files and results are looked at at different moments;
  git that fails looks like nothing changed, a renaming is listed under its new
  name alone, and a name that is not ASCII comes in quotes and is no file's.
* *Doctor*: several `mkdir` in a row, undone from a list, while another fix or
  any other command makes and fills the same directories.
* *Events*: appends by any number of processes, writes cut short.
* *Sets*: the graph algorithms of `deps.py` walk sets in an order that differs
  from run to run.

## 2. Modules

| Module | Models | Depends on |
| --- | --- | --- |
| `WaveJoin` | abstract: what a Wave promises its caller | – |
| `WaveExecution` | `execute_wave`, `WaveLedger`, the pool | `INSTANCE WaveJoin` |
| `WaveExecutionProofs` | theorems | `WaveExecution`, TLAPS |
| `ChangeLifecycle` | `cc-state-transition` and `cc-event-write` on one change | – |
| `ChangeLifecycleProofs` | theorems | `ChangeLifecycle`, TLAPS |
| `LoopSession` | `cc-loop-step` on one session | – |
| `LoopSessionProofs` | theorems | `LoopSession`, TLAPS |
| `Deployment` | `cc-cairn` init, update, uninstall on one project | – |
| `Doctor` | `cc-cairn doctor`, its report and its fix | `Deployment` |
| `DeploymentProofs` | theorems | `Doctor`, TLAPS |
| `KnowledgeIndex` | `cc-cairn add-knowledge --apply` | – |
| `ProfileSwitch`, `ProfileSwitchProofs` | `cc-cairn loop enable/disable`, `profile set`; theorems | –; TLAPS |
| `VerificationCache` | reuse of results | – |
| `TestRouting` | `tests/test-policy.yaml` and the selection of tests | – |
| `VerificationPlan` | one run of `cc-verify` | `TestRouting` |
| `WavePlan` | `plan_waves` and `cc-wave-plan` | – |
| `RuntimeEvents` | the log of `observability.py` and its reports | – |
| `VerificationProofs` | theorems | `VerificationCache`, `VerificationPlan`, `RuntimeEvents`, TLAPS |
| `ChangeOrder` | `cc-deps order` | – |
| `ChangeBoard` | all changes of a project, `cc-start`, `cc-deps check` and `orphans`, `pre-commit` | – |
| `DependencyProofs` | theorems | `ChangeOrder`, `ChangeBoard`, TLAPS |
| `PathScopes` | the scopes of `change_docs.py` and the conflicts of `deps.py` | – |
| `RecursionProofs` | theorems | `WavePlan`, `PathScopes`, `KnowledgeIndex`, TLAPS |
| `MCWaveExecution`, `MCChangeLifecycle`, `MCLoopSession` | values of the constants for TLC | the module of the same name |
| `MCCairnCli` | the four kinds of commands of `cc-cairn`, side by side | `Doctor`, `KnowledgeIndex`, `ProfileSwitch` |
| `MCVerifyPlan` | what is concluded about a project, side by side | the other eight above |

Definitions named `...Slip` stand before the definition they vary. No action
uses them: each is the code as it would be with a plausible mistake (a dropped
guard, two steps swapped, a stale field). Put in place of the definition, each
makes TLC find the property that `PROJECT.json` pairs it with violated. They
document which property guards which line.

### WaveExecution

One main thread (`pc`, `cursor`) and anonymous pool threads. Tasks are the
positions of `ledger.task_ids`.

| Model | Code |
| --- | --- |
| `ledger`, `active`, `maxActive` | `entries[t].status`, `_active_count`, `_max_active` |
| `work[t]` | where the future of `t` is: not submitted, in the executor's queue, claimed by a thread that has not called `ledger.start`, dispatching, done, cancelled |
| `answer[t]` | what `dispatch` returned or raised |
| `orphans`, `cleanupStatus` | the locals of the same purpose |
| `outcome` | a result, `WaveJoinError`, or an uncaught `TimeoutError` |
| `Submit`, `Collect`, `Joined`, `TimeoutFires`, `ExpireLook`, `ExpireMark`, `Settle`, `CleanupReplies`, `CleanupRaises`, `Close` | the lines of `execute_wave` from 201 to 252, in order |
| `Claim`, `StartTask`, `StartRefused`, `DispatchEnds` | a pool thread: takes a future, `ledger.start`, `dispatch` |
| `Start`, `Finish` | the critical sections of the ledger |

The granularity is the code's: what is done under the lock is one step; the
unlocked read of an entry's status (line 216) and the `finish` that follows are
two. `future.done()` and `future.cancel()` are one step, because a change
between them leads to the same states as a change before them.
`TimeoutCaught` says whether `concurrent.futures.TimeoutError` is the builtin
one that line 212 names: it is from Python 3.11 on, `pyproject.toml` allows 3.9.
The environment is what an adapter may do: end a dispatch in any way of
`Outcomes`, or never; answer any subset of the orphans from `cleanup`, or raise.

`WaveJoin` says what the caller may rely on: statuses settle once, a result
is given only when all have settled, and the evidence does not change after.
`WaveExecution` implements it with `status <- ledger` and `gate` computed from
`pc` and `outcome`.

### ChangeLifecycle

| Model | Code |
| --- | --- |
| `spec`, `torn` | the `status:` of `spec.md`; truncated by `write_text` and not filled yet |
| `log` | `events.jsonl`, each event with command, destination and the second in its id |
| `pc[a]`, `job[a]` | an invocation of agent `a` and its arguments |
| `Invoke` | an agent calls with a `--from` its manifest lists and the `--to` that `main` insists on – also one that does not match `spec.md` |
| `PrecheckPasses`, `TransitionRefused` | `transition` to the event, with the branch contract as a possible refusal |
| `StampEvent`, `AppendEvent` | `cc-event-write`: id, duplicate guard; append |
| `ReadSpec`, `TruncateSpec`, `FillSpec` | `write_spec_status` |
| `Scaffold`, `MarkApplying` | what agents write into `spec.md` by hand |
| `Flagged` | `cc-event-check` E_EVENT020 |
| `Crash`, `Tick` | a kill between two file accesses; a second passes |

`faults` is a history variable: whether calls overlapped, one was killed, or an
agent lied about `--from`. The properties that need one of these not to happen
say so, as narrowly as they can.

### LoopSession

| Model | Code |
| --- | --- |
| `file` | the JSON state: status, entry command, expected command, steps, paused |
| `audit`, `phases` | the two JSONL logs |
| `todo[c]` | the writes that `c`'s call has decided on, with the values computed from the copy it loaded |
| `Start`, `Record`, `Pause`, `Resume` | load, check, decide: the four functions up to their first write |
| `Perform` | the next `_write_json`, `_append_audit` or `_append_phase_audit` |
| `Crash` | a kill between two writes |
| `NextOf`, `OnPass`, `ConditionKnown`, `HasContinuation` | the decision, with the graph of the manifests |

Loading and deciding is one step: what a call reads is the state file, once, and
nothing it computes can be seen before its first write.

### Deployment, KnowledgeIndex, ProfileSwitch

| Model | Code |
| --- | --- |
| `tree`, `backup`, `staged` | per adapter: the framework directory, `<dir>.bak`, `.<dir>.cairness-uninstall` – each with the release of its files, its `COMMIT`, and the editions of the user's own files and of his changes to framework files |
| `asset`, `away`, `meta`, `hook`, `seeded` | `.agents/skills`, the same staged, `install.yaml`, `.git/hooks/pre-commit` with its two backups, what `init` creates |
| `core`, `upstream`, `elsewhere` | the system installation, what git brings, another project's update under way |
| `job` | the command under way: its step, and the snapshots that it took |
| `SystemSwap` … `SyncProject` | `sync_system_install`, `sync_project` up to the transaction |
| `ClearBackup`, `MoveAside`, `CopyContent`, `CopyCommit`, `SwapIn`, `CarryForward` | `_replace_framework_dir`, a step per effect on disk; files and `COMMIT` in either order |
| `CopyAssets`, `Seed`, `MoveHook`, `CopyHook`, `Publish` | the rest of the transaction; the asset is copied over the old one, so that a file which a release has dropped stays and the whole is of no release (`Strange`) |
| `StageAsset` … `RemoveStaged` | `cmd_uninstall` |
| `ReplaceFails` | `_replace_framework_dir` raises: within its `try`, which puts the old tree back, or outside of it, at `mkdtemp` (289) after the old tree was renamed and while files are carried forward, which nobody catches |
| `Raises`, `HookCut` | a later step raises, perhaps with a hook half written |
| `RestoreTree`, `RestoreFiles`, `Unstage` | the `except` branches, when they come to their end |
| `RestoreTreeStops`, `RestoreFilesStop`, `UnstageStops` | the same, killed or raising in turn: between two files, or within one, which is truncated first |
| `Kill`, `UserWorks` | a kill between any two steps or within the writing of the asset, a hook or `install.yaml`; edits while no command runs |

A history variable, `past.seen`, tells what has happened that a property excludes:
a command was *killed*, or *lost* (it ended without a rollback to its end); a hook
was *torn* while a rollback wrote it anew; another command was given after one of
these (*retry*); updates of the system installation *overlap*ped; a release *dropped*
a file of the asset, or the user *touched* it.

In `KnowledgeIndex` a call reads the index (`Decide…`), has errors counted
(`CountBefore`), writes (`WriteIndex`), has them counted again and keeps or
undoes (`CountAfter`, `RollBackIndex`); the index is the sequence of its lines, and
a call names `MaxBatch` files at most. The three edits are `Added`, `Removed` and
`Renamed`.
In `ProfileSwitch` a switch seeds the envelope, sets the profile, derives and
writes read sets file by file, verifies, and on a failure restores the three
(`RestoreProfile`, `RestoreEnvelope`, `RestoreReadsets`).

### Doctor

Doctor reads what a deployment left; its report is an operator on the state of
`Deployment` (`DoctorIssues`), made of the checks that can come out differently for
the trees that a deployment can leave: `InternalIssues` is `cc-doctor-check` of
the framework directory that `cmd_doctor` picks, `HostAssetIssues` the assets of
the adapter's manifest, and the state directories. Where the project's own
framework is missing, the package that doctor runs from is looked into instead
(`OwnFramework`), so that damage is told only by what the two do not share.

| Model | Code |
| --- | --- |
| `place`, `filled` | what is at each state directory and at `.cairness`; where somebody has put a file |
| `fixer[c]` | a call of `doctor --fix --apply`: `plan` and `todo` from the report, `missing` of the present directory, `created` as `apply_fix_plan` keeps it |
| `BeginFix`, `ReportAgain` | the report before and after, in `cmd_doctor` |
| `NextDirectory`, `MakeDirectory`, `MakeFails` | one turn of the loop, one `mkdir` |
| `UndoDirectory` | one `rmdir` of the handler |
| `KillFix`, `OthersWrite`, `OthersBlock`, `ProfileChanges` | a kill between two steps; what other commands and people do meanwhile |

`made` and `met` are history variables: which directories a call made, and whether
another's undo removed one since it began.

### VerificationCache, VerificationPlan, TestRouting

`VerificationCache` has the steps of one cached step: `ListChanges` (git),
`DigestFiles`, `Reuse` or `Miss`, `Save` or `NotSaved`; `Edit`, `Track` (`git add`)
and `Commit` come between any two. What git lists is computed from worktree, index
and commit: `Diff` leaves the old name of a renamed file out (`Renamings` are pairs
of a file that is gone and a new one whose contents are `Alike`; `Pairing` is git's
choice among them, `Hidden` the old names), `Others` what is ignored, and a name in
`Unresolved` is printed in quotes, so that the code finds no file of that name.
`VerificationPlan` is one run of `cc-verify`: `ResolveMode`,
`RunHarness`, `RunTests`, `RunProject`, `BuildReport`, over a `request` and a
`world` (what changed, which of it git does not tell, because it fails or has seen a
renaming, the configuration, tools, failing tests, test files that cannot be
collected). `Printed` is how git writes a name: the code takes what stands in quotes
for a path of its own. Its steps are sequential and nothing else moves, so a group of steps is
one action. `TestRouting` is `select_tests` with the validation of the policy.

### WavePlan, ChangeOrder, ChangeBoard, PathScopes, RuntimeEvents

`WavePlan` computes `plan_waves` (`Layers`, from the recursive function `Left`,
`SplitLayer`; two tasks conflict if they declare the same `FileEntry`, a string, as in
`_detect_layer_overlap`) and keeps what `cc-wave-plan` stored and checked, with
`EditTasks` and `TearPlan` in between. `ChangeOrder` is the depth-first search of
`detect_cycles` and the queue of `topological_sort`, one step per iteration, the
next element of a set being any. `ChangeBoard` has all changes of a project
(status, dependencies, declared files, findings, files that are cut short), what
is staged in git and what somebody edited beside all changes; routes and orphans
are operators on it. A name in `Misprinted` is one that git prints in quotes or from
the root of a repository above the project. `PathScopes` has two scopes as sequences of segments.
`RuntimeEvents` has the log as lines of pieces, a recorder per process, and the
reports as operators over the events that can still be read.

## 3. Runs

Each run finishes within four minutes.

| Run | Instance | Shows |
| --- | --- | --- |
| `wave_join` | 3 tasks, 2 threads, no timeout; a dispatch succeeds, fails or raises | the gate opens only when nothing is under way, the Wave ends with a result |
| `wave_timeout` | the same with a timeout at any moment and any cleanup | the count, earned statuses, the reasons of a refusal, frozen evidence, that no hung dispatch holds the Wave, and the refinement of `WaveJoin` |
| `lifecycle` | 2 agents, 3 events, 2 seconds, 1 kill | `spec.md` never ahead; no archive without review; no false alarm; unique ids and no retreat for serial calls; which kills E_EVENT020 does see |
| `loop_session` | 2 callers, 4 calls, 1 kill | history follows the graph under all interleavings; fixes are reviewed; what the logs guarantee; endings final for serial calls |
| `cairn_cli` | 2 adapters, one with an asset; 3 hooks, 2 releases, 2 commands, 1 edit, 1 failure or kill anywhere, in a rollback too / 2 overlapping add-knowledge over 4 files / 2 overlapping switches with 2 failures or kills / 2 overlapping fixes of 3 directories below `.cairness`, one each, with 1 failure, kill or write of somebody else, from every mix of directories and one file in a wrong place | the user's files and hooks survive; rollbacks restore; records, assets and `COMMIT` are true; other entries stay; switches and fixes are all or nothing, and no loop without an envelope; Doctor tells damage from a sound deployment |
| `verify_and_plan` | 1 verifier, 2 runs, 2 files, of which git prints one in quotes, 3 edits, `git add` or commits / 3 tasks, all `max_parallel` up to 2, 1 edit / 13 paths, 2 tests, some 100 worlds under 22 requests / 2 recorders, 3 events of 10 kinds, 1 torn line / 3 changes with any dependencies, one of which may name a missing change / 2 changes on the board, 1 file / all pairs of scopes of 2 segments | reuse, plans, verdicts, test selection, reports, order, routes, orphans and overlaps are what their definitions say |
| `wave_late_start`, `wave_measured`, `lifecycle_crash`, `lifecycle_rerun`, `loop_audit`, `verify_rename` | the smallest that do | a sentence of the code or its documents that the code does not keep (section 6) |

**The two runs of several parts.** `MCCairnCli` and `MCVerifyPlan` put modules
side by side that share no state. The first state chooses which part moves; the
others rest. This checks each of them in full and none in combination, as there
is nothing to combine: the four kinds of commands of `cc-cairn` touch different files
(what Doctor reads of a deployment is checked in the states of the deployment), and
the parts of `MCVerifyPlan` only read what others write, which is in each model as
its environment (`Edit`, `EditTasks`, `Worlds`, `ProposeChange`).

**Why these bounds are enough.** Two threads and three tasks let a task wait in
the queue while another is claimed and a third is running, let the main thread
be anywhere in the expiry loop meanwhile, and let two orphans be answered
differently. In the lifecycle, three events are a change that is proposed,
applied and archived, or a command that meets another that is under way; two
seconds are ids that collide and ids that do not; every pair of accesses to the
two files is met by two agents, and each of them can be the last before a kill. Four loop calls are a start
and three records (review, fix, review), or a pause and a resume around one, or
two that overlap. Two deployment commands are every command after every
outcome of every command; projects begin with one adapter at most, and two are
met after an `init` of the second. Three hooks are one in place and one in each
backup, or one that is written after the others were moved. One failure or kill is met at every
step of them, also within their rollbacks. Two runs of a verifier are one that files
and one that reuses; three changes of a worktree are a file that is copied, added and
its original removed. Two overlapping
calls with every step apart meet in every order; two fixes each make, lose or
undo any of the directories that the other counts on. Three tasks and three changes
have chains, forks, circles of one to three, and a part that waits for a circle.
Three events and one torn line are the torn one, the one glued to it and one
that must not be touched. The properties that are proved (section 5) do not
depend on the bounds at all.

`MaxEvents`, `MaxClock`, `MaxCrashes`, `MaxCalls`, `MaxRelease`, `MaxEdits`,
`MaxCommands`, `MaxFaults`, `MaxSwitches`, `MaxMishaps`, `MaxMeddling`, `MaxTreeChanges`,
`MaxCachedRuns`, `MaxPlanEdits`, `MaxRecords`, `MaxTears` and `MaxSegments` are bounds of the
models, in guards or in the sets of inputs; they are not in the code. All runs but
those of `WaveExecution` switch the deadlock check off because these bounds do
stop the system, or because a run of a command simply ends. `WaveExecution`
has no bounds and is checked for deadlock: `Quiet` is the only way to stop.
`cairn_cli` uses the symmetry of the user's hooks and of the fixes, which nothing
tells apart.

**Fairness.** `FairSpec` has weak fairness of what the main thread does by itself
(`OwnStep`) and of each pool thread: the operating system schedules them, and
`as_completed` wakes the main thread at its deadline, so `TimeoutFires` belongs to
the main thread's actions. It says nothing of `DispatchEnds`: whether a dispatch ends
is the adapter's affair. Nor does it of `CleanupEnds`: the callback `cleanup` is
called on the main thread and nothing bounds it (223), so that it may hang there for
good. `GateEnds` says therefore that a Wave with a timeout ends, or hangs in a cleanup
that was asked about an orphan, and nowhere else, although no dispatch may end.
`FairDispatchSpec` adds that dispatches end, for `JoinEnds`: without a timeout a Wave
can only end if they do, and there is no cleanup to wait for. The other modules have
no liveness properties: an agent may never call, a command is a straight line of
steps, and nothing waits for anything.

## 4. Properties worth a comment

* `StatusEarned` excludes orphans: what cleanup says of them is taken on trust
  by the code.
* `JoinGate` is checked and proved for Waves without a timeout; with one it is
  violated (section 6). The same is true of `PeakCoversDispatches`, which is
  proved only: a task that was marked as timed out while it started no longer
  counts.
* `ClosedIsFrozen` is about threads that `shutdown(wait=False)` leaves behind:
  `start` refuses them because the expiry loop has left nothing pending. It
  needs a timeout that is caught: one that escapes closes the Wave with pending
  entries.
* `PlainCrashDetected` is the part of the crash claim that does hold: the drift
  is seen unless the change was in the transient status or the kill tore
  `spec.md`.
* `EveryStepEnded` holds with overlaps and kills, since the phase's end is
  written first; `LogsAgree` needs neither to have happened; `EndingIsFinal`
  needs calls that do not overlap: a slow `resume` may write a stopped
  session back to active.
* `UserWorkInPlace` allows a loss after a command that was cut short *and* another
  command: the next replacement removes the backup, which may hold the only copy,
  before it begins. Cut short is a command that was killed or *lost*: one that failed
  where nobody rolls back (`mkdtemp`, carrying forward, the removal of what an
  uninstall had staged), or whose rollback failed. `RecordTellsTruth`,
  `AssetFollowsTree` and the second half of `DoctorIsRight` are about histories
  without one. `FailureRestores` is about every failure whose rollback comes to its
  end, and leaves out the backup, which is gone.
* `UserHooksKept` holds for a kill or failure anywhere but within the rewriting of a
  hook by a rollback (*torn*): `_restore_file_state_snapshot` truncates the file, be
  it the only copy and unchanged. Between two of the three files nothing is lost.
* `AssetFollowsTree` lets the asset be of no release after the user has changed it or
  a release has dropped a file of it: `_copy_project_assets` (590) copies over what is
  there, the dropped file stays, and every later preflight (674) refuses.
* `CommitTellsContent` needs that no other project's update replaced the system
  installation during the copy; the code has no lock that would prevent it.
* `OthersStay` and `SwitchAllOrNothing` are about calls that do not overlap:
  overlapping ones write back what they read, and lose each other's work.
  `LoopHasEnvelope` leaves out `cc-cairn profile set`, which changes the profile
  alone.
* `DoctorIsRight` says nothing of what Doctor does not look at, such as a backup
  that a kill left; it needs an adapter that is recorded. `FixAllOrNothing` lets a
  failed fix leave what somebody else uses or has made again, and a fix that
  ends well lack a directory that another's undo took away meanwhile: the code
  does not notice.
* `ReuseIsTruth` is about results that were filed undisturbed and about steps that
  object to a file which the key tells of (`ToldByKey`): not one that git ignores, nor
  one whose name git prints in quotes, which the code does not find on disk, nor the
  old name of a renaming. The document says it of any change: that is
  `EveryChangeIsTold`, which the run `verify_rename` violates with files of the plainest
  names – copy a file, add the copy, file a pass; remove the original: the key is
  the same. The edit between the key and the end of the step is excluded too, and
  `FiledUnderItsTree` (section 6) is what it violates.
* `ExecutedPlansAreLegal` is about the plan at the moment it is computed and about
  the stored one at the moment a check accepts it. "No two at once that declare the
  same entry" is a fact about strings: the code compares them, and `src/` and
  `src/a.py`, a glob and a file of it, or `a.py` and `./a.py` may share a Wave
  (section 6). Whether two scopes share a file is `OverlapIsExact`, which `cc-deps`
  has and `cc-wave-plan` does not use.
* `VerdictIsTrue` (nothing the change calls for is left out, no failure is passed
  over) is about the paths that git has named as they are (`Named`). What it has not
  told (`untold`: the question failed, or the path is the old name of a renaming) and
  what it prints in quotes calls for nothing as far as `cc-verify --changed` can see. Such a
  run passes; what the property demands of it is that it says to have skipped the
  checks where git named nothing that one is for. Of failing tests it speaks of all
  that a named path leads to – a quoted one counts as a path that the policy does not
  know –, and after a run that some files made stop before it began (`erring`) of
  these files only.
* `NoFalseOrphan` leaves out the names that git does not print as they are
  (`Misprinted`): these are orphans whatever is declared. It needs every `spec.md` whole.
* `LedgerIsFaithful` bounds counts, not rates: the lost event may be the failure.
  It excludes a cut within a character, after which no report can be made, and
  `logical_runs`, which is another count altogether when no line names a run.
* `OverlapIsExact` is exact for files and directories. For scopes with wildcards
  it says that what is reported is real; `*/b` and `a/**` share `a/b` and are not
  reported.

## 5. Proofs

The proofs are for every value of the constants that the named assumptions
(`WaveParameters`, `LifecycleParameters`, `LoopParameters`, `DeployParameters`,
`DoctorParameters` and so on) allow. Each module
of proofs shows an inductive invariant by the usual three facts, one lemma per
group of actions; the parts of the invariants are defined, with a comment, at
the end of the modelling modules.

* `WaveExecutionProofs`.
  `TypeCorrect`. `CountCorrect`: the type invariant and the finiteness of
  `Running` are enough, by cases on whether a `finish` meets a running entry.
  `StatusIsEarned`, `RefusalIsJust` and `ClosedStaysFrozen` rest on `WaveInv`:
  orphans are read once and only cleanup changes them (`OrphansRead`), the
  expiry loop leaves nothing pending behind its cursor (`NothingPending`), a
  dispatch begins only after its entry left *pending* (`Begun`), and what is
  said of the cleanup and of the outcome is true when the Wave is judged
  (`CleanupTold`, `GateJudged`, `OutcomeDecided`).
  `JoinGateWithoutTimeout` and `PeakWithoutTimeout` add `TerminalIsOver`: a
  terminal entry is one whose dispatch is over.
  `ImplementsPromise` maps each action to a step of `WaveJoin` or to a stutter.
* `ChangeLifecycleProofs`. `TypeCorrect`; `SpecIsNeverAhead` and
  `ArchivedChangesWereReviewed` from `LifecycleInv`: an invocation that is
  about to rewrite `spec.md` has its event in the log (`EventBeforeSpec`), and
  an archiving that passed its precheck saw a recorded review
  (`PrecheckedReview`). Since the log only grows, a stale precheck does not hurt.
  For calls that do not overlap there is more: `IdsAreUnique` and
  `SerialCallsAdvance` from `SerialInv` (the one call under way has seen the
  present log and the present `spec.md`, so its stamp is fresh and its rewriting
  goes forward), and `NoFalseAlarms` and `PlainCrashesAreDetected` from `HonestInv`
  (without stale `--from` and kills the latest event is always that of the status,
  or of the call about to write it).
* `LoopSessionProofs`. `TypeCorrect`, `HistoryFollowsManifests`,
  `FixesAreReviewed` from `LoopInv`: not only the state file but every state
  that a call has yet to write is a path of the graph; so whichever write
  wins, the file is one. `StepsAreEnded` from `EndsAreAhead`: for every step of
  every state that is written or to be written the phase's end is in the audit,
  or is to be written before by the same call. `EndingsAreFinal` and
  `AuditIsHonest` are about calls that do not overlap, of which one at most has
  writes left, decided on the present state. `LogsTellTheStory` from `StoryHolds`:
  while nothing has gone wrong, what is in the three files and what the one call
  is still to write, taken together, tell the same story, and with nothing left to
  write that is the property.
* `DeploymentProofs`. `DeployInv` has one part per kind of object on disk, each
  saying for every phase of every command where the thing is: the tree, the
  staged tree and the backup (`TreeUndo`, `TreeKept`, `TreeStaged`), the asset
  (`AssetUndo`, `AssetHeld`, `AssetStaged`, `AssetKept`), the record and the hooks
  (`RecordUndo`, `RecordHeld`, `HooksHeld`), and the user's work (`WorkHeld`). The
  user's hooks are among the three files as they are *and* as the command found them:
  a restoration that stops between two of them has put back the first and left the
  others, and as the backups are only ever filled (`bak` and `cbak` are what they were
  or were empty) each hook is in one of them (`HooksBackKept`), unless one was torn.
  The user's work is in one of three places once a command was cut short (`CutWork`),
  whichever step or rollback it was (`CutEffect` says what a cut may change).
  `Undoable` is what the rollback needs: at each phase, the snapshots and what
  has been moved aside are enough to put back what was found, from which
  `FailuresAreUndone` follows at the last step of the rollback. The phases from
  which a rollback may come, and those it goes through, are enumerated once
  (`PhasesFit`). `UserWorkStays`, `HooksAreKept`, `RecordIsTrue`, `AssetIsRight`,
  `CommitIsTrue` and `UpgradesKeepPrevious` are read off it. Assumed of the
  constants: the word that stands for no adapter and no hook is not the name of
  one, and at most one adapter has a project asset – in the code it is Codex.
  `DoctorTellsTruth` adds two invariants about commands that are not cut short:
  what `init` seeds is there as long as an adapter is recorded (`SeededHeld`), and
  the asset as long as its tree (`AssetThere`).
  `FixesAreAllOrNothing`, for any number of fixes at once, from `FixInv`: nothing is
  there without its parent (`Parented`); what a call has noted is there, was made by
  it, is noted by no other and once, with the parent first (`CreatedStands`), so
  that an undo never takes what another call still counts as its own; and each
  directory of a call is noted or gone, or in use, and each of its plan is there
  or before it (`FixFits`).
* `VerificationProofs`. `ReusedResultsAreTrue` from `CacheInv`: what was
  filed without a disturbance is a pass of a tree whose key it is filed under
  (`FiledHonestly`), an undisturbed run holds the key of the present tree
  (`KeyIsPresent`), and trees with the same key agree on all that the key covers
  (`KeyTellsCovered`). The key of a tree is a
  function of worktree, commit and index, the renamings that git sees among them;
  which of several pairings git chooses is left open, so the theorem holds for all.
  Needed from the constants: `CacheAssumption`.
  `VerdictsAreTrue` from `VerifyInv`: the plans are made from what has changed
  (`SeesChange`), each stage leaves every step that it planned settled, passed or
  failed (`StepsSettled`, `ProjectJudged`), what it could not plan is among the
  results as blocked (`ProjectJudged`), and the tests that were selected hold no
  failing one unless a failure is recorded (`TestsJudged`). The report is the
  aggregate of the results (`Concluded`), so a pass has none of these; the rest is
  about the selection alone (`SelectionIsEnough`: one that holds no failing test
  tells of all that the change calls for). Nothing is assumed of how the framework's
  paths and the profile's overlap; a file may be both.
  `LedgersAreFaithful` from `LedgerInv`: the number that an open recorder has given
  to its event is new (`NumbersFit`), so lines begin with different events, all of
  which have happened (`LinesTell`). `Kept` is what no later write can spoil: the
  readable lines but for a last one without its end. A cut costs its own event and
  leaves the end open, and the write after it loses its event and may spoil the
  line it goes on with, which was not counted as kept; so with one for the open end
  the loss stays under twice the cuts (`LossBounded`). What that means for each
  report is one lemma per report (`QualityIsClose` and so on), each by two facts
  about finite sets: a count of events of one kind (`KindIsNear`), and of groups of
  them (`GroupsAreNear`), is off by no more than the events that are missing.
* `DependencyProofs`. `DeclaredWorkIsNoOrphan` and `RoutesAreLegal` from `BoardInv`:
  every staged file has a reason in the board – an event of a change, a file of a
  change that is not yet archived or whose archiving is staged with it, or a stray
  edit – and dependencies that were cleared are still in review or done. The
  moves of a change are brought under one lemma (`MovesAreOne`).
  `OrderIsCorrect` for every finite graph. During the
  search the stack is a path without repetition (`StackIsPath`), and as long as no
  circle was found the finished nodes are closed under dependents and hold no
  circle (`NothingMissed`); so a search that ends without one has missed none.
  During the sort `inDegree` counts what is missing (`DegreesCount`), from which
  the order is safe and complete but for `Stuck`.
* `RecursionProofs`. What recursive functions compute is proved by induction, though
  the library's induction theorems cannot be cited (their hypothesis is an
  operator). A set of numbers that holds 0 and all successors holds them all
  (`AllNaturals`), because `<` is well-founded and a least counterexample would
  exist; and a function of numbers that is defined by its predecessor exists
  (`RecursionWorks`), so that the `CHOOSE` behind a recursive definition finds it.
  `PlansAreExecutable`: in as many layers as there are tasks the layers stop
  growing (`LayersSuffice`, by counting), so what is left out waits for itself or
  for what nobody declares, and conversely (`ScheduledUnlessWaiting`); each task is
  in one layer, after all it depends on (`LayersAreOrdered`); each layer is split
  into Waves that hold each of its tasks once, by arithmetic about the chunks
  (`ChunksCover`, `LayerIsSplit`); and the joined sequence has the k-th Wave of the
  n-th layer at a place that grows with n (`PlacesExist`). `PlanInvariant` then
  says that a stored plan which has passed the check is the plan of the present
  `tasks.md`. Assumed: the tasks are a finite set, as a file has.
  `OverlapsAreExact`: three lemmas say what the match decides for a scope without
  wildcards (`ConcreteMatch`), for a directory with all that is under it
  (`PrefixMatch`), and for a path that has a segment for each of the scope's
  (`FittingMatch`), each by induction on the depth of the calls. With them an
  overlap is a fact about common first segments (`Begins`). Assumed: there is a
  name – a wildcard stands for something.
  `OthersAreKept`, for any number of overlapping calls: each edit is followed line
  by line – a registration keeps every line and adds the drafts (`AddedLines`), a
  removal works from the end, so that what is before the place is still what was
  read and what is behind it holds every line that was not to go (`TrimmedOnce`,
  `RemovedLines`), a renaming gives one file another (`RenamedLines`). `Edits` says
  what all three have in common, and `IndexInvariant` that a call about to write
  has such an edit of what it read, which the index still is unless another call
  wrote since (`Prepared`). That no file is named twice is what makes `Times` at
  most one; `TrimmedOnce` fails without it, as the code does (section 6). The same
  lemmas give `KeywordsLeadToOneFile`, which no run checks. Assumed: the index
  begins as a sequence of lines (`IndexParameters`).
* `ProfileSwitchProofs`. `LoopNeverWithoutEnvelope` and `SwitchIsAllOrNothing`, for
  any number of overlapping calls, failures and kills, from `ProfileInv`: a call
  whose work nobody has disturbed knows the disk (`Knows`: the envelope is seen to
  before the profile and goes after it, what was put back stays back), and what it
  remembers and would put back has an envelope for its loop profile (`Remembers`).
  `OneCallSteps` reduces every step to what concerns the stepping call, since a
  write that changes anything disturbs all the others. Nothing is assumed of the
  constants.

Only model-checked: the liveness properties `JoinEnds` and `GateEnds`, since fairness
and `ENABLED` are outside of the prover's reach. Every other property of a passing
run is stated by a theorem.

## 6. Where code and documents disagree

| Run | What |
| --- | --- |
| `wave_late_start` | A Wave may return while a dispatch runs: the expiry loop reads a status outside the lock (216) and finishes the entry (217) although its thread has started meanwhile. |
| `wave_measured` | `actual_parallelism` may exceed the pool: a task counts until the main thread collects it. The validator of the same module refuses such evidence (288). |
| `lifecycle_crash` | A kill between event and `spec.md` in `cc-apply` is not seen by E_EVENT020: the transient status `apply` is compatible with `review`. |
| `lifecycle_rerun` | Of two overlapping `cc-apply`, the slower writes `review` over `done`. |
| `loop_audit` | A kill between the state and the audit loses a continuation decision for good. |
| `verify_rename` | "Any change … makes a new cache key" (`docs/maintenance/runtime-model.md:134`). `git diff --name-only HEAD` (`verification_cache.py:55`) omits the old name of a renamed file, and a pass is reused for a tree that lacks it. |

More are stated in the modules, checked by hand, and in no run:

* `AdvisedInitWorks` (`Deployment`) is violated. After a kill between the swap and
  the copy of the project asset, or between the two renames, `sync_project`
  (1521-1523) advises `cc-cairn init`, and the preflight (674) refuses it, because
  the asset is not what the present tree would have written.
* `RemovesOnlyNamed` (`KnowledgeIndex`) is violated. `add-knowledge --remove a.md
  a.md` finds the line twice and deletes twice (2520-2523), the second time the
  next entry. `_handle_remove` (2458) promises to remove the named entries.
* `FailureRestoresBackup` (`Deployment`) is violated. `_replace_framework_dir` says
  (253) that on failure the backup is restored. `mkdtemp` (289) raises after the old
  tree was renamed (286) and before the `try` (290): the tree is gone, and neither
  `cmd_init` (989) nor `sync_project` (1596) puts it back.
* `FixableReviewGoesOn` (`LoopSession`) is violated. A blocked review with auto-fixable
  findings stops the session (`loop_runtime.py:375-376`); its manifest
  (`cc-review.yaml:122-124`) says it goes on to `cc-fix`.
* `IncompleteJoinRefused` (`WaveExecution`) is violated with `TimeoutCaught = FALSE`:
  before Python 3.11 the timeout escapes (212), and the caller gets it instead of the
  `WaveJoinError` of line 185.
* `FiledUnderItsTree` (`VerificationCache`) is violated. A file that is edited between
  the key and the step has its new contents judged and filed under the key of the old
  ones; `runtime-model.md:132` says that only what agrees in its contents is reused.

And one is seen by reading: the docstring of `_detect_layer_overlap` (132) says that
write scopes which intersect are refused, and line 142 refuses equal strings only.
`WavePlan` has the code's rule.

## 7. Not modelled, and why

* `validate_execution_summary`, `validate_event` and the document checks other
  than `cc-index-check` and the scopes: they read and complain, and the shapes
  they look at are abstracted away.
* Times in the loop (`_phase_timing`), durations, tokens and quantiles in the
  reports: no decision depends on them. By reading, `active_ms` of a blocked phase
  (112) makes the parts more than the whole, and `--record-summary` of `cc-wave-plan`
  (247) records the valid items of a list twice if an invalid one makes it repeat.
* What `cleanup_status` says of a Wave that returned after its tasks were all still
  pending (218): "required", which `validate_execution_summary` (298) then rejects.
* `--dry-run`, `--event-id`, `--force-duplicate`: the first changes nothing, the
  others switch the duplicate guard off at the caller's wish.
* Agents themselves: what they write by hand into `spec.md` is reduced to
  `Scaffold` and `MarkApplying`, `ProposeChange`, `Implement` and `EditStray`.
* Of the deployment CLI: `onboard` (inspection, `init`, profile), custom prefixes,
  ignore rules, which are appended after the transaction, `release`, and the
  commands that print.
* Within the modelled deployment: a directory that is half copied or half removed, a
  torn `.gitignore` or CI file, the two renames of the system installation's own swap
  (one step here), and a failure of the restoration that `update` does in a `finally`
  while another one is passing through it.
* What git prints for a repository above the project, in `VerificationPlan`: it is the
  `untold` of every path.
* Of Doctor: its summaries, versions and the checks inside of a framework
  directory that is complete or not there at all.
* `cc-self-eval`, adapters' contracts, evals, optimization and generation: they
  read only, or work on the framework itself; the first is planned.

## 8. Plan

Done, in this order: `WaveExecution` with `WaveJoin`, `ChangeLifecycle`,
`LoopSession`; `Deployment`, `KnowledgeIndex`, `ProfileSwitch`;
`VerificationCache`, `WavePlan`, `VerificationPlan` with `TestRouting`,
`RuntimeEvents`, `ChangeOrder`, `ChangeBoard`, `PathScopes`; `Doctor`. Next:

1. `SelfEval`: the checks and the decision as a table, and a composition with
   `LoopSession` and `ChangeLifecycle`: what autonomy can and cannot do to a
   change, including a lifecycle event recorded without its loop step and the
   other way round.
2. `onboard` and custom prefixes in `Deployment`.
