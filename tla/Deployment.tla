---------------------------- MODULE Deployment ----------------------------
(***************************************************************************)
(* The deployment commands of cc-cairn.py on one project: init, update and *)
(* uninstall.  Each is a transaction over files that no file system makes  *)
(* one: the framework tree of an adapter (.claude, .codex), its single     *)
(* backup <tree>.bak, the skill that codex puts outside of its tree        *)
(* (.agents/skills), install.yaml, and the git hook pre-commit with its    *)
(* two backups.  A command raises anywhere and rolls back, or is killed.   *)
(*                                                                         *)
(* The trees are copied from the system installation (get_data_dir), which *)
(* an update run in another project may replace at the same time.          *)
(*                                                                         *)
(* A tree is reduced to what the properties tell apart: the release its    *)
(* framework files come from, its COMMIT file, the latest edition of the   *)
(* user's own files in it (additions and PRESERVE_ON_UPGRADE) and of the   *)
(* user's changes to framework files, which an upgrade overwrites.  A      *)
(* directory that is being copied or removed is there or it is not.        *)
(* Custom layouts (an adapter under another prefix) and projects outside   *)
(* of git are left out; a command that is refused changes nothing.         *)
(***************************************************************************)
EXTENDS Naturals, FiniteSets

CONSTANTS
  Adapter,      \* the adapters of runtime/adapters
  AssetAdapter, \* the one with an asset under .agents/skills
  Legacy,       \* the adapter of projects without install.yaml
  UserHook,     \* the hooks a user may write
  MaxRelease, MaxEdits, MaxCommands, MaxFaults  \* bounds

DeployAssumption ==
  /\ AssetAdapter \subseteq Adapter
  /\ \A a, b \in AssetAdapter : a = b   \* there is one asset
  /\ Legacy \in Adapter /\ {"none", "torn"} \cap Adapter = {}
  /\ {"none", "cairness", "torn"} \cap UserHook = {}
  /\ {MaxRelease, MaxEdits, MaxCommands, MaxFaults} \subseteq Nat
  /\ MaxRelease > 0

ASSUME DeployParameters == DeployAssumption

VARIABLES
  upstream,  \* the release that git pull brings
  core,      \* the system installation: release of its files, its COMMIT
  elsewhere, \* the release another project's update is installing there, or 0
  tree,      \* per adapter: its framework directory
  backup,    \* per adapter: <directory>.bak
  staged,    \* per adapter: .<directory>.cairness-uninstall
  asset,     \* the release of the project asset; 0: none, Strange: of no release
  away,      \* the asset's .cairness-uninstall
  meta,      \* install.yaml: adapters, and the active one
  hook,      \* .git/hooks: pre-commit, pre-commit.bak, pre-commit.cairness.bak
  seeded,    \* whether init's files (.cairness, CI, ignore rules) are there
  job,       \* the command under way
  edits,     \* edits made so far
  commands,  \* commands given so far
  past       \* history: what has happened, and the user's newest work

deployVars == <<upstream, core, elsewhere, tree, backup, staged, asset, away,
                meta, hook, seeded, job, edits, commands, past>>
project == <<tree, backup, staged, asset, away, meta, hook, seeded>>
system == <<upstream, core, elsewhere>>
bounds == <<edits, commands>>

Release == 1 .. MaxRelease
Strange == MaxRelease + 1   \* edited by the user, or with files of two releases

Tree == [kind : {"none", "foreign", "cairness"}, content : 0 .. MaxRelease,
         commit : 0 .. MaxRelease, local : 0 .. MaxEdits, custom : 0 .. MaxEdits]
NoTree == [kind |-> "none", content |-> 0, commit |-> 0, local |-> 0, custom |-> 0]
Exists(t) == t.kind # "none"

\* "torn" is a file that was truncated and not filled again: an install.yaml
\* that nobody can read, or a hook that is nobody's.
Meta == [listed : SUBSET Adapter, active : Adapter \cup {"none", "torn"}]
TornMeta == [listed |-> {}, active |-> "torn"]
HookFile == UserHook \cup {"none", "cairness", "torn"}
UserFile == UserHook \cup {"none", "torn"}   \* Cairness's hook is never backed up
Hooks == [active : HookFile, bak : UserFile, cbak : UserFile]
HookFiles(h) == {h.active, h.bak, h.cbak}

Phase == {"idle", "system", "stamp", "sync", "clear", "aside", "build", "carry",
          "assets", "seed", "hook", "copyhook", "publish", "untree", "unfiles",
          "stageasset", "stagetree", "dropmeta", "unhook",
          "copyagain", "remove", "unstage"}
Before == [tree : Tree, backup : Tree, staged : Tree, asset : 0 .. Strange,
           away : 0 .. Strange, meta : Meta, hook : Hooks, seeded : BOOLEAN]
Job == [pc : Phase, cmd : {"init", "update", "uninstall"}, a : Adapter,
        before : Before, fresh : Tree, ended : {"", "passed", "failed", "lost", "killed"}]

\* What the user has to lose, and what has gone wrong: commands killed or lost
\* (they failed, and what they had done was not undone, or not wholly), hooks
\* torn by a rollback that was cut short, a command given after one of these,
\* copies that another project's update of the system installation
\* overlapped, files of the asset that a release has dropped, and edits of it.
Mishap == {"killed", "lost", "torn", "retry", "overlap", "dropped", "touched"}
Past == [local : [Adapter -> 0 .. MaxEdits], hooks : SUBSET UserHook,
         faults : 0 .. MaxFaults,
         seen : SUBSET Mishap]

DeployTypeOK ==
  /\ upstream \in Release
  /\ core \in [content : Release, commit : Release]
  /\ elsewhere \in 0 .. MaxRelease
  /\ tree \in [Adapter -> Tree]
  /\ backup \in [Adapter -> Tree]
  /\ staged \in [Adapter -> Tree]
  /\ asset \in 0 .. Strange
  /\ away \in 0 .. Strange
  /\ meta \in Meta
  /\ hook \in Hooks
  /\ seeded \in BOOLEAN
  /\ job \in Job
  /\ edits \in 0 .. MaxEdits
  /\ commands \in 0 .. MaxCommands
  /\ past \in Past

\* What the command found (the snapshots of _file_snapshot and its kin, and,
\* for the properties, the trees)
Found(a) == [tree |-> tree[a], backup |-> backup[a], staged |-> staged[a],
             asset |-> asset, away |-> away, meta |-> meta, hook |-> hook,
             seeded |-> seeded]

Installed == [kind |-> "cairness", content |-> 1, commit |-> 1, local |-> 0,
              custom |-> 0]

\* A project as it may be found: without Cairness, perhaps with a directory
\* of the user's in the way, or with adapters installed; with hooks and
\* backups of hooks of the user's.
DeployInit ==
  /\ upstream = 1
  /\ core = [content |-> 1, commit |-> 1]
  /\ elsewhere = 0
  /\ \E present \in SUBSET Adapter, mine \in BOOLEAN :
       /\ mine => Legacy \notin present
       /\ tree = [a \in Adapter |->
                   IF a \in present THEN Installed
                   ELSE IF a = Legacy /\ mine THEN [NoTree EXCEPT !.kind = "foreign"]
                   ELSE NoTree]
       /\ asset = IF present \cap AssetAdapter # {} THEN 1 ELSE 0
       /\ seeded = (present # {})
       /\ meta \in {m \in Meta : /\ m.listed = present
                                /\ IF present = {} THEN m.active = "none"
                                                   ELSE m.active \in present}
       /\ hook \in {h \in Hooks :
                    /\ IF present = {} THEN h.active # "cairness" /\ h.cbak = "none"
                                       ELSE h.active = "cairness"
                    /\ "torn" \notin HookFiles(h)
                    /\ h.cbak # "none" => h.bak # "none"
                    /\ \A i, k \in {"active", "bak", "cbak"} :
                         i # k /\ h[i] = h[k] => h[i] = "none"}
  /\ backup = [a \in Adapter |-> NoTree]
  /\ staged = [a \in Adapter |-> NoTree]
  /\ away = 0
  /\ job = [pc |-> "idle", cmd |-> "init", a |-> Legacy, before |-> Found(Legacy),
            fresh |-> NoTree, ended |-> ""]
  /\ edits = 0
  /\ commands = 0
  /\ past = [local |-> [a \in Adapter |-> 0], faults |-> 0, seen |-> {},
             hooks |-> UserHook \cap {hook.active, hook.bak, hook.cbak}]

Idle == job.pc = "idle"
At(pc) == job.pc = pc
Go(pc) == job' = [job EXCEPT !.pc = pc]
End(how) == job' = [job EXCEPT !.pc = "idle", !.ended = how, !.fresh = NoTree]
PutTree(t) == tree' = [tree EXCEPT ![job.a] = t]
PutBackup(t) == backup' = [backup EXCEPT ![job.a] = t]

-----------------------------------------------------------------------------
\* The system installation

\* Definitions named ...Slip are what the definition after them would be if
\* the code had slipped there; no action uses them, and each is a slip that
\* some property below rules out.  Here: COMMIT written before the files.
SystemSwapSlip ==
  /\ At("system")
  /\ IF core.commit = upstream
       THEN Go("sync") /\ UNCHANGED core
       ELSE /\ job' = [job EXCEPT !.pc = "stamp", !.fresh.commit = upstream]
            /\ core' = [core EXCEPT !.commit = upstream]
  /\ UNCHANGED <<upstream, elsewhere, project, bounds, past>>

\* sync_system_install up to write_commit_hash: the files are the new
\* release's, and COMMIT, which the release does not ship, is carried forward.
SystemSwap ==
  /\ At("system")
  /\ IF core.commit = upstream
       THEN Go("sync") /\ UNCHANGED core
       ELSE /\ job' = [job EXCEPT !.pc = "stamp", !.fresh.commit = upstream]
            /\ core' = [core EXCEPT !.content = upstream]
  /\ UNCHANGED <<upstream, elsewhere, project, bounds, past>>

SystemStamp ==
  /\ At("stamp")
  /\ core' = [core EXCEPT !.commit = job.fresh.commit]
  /\ job' = [job EXCEPT !.pc = "sync", !.fresh = NoTree]
  /\ UNCHANGED <<upstream, elsewhere, project, bounds, past>>

\* Somebody else's update of the system installation, and the releases it
\* may find.
Copying == job.pc \in {"build", "carry", "assets"}
Overlaps == past' = IF Copying THEN [past EXCEPT !.seen = @ \cup {"overlap"}] ELSE past

ElsewhereSwap ==
  /\ elsewhere = 0 /\ core.commit # upstream
  /\ elsewhere' = upstream
  /\ core' = [core EXCEPT !.content = upstream]
  /\ Overlaps
  /\ UNCHANGED <<upstream, project, job, bounds>>

ElsewhereStamp ==
  /\ elsewhere # 0
  /\ core' = [core EXCEPT !.commit = elsewhere]
  /\ elsewhere' = 0
  /\ Overlaps
  /\ UNCHANGED <<upstream, project, job, bounds>>

Publication ==
  /\ upstream < MaxRelease
  /\ upstream' = upstream + 1
  /\ UNCHANGED <<core, elsewhere, project, job, bounds, past>>

-----------------------------------------------------------------------------
\* init and update

Seen(what) == past.seen \cap what # {}
Clean == ~Seen({"killed", "lost"})   \* no command was cut short

\* A command is given: bounded by MaxCommands.  None goes on without a
\* readable install.yaml, but for an update of the system installation, which
\* is what ElsewhereSwap and ElsewhereStamp do.
Given(cmd, a, pc) ==
  /\ Idle /\ commands < MaxCommands /\ meta # TornMeta
  /\ commands' = commands + 1
  /\ past' = IF Clean THEN past ELSE [past EXCEPT !.seen = @ \cup {"retry"}]
  /\ job' = [pc |-> pc, cmd |-> cmd, a |-> a, before |-> Found(a),
             fresh |-> NoTree, ended |-> ""]

\* _preflight_project_assets: an asset that is there must be the one that
\* the present tree would have written.
AssetIntact(a) == Exists(tree[a]) /\ asset = tree[a].content
PreflightPasses(a) == a \in AssetAdapter /\ asset # 0 => AssetIntact(a)

\* cmd_init up to _replace_framework_dir.  The user has agreed to overwrite
\* what is there, a foreign directory included.
BeginInit(a) ==
  /\ PreflightPasses(a)
  /\ Given("init", a, IF Exists(tree[a]) THEN "clear" ELSE "build")
  /\ UNCHANGED <<system, project, edits>>

BeginUpdate ==
  /\ Given("update", Legacy, "system")
  /\ UNCHANGED <<system, project, edits>>

\* The adapter that sync_project selects
Selected == IF meta.active \in Adapter THEN meta.active
            ELSE IF tree[Legacy].kind = "cairness" THEN Legacy
            ELSE "none"

Listing(a) == [listed |-> meta.listed \cup {a}, active |-> a]

\* sync_project: nothing installed or the layout is missing; up to date,
\* which publishes the record again; refused; or the transaction begins.
SyncProject ==
  /\ At("sync")
  /\ LET a == Selected IN
     \/ /\ IF a = "none" THEN TRUE ELSE ~Exists(tree[a])
        /\ End("passed") /\ UNCHANGED meta
     \/ /\ a # "none" /\ Exists(tree[a])
        /\ tree[a].commit = core.commit
        /\ meta' = Listing(a)
        /\ End("passed")
     \/ /\ a # "none" /\ Exists(tree[a])
        /\ tree[a].commit # core.commit
        /\ IF PreflightPasses(a) /\ tree[a].kind = "cairness"
             THEN job' = [job EXCEPT !.pc = "clear", !.a = a, !.before = Found(a)]
             ELSE End("failed")
        /\ UNCHANGED meta
  /\ UNCHANGED <<system, tree, backup, staged, asset, away, hook, seeded, bounds, past>>

\* _replace_framework_dir: the old backup goes, the tree becomes the backup.
ClearBackup ==
  /\ At("clear")
  /\ PutBackup(NoTree) /\ Go("aside")
  /\ UNCHANGED <<system, tree, staged, asset, away, meta, hook, seeded, bounds, past>>

MoveAsideSlip ==
  /\ At("aside")
  /\ PutTree(NoTree) /\ Go("build")
  /\ UNCHANGED <<system, backup, staged, asset, away, meta, hook, seeded, bounds, past>>

MoveAside ==
  /\ At("aside")
  /\ PutBackup(tree[job.a]) /\ PutTree(NoTree) /\ Go("build")
  /\ UNCHANGED <<system, staged, asset, away, meta, hook, seeded, bounds, past>>

\* copytree reads the release's files and its COMMIT, in any order, ...
CopyContent ==
  /\ At("build") /\ job.fresh.content = 0
  /\ job' = [job EXCEPT !.fresh.content = core.content]
  /\ UNCHANGED <<system, project, bounds, past>>

CopyCommit ==
  /\ At("build") /\ job.fresh.commit = 0
  /\ job' = [job EXCEPT !.fresh.commit = core.commit]
  /\ UNCHANGED <<system, project, bounds, past>>

\* ... and the fresh tree is renamed into place.  Only a replacement made a
\* backup in this call; without one nothing is carried forward.
Replaced == Exists(job.before.tree)

SwapIn ==
  /\ At("build") /\ job.fresh.content # 0 /\ job.fresh.commit # 0
  /\ PutTree([job.fresh EXCEPT !.kind = "cairness"])
  /\ Go(IF Replaced THEN "carry" ELSE "assets")
  /\ UNCHANGED <<system, backup, staged, asset, away, meta, hook, seeded, bounds, past>>

CarryForwardSlip ==
  /\ At("carry")
  /\ Go("assets")
  /\ UNCHANGED <<system, project, bounds, past>>

\* The user's own files are copied from the backup; changed framework files
\* are only reported.
CarryForward ==
  /\ At("carry")
  /\ PutTree([tree[job.a] EXCEPT !.local = backup[job.a].local])
  /\ Go("assets")
  /\ UNCHANGED <<system, backup, staged, asset, away, meta, hook, seeded, bounds, past>>

\* _execute_adapter_operations: the operations inside of the tree repeat
\* files of the copy; the project asset is copied from the system installation
\* over the one that is there (dirs_exist_ok), so that a file which the new
\* release has dropped or renamed stays: then the asset is of no release.
HasAsset == job.a \in AssetAdapter

CopyAssets ==
  /\ At("assets")
  /\ \E leftover \in BOOLEAN :
       /\ leftover => HasAsset /\ asset \notin {0, core.content}
       /\ asset' = IF leftover THEN Strange ELSE IF HasAsset THEN core.content ELSE asset
       /\ past' = IF leftover THEN [past EXCEPT !.seen = @ \cup {"dropped"}] ELSE past
  /\ Go(IF job.cmd = "init" THEN "seed" ELSE "hook")
  /\ UNCHANGED <<system, tree, backup, staged, away, meta, hook, seeded, bounds>>

\* _finish_project_init: each of the files is written where there is none.
Seed ==
  /\ At("seed")
  /\ seeded' = TRUE
  /\ Go("hook")
  /\ UNCHANGED <<system, tree, backup, staged, asset, away, meta, hook, bounds, past>>

\* _install_git_hooks: where a hook that is not Cairness's is moved to
BackupName == IF hook.bak = "none" THEN "bak" ELSE "cbak"
ForeignHook == hook.active \notin {"none", "cairness"}
HookRefused == ForeignHook /\ hook[BackupName] # "none"

BackupHookSlip(pc) ==
  /\ hook' = IF ForeignHook THEN [hook EXCEPT !.bak = hook.active, !.active = "none"]
             ELSE hook
  /\ Go(pc)

BackupHook(pc) ==
  /\ hook' = IF ForeignHook
               THEN [hook EXCEPT ![BackupName] = hook.active, !.active = "none"]
               ELSE hook
  /\ Go(pc)

MoveHook ==
  /\ At("hook") /\ ~HookRefused
  /\ BackupHook("copyhook")
  /\ UNCHANGED <<system, tree, backup, staged, asset, away, meta, seeded, bounds, past>>

CopyHook ==
  /\ At("copyhook")
  /\ hook' = [hook EXCEPT !.active = "cairness"]
  /\ Go("publish")
  /\ UNCHANGED <<system, tree, backup, staged, asset, away, meta, seeded, bounds, past>>

\* _publish_install_result; what follows (ignore rules, telemetry) is not
\* part of the transaction and cannot undo it.
Publish ==
  /\ At("publish")
  /\ meta' = Listing(job.a)
  /\ End("passed")
  /\ UNCHANGED <<system, tree, backup, staged, asset, away, hook, seeded, bounds, past>>

-----------------------------------------------------------------------------
\* uninstall

BeginUninstall(a) ==
  /\ a \in meta.listed /\ tree[a].kind = "cairness"
  /\ Given("uninstall", a, "stageasset")
  /\ UNCHANGED <<system, project, edits>>

\* stage: what is to go is renamed first.  An asset that the user changed
\* stays.  A leftover of an earlier removal is not overwritten.
StagesAsset == HasAsset /\ asset # 0 /\ AssetIntact(job.a)

StageAsset ==
  /\ At("stageasset") /\ ~(StagesAsset /\ away # 0)
  /\ IF StagesAsset THEN away' = asset /\ asset' = 0 ELSE UNCHANGED <<away, asset>>
  /\ Go("stagetree")
  /\ UNCHANGED <<system, tree, backup, staged, meta, hook, seeded, bounds, past>>

StageTree ==
  /\ At("stagetree") /\ ~Exists(staged[job.a])
  /\ staged' = [staged EXCEPT ![job.a] = tree[job.a]]
  /\ PutTree(NoTree)
  /\ Go("dropmeta")
  /\ UNCHANGED <<system, backup, asset, away, meta, hook, seeded, bounds, past>>

Remaining == meta.listed \ {job.a}

DropMetaSlip ==
  /\ At("dropmeta")
  /\ meta' = [meta EXCEPT !.active = "none"]
  /\ Go("unhook")
  /\ UNCHANGED <<system, tree, backup, staged, asset, away, hook, seeded, bounds, past>>

DropMeta ==
  /\ At("dropmeta")
  /\ \/ Remaining = {} /\ meta' = [listed |-> {}, active |-> "none"]
     \/ \E next \in Remaining : meta' = [listed |-> Remaining, active |-> next]
  /\ Go("unhook")
  /\ UNCHANGED <<system, tree, backup, staged, asset, away, hook, seeded, bounds, past>>

\* _finish_git_hook_uninstall: for the adapter that stays the hook is
\* installed again; without one Cairness's hook goes, and the younger of the
\* backups, if there is one, takes its place.
HookFreed ==
  LET bare == IF hook.active = "cairness" THEN [hook EXCEPT !.active = "none"] ELSE hook
  IN IF bare.active # "none" THEN bare
     ELSE IF bare.cbak # "none" THEN [bare EXCEPT !.active = bare.cbak, !.cbak = "none"]
     ELSE [bare EXCEPT !.active = bare.bak, !.bak = "none"]

HookStays == meta.active \in Adapter /\ Exists(tree[meta.active])

Unhook ==
  /\ At("unhook")
  /\ HookStays => ~HookRefused
  /\ IF HookStays THEN BackupHook("copyagain")
     ELSE /\ hook' = IF meta.active = "none" THEN HookFreed ELSE hook
          /\ Go("remove")
  /\ UNCHANGED <<system, tree, backup, staged, asset, away, meta, seeded, bounds, past>>

CopyHookAgain ==
  /\ At("copyagain")
  /\ hook' = [hook EXCEPT !.active = "cairness"]
  /\ Go("remove")
  /\ UNCHANGED <<system, tree, backup, staged, asset, away, meta, seeded, bounds, past>>

\* The removal has committed: what was staged is deleted, the user's own
\* files in the tree with it.
RemoveStaged ==
  /\ At("remove")
  /\ staged' = [staged EXCEPT ![job.a] = NoTree]
  /\ away' = IF asset = 0 /\ job.before.asset # 0 THEN 0 ELSE away
  /\ past' = [past EXCEPT !.local[job.a] = 0]
  /\ End("passed")
  /\ UNCHANGED <<system, tree, backup, asset, meta, hook, seeded, bounds>>

-----------------------------------------------------------------------------
\* What may go wrong

Fault(what) ==
  /\ past.faults < MaxFaults
  /\ past' = [past EXCEPT !.faults = @ + 1, !.seen = @ \cup what]

\* _replace_framework_dir raises: before anything is moved; while the tree is
\* copied, which puts the old one back; outside of that try, when there is no
\* directory to build it in (mkdtemp comes after the renaming) or the old one
\* cannot be renamed back; or while it carries files forward.  Nobody catches
\* the last two.
ReplaceFails ==
  /\ \/ At("aside") /\ Fault({}) /\ End("failed") /\ UNCHANGED <<tree, backup>>
     \/ /\ At("build") /\ Fault({}) /\ End("failed")
        /\ IF Replaced THEN PutTree(backup[job.a]) /\ PutBackup(NoTree)
                       ELSE UNCHANGED <<tree, backup>>
     \/ /\ (At("build") /\ Replaced) \/ At("carry")
        /\ Fault({"lost"}) /\ End("lost") /\ UNCHANGED <<tree, backup>>
  /\ UNCHANGED <<system, staged, asset, away, meta, hook, seeded, bounds>>

\* What is left of the hooks where a step on them is cut short: copy2
\* truncates, and the unhooking removes before it renames.
HookCut ==
  {hook} \cup (IF At("copyhook") \/ At("copyagain") THEN {[hook EXCEPT !.active = "torn"]}
              ELSE IF At("unhook") /\ meta.active = "none" /\ hook.active = "cairness"
                THEN {[hook EXCEPT !.active = "none"]}
              ELSE {})

\* Anything after the swap raises: a file operation, or the hook that cannot
\* be backed up, or what cannot be staged.
Raises ==
  /\ \/ job.pc \in {"assets", "seed", "hook", "copyhook", "publish"}
        /\ Fault({}) /\ Go("untree") /\ hook' \in HookCut
     \/ At("hook") /\ HookRefused /\ Go("untree") /\ UNCHANGED <<hook, past>>
     \/ job.pc \in {"stageasset", "stagetree", "dropmeta", "unhook", "copyagain"}
        /\ Fault({}) /\ Go("unfiles") /\ hook' \in HookCut
     \/ /\ \/ At("stageasset") /\ StagesAsset /\ away # 0
           \/ At("stagetree") /\ Exists(staged[job.a])
           \/ At("unhook") /\ HookStays /\ HookRefused
        /\ Go("unfiles") /\ UNCHANGED <<hook, past>>
     \/ At("remove") /\ Fault({"lost"}) /\ End("lost") /\ UNCHANGED hook
  /\ UNCHANGED <<system, tree, backup, staged, asset, away, meta, seeded, bounds>>

TreeBack ==
  IF Replaced THEN PutTree(backup[job.a]) /\ PutBackup(NoTree)
              ELSE PutTree(NoTree) /\ UNCHANGED backup

RestoreTreeSlip ==
  /\ At("untree") /\ TreeBack
  /\ Go("unfiles")
  /\ UNCHANGED <<system, staged, asset, away, meta, hook, seeded, bounds, past>>

\* _restore_failed_adapter_swap and _restore_project_assets
RestoreTree ==
  /\ At("untree") /\ TreeBack
  /\ asset' = IF ~HasAsset THEN asset
              ELSE IF job.before.asset = 0 THEN 0
              ELSE job.before.tree.content
  /\ Go("unfiles")
  /\ UNCHANGED <<system, staged, away, meta, hook, seeded, bounds, past>>

RestoreFilesSlip ==
  /\ At("unfiles")
  /\ meta' = job.before.meta /\ seeded' = job.before.seeded
  /\ IF job.cmd = "uninstall" THEN Go("unstage") ELSE End("failed")
  /\ UNCHANGED <<system, tree, backup, staged, asset, away, hook, bounds, past>>

\* _restore_file_snapshot and its kin: install.yaml, the three files of the
\* hook and what init has seeded, one after the other.  Nobody looks at them
\* meanwhile, so that a restoration that comes to its end is one step.
RestoreFiles ==
  /\ At("unfiles")
  /\ meta' = job.before.meta /\ hook' = job.before.hook /\ seeded' = job.before.seeded
  /\ IF job.cmd = "uninstall" THEN Go("unstage") ELSE End("failed")
  /\ UNCHANGED <<system, tree, backup, staged, asset, away, bounds, past>>

\* cmd_uninstall renames back what this call had staged, the tree first.
TreeUnstaged ==
  IF Exists(tree[job.a]) THEN UNCHANGED <<tree, staged>>
  ELSE PutTree(staged[job.a]) /\ staged' = [staged EXCEPT ![job.a] = NoTree]

Unstage ==
  /\ At("unstage") /\ TreeUnstaged
  /\ IF asset = job.before.asset THEN UNCHANGED <<asset, away>>
     ELSE asset' = away /\ away' = 0
  /\ End("failed")
  /\ UNCHANGED <<system, backup, meta, hook, seeded, bounds, past>>

\* A rollback does not come to its end: it is killed, or raises in turn.
CutShort(how, torn) == Fault({how} \cup torn) /\ End(how)

\* The new tree stays, or goes without the old one, or the old one is back and
\* the asset is not; update then still puts its files back (finally).
RestoreTreeStops(how) ==
  /\ At("untree") /\ CutShort(how, {})
  /\ \/ UNCHANGED <<tree, backup, asset>>
     \/ PutTree(NoTree) /\ UNCHANGED <<backup, asset>>
     \/ TreeBack /\ HasAsset /\ asset' \in {asset, 0, Strange}
  /\ IF how = "lost" /\ job.cmd = "update"
       THEN meta' = job.before.meta /\ hook' = job.before.hook
       ELSE UNCHANGED <<meta, hook>>
  /\ UNCHANGED <<system, staged, away, seeded, bounds>>

\* The hooks, when the first n of their files are back
HooksBack(n) ==
  [active |-> IF n > 0 THEN job.before.hook.active ELSE hook.active,
   bak    |-> IF n > 1 THEN job.before.hook.bak ELSE hook.bak,
   cbak   |-> IF n > 2 THEN job.before.hook.cbak ELSE hook.cbak]

\* It stops between two files, or within one: what was there is written anew
\* (write_bytes truncates), even if it had not changed.
RestoreFilesStop(how) ==
  /\ At("unfiles")
  /\ \/ UNCHANGED <<meta, hook>> /\ CutShort(how, {})
     \/ \E n \in 0 .. 3 :
          meta' = job.before.meta /\ hook' = HooksBack(n) /\ CutShort(how, {})
     \/ job.before.meta.listed # {} /\ meta' = TornMeta /\ UNCHANGED hook /\ CutShort(how, {})
     \/ /\ meta' = job.before.meta /\ CutShort(how, {"torn"})
        /\ \/ job.before.hook.active # "none" /\ hook' = [hook EXCEPT !.active = "torn"]
           \/ job.before.hook.bak # "none" /\ hook' = [HooksBack(1) EXCEPT !.bak = "torn"]
           \/ job.before.hook.cbak # "none" /\ hook' = [HooksBack(2) EXCEPT !.cbak = "torn"]
  /\ seeded' \in {seeded} \cup (IF hook' = job.before.hook THEN {job.before.seeded} ELSE {})
  /\ UNCHANGED <<system, tree, backup, staged, asset, away, bounds>>

UnstageStops(how) ==
  /\ At("unstage") /\ CutShort(how, {})
  /\ UNCHANGED <<tree, staged>> \/ TreeUnstaged
  /\ UNCHANGED <<system, backup, asset, away, meta, hook, seeded, bounds>>

RollbackStops ==
  \E how \in {"killed", "lost"} :
    RestoreTreeStops(how) \/ RestoreFilesStop(how) \/ UnstageStops(how)

\* A kill between two steps, or within one: of a copy of the asset or of a hook,
\* or of the restoration of install.yaml by _publish_install_result.
Kill ==
  /\ ~Idle
  /\ Fault({"killed"}) /\ End("killed")
  /\ asset' \in {asset} \cup (IF At("assets") /\ HasAsset THEN {Strange} ELSE {})
  /\ meta' \in {meta} \cup (IF (At("sync") \/ At("publish")) /\ meta.listed # {}
                             THEN {TornMeta} ELSE {})
  /\ hook' \in HookCut
  /\ UNCHANGED <<system, tree, backup, staged, away, seeded, bounds>>

\* The user works while no command runs.
Editing == Idle /\ edits < MaxEdits /\ edits' = edits + 1

EditOwnFile(a) ==
  /\ Editing /\ Exists(tree[a])
  /\ tree' = [tree EXCEPT ![a].local = edits + 1]
  /\ past' = [past EXCEPT !.local[a] = edits + 1]
  /\ UNCHANGED <<system, backup, staged, asset, away, meta, hook, seeded, job, commands>>

EditFramework(a) ==
  /\ Editing /\ Exists(tree[a])
  /\ tree' = [tree EXCEPT ![a].custom = edits + 1]
  /\ UNCHANGED <<system, backup, staged, asset, away, meta, hook, seeded, job, commands, past>>

EditAsset ==
  /\ Editing /\ asset # 0
  /\ asset' = Strange
  /\ past' = [past EXCEPT !.seen = @ \cup {"touched"}]
  /\ UNCHANGED <<system, tree, backup, staged, away, meta, hook, seeded, job, commands>>

WriteHook(h) ==
  /\ Editing /\ h \notin {hook.active, hook.bak, hook.cbak}
  /\ hook' = [hook EXCEPT !.active = h]
  /\ past' = [past EXCEPT !.hooks = (@ \ {hook.active}) \cup {h}]
  /\ UNCHANGED <<system, tree, backup, staged, asset, away, meta, seeded, job, commands>>

UserWorks ==
  \/ \E a \in Adapter : EditOwnFile(a) \/ EditFramework(a)
  \/ EditAsset
  \/ \E h \in UserHook : WriteHook(h)

Replace ==
  \/ ClearBackup \/ MoveAside \/ CopyContent \/ CopyCommit \/ SwapIn
  \/ CarryForward \/ CopyAssets \/ Seed \/ MoveHook \/ CopyHook \/ Publish
Uninstall ==
  \/ StageAsset \/ StageTree \/ DropMeta \/ Unhook \/ CopyHookAgain \/ RemoveStaged
Rollback ==
  \/ ReplaceFails \/ Raises \/ RestoreTree \/ RestoreFiles \/ Unstage \/ RollbackStops

DeployNext ==
  \/ \E a \in Adapter : BeginInit(a) \/ BeginUninstall(a)
  \/ BeginUpdate \/ SystemSwap \/ SystemStamp \/ SyncProject
  \/ ElsewhereSwap \/ ElsewhereStamp \/ Publication
  \/ Replace \/ Uninstall \/ Rollback \/ Kill \/ UserWorks

DeploySpec == DeployInit /\ [][DeployNext]_deployVars

-----------------------------------------------------------------------------
\* Properties

\* The user's own files.  No single kill or failure loses them, not even of a
\* rollback: the newest edition is in the tree, the backup or the staged tree;
\* it takes another command afterwards (_replace_framework_dir removes the
\* backup first).  And between commands, if none was cut short, they are where
\* the user left them, whatever upgrades and rolled back failures there were.
UserWorkInPlace ==
  \A a \in Adapter :
    /\ ~Seen({"retry"}) =>
         past.local[a] \in {tree[a].local, backup[a].local, staged[a].local}
    /\ Idle /\ Clean => tree[a].local = past.local[a]

\* No hook that the user wrote is lost, not by a kill either, unless one comes
\* within the rewriting of a hook by a rollback (_restore_file_state_snapshot
\* truncates the only copy).
UserHooksKept == ~Seen({"torn"}) => past.hooks \subseteq HookFiles(hook)

\* install.yaml lists exactly the adapters that are there, and Cairness's git
\* hook is not left behind by the last one, if no command was cut short.
RecordTellsTruth ==
  Idle /\ Clean =>
    /\ \A a \in Adapter : a \in meta.listed <=> tree[a].kind = "cairness"
    /\ meta.active # "none" <=> meta.listed # {}
    /\ hook.active = "cairness" => meta.listed # {}

\* The asset outside of the tree is the one that the tree would write, so that
\* the next preflight passes, or it is of no release, because the user changed it
\* or a release dropped a file of it.
OddAsset(content) == content = Strange /\ Seen({"dropped", "touched"})

AssetFollowsTree ==
  Idle /\ Clean /\ ~Seen({"overlap"}) =>
    \A a \in AssetAdapter : asset = tree[a].content \/ OddAsset(asset)

\* A tree does not claim a release that it does not have, unless another
\* project's update of the system installation overlapped the copy: an
\* update that finds the COMMIT it expects does nothing.
CommitTellsContent ==
  ~Seen({"overlap"}) =>
    /\ core.commit <= core.content
    /\ \A a \in Adapter : tree[a].commit <= tree[a].content

Ends(how) == ~Idle /\ job'.pc = "idle" /\ job'.ended = how

\* What sync_project says of a missing layout: "run 'cc-cairn init' to
\* install it".  After a kill between the two renames init refuses to, when
\* there is a project asset.
AdvisedInitWorks ==
  Idle /\ ~Seen({"touched"}) =>
    \A a \in meta.listed : ~Exists(tree[a]) => PreflightPasses(a)

\* What _replace_framework_dir says of itself: "on failure the backup is
\* restored".  Not if mkdtemp raises, after the renaming and before the try.
FailureRestoresBackup ==
  [][At("build") /\ Ends("lost") => tree'[job.a] = job.before.tree]_deployVars

\* A command whose rollback comes to its end (it is not lost) leaves the
\* project as it found it - but for the backup, which is gone.
FailureRestores ==
  [][Ends("failed") =>
       /\ tree'[job.a] = job.before.tree /\ staged'[job.a] = job.before.staged
       /\ asset' = job.before.asset /\ away' = job.before.away
       /\ meta' = job.before.meta /\ hook' = job.before.hook
       /\ seeded' = job.before.seeded]_deployVars

\* An upgrade that succeeds has carried the user's own files over, and the
\* whole of what it replaced, with the changed framework files, is the backup.
UpgradeKeepsPrevious ==
  [][Ends("passed") /\ job.pc = "publish" /\ Replaced =>
       /\ backup'[job.a] = job.before.tree
       /\ tree'[job.a].local = job.before.tree.local]_deployVars

-----------------------------------------------------------------------------
\* What holds while a command is under way: the parts of the inductive
\* invariant that DeploymentProofs uses.

\* A directory that is not there has nothing in it.
TreesWhole ==
  \A a \in Adapter : \A t \in {tree[a], backup[a], staged[a]} : ~Exists(t) => t = NoTree

\* Releases only grow, and a COMMIT is written after the files it speaks of.  A
\* copy that is under way is of the present release, if nothing overlapped it.
Truthful(t) == t.commit <= t.content

ReleasesInOrder ==
  /\ core.commit <= core.content /\ elsewhere <= core.content /\ core.content <= upstream
  /\ job.fresh.local = 0
  /\ At("stamp") => job.fresh.commit \in 1 .. core.content
  /\ job.pc \in {"system", "sync", "clear", "aside"} => job.fresh = NoTree
  /\ ~Seen({"overlap"}) =>
       /\ \A a \in Adapter : Truthful(tree[a]) /\ Truthful(backup[a]) /\ Truthful(staged[a])
       /\ At("build") => /\ job.fresh.content \in {0, core.content}
                         /\ job.fresh.commit \in {0, core.commit}
       /\ job.pc \in {"carry", "assets"} => tree[job.a].content = core.content

\* The phases of init and update before the old tree is moved, and with the new
\* one in place; the phases of uninstall with the tree staged.
Untouched == {"system", "stamp", "sync", "clear", "aside"}
Swapped == {"assets", "seed", "hook", "copyhook", "publish", "untree"}
Staged == {"dropmeta", "unhook", "copyagain", "remove"}
Removal == Staged \cup {"stageasset", "stagetree", "unstage"}

\* Where the tree that the command found is by now, ...
TreeKept ==
  /\ tree[job.a] = job.before.tree /\ staged[job.a] = job.before.staged
TreeStaged ==
  /\ ~Exists(tree[job.a]) /\ staged[job.a] = job.before.tree /\ Exists(job.before.tree)
  /\ job.before.staged = NoTree
TreeUndo ==
  /\ job.cmd # "uninstall" =>
       /\ staged[job.a] = job.before.staged
       /\ job.pc \in Untouched \cup {"unfiles"} => tree[job.a] = job.before.tree
       /\ At("clear") \/ At("aside") => Replaced
       /\ At("build") => ~Exists(tree[job.a])
       /\ job.pc \in {"build", "carry"} \cup Swapped =>
            IF Replaced THEN backup[job.a] = job.before.tree ELSE job.before.tree = NoTree
       /\ At("carry") => Replaced
       /\ job.pc \in {"carry"} \cup Swapped => tree[job.a].kind = "cairness"
       /\ job.pc \in Swapped => tree[job.a].local = job.before.tree.local
  /\ job.cmd = "uninstall" =>
       /\ Exists(job.before.tree)
       /\ job.pc \in {"stageasset", "stagetree"} => TreeKept
       /\ job.pc \in Staged => TreeStaged
       /\ job.pc \in {"unfiles", "unstage"} => TreeKept \/ TreeStaged

\* ... and the asset, ...
AssetKept == asset = job.before.asset /\ away = job.before.away
AssetStaged ==
  /\ asset = 0 /\ job.before.asset # 0
  /\ away = job.before.asset /\ job.before.away = 0
AssetUndo ==
  /\ job.cmd # "uninstall" =>
       /\ away = job.before.away
       /\ job.a \notin AssetAdapter \/ job.pc \notin Swapped => asset = job.before.asset
       /\ job.pc \in {"clear", "aside", "build", "carry"} \cup Swapped
            /\ job.a \in AssetAdapter /\ job.before.asset # 0 =>
              job.before.asset = job.before.tree.content
  /\ job.cmd = "uninstall" =>
       /\ AssetKept \/ AssetStaged
       /\ At("stageasset") \/ job.a \notin AssetAdapter => AssetKept

\* ... and the record and the hook.
RecordUndo ==
  /\ job.cmd # "uninstall" =>
       /\ meta = job.before.meta
       /\ job.pc \in Untouched \cup {"build", "carry"} =>
            hook = job.before.hook /\ seeded = job.before.seeded
  /\ job.cmd = "uninstall" =>
       /\ job.pc \in {"stageasset", "stagetree", "dropmeta"} => meta = job.before.meta
       /\ job.pc \in {"unhook", "copyagain", "remove"} =>
            meta.listed = job.before.meta.listed \ {job.a}
       /\ At("unstage") =>
            meta = job.before.meta /\ hook = job.before.hook /\ seeded = job.before.seeded

\* A command under way can be undone.
PhasesFit ==
  /\ job.pc \in Removal => job.cmd = "uninstall"
  /\ job.cmd = "uninstall" => job.pc \in Removal \cup {"idle", "unfiles"}
Undoable ==
  /\ PhasesFit
  /\ ~Idle => TreeUndo
  /\ ~Idle => AssetUndo
  /\ ~Idle => RecordUndo

\* The user's hooks are there now and in what the command would restore.
HooksHeld ==
  /\ ~Seen({"torn"}) => past.hooks \subseteq HookFiles(hook)
  /\ ~Idle /\ ~Seen({"torn"}) => past.hooks \subseteq HookFiles(job.before.hook)
  /\ job.pc \in {"copyhook", "copyagain"} => hook.active \notin UserHook
  /\ ~Idle /\ ~At("remove") => job.before.hook.bak \in {"none", hook.bak}
  /\ ~Idle /\ ~At("remove") => job.before.hook.cbak \in {"none", hook.cbak}

\* What holds as long as no command was cut short
Rests(a) == Idle \/ a # job.a

WorkHeld ==
  /\ ~Idle /\ ~Seen({"retry"}) => Clean
  /\ Clean => \A a \in Adapter : Rests(a) => tree[a].local = past.local[a]
  /\ Clean /\ ~Idle => past.local[job.a] = job.before.tree.local
  /\ ~Seen({"retry"}) /\ ~Clean => \A a \in Adapter :
       past.local[a] \in {tree[a].local, backup[a].local, staged[a].local}

\* The record, the trees and the hook are consistent, and so is what the
\* command found.
Sound(m) == IF m.listed = {} THEN m.active = "none" ELSE m.active \in m.listed

RecordHeld ==
  /\ Sound(meta) \/ meta = TornMeta
  /\ Clean \/ ~Idle => Sound(meta)
  /\ ~Idle => Sound(job.before.meta)
  /\ Clean =>
       /\ \A a \in Adapter : Rests(a) => (a \in meta.listed <=> tree[a].kind = "cairness")
       /\ Idle \/ At("remove") => (hook.active = "cairness" => meta.listed # {})
       /\ At("copyagain") => meta.listed # {}
       /\ ~Idle =>
            /\ job.a \in job.before.meta.listed <=> job.before.tree.kind = "cairness"
            /\ job.before.meta.listed \ {job.a} = meta.listed \ {job.a}
            /\ job.before.hook.active = "cairness" => job.before.meta.listed # {}

AssetHeld ==
  Clean /\ ~Seen({"overlap"}) =>
    \A a \in AssetAdapter :
      /\ Rests(a) => asset = tree[a].content \/ OddAsset(asset)
      /\ ~Rests(a) =>
           job.before.asset = job.before.tree.content \/ OddAsset(job.before.asset)
      /\ ~Rests(a) /\ job.pc \in {"seed", "hook", "copyhook", "publish"} =>
           asset = tree[a].content \/ OddAsset(asset)
      /\ ~Rests(a) /\ job.pc \in Staged \cup {"stagetree"} => asset = 0 \/ OddAsset(asset)
=============================================================================
