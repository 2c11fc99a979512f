--------------------------- MODULE DeploymentProofs ---------------------------
(***************************************************************************)
(* Theorems about Deployment, for every set of adapters and hooks, any     *)
(* number of commands, failures and kills at any step, of a rollback too,  *)
(* and updates of the system installation from elsewhere at any time; and  *)
(* about Doctor, for every set of state directories and of fixes.          *)
(***************************************************************************)
EXTENDS Doctor, TLAPS

-----------------------------------------------------------------------------
\* Types.

LEMMA Bounds ==
  /\ MaxRelease \in Nat \ {0} /\ MaxEdits \in Nat /\ MaxCommands \in Nat /\ MaxFaults \in Nat
  /\ Strange \in Nat /\ MaxRelease < Strange
  /\ Legacy \in Adapter /\ AssetAdapter \subseteq Adapter
  /\ "none" \notin Adapter /\ "torn" \notin Adapter
  /\ "none" \notin UserHook /\ "cairness" \notin UserHook /\ "torn" \notin UserHook
BY DeployParameters DEF DeployAssumption, Strange

LEMMA NoTreeTyped == NoTree \in Tree /\ Installed \in Tree /\ ~Exists(NoTree)
BY Bounds DEF NoTree, Installed, Tree, Exists

LEMMA FoundTyped ==
  ASSUME DeployTypeOK, NEW a \in Adapter
  PROVE  Found(a) \in Before
BY DEF Found, Before, DeployTypeOK

LEMMA OneMore ==
  ASSUME NEW max \in Nat, NEW n \in 0 .. max, n < max
  PROVE  n + 1 \in 0 .. max
OBVIOUS

LEMMA InitTyped == DeployInit => DeployTypeOK
<1> SUFFICES ASSUME DeployInit PROVE DeployTypeOK
  OBVIOUS
<1>1. /\ 1 \in Release /\ 0 \in 0 .. MaxRelease /\ 0 \in 0 .. MaxEdits /\ 0 \in 0 .. MaxCommands
      /\ 0 \in 0 .. Strange /\ 1 \in 0 .. Strange /\ 0 \in 0 .. MaxFaults
  BY Bounds DEF Release
<1>2. PICK present \in SUBSET Adapter, mine \in BOOLEAN :
        /\ tree = [a \in Adapter |->
                   IF a \in present THEN Installed
                   ELSE IF a = Legacy /\ mine THEN [NoTree EXCEPT !.kind = "foreign"]
                   ELSE NoTree]
        /\ asset = IF present \cap AssetAdapter # {} THEN 1 ELSE 0
        /\ seeded = (present # {})
        /\ meta \in Meta
        /\ hook \in Hooks
  BY DEF DeployInit
<1>3. upstream \in Release /\ core \in [content : Release, commit : Release]
      /\ elsewhere \in 0 .. MaxRelease /\ edits \in 0 .. MaxEdits
      /\ commands \in 0 .. MaxCommands /\ away \in 0 .. Strange
  BY <1>1 DEF DeployInit
<1>4. [NoTree EXCEPT !.kind = "foreign"] \in Tree
  BY NoTreeTyped DEF Tree
<1>5. /\ tree \in [Adapter -> Tree] /\ backup \in [Adapter -> Tree]
      /\ staged \in [Adapter -> Tree]
  <2>1. tree \in [Adapter -> Tree]
    BY <1>2, <1>4, NoTreeTyped
  <2>2. backup = [a \in Adapter |-> NoTree] /\ staged = [a \in Adapter |-> NoTree]
    BY DEF DeployInit
  <2>. QED
    BY <2>1, <2>2, NoTreeTyped
<1>6. asset \in 0 .. Strange /\ seeded \in BOOLEAN
  BY <1>1, <1>2
<1>7. Found(Legacy) \in Before
  BY Bounds, <1>2, <1>3, <1>5, <1>6 DEF Found, Before
<1>8. job \in Job
  <2>1. job = [pc |-> "idle", cmd |-> "init", a |-> Legacy, before |-> Found(Legacy),
               fresh |-> NoTree, ended |-> ""]
    BY DEF DeployInit
  <2>. QED
    BY Bounds, NoTreeTyped, <1>7, <2>1 DEF Job, Phase
<1>9. past \in Past
  <2>1. past = [local |-> [a \in Adapter |-> 0], faults |-> 0, seen |-> {},
                hooks |-> UserHook \cap {hook.active, hook.bak, hook.cbak}]
    BY DEF DeployInit
  <2>. QED
    BY <1>1, <2>1 DEF Past
<1>. QED
  BY <1>2, <1>3, <1>5, <1>6, <1>8, <1>9 DEF DeployTypeOK

\* The building blocks of the actions keep the types.
LEMMA GoTyped ==
  ASSUME job \in Job, NEW p \in Phase, Go(p)
  PROVE  /\ job' \in Job /\ job'.pc = p /\ job'.cmd = job.cmd /\ job'.a = job.a
         /\ job'.before = job.before /\ job'.fresh = job.fresh
BY DEF Go, Job

LEMMA EndTyped ==
  ASSUME job \in Job, NEW how \in {"passed", "failed", "lost", "killed"}, End(how)
  PROVE  /\ job' \in Job /\ job'.pc = "idle" /\ job'.cmd = job.cmd /\ job'.a = job.a
         /\ job'.before = job.before /\ job'.fresh = NoTree /\ job'.ended = how
BY NoTreeTyped DEF End, Job, Phase

LEMMA PutTreeTyped ==
  ASSUME DeployTypeOK, NEW t \in Tree, PutTree(t)
  PROVE  /\ tree' \in [Adapter -> Tree] /\ tree'[job.a] = t
         /\ \A a \in Adapter : a # job.a => tree'[a] = tree[a]
BY DEF PutTree, DeployTypeOK, Job

LEMMA PutBackupTyped ==
  ASSUME DeployTypeOK, NEW t \in Tree, PutBackup(t)
  PROVE  /\ backup' \in [Adapter -> Tree] /\ backup'[job.a] = t
         /\ \A a \in Adapter : a # job.a => backup'[a] = backup[a]
BY DEF PutBackup, DeployTypeOK, Job

LEMMA PutStagedTyped ==
  ASSUME DeployTypeOK, NEW t \in Tree, staged' = [staged EXCEPT ![job.a] = t]
  PROVE  /\ staged' \in [Adapter -> Tree] /\ staged'[job.a] = t
         /\ \A a \in Adapter : a # job.a => staged'[a] = staged[a]
BY DEF DeployTypeOK, Job

LEMMA BeforeTyped ==
  ASSUME DeployTypeOK
  PROVE  /\ job.a \in Adapter /\ job.fresh \in Tree /\ job.before \in Before
         /\ tree[job.a] \in Tree /\ backup[job.a] \in Tree /\ staged[job.a] \in Tree
         /\ job.before.tree \in Tree /\ job.before.asset \in 0 .. Strange
         /\ job.before.meta \in Meta /\ job.before.hook \in Hooks
         /\ job.before.seeded \in BOOLEAN
BY DEF DeployTypeOK, Job, Before

LEMMA FaultTyped ==
  ASSUME past \in Past, NEW what \in SUBSET Mishap, Fault(what)
  PROVE  /\ past' \in Past /\ past'.seen = past.seen \cup what
         /\ past'.local = past.local /\ past'.hooks = past.hooks
<1>1. past.faults + 1 \in 0 .. MaxFaults
  BY Bounds, OneMore DEF Fault, Past
<1>. QED
  BY <1>1 DEF Fault, Past

LEMMA GivenTyped ==
  ASSUME DeployTypeOK, NEW cmd \in {"init", "update", "uninstall"}, NEW a \in Adapter,
         NEW p \in Phase, Given(cmd, a, p)
  PROVE  /\ job' = [pc |-> p, cmd |-> cmd, a |-> a, before |-> Found(a),
                    fresh |-> NoTree, ended |-> ""]
         /\ job' \in Job /\ Idle /\ meta # TornMeta
         /\ past' \in Past /\ past'.local = past.local /\ past'.hooks = past.hooks
         /\ past'.seen = IF Clean THEN past.seen ELSE past.seen \cup {"retry"}
         /\ commands' \in 0 .. MaxCommands
<1>1. job' \in Job
  BY FoundTyped, NoTreeTyped DEF Given, Job
<1>2. /\ past' \in Past /\ past'.local = past.local /\ past'.hooks = past.hooks
      /\ past'.seen = IF Clean THEN past.seen ELSE past.seen \cup {"retry"}
  BY DEF Given, DeployTypeOK, Past, Mishap
<1>3. commands' \in 0 .. MaxCommands
  <2>1. commands \in 0 .. MaxCommands /\ commands < MaxCommands /\ commands' = commands + 1
    BY DEF Given, DeployTypeOK
  <2>. QED
    BY <2>1, Bounds, OneMore
<1>. QED
  BY <1>1, <1>2, <1>3 DEF Given

-----------------------------------------------------------------------------
\* What the actions do, in terms of the fields that the invariant speaks of;
\* every one of them keeps the types.

\* The command goes on at p, or it has ended; its tree alone is another.
OnWith(p, fresh) ==
  /\ job'.pc = p /\ job'.cmd = job.cmd /\ job'.a = job.a /\ job'.before = job.before
  /\ job'.fresh = fresh
Goes(p) == OnWith(p, job.fresh)
Stops(how) == OnWith("idle", NoTree) /\ job'.ended = how
Only(new, old, t) ==
  new[job.a] = t /\ \A a \in Adapter : a # job.a => new[a] = old[a]
Faulty(what) ==
  past'.seen = past.seen \cup what /\ past'.local = past.local /\ past'.hooks = past.hooks

\* A command begins.
Begins(cmd, a, p) ==
  /\ Idle /\ meta # TornMeta
  /\ job'.pc = p /\ job'.cmd = cmd /\ job'.a = a /\ job'.before = Found(a)
  /\ job'.fresh = NoTree
  /\ past'.local = past.local /\ past'.hooks = past.hooks
  /\ past'.seen = IF Clean THEN past.seen ELSE past.seen \cup {"retry"}
  /\ UNCHANGED <<system, project>>

LEMMA BeginEffect ==
  ASSUME DeployTypeOK, NEW cmd \in {"init", "update", "uninstall"}, NEW a \in Adapter,
         NEW p \in Phase, Given(cmd, a, p), UNCHANGED <<system, project, edits>>
  PROVE  DeployTypeOK' /\ Begins(cmd, a, p)
<1>1. job' \in Job /\ past' \in Past /\ commands' \in 0 .. MaxCommands
  BY GivenTyped
<1>2. job' = [pc |-> p, cmd |-> cmd, a |-> a, before |-> Found(a),
              fresh |-> NoTree, ended |-> ""]
  BY DEF Given
<1>3. /\ job'.pc = p /\ job'.cmd = cmd /\ job'.a = a /\ job'.before = Found(a)
      /\ job'.fresh = NoTree
  BY <1>2
<1>4. Begins(cmd, a, p)
  BY <1>3, GivenTyped DEF Begins
<1>. QED
  BY <1>1, <1>4 DEF DeployTypeOK, system, project

LEMMA BeginInitEffect ==
  ASSUME DeployTypeOK, NEW a \in Adapter, BeginInit(a)
  PROVE  /\ DeployTypeOK' /\ PreflightPasses(a)
         /\ Begins("init", a, IF Exists(tree[a]) THEN "clear" ELSE "build")
BY BeginEffect DEF BeginInit, Phase

LEMMA BeginUpdateEffect ==
  ASSUME DeployTypeOK, BeginUpdate
  PROVE  DeployTypeOK' /\ Begins("update", Legacy, "system")
BY BeginEffect, Bounds DEF BeginUpdate, Phase

LEMMA BeginUninstallEffect ==
  ASSUME DeployTypeOK, NEW a \in Adapter, BeginUninstall(a)
  PROVE  /\ DeployTypeOK' /\ a \in meta.listed /\ tree[a].kind = "cairness"
         /\ Begins("uninstall", a, "stageasset")
BY BeginEffect DEF BeginUninstall, Phase

LEMMA SystemSwapEffect ==
  ASSUME DeployTypeOK, SystemSwap
  PROVE  /\ DeployTypeOK' /\ At("system")
         /\ UNCHANGED <<upstream, elsewhere, project, past>>
         /\ \/ Goes("sync") /\ UNCHANGED core
            \/ /\ OnWith("stamp", [job.fresh EXCEPT !.commit = upstream])
               /\ core'.content = upstream /\ core'.commit = core.commit
<1>1. job \in Job /\ upstream \in Release /\ core \in [content : Release, commit : Release]
      /\ job.fresh \in Tree
  BY BeforeTyped DEF DeployTypeOK
<1>2. CASE Go("sync") /\ UNCHANGED core
  <2>1. Goes("sync") /\ job' \in Job
    BY <1>1, <1>2, GoTyped DEF Goes, OnWith, Phase
  <2>. QED
    BY <1>2, <2>1 DEF SystemSwap, DeployTypeOK, project, bounds
<1>3. CASE /\ job' = [job EXCEPT !.pc = "stamp", !.fresh.commit = upstream]
           /\ core' = [core EXCEPT !.content = upstream]
  <2>1. [job.fresh EXCEPT !.commit = upstream] \in Tree
    BY <1>1, Bounds DEF Tree, Release
  <2>2. OnWith("stamp", [job.fresh EXCEPT !.commit = upstream]) /\ job' \in Job
    BY <1>1, <1>3, <2>1 DEF OnWith, Job, Phase
  <2>3. core' \in [content : Release, commit : Release] /\ core'.content = upstream
        /\ core'.commit = core.commit
    BY <1>1, <1>3
  <2>. QED
    BY <2>2, <2>3 DEF SystemSwap, DeployTypeOK, project, bounds
<1>. QED
  BY <1>2, <1>3 DEF SystemSwap

LEMMA SystemStampEffect ==
  ASSUME DeployTypeOK, ReleasesInOrder, SystemStamp
  PROVE  /\ DeployTypeOK' /\ At("stamp") /\ OnWith("sync", NoTree)
         /\ core'.commit = job.fresh.commit /\ core'.content = core.content
         /\ UNCHANGED <<upstream, elsewhere, project, past>>
<1>1. job' \in Job /\ OnWith("sync", NoTree)
  BY NoTreeTyped DEF SystemStamp, DeployTypeOK, OnWith, Job, Phase
<1>2. core' \in [content : Release, commit : Release] /\ core'.content = core.content
      /\ core'.commit = job.fresh.commit
  <2>1. job.fresh.commit \in Release
    BY Bounds DEF SystemStamp, ReleasesInOrder, DeployTypeOK, Release
  <2>. QED
    BY <2>1 DEF SystemStamp, DeployTypeOK
<1>. QED
  BY <1>1, <1>2 DEF SystemStamp, DeployTypeOK, project, bounds

LEMMA SelectedTyped ==
  ASSUME DeployTypeOK
  PROVE  Selected \in Adapter \cup {"none"}
BY Bounds DEF Selected, DeployTypeOK, Meta

LEMMA SyncProjectEffect ==
  ASSUME DeployTypeOK, SyncProject
  PROVE  /\ DeployTypeOK' /\ At("sync")
         /\ UNCHANGED <<system, tree, backup, staged, asset, away, hook, seeded, past>>
         /\ \/ Stops("passed") /\ UNCHANGED meta
            \/ Stops("failed") /\ UNCHANGED meta
            \/ \E a \in Adapter :
                 /\ a = meta.active \/ tree[a].kind = "cairness"
                 /\ Stops("passed") /\ meta' = Listing(a)
            \/ \E a \in Adapter :
                 /\ tree[a].kind = "cairness" /\ PreflightPasses(a)
                 /\ job'.pc = "clear" /\ job'.cmd = job.cmd /\ job'.a = a
                 /\ job'.before = Found(a) /\ job'.fresh = job.fresh
                 /\ UNCHANGED meta
<1>1. job \in Job /\ meta \in Meta
  BY DEF DeployTypeOK
<1>2. CASE End("passed") /\ UNCHANGED meta
  <2>1. Stops("passed") /\ job' \in Job
    BY <1>1, <1>2, EndTyped DEF Stops, OnWith
  <2>. QED
    BY <1>2, <2>1 DEF SyncProject, DeployTypeOK, system, bounds
<1>3. CASE End("failed") /\ UNCHANGED meta
  <2>1. Stops("failed") /\ job' \in Job
    BY <1>1, <1>3, EndTyped DEF Stops, OnWith
  <2>. QED
    BY <1>3, <2>1 DEF SyncProject, DeployTypeOK, system, bounds
<1>4. CASE Selected # "none" /\ meta' = Listing(Selected) /\ End("passed")
  <2>1. Stops("passed") /\ job' \in Job
    BY <1>1, <1>4, EndTyped DEF Stops, OnWith
  <2>2. Selected \in Adapter /\ (Selected = meta.active \/ tree[Selected].kind = "cairness")
    BY <1>4, SelectedTyped DEF Selected
  <2>3. meta' \in Meta
    BY <1>1, <1>4, <2>2 DEF Listing, Meta
  <2>. QED
    BY <1>4, <2>1, <2>2, <2>3 DEF SyncProject, DeployTypeOK, system, bounds
<1>5. CASE /\ Selected # "none" /\ PreflightPasses(Selected)
           /\ tree[Selected].kind = "cairness" /\ UNCHANGED meta
           /\ job' = [job EXCEPT !.pc = "clear", !.a = Selected, !.before = Found(Selected)]
  <2>1. Selected \in Adapter
    BY <1>5, SelectedTyped
  <2>2. Found(Selected) \in Before
    BY <2>1, FoundTyped
  <2>3. job' \in Job
    BY <1>1, <1>5, <2>1, <2>2 DEF Job, Phase
  <2>4. /\ job'.pc = "clear" /\ job'.cmd = job.cmd /\ job'.a = Selected
        /\ job'.before = Found(Selected) /\ job'.fresh = job.fresh
    BY <1>1, <1>5 DEF Job
  <2>. QED
    BY <1>5, <2>1, <2>3, <2>4 DEF SyncProject, DeployTypeOK, system, bounds
<1>6. \/ End("passed") /\ UNCHANGED meta
      \/ End("failed") /\ UNCHANGED meta
      \/ Selected # "none" /\ meta' = Listing(Selected) /\ End("passed")
      \/ /\ Selected # "none" /\ PreflightPasses(Selected)
         /\ tree[Selected].kind = "cairness" /\ UNCHANGED meta
         /\ job' = [job EXCEPT !.pc = "clear", !.a = Selected, !.before = Found(Selected)]
  BY DEF SyncProject
<1>. QED
  BY <1>2, <1>3, <1>4, <1>5, <1>6

LEMMA ElsewhereEffect ==
  ASSUME DeployTypeOK, ElsewhereSwap \/ ElsewhereStamp
  PROVE  /\ DeployTypeOK' /\ UNCHANGED <<upstream, project, job>>
         /\ past'.local = past.local /\ past'.hooks = past.hooks
         /\ IF Copying THEN past'.seen = past.seen \cup {"overlap"} ELSE past' = past
         /\ \/ /\ elsewhere' = upstream
               /\ core'.content = upstream /\ core'.commit = core.commit
            \/ /\ elsewhere # 0 /\ elsewhere' = 0
               /\ core'.commit = elsewhere /\ core'.content = core.content
<1>1. /\ past' \in Past /\ past'.local = past.local /\ past'.hooks = past.hooks
      /\ IF Copying THEN past'.seen = past.seen \cup {"overlap"} ELSE past' = past
  BY DEF ElsewhereSwap, ElsewhereStamp, Overlaps, DeployTypeOK, Past, Mishap
<1>2. CASE ElsewhereSwap
  <2>1. /\ core' \in [content : Release, commit : Release] /\ elsewhere' = upstream
        /\ core'.content = upstream /\ core'.commit = core.commit
    BY <1>2 DEF ElsewhereSwap, DeployTypeOK
  <2>2. upstream \in 0 .. MaxRelease
    BY Bounds DEF DeployTypeOK, Release
  <2>. QED
    BY <1>1, <1>2, <2>1, <2>2 DEF ElsewhereSwap, DeployTypeOK, project, bounds
<1>3. CASE ElsewhereStamp
  <2>1. elsewhere \in Release /\ 0 \in 0 .. MaxRelease
    BY <1>3, Bounds DEF ElsewhereStamp, DeployTypeOK, Release
  <2>2. /\ core' \in [content : Release, commit : Release] /\ elsewhere' = 0
        /\ core'.commit = elsewhere /\ core'.content = core.content
    BY <1>3, <2>1 DEF ElsewhereStamp, DeployTypeOK
  <2>. QED
    BY <1>1, <1>3, <2>1, <2>2 DEF ElsewhereStamp, DeployTypeOK, project, bounds
<1>. QED
  BY <1>2, <1>3

LEMMA PublicationEffect ==
  ASSUME DeployTypeOK, Publication
  PROVE  /\ DeployTypeOK' /\ UNCHANGED <<core, elsewhere, project, job, past>>
         /\ upstream' = upstream + 1
<1>1. upstream' \in Release
  BY Bounds DEF Publication, DeployTypeOK, Release
<1>. QED
  BY <1>1 DEF Publication, DeployTypeOK, project, bounds

LEMMA ClearBackupEffect ==
  ASSUME DeployTypeOK, ClearBackup
  PROVE  /\ DeployTypeOK' /\ At("clear") /\ Goes("aside") /\ Only(backup', backup, NoTree)
         /\ UNCHANGED <<system, tree, staged, asset, away, meta, hook, seeded, past>>
<1>1. job' \in Job /\ Goes("aside")
  BY GoTyped DEF ClearBackup, DeployTypeOK, Goes, OnWith, Phase
<1>2. backup' \in [Adapter -> Tree] /\ Only(backup', backup, NoTree)
  BY PutBackupTyped, NoTreeTyped DEF ClearBackup, Only
<1>. QED
  BY <1>1, <1>2 DEF ClearBackup, DeployTypeOK, system, bounds

LEMMA MoveAsideEffect ==
  ASSUME DeployTypeOK, MoveAside
  PROVE  /\ DeployTypeOK' /\ At("aside") /\ Goes("build")
         /\ Only(backup', backup, tree[job.a]) /\ Only(tree', tree, NoTree)
         /\ UNCHANGED <<system, staged, asset, away, meta, hook, seeded, past>>
<1>1. job' \in Job /\ Goes("build")
  BY GoTyped DEF MoveAside, DeployTypeOK, Goes, OnWith, Phase
<1>2. backup' \in [Adapter -> Tree] /\ Only(backup', backup, tree[job.a])
  BY PutBackupTyped, BeforeTyped DEF MoveAside, Only
<1>3. tree' \in [Adapter -> Tree] /\ Only(tree', tree, NoTree)
  BY PutTreeTyped, NoTreeTyped DEF MoveAside, Only
<1>. QED
  BY <1>1, <1>2, <1>3 DEF MoveAside, DeployTypeOK, system, bounds

LEMMA CopyEffect ==
  ASSUME DeployTypeOK, CopyContent \/ CopyCommit
  PROVE  /\ DeployTypeOK' /\ At("build") /\ UNCHANGED <<system, project, past>>
         /\ \/ OnWith("build", [job.fresh EXCEPT !.content = core.content])
            \/ OnWith("build", [job.fresh EXCEPT !.commit = core.commit])
<1>1. /\ job \in Job /\ job.fresh \in Tree /\ job.pc = "build"
      /\ core.content \in 0 .. MaxRelease /\ core.commit \in 0 .. MaxRelease
  BY BeforeTyped, Bounds DEF CopyContent, CopyCommit, DeployTypeOK, At, Release
<1>2. /\ [job.fresh EXCEPT !.content = core.content] \in Tree
      /\ [job.fresh EXCEPT !.commit = core.commit] \in Tree
  BY <1>1 DEF Tree
<1>3. CASE CopyContent
  <2>1. job' \in Job /\ OnWith("build", [job.fresh EXCEPT !.content = core.content])
    BY <1>1, <1>2, <1>3 DEF CopyContent, OnWith, Job
  <2>. QED
    BY <1>1, <1>3, <2>1 DEF CopyContent, DeployTypeOK, system, project, bounds
<1>4. CASE CopyCommit
  <2>1. job' \in Job /\ OnWith("build", [job.fresh EXCEPT !.commit = core.commit])
    BY <1>1, <1>2, <1>4 DEF CopyCommit, OnWith, Job
  <2>. QED
    BY <1>1, <1>4, <2>1 DEF CopyCommit, DeployTypeOK, system, project, bounds
<1>. QED
  BY <1>3, <1>4

LEMMA SwapInEffect ==
  ASSUME DeployTypeOK, SwapIn
  PROVE  /\ DeployTypeOK' /\ At("build") /\ job.fresh.content # 0 /\ job.fresh.commit # 0
         /\ Goes(IF Replaced THEN "carry" ELSE "assets")
         /\ Only(tree', tree, [job.fresh EXCEPT !.kind = "cairness"])
         /\ UNCHANGED <<system, backup, staged, asset, away, meta, hook, seeded, past>>
<1>1. job' \in Job /\ Goes(IF Replaced THEN "carry" ELSE "assets")
  <2>1. (IF Replaced THEN "carry" ELSE "assets") \in Phase
    BY DEF Phase
  <2>. QED
    BY <2>1, GoTyped DEF SwapIn, DeployTypeOK, Goes, OnWith
<1>2. [job.fresh EXCEPT !.kind = "cairness"] \in Tree
  BY BeforeTyped DEF Tree
<1>3. tree' \in [Adapter -> Tree]
      /\ Only(tree', tree, [job.fresh EXCEPT !.kind = "cairness"])
  BY <1>2, PutTreeTyped DEF SwapIn, Only
<1>. QED
  BY <1>1, <1>3 DEF SwapIn, DeployTypeOK, system, bounds

LEMMA CarryForwardEffect ==
  ASSUME DeployTypeOK, CarryForward
  PROVE  /\ DeployTypeOK' /\ At("carry") /\ Goes("assets")
         /\ Only(tree', tree, [tree[job.a] EXCEPT !.local = backup[job.a].local])
         /\ UNCHANGED <<system, backup, staged, asset, away, meta, hook, seeded, past>>
<1>1. job' \in Job /\ Goes("assets")
  BY GoTyped DEF CarryForward, DeployTypeOK, Goes, OnWith, Phase
<1>2. [tree[job.a] EXCEPT !.local = backup[job.a].local] \in Tree
  BY BeforeTyped DEF Tree
<1>3. tree' \in [Adapter -> Tree]
      /\ Only(tree', tree, [tree[job.a] EXCEPT !.local = backup[job.a].local])
  BY <1>2, PutTreeTyped DEF CarryForward, Only
<1>. QED
  BY <1>1, <1>3 DEF CarryForward, DeployTypeOK, system, bounds

LEMMA CopyAssetsEffect ==
  ASSUME DeployTypeOK, CopyAssets
  PROVE  /\ DeployTypeOK' /\ At("assets")
         /\ Goes(IF job.cmd = "init" THEN "seed" ELSE "hook")
         /\ past'.local = past.local /\ past'.hooks = past.hooks
         /\ \/ /\ asset' = IF HasAsset THEN core.content ELSE asset
               /\ past'.seen = past.seen
            \/ /\ HasAsset /\ asset \notin {0, core.content} /\ asset' = Strange
               /\ past'.seen = past.seen \cup {"dropped"}
         /\ UNCHANGED <<system, tree, backup, staged, away, meta, hook, seeded>>
<1>1. job' \in Job /\ Goes(IF job.cmd = "init" THEN "seed" ELSE "hook")
  <2>1. (IF job.cmd = "init" THEN "seed" ELSE "hook") \in Phase
    BY DEF Phase
  <2>. QED
    BY <2>1, GoTyped DEF CopyAssets, DeployTypeOK, Goes, OnWith
<1>2. core.content \in 0 .. Strange /\ Strange \in 0 .. Strange
  BY Bounds DEF DeployTypeOK, Release
<1>3. PICK leftover \in BOOLEAN :
        /\ leftover => HasAsset /\ asset \notin {0, core.content}
        /\ asset' = IF leftover THEN Strange ELSE IF HasAsset THEN core.content ELSE asset
        /\ past' = IF leftover THEN [past EXCEPT !.seen = @ \cup {"dropped"}] ELSE past
  BY DEF CopyAssets
<1>4. /\ past' \in Past /\ past'.local = past.local /\ past'.hooks = past.hooks
      /\ past'.seen = IF leftover THEN past.seen \cup {"dropped"} ELSE past.seen
  BY <1>3 DEF DeployTypeOK, Past, Mishap
<1>5. asset' \in 0 .. Strange
  BY <1>2, <1>3 DEF DeployTypeOK
<1>6. \/ /\ asset' = IF HasAsset THEN core.content ELSE asset
         /\ past'.seen = past.seen
      \/ /\ HasAsset /\ asset \notin {0, core.content} /\ asset' = Strange
         /\ past'.seen = past.seen \cup {"dropped"}
  BY <1>3, <1>4
<1>. QED
  BY <1>1, <1>4, <1>5, <1>6 DEF CopyAssets, DeployTypeOK, system, bounds

LEMMA SeedEffect ==
  ASSUME DeployTypeOK, Seed
  PROVE  /\ DeployTypeOK' /\ At("seed") /\ Goes("hook")
         /\ UNCHANGED <<system, tree, backup, staged, asset, away, meta, hook, past>>
<1>1. job' \in Job /\ Goes("hook")
  BY GoTyped DEF Seed, DeployTypeOK, Goes, OnWith, Phase
<1>. QED
  BY <1>1 DEF Seed, DeployTypeOK, system, bounds

\* A hook that is not Cairness's is moved to where there is none.
LEMMA BackupHookEffect ==
  ASSUME DeployTypeOK, NEW p \in Phase, BackupHook(p), ~HookRefused
  PROVE  /\ hook' \in Hooks /\ hook'.active \notin UserHook
         /\ HookFiles(hook) \cap UserHook \subseteq HookFiles(hook')
         /\ hook.bak \in {"none", hook'.bak} /\ hook.cbak \in {"none", hook'.cbak}
         /\ job' \in Job /\ Goes(p)
<1>1. job' \in Job /\ Goes(p)
  BY GoTyped DEF BackupHook, DeployTypeOK, Goes, OnWith
<1>2. hook \in Hooks
  BY DEF DeployTypeOK
<1>3. CASE ~ForeignHook
  BY <1>1, <1>2, <1>3, Bounds DEF BackupHook, ForeignHook, HookFiles
<1>4. CASE ForeignHook /\ hook.bak = "none"
  <2>1. hook' = [hook EXCEPT !.bak = hook.active, !.active = "none"]
    BY <1>4 DEF BackupHook, BackupName
  <2>. QED
    BY <1>1, <1>2, <1>4, <2>1, Bounds
       DEF Hooks, HookFile, UserFile, ForeignHook, HookFiles
<1>5. CASE ForeignHook /\ hook.bak # "none"
  <2>1. hook' = [hook EXCEPT !.cbak = hook.active, !.active = "none"] /\ hook.cbak = "none"
    BY <1>5 DEF BackupHook, BackupName, HookRefused
  <2>. QED
    BY <1>1, <1>2, <1>5, <2>1, Bounds
       DEF Hooks, HookFile, UserFile, ForeignHook, HookFiles
<1>. QED
  BY <1>3, <1>4, <1>5

LEMMA MoveHookEffect ==
  ASSUME DeployTypeOK, MoveHook
  PROVE  /\ DeployTypeOK' /\ At("hook") /\ Goes("copyhook")
         /\ hook'.active \notin UserHook
         /\ HookFiles(hook) \cap UserHook \subseteq HookFiles(hook')
         /\ hook.bak \in {"none", hook'.bak} /\ hook.cbak \in {"none", hook'.cbak}
         /\ UNCHANGED <<system, tree, backup, staged, asset, away, meta, seeded, past>>
<1>1. /\ hook' \in Hooks /\ hook'.active \notin UserHook
      /\ HookFiles(hook) \cap UserHook \subseteq HookFiles(hook')
      /\ hook.bak \in {"none", hook'.bak} /\ hook.cbak \in {"none", hook'.cbak}
      /\ job' \in Job /\ Goes("copyhook")
  BY BackupHookEffect DEF MoveHook, Phase
<1>. QED
  BY <1>1 DEF MoveHook, DeployTypeOK, system, bounds

LEMMA CopyHookEffect ==
  ASSUME DeployTypeOK, CopyHook
  PROVE  /\ DeployTypeOK' /\ At("copyhook") /\ Goes("publish")
         /\ hook'.active = "cairness" /\ hook'.bak = hook.bak /\ hook'.cbak = hook.cbak
         /\ UNCHANGED <<system, tree, backup, staged, asset, away, meta, seeded, past>>
<1>1. job' \in Job /\ Goes("publish")
  BY GoTyped DEF CopyHook, DeployTypeOK, Goes, OnWith, Phase
<1>2. /\ hook' \in Hooks /\ hook'.active = "cairness" /\ hook'.bak = hook.bak
      /\ hook'.cbak = hook.cbak
  BY DEF CopyHook, DeployTypeOK, Hooks, HookFile
<1>. QED
  BY <1>1, <1>2 DEF CopyHook, DeployTypeOK, system, bounds

LEMMA PublishEffect ==
  ASSUME DeployTypeOK, Publish
  PROVE  /\ DeployTypeOK' /\ At("publish") /\ Stops("passed") /\ meta' = Listing(job.a)
         /\ UNCHANGED <<system, tree, backup, staged, asset, away, hook, seeded, past>>
<1>1. job' \in Job /\ Stops("passed")
  BY EndTyped DEF Publish, DeployTypeOK, Stops, OnWith
<1>2. meta' \in Meta
  BY BeforeTyped DEF Publish, DeployTypeOK, Listing, Meta
<1>. QED
  BY <1>1, <1>2 DEF Publish, DeployTypeOK, system, bounds

LEMMA StageAssetEffect ==
  ASSUME DeployTypeOK, StageAsset
  PROVE  /\ DeployTypeOK' /\ At("stageasset") /\ Goes("stagetree")
         /\ IF StagesAsset THEN away = 0 /\ away' = asset /\ asset' = 0
                           ELSE UNCHANGED <<away, asset>>
         /\ UNCHANGED <<system, tree, backup, staged, meta, hook, seeded, past>>
<1>1. job' \in Job /\ Goes("stagetree")
  BY GoTyped DEF StageAsset, DeployTypeOK, Goes, OnWith, Phase
<1>2. 0 \in 0 .. Strange
  BY Bounds
<1>. QED
  BY <1>1, <1>2 DEF StageAsset, DeployTypeOK, system, bounds

LEMMA StageTreeEffect ==
  ASSUME DeployTypeOK, StageTree
  PROVE  /\ DeployTypeOK' /\ At("stagetree") /\ Goes("dropmeta")
         /\ ~Exists(staged[job.a])
         /\ Only(staged', staged, tree[job.a]) /\ Only(tree', tree, NoTree)
         /\ UNCHANGED <<system, backup, asset, away, meta, hook, seeded, past>>
<1>1. job' \in Job /\ Goes("dropmeta")
  BY GoTyped DEF StageTree, DeployTypeOK, Goes, OnWith, Phase
<1>2. staged' \in [Adapter -> Tree] /\ Only(staged', staged, tree[job.a])
  BY PutStagedTyped, BeforeTyped DEF StageTree, Only
<1>3. tree' \in [Adapter -> Tree] /\ Only(tree', tree, NoTree)
  BY PutTreeTyped, NoTreeTyped DEF StageTree, Only
<1>. QED
  BY <1>1, <1>2, <1>3 DEF StageTree, DeployTypeOK, system, bounds

LEMMA DropMetaEffect ==
  ASSUME DeployTypeOK, DropMeta
  PROVE  /\ DeployTypeOK' /\ At("dropmeta") /\ Goes("unhook")
         /\ meta'.listed = meta.listed \ {job.a} /\ Sound(meta')
         /\ UNCHANGED <<system, tree, backup, staged, asset, away, hook, seeded, past>>
<1>1. job' \in Job /\ Goes("unhook")
  BY GoTyped DEF DropMeta, DeployTypeOK, Goes, OnWith, Phase
<1>2. meta' \in Meta /\ meta'.listed = meta.listed \ {job.a} /\ Sound(meta')
  BY DEF DropMeta, Remaining, DeployTypeOK, Meta, Sound
<1>. QED
  BY <1>1, <1>2 DEF DropMeta, DeployTypeOK, system, bounds

\* The hook that takes the place of Cairness's was there before.
LEMMA HookFreedEffect ==
  ASSUME hook \in Hooks
  PROVE  /\ HookFreed \in Hooks /\ HookFreed.active # "cairness"
         /\ HookFiles(hook) \cap UserHook \subseteq HookFiles(HookFreed)
<1> DEFINE bare == IF hook.active = "cairness" THEN [hook EXCEPT !.active = "none"] ELSE hook
<1>1. /\ bare \in Hooks /\ bare.active # "cairness"
      /\ HookFiles(hook) \cap UserHook \subseteq HookFiles(bare)
  BY Bounds DEF Hooks, HookFile, HookFiles
<1>2. HookFreed = IF bare.active # "none" THEN bare
                  ELSE IF bare.cbak # "none"
                       THEN [bare EXCEPT !.active = bare.cbak, !.cbak = "none"]
                  ELSE [bare EXCEPT !.active = bare.bak, !.bak = "none"]
  BY DEF HookFreed
<1> HIDE DEF bare
<1>. QED
  BY <1>1, <1>2, Bounds DEF Hooks, HookFile, UserFile, HookFiles

LEMMA UnhookEffect ==
  ASSUME DeployTypeOK, Unhook
  PROVE  /\ DeployTypeOK' /\ At("unhook")
         /\ HookFiles(hook) \cap UserHook \subseteq HookFiles(hook')
         /\ \/ /\ Goes("copyagain") /\ meta.active # "none" /\ hook'.active \notin UserHook
               /\ hook.bak \in {"none", hook'.bak} /\ hook.cbak \in {"none", hook'.cbak}
            \/ Goes("remove") /\ meta.active = "none" /\ hook'.active # "cairness"
            \/ Goes("remove") /\ meta.active # "none" /\ hook' = hook
         /\ UNCHANGED <<system, tree, backup, staged, asset, away, meta, seeded, past>>
<1>1. CASE HookStays
  <2>1. /\ hook' \in Hooks /\ hook'.active \notin UserHook
        /\ HookFiles(hook) \cap UserHook \subseteq HookFiles(hook')
        /\ hook.bak \in {"none", hook'.bak} /\ hook.cbak \in {"none", hook'.cbak}
        /\ job' \in Job /\ Goes("copyagain")
    BY <1>1, BackupHookEffect DEF Unhook, Phase
  <2>. QED
    BY <1>1, <2>1, Bounds DEF Unhook, HookStays, DeployTypeOK, system, bounds
<1>2. CASE ~HookStays
  <2>1. job' \in Job /\ Goes("remove")
    BY <1>2, GoTyped DEF Unhook, DeployTypeOK, Goes, OnWith, Phase
  <2>2. hook' = IF meta.active = "none" THEN HookFreed ELSE hook
    BY <1>2 DEF Unhook
  <2>3. hook' \in Hooks /\ HookFiles(hook) \cap UserHook \subseteq HookFiles(hook')
        /\ (meta.active = "none" => hook'.active # "cairness")
    BY <2>2, HookFreedEffect DEF DeployTypeOK
  <2>. QED
    BY <2>1, <2>2, <2>3 DEF Unhook, DeployTypeOK, system, bounds
<1>. QED
  BY <1>1, <1>2

LEMMA CopyHookAgainEffect ==
  ASSUME DeployTypeOK, CopyHookAgain
  PROVE  /\ DeployTypeOK' /\ At("copyagain") /\ Goes("remove")
         /\ hook'.active = "cairness" /\ hook'.bak = hook.bak /\ hook'.cbak = hook.cbak
         /\ UNCHANGED <<system, tree, backup, staged, asset, away, meta, seeded, past>>
<1>1. job' \in Job /\ Goes("remove")
  BY GoTyped DEF CopyHookAgain, DeployTypeOK, Goes, OnWith, Phase
<1>2. /\ hook' \in Hooks /\ hook'.active = "cairness" /\ hook'.bak = hook.bak
      /\ hook'.cbak = hook.cbak
  BY DEF CopyHookAgain, DeployTypeOK, Hooks, HookFile
<1>. QED
  BY <1>1, <1>2 DEF CopyHookAgain, DeployTypeOK, system, bounds

LEMMA RemoveStagedEffect ==
  ASSUME DeployTypeOK, RemoveStaged
  PROVE  /\ DeployTypeOK' /\ At("remove") /\ Stops("passed")
         /\ Only(staged', staged, NoTree)
         /\ past'.seen = past.seen /\ past'.hooks = past.hooks
         /\ Only(past'.local, past.local, 0)
         /\ UNCHANGED <<system, tree, backup, asset, meta, hook, seeded>>
<1>1. job' \in Job /\ Stops("passed")
  BY EndTyped DEF RemoveStaged, DeployTypeOK, Stops, OnWith
<1>2. staged' \in [Adapter -> Tree] /\ Only(staged', staged, NoTree)
  BY PutStagedTyped, NoTreeTyped DEF RemoveStaged, Only
<1>3. 0 \in 0 .. Strange /\ 0 \in 0 .. MaxEdits
  BY Bounds
<1>4. /\ past' \in Past /\ past'.seen = past.seen /\ past'.hooks = past.hooks
      /\ Only(past'.local, past.local, 0)
  <2>1. past \in Past /\ job.a \in Adapter /\ past.local \in [Adapter -> 0 .. MaxEdits]
    BY BeforeTyped DEF DeployTypeOK, Past
  <2>2. past' = [past EXCEPT !.local = [past.local EXCEPT ![job.a] = 0]]
    BY DEF RemoveStaged
  <2>. QED
    BY <1>3, <2>1, <2>2 DEF Past, Only
<1>5. away' \in 0 .. Strange
  BY <1>3 DEF RemoveStaged, DeployTypeOK
<1>. QED
  BY <1>1, <1>2, <1>4, <1>5 DEF RemoveStaged, DeployTypeOK, system, bounds

LEMMA ReplaceFailsEffect ==
  ASSUME DeployTypeOK, ReplaceFails
  PROVE  /\ DeployTypeOK'
         /\ \/ /\ At("aside") /\ Faulty({}) /\ Stops("failed") /\ UNCHANGED <<tree, backup>>
            \/ /\ At("build") /\ Faulty({}) /\ Stops("failed")
               /\ IF Replaced
                  THEN Only(tree', tree, backup[job.a]) /\ Only(backup', backup, NoTree)
                  ELSE UNCHANGED <<tree, backup>>
            \/ /\ (At("build") /\ Replaced) \/ At("carry")
               /\ Faulty({"lost"}) /\ Stops("lost") /\ UNCHANGED <<tree, backup>>
         /\ UNCHANGED <<system, staged, asset, away, meta, hook, seeded>>
<1>1. job \in Job /\ past \in Past
  BY DEF DeployTypeOK
<1>2. CASE At("aside") /\ Fault({}) /\ End("failed") /\ UNCHANGED <<tree, backup>>
  <2>1. job' \in Job /\ Stops("failed") /\ past' \in Past /\ Faulty({})
    BY <1>1, <1>2, EndTyped, FaultTyped DEF Stops, OnWith, Faulty
  <2>. QED
    BY <1>2, <2>1 DEF ReplaceFails, DeployTypeOK, system, bounds
<1>3. CASE /\ At("build") /\ Fault({}) /\ End("failed")
           /\ IF Replaced THEN PutTree(backup[job.a]) /\ PutBackup(NoTree)
                          ELSE UNCHANGED <<tree, backup>>
  <2>1. job' \in Job /\ Stops("failed") /\ past' \in Past /\ Faulty({})
    BY <1>1, <1>3, EndTyped, FaultTyped DEF Stops, OnWith, Faulty
  <2>2. Replaced => /\ tree' \in [Adapter -> Tree] /\ backup' \in [Adapter -> Tree]
                    /\ Only(tree', tree, backup[job.a]) /\ Only(backup', backup, NoTree)
    BY <1>3, BeforeTyped, NoTreeTyped, PutTreeTyped, PutBackupTyped DEF Only
  <2>. QED
    BY <1>3, <2>1, <2>2 DEF ReplaceFails, DeployTypeOK, system, bounds
<1>4. CASE /\ (At("build") /\ Replaced) \/ At("carry")
           /\ Fault({"lost"}) /\ End("lost") /\ UNCHANGED <<tree, backup>>
  <2>1. job' \in Job /\ Stops("lost") /\ past' \in Past /\ Faulty({"lost"})
    BY <1>1, <1>4, EndTyped, FaultTyped DEF Stops, OnWith, Faulty, Mishap
  <2>. QED
    BY <1>4, <2>1 DEF ReplaceFails, DeployTypeOK, system, bounds
<1>. QED
  BY <1>2, <1>3, <1>4 DEF ReplaceFails

\* A step on the hooks that is cut short leaves the backups alone.
LEMMA HookCutTyped ==
  ASSUME DeployTypeOK, NEW h \in HookCut
  PROVE  /\ h \in Hooks /\ h.bak = hook.bak /\ h.cbak = hook.cbak
         /\ \/ h = hook
            \/ job.pc \in {"copyhook", "copyagain"} /\ h.active = "torn"
            \/ At("unhook") /\ hook.active = "cairness" /\ h.active = "none"
<1>1. /\ hook \in Hooks /\ [hook EXCEPT !.active = "torn"] \in Hooks
      /\ [hook EXCEPT !.active = "none"] \in Hooks
  BY DEF DeployTypeOK, Hooks, HookFile
<1>. QED
  BY <1>1 DEF HookCut, Hooks, At

LEMMA RaisesEffect ==
  ASSUME DeployTypeOK, Raises
  PROVE  /\ DeployTypeOK' /\ hook' \in HookCut
         /\ UNCHANGED <<system, tree, backup, staged, asset, away, meta, seeded>>
         /\ \/ /\ job.pc \in {"assets", "seed", "hook", "copyhook", "publish"}
               /\ Faulty({}) /\ Goes("untree")
            \/ /\ job.pc \in {"stageasset", "stagetree", "dropmeta", "unhook", "copyagain"}
               /\ Faulty({}) /\ Goes("unfiles")
            \/ At("remove") /\ Faulty({"lost"}) /\ Stops("lost") /\ hook' = hook
<1>1. job \in Job /\ past \in Past /\ hook \in HookCut
  BY DEF DeployTypeOK, HookCut
<1>2. hook' \in HookCut
  BY <1>1 DEF Raises
<1>3. hook' \in Hooks
  BY <1>2, HookCutTyped
<1>4. CASE /\ job.pc \in {"assets", "seed", "hook", "copyhook", "publish"}
           /\ Fault({}) \/ UNCHANGED past
           /\ Go("untree")
  <2>1. job' \in Job /\ Goes("untree") /\ past' \in Past /\ Faulty({})
    BY <1>1, <1>4, GoTyped, FaultTyped DEF Goes, OnWith, Faulty, Phase
  <2>. QED
    BY <1>2, <1>3, <1>4, <2>1 DEF Raises, DeployTypeOK, system, bounds
<1>5. CASE /\ job.pc \in {"stageasset", "stagetree", "dropmeta", "unhook", "copyagain"}
           /\ Fault({}) \/ UNCHANGED past
           /\ Go("unfiles")
  <2>1. job' \in Job /\ Goes("unfiles") /\ past' \in Past /\ Faulty({})
    BY <1>1, <1>5, GoTyped, FaultTyped DEF Goes, OnWith, Faulty, Phase
  <2>. QED
    BY <1>2, <1>3, <1>5, <2>1 DEF Raises, DeployTypeOK, system, bounds
<1>6. CASE At("remove") /\ Fault({"lost"}) /\ End("lost") /\ UNCHANGED hook
  <2>1. job' \in Job /\ Stops("lost") /\ past' \in Past /\ Faulty({"lost"})
    BY <1>1, <1>6, EndTyped, FaultTyped DEF Stops, OnWith, Faulty, Mishap
  <2>. QED
    BY <1>2, <1>3, <1>6, <2>1 DEF Raises, DeployTypeOK, system, bounds
<1>. QED
  BY <1>4, <1>5, <1>6 DEF Raises, At

LEMMA TreeBackTyped ==
  ASSUME DeployTypeOK, TreeBack
  PROVE  /\ tree' \in [Adapter -> Tree] /\ backup' \in [Adapter -> Tree]
         /\ IF Replaced THEN Only(tree', tree, backup[job.a]) /\ Only(backup', backup, NoTree)
                        ELSE Only(tree', tree, NoTree) /\ UNCHANGED backup
<1>1. CASE Replaced
  BY <1>1, BeforeTyped, NoTreeTyped, PutTreeTyped, PutBackupTyped DEF TreeBack, Only
<1>2. CASE ~Replaced
  <2>1. PutTree(NoTree) /\ UNCHANGED backup
    BY <1>2 DEF TreeBack
  <2>. QED
    BY <1>2, <2>1, NoTreeTyped, PutTreeTyped DEF Only, DeployTypeOK
<1>. QED
  BY <1>1, <1>2

LEMMA TreeUnstagedTyped ==
  ASSUME DeployTypeOK, TreeUnstaged
  PROVE  /\ tree' \in [Adapter -> Tree] /\ staged' \in [Adapter -> Tree]
         /\ IF Exists(tree[job.a]) THEN UNCHANGED <<tree, staged>>
            ELSE Only(tree', tree, staged[job.a]) /\ Only(staged', staged, NoTree)
<1>1. CASE Exists(tree[job.a])
  BY <1>1 DEF TreeUnstaged, DeployTypeOK
<1>2. CASE ~Exists(tree[job.a])
  <2>1. PutTree(staged[job.a]) /\ staged' = [staged EXCEPT ![job.a] = NoTree]
    BY <1>2 DEF TreeUnstaged
  <2>. QED
    BY <1>2, <2>1, BeforeTyped, NoTreeTyped, PutTreeTyped, PutStagedTyped DEF Only
<1>. QED
  BY <1>1, <1>2

LEMMA RestoreTreeEffect ==
  ASSUME DeployTypeOK, RestoreTree
  PROVE  /\ DeployTypeOK' /\ At("untree") /\ Goes("unfiles")
         /\ IF Replaced THEN Only(tree', tree, backup[job.a]) /\ Only(backup', backup, NoTree)
                        ELSE Only(tree', tree, NoTree) /\ UNCHANGED backup
         /\ asset' = IF ~HasAsset THEN asset
                     ELSE IF job.before.asset = 0 THEN 0 ELSE job.before.tree.content
         /\ UNCHANGED <<system, staged, away, meta, hook, seeded, past>>
<1>1. job' \in Job /\ Goes("unfiles")
  BY GoTyped DEF RestoreTree, DeployTypeOK, Goes, OnWith, Phase
<1>2. /\ tree' \in [Adapter -> Tree] /\ backup' \in [Adapter -> Tree]
      /\ IF Replaced THEN Only(tree', tree, backup[job.a]) /\ Only(backup', backup, NoTree)
                     ELSE Only(tree', tree, NoTree) /\ UNCHANGED backup
  BY TreeBackTyped DEF RestoreTree
<1>3. asset' \in 0 .. Strange
  BY BeforeTyped, Bounds DEF RestoreTree, DeployTypeOK, Tree
<1>. QED
  BY <1>1, <1>2, <1>3 DEF RestoreTree, DeployTypeOK, system, bounds

LEMMA RestoreFilesEffect ==
  ASSUME DeployTypeOK, RestoreFiles
  PROVE  /\ DeployTypeOK' /\ At("unfiles")
         /\ meta' = job.before.meta /\ hook' = job.before.hook
         /\ seeded' = job.before.seeded
         /\ IF job.cmd = "uninstall" THEN Goes("unstage") ELSE Stops("failed")
         /\ UNCHANGED <<system, tree, backup, staged, asset, away, past>>
<1>1. job' \in Job /\ IF job.cmd = "uninstall" THEN Goes("unstage") ELSE Stops("failed")
  BY GoTyped, EndTyped DEF RestoreFiles, DeployTypeOK, Goes, Stops, OnWith, Phase
<1>. QED
  BY <1>1, BeforeTyped DEF RestoreFiles, DeployTypeOK, system, bounds

LEMMA UnstageEffect ==
  ASSUME DeployTypeOK, Unstage
  PROVE  /\ DeployTypeOK' /\ At("unstage") /\ Stops("failed")
         /\ IF Exists(tree[job.a]) THEN UNCHANGED <<tree, staged>>
            ELSE Only(tree', tree, staged[job.a]) /\ Only(staged', staged, NoTree)
         /\ IF asset = job.before.asset THEN UNCHANGED <<asset, away>>
            ELSE asset' = away /\ away' = 0
         /\ UNCHANGED <<system, backup, meta, hook, seeded, past>>
<1>1. job' \in Job /\ Stops("failed")
  BY EndTyped DEF Unstage, DeployTypeOK, Stops, OnWith
<1>2. /\ tree' \in [Adapter -> Tree] /\ staged' \in [Adapter -> Tree]
      /\ IF Exists(tree[job.a]) THEN UNCHANGED <<tree, staged>>
         ELSE Only(tree', tree, staged[job.a]) /\ Only(staged', staged, NoTree)
  BY TreeUnstagedTyped DEF Unstage
<1>3. asset' \in 0 .. Strange /\ away' \in 0 .. Strange
  BY Bounds DEF Unstage, DeployTypeOK
<1>. QED
  BY <1>1, <1>2, <1>3 DEF Unstage, DeployTypeOK, system, bounds

\* A command that is killed, or whose rollback does not come to its end, is over
\* and not clean; its trees are some of those that were there.
Among(t, a) == t[a] \in {tree[a], backup[a], staged[a], NoTree}

LEMMA CutShortTyped ==
  ASSUME DeployTypeOK, NEW how \in {"killed", "lost"}, NEW torn \in SUBSET {"torn"},
         CutShort(how, torn)
  PROVE  /\ job' \in Job /\ Stops(how) /\ past' \in Past /\ Faulty({how} \cup torn)
<1>1. job \in Job /\ past \in Past /\ {how} \cup torn \in SUBSET Mishap
  BY DEF DeployTypeOK, Mishap
<1>. QED
  BY <1>1, EndTyped, FaultTyped DEF CutShort, Stops, OnWith, Faulty

LEMMA KillEffect ==
  ASSUME DeployTypeOK, Kill
  PROVE  /\ DeployTypeOK' /\ ~Idle /\ Faulty({"killed"}) /\ Stops("killed")
         /\ hook' \in HookCut /\ meta' \in {meta, TornMeta}
         /\ UNCHANGED <<system, tree, backup, staged, away, seeded>>
<1>1. job' \in Job /\ Stops("killed") /\ past' \in Past /\ Faulty({"killed"})
  BY EndTyped, FaultTyped DEF Kill, DeployTypeOK, Stops, OnWith, Faulty, Mishap
<1>2. hook' \in HookCut /\ hook' \in Hooks
  BY HookCutTyped DEF Kill
<1>3. meta' \in {meta, TornMeta} /\ meta' \in Meta
  BY DEF Kill, TornMeta, Meta, DeployTypeOK
<1>4. asset' \in 0 .. Strange
  BY Bounds DEF Kill, DeployTypeOK
<1>. QED
  BY <1>1, <1>2, <1>3, <1>4 DEF Kill, DeployTypeOK, system, bounds

LEMMA RestoreTreeStopsEffect ==
  ASSUME DeployTypeOK, NEW how \in {"killed", "lost"}, RestoreTreeStops(how)
  PROVE  /\ DeployTypeOK' /\ At("untree") /\ Faulty({how}) /\ Stops(how)
         /\ hook' \in {hook, job.before.hook} /\ meta' \in {meta, job.before.meta}
         /\ \/ UNCHANGED <<tree, backup>>
            \/ Only(tree', tree, NoTree) /\ UNCHANGED backup
            \/ /\ Replaced
               /\ Only(tree', tree, backup[job.a]) /\ Only(backup', backup, NoTree)
         /\ UNCHANGED <<system, staged, away, seeded>>
<1>1. job' \in Job /\ Stops(how) /\ past' \in Past /\ Faulty({how})
  BY CutShortTyped DEF RestoreTreeStops
<1>2. /\ hook' \in {hook, job.before.hook} /\ meta' \in {meta, job.before.meta}
      /\ hook' \in Hooks /\ meta' \in Meta
  BY BeforeTyped DEF RestoreTreeStops, DeployTypeOK
<1>3. asset' \in 0 .. Strange
  BY Bounds DEF RestoreTreeStops, DeployTypeOK
<1>4. CASE UNCHANGED <<tree, backup>>
  BY <1>1, <1>2, <1>3, <1>4 DEF RestoreTreeStops, DeployTypeOK, system, bounds
<1>5. CASE PutTree(NoTree) /\ UNCHANGED backup
  <2>1. tree' \in [Adapter -> Tree] /\ Only(tree', tree, NoTree)
    BY <1>5, PutTreeTyped, NoTreeTyped DEF Only
  <2>. QED
    BY <1>1, <1>2, <1>3, <1>5, <2>1 DEF RestoreTreeStops, DeployTypeOK, system, bounds
<1>6. CASE TreeBack
  BY <1>1, <1>2, <1>3, <1>6, TreeBackTyped
     DEF RestoreTreeStops, DeployTypeOK, system, bounds
<1>. QED
  BY <1>4, <1>5, <1>6 DEF RestoreTreeStops

LEMMA HooksBackTyped ==
  ASSUME DeployTypeOK, NEW n \in 0 .. 3
  PROVE  /\ HooksBack(n) \in Hooks
         /\ [HooksBack(n) EXCEPT !.bak = "torn"] \in Hooks
         /\ [HooksBack(n) EXCEPT !.cbak = "torn"] \in Hooks
<1>1. hook \in Hooks /\ job.before.hook \in Hooks
  BY BeforeTyped DEF DeployTypeOK
<1>. QED
  BY <1>1 DEF HooksBack, Hooks, UserFile

LEMMA RestoreFilesStopEffect ==
  ASSUME DeployTypeOK, NEW how \in {"killed", "lost"}, RestoreFilesStop(how)
  PROVE  /\ DeployTypeOK' /\ At("unfiles") /\ Stops(how)
         /\ Faulty({how}) \/ Faulty({how, "torn"})
         /\ \/ "torn" \in past'.seen \/ hook' = hook
            \/ \E n \in 0 .. 3 : hook' = HooksBack(n)
         /\ meta' \in {meta, job.before.meta, TornMeta}
         /\ UNCHANGED <<system, tree, backup, staged, away>>
<1>1. hook \in Hooks /\ job.before.meta \in Meta /\ meta \in Meta /\ TornMeta \in Meta
  BY BeforeTyped DEF DeployTypeOK, Meta, TornMeta
<1>2. [hook EXCEPT !.active = "torn"] \in Hooks
  BY <1>1 DEF Hooks, HookFile
<1>3. seeded' \in BOOLEAN
  BY BeforeTyped DEF RestoreFilesStop, DeployTypeOK
<1>4. CutShort(how, {}) \/ CutShort(how, {"torn"})
  BY DEF RestoreFilesStop
<1>5. /\ job' \in Job /\ Stops(how) /\ past' \in Past
      /\ Faulty({how} \cup {}) \/ Faulty({how} \cup {"torn"})
  BY <1>4, CutShortTyped
<1>6. meta' \in {meta, job.before.meta, TornMeta}
  BY DEF RestoreFilesStop
<1>7. \/ CutShort(how, {"torn"}) /\ hook' \in Hooks
      \/ hook' = hook
      \/ \E n \in 0 .. 3 : hook' = HooksBack(n)
  BY <1>2, HooksBackTyped DEF RestoreFilesStop
<1>8. CutShort(how, {"torn"}) => "torn" \in past'.seen
  BY CutShortTyped DEF Faulty
<1>9. hook' \in Hooks
  BY <1>1, <1>7, HooksBackTyped
<1>10. At("unfiles") /\ UNCHANGED <<system, tree, backup, staged, asset, away, bounds>>
  BY DEF RestoreFilesStop
<1>11. DeployTypeOK'
  BY <1>1, <1>3, <1>5, <1>6, <1>9, <1>10 DEF DeployTypeOK, system, bounds
<1>12. Faulty({how}) \/ Faulty({how, "torn"})
  BY <1>5 DEF Faulty
<1>. QED
  BY <1>5, <1>6, <1>7, <1>8, <1>10, <1>11, <1>12

LEMMA UnstageStopsEffect ==
  ASSUME DeployTypeOK, NEW how \in {"killed", "lost"}, UnstageStops(how)
  PROVE  /\ DeployTypeOK' /\ At("unstage") /\ Faulty({how}) /\ Stops(how)
         /\ \/ UNCHANGED <<tree, staged>>
            \/ Only(tree', tree, staged[job.a]) /\ Only(staged', staged, NoTree)
         /\ UNCHANGED <<system, backup, asset, away, meta, hook, seeded>>
<1>1. job' \in Job /\ Stops(how) /\ past' \in Past /\ Faulty({how} \cup {})
  BY CutShortTyped DEF UnstageStops
<1>2. Faulty({how})
  BY <1>1 DEF Faulty
<1>3. /\ tree' \in [Adapter -> Tree] /\ staged' \in [Adapter -> Tree]
      /\ \/ UNCHANGED <<tree, staged>>
         \/ Only(tree', tree, staged[job.a]) /\ Only(staged', staged, NoTree)
  BY TreeUnstagedTyped DEF UnstageStops, DeployTypeOK
<1>. QED
  BY <1>1, <1>2, <1>3 DEF UnstageStops, DeployTypeOK, system, bounds

\* What they have in common
IsCut ==
  /\ DeployTypeOK' /\ ~Idle
  /\ Stops("killed") \/ Stops("lost")
  /\ past'.local = past.local /\ past'.hooks = past.hooks
  /\ past.seen \subseteq past'.seen
  /\ past'.seen \subseteq past.seen \cup {"killed", "lost", "torn"}
  /\ past'.seen \cap {"killed", "lost"} # {}
  /\ \A a \in Adapter : Among(tree', a) /\ Among(backup', a) /\ Among(staged', a)
  /\ meta' \in {meta, job.before.meta, TornMeta}
  /\ UNCHANGED system

LEMMA CutEffect ==
  ASSUME DeployTypeOK, Kill \/ RollbackStops
  PROVE  IsCut
<1>1. CASE Kill
  BY <1>1, KillEffect DEF IsCut, Faulty, Among
<1>2. ASSUME NEW how \in {"killed", "lost"}, RestoreTreeStops(how) PROVE IsCut
  BY <1>2, RestoreTreeStopsEffect DEF IsCut, Faulty, Among, Only, Idle, At
<1>3. ASSUME NEW how \in {"killed", "lost"}, RestoreFilesStop(how) PROVE IsCut
  BY <1>3, RestoreFilesStopEffect DEF IsCut, Faulty, Among, Idle, At
<1>4. ASSUME NEW how \in {"killed", "lost"}, UnstageStops(how) PROVE IsCut
  BY <1>4, UnstageStopsEffect DEF IsCut, Faulty, Among, Only, Idle, At
<1>. QED
  BY <1>1, <1>2, <1>3, <1>4 DEF RollbackStops

LEMMA EditTyped ==
  ASSUME DeployTypeOK, Editing
  PROVE  edits + 1 \in 0 .. MaxEdits /\ edits' \in 0 .. MaxEdits /\ Idle
BY Bounds, OneMore DEF Editing, DeployTypeOK

LEMMA EditTreeEffect ==
  ASSUME DeployTypeOK, NEW a \in Adapter, EditOwnFile(a) \/ EditFramework(a)
  PROVE  /\ DeployTypeOK' /\ Idle /\ Exists(tree[a])
         /\ \A b \in Adapter : b # a => tree'[b] = tree[b]
         /\ tree'[a].kind = tree[a].kind /\ tree'[a].content = tree[a].content
         /\ tree'[a].commit = tree[a].commit
         /\ past'.seen = past.seen /\ past'.hooks = past.hooks
         /\ \A b \in Adapter : b # a => past'.local[b] = past.local[b]
         /\ \/ tree'[a].local = past'.local[a]
            \/ tree'[a].local = tree[a].local /\ past'.local[a] = past.local[a]
         /\ UNCHANGED <<system, backup, staged, asset, away, meta, hook, seeded, job>>
<1>1. edits + 1 \in 0 .. MaxEdits /\ edits' \in 0 .. MaxEdits /\ Idle
  BY EditTyped DEF EditOwnFile, EditFramework
<1>2. tree \in [Adapter -> Tree] /\ past \in Past /\ past.local \in [Adapter -> 0 .. MaxEdits]
  BY DEF DeployTypeOK, Past
<1>3. CASE EditOwnFile(a)
  <2>1. /\ tree' = [tree EXCEPT ![a] = [tree[a] EXCEPT !.local = edits + 1]]
        /\ past' = [past EXCEPT !.local = [past.local EXCEPT ![a] = edits + 1]]
    BY <1>3 DEF EditOwnFile
  <2>2. [tree[a] EXCEPT !.local = edits + 1] \in Tree
    BY <1>1, <1>2 DEF Tree
  <2>3. /\ tree' \in [Adapter -> Tree] /\ tree'[a] = [tree[a] EXCEPT !.local = edits + 1]
        /\ \A b \in Adapter : b # a => tree'[b] = tree[b]
    BY <1>2, <2>1, <2>2
  <2>4. /\ past' \in Past /\ past'.seen = past.seen /\ past'.hooks = past.hooks
        /\ past'.local[a] = edits + 1
        /\ \A b \in Adapter : b # a => past'.local[b] = past.local[b]
    BY <1>1, <1>2, <2>1 DEF Past
  <2>5. /\ tree'[a].kind = tree[a].kind /\ tree'[a].content = tree[a].content
        /\ tree'[a].commit = tree[a].commit /\ tree'[a].local = edits + 1
    BY <1>2, <2>3 DEF Tree
  <2>. QED
    BY <1>1, <1>3, <2>3, <2>4, <2>5 DEF EditOwnFile, DeployTypeOK, system
<1>4. CASE EditFramework(a)
  <2>1. tree' = [tree EXCEPT ![a] = [tree[a] EXCEPT !.custom = edits + 1]]
    BY <1>4 DEF EditFramework
  <2>2. [tree[a] EXCEPT !.custom = edits + 1] \in Tree
    BY <1>1, <1>2 DEF Tree
  <2>3. /\ tree' \in [Adapter -> Tree] /\ tree'[a] = [tree[a] EXCEPT !.custom = edits + 1]
        /\ \A b \in Adapter : b # a => tree'[b] = tree[b]
    BY <1>2, <2>1, <2>2
  <2>4. /\ tree'[a].kind = tree[a].kind /\ tree'[a].content = tree[a].content
        /\ tree'[a].commit = tree[a].commit /\ tree'[a].local = tree[a].local
    BY <1>2, <2>3 DEF Tree
  <2>. QED
    BY <1>1, <1>4, <2>3, <2>4 DEF EditFramework, DeployTypeOK, system
<1>. QED
  BY <1>3, <1>4

LEMMA EditAssetEffect ==
  ASSUME DeployTypeOK, EditAsset
  PROVE  /\ DeployTypeOK' /\ Idle /\ asset' = Strange
         /\ past'.seen = past.seen \cup {"touched"} /\ past'.local = past.local
         /\ past'.hooks = past.hooks
         /\ UNCHANGED <<system, tree, backup, staged, away, meta, hook, seeded, job>>
<1>1. edits' \in 0 .. MaxEdits /\ Idle
  BY EditTyped DEF EditAsset
<1>2. /\ past' \in Past /\ past'.seen = past.seen \cup {"touched"}
      /\ past'.local = past.local /\ past'.hooks = past.hooks
  BY DEF EditAsset, DeployTypeOK, Past, Mishap
<1>3. asset' \in 0 .. Strange
  BY Bounds DEF EditAsset
<1>. QED
  BY <1>1, <1>2, <1>3 DEF EditAsset, DeployTypeOK, system

LEMMA WriteHookEffect ==
  ASSUME DeployTypeOK, NEW h \in UserHook, WriteHook(h)
  PROVE  /\ DeployTypeOK' /\ Idle
         /\ hook'.active = h /\ hook'.bak = hook.bak /\ hook'.cbak = hook.cbak
         /\ past'.hooks = (past.hooks \ {hook.active}) \cup {h}
         /\ past'.seen = past.seen /\ past'.local = past.local
         /\ UNCHANGED <<system, tree, backup, staged, asset, away, meta, seeded, job>>
<1>1. edits' \in 0 .. MaxEdits /\ Idle
  BY EditTyped DEF WriteHook
<1>2. /\ past' \in Past /\ past'.hooks = (past.hooks \ {hook.active}) \cup {h}
      /\ past'.seen = past.seen /\ past'.local = past.local
  BY DEF WriteHook, DeployTypeOK, Past
<1>3. /\ hook' \in Hooks /\ hook'.active = h /\ hook'.bak = hook.bak /\ hook'.cbak = hook.cbak
  BY DEF WriteHook, DeployTypeOK, Hooks, HookFile
<1>. QED
  BY <1>1, <1>2, <1>3 DEF WriteHook, DeployTypeOK, system

-----------------------------------------------------------------------------
\* The inductive invariant, part by part.

DeployInv ==
  /\ DeployTypeOK /\ TreesWhole /\ ReleasesInOrder /\ Undoable /\ HooksHeld
  /\ WorkHeld /\ RecordHeld /\ AssetHeld

LEMMA TypeStep ==
  ASSUME DeployTypeOK, ReleasesInOrder, [DeployNext]_deployVars
  PROVE  DeployTypeOK'
<1>1. ASSUME NEW a \in Adapter, BeginInit(a) PROVE DeployTypeOK'
  BY <1>1, BeginInitEffect
<1>2. CASE BeginUpdate
  BY <1>2, BeginUpdateEffect
<1>3. ASSUME NEW a \in Adapter, BeginUninstall(a) PROVE DeployTypeOK'
  BY <1>3, BeginUninstallEffect
<1>4. CASE SystemSwap
  BY <1>4, SystemSwapEffect
<1>5. CASE SystemStamp
  BY <1>5, SystemStampEffect
<1>6. CASE SyncProject
  BY <1>6, SyncProjectEffect
<1>7. CASE ElsewhereSwap \/ ElsewhereStamp
  BY <1>7, ElsewhereEffect
<1>8. CASE Publication
  BY <1>8, PublicationEffect
<1>9. CASE ClearBackup
  BY <1>9, ClearBackupEffect
<1>10. CASE MoveAside
  BY <1>10, MoveAsideEffect
<1>11. CASE CopyContent \/ CopyCommit
  BY <1>11, CopyEffect
<1>12. CASE SwapIn
  BY <1>12, SwapInEffect
<1>13. CASE CarryForward
  BY <1>13, CarryForwardEffect
<1>14. CASE CopyAssets
  BY <1>14, CopyAssetsEffect
<1>15. CASE Seed
  BY <1>15, SeedEffect
<1>16. CASE MoveHook
  BY <1>16, MoveHookEffect
<1>17. CASE CopyHook
  BY <1>17, CopyHookEffect
<1>18. CASE Publish
  BY <1>18, PublishEffect
<1>19. CASE StageAsset
  BY <1>19, StageAssetEffect
<1>20. CASE StageTree
  BY <1>20, StageTreeEffect
<1>21. CASE DropMeta
  BY <1>21, DropMetaEffect
<1>22. CASE Unhook
  BY <1>22, UnhookEffect
<1>23. CASE CopyHookAgain
  BY <1>23, CopyHookAgainEffect
<1>24. CASE RemoveStaged
  BY <1>24, RemoveStagedEffect
<1>25. CASE ReplaceFails
  BY <1>25, ReplaceFailsEffect
<1>26. CASE Raises
  BY <1>26, RaisesEffect
<1>27. CASE RestoreTree
  BY <1>27, RestoreTreeEffect
<1>28. CASE RestoreFiles
  BY <1>28, RestoreFilesEffect
<1>29. CASE Unstage
  BY <1>29, UnstageEffect
<1>30. CASE Kill \/ RollbackStops
  BY <1>30, CutEffect DEF IsCut
<1>31. ASSUME NEW a \in Adapter, EditOwnFile(a) \/ EditFramework(a) PROVE DeployTypeOK'
  BY <1>31, EditTreeEffect
<1>32. CASE EditAsset
  BY <1>32, EditAssetEffect
<1>33. ASSUME NEW h \in UserHook, WriteHook(h) PROVE DeployTypeOK'
  BY <1>33, WriteHookEffect
<1>34. CASE UNCHANGED deployVars
  BY <1>34 DEF DeployTypeOK, deployVars
<1>. QED
  BY <1>1, <1>2, <1>3, <1>4, <1>5, <1>6, <1>7, <1>8, <1>9, <1>10, <1>11,
     <1>12, <1>13, <1>14, <1>15, <1>16, <1>17, <1>18, <1>19, <1>20, <1>21, <1>22,
     <1>23, <1>24, <1>25, <1>26, <1>27, <1>28, <1>29, <1>30, <1>31, <1>32, <1>33, <1>34
     DEF DeployNext, Replace, Uninstall, Rollback, UserWorks

LEMMA WholeStep ==
  ASSUME DeployInv, [DeployNext]_deployVars
  PROVE  TreesWhole'
<1>1. ASSUME NEW a \in Adapter, BeginInit(a) PROVE TreesWhole'
  BY <1>1, BeginInitEffect, NoTreeTyped, BeforeTyped
     DEF DeployInv, TreesWhole, Exists, NoTree, project, system, Begins
<1>2. CASE BeginUpdate
  BY <1>2, BeginUpdateEffect, NoTreeTyped, BeforeTyped
     DEF DeployInv, TreesWhole, Exists, NoTree, project, system, Begins
<1>3. ASSUME NEW a \in Adapter, BeginUninstall(a) PROVE TreesWhole'
  BY <1>3, BeginUninstallEffect, NoTreeTyped, BeforeTyped
     DEF DeployInv, TreesWhole, Exists, NoTree, project, system, Begins
<1>4. CASE SystemSwap
  BY <1>4, SystemSwapEffect, NoTreeTyped, BeforeTyped
     DEF DeployInv, TreesWhole, Exists, NoTree, project, system
<1>5. CASE SystemStamp
  BY <1>5, SystemStampEffect, NoTreeTyped, BeforeTyped
     DEF DeployInv, TreesWhole, Exists, NoTree, project
<1>6. CASE SyncProject
  BY <1>6, SyncProjectEffect, NoTreeTyped, BeforeTyped
     DEF DeployInv, TreesWhole, Exists, NoTree, system
<1>7. CASE ElsewhereSwap \/ ElsewhereStamp
  BY <1>7, ElsewhereEffect, NoTreeTyped, BeforeTyped
     DEF DeployInv, TreesWhole, Exists, NoTree, project
<1>8. CASE Publication
  BY <1>8, PublicationEffect, NoTreeTyped, BeforeTyped
     DEF DeployInv, TreesWhole, Exists, NoTree, project
<1>9. CASE ClearBackup
  BY <1>9, ClearBackupEffect, NoTreeTyped, BeforeTyped
     DEF DeployInv, TreesWhole, Exists, NoTree, system, Only
<1>10. CASE MoveAside
  BY <1>10, MoveAsideEffect, NoTreeTyped, BeforeTyped
     DEF DeployInv, TreesWhole, Exists, NoTree, system, Only
<1>11. CASE CopyContent \/ CopyCommit
  BY <1>11, CopyEffect, NoTreeTyped, BeforeTyped
     DEF DeployInv, TreesWhole, Exists, NoTree, project, system
<1>12. CASE SwapIn
  <2>1. Exists([job.fresh EXCEPT !.kind = "cairness"])
    BY BeforeTyped DEF DeployInv, Tree, Exists
  <2>. QED
    BY <1>12, <2>1, SwapInEffect DEF DeployInv, TreesWhole, Only
<1>13. CASE CarryForward
  <2>1. Exists(tree[job.a])
    BY <1>13
       DEF CarryForward, DeployInv, Undoable, PhasesFit, TreeUndo, Removal, Staged,
           Idle, At, Exists
  <2>2. Exists([tree[job.a] EXCEPT !.local = backup[job.a].local])
    BY <2>1, BeforeTyped DEF DeployInv, Tree, Exists
  <2>. QED
    BY <1>13, <2>2, CarryForwardEffect DEF DeployInv, TreesWhole, Only
<1>14. CASE CopyAssets
  BY <1>14, CopyAssetsEffect, NoTreeTyped, BeforeTyped
     DEF DeployInv, TreesWhole, Exists, NoTree, system
<1>15. CASE Seed
  BY <1>15, SeedEffect, NoTreeTyped, BeforeTyped
     DEF DeployInv, TreesWhole, Exists, NoTree, system
<1>16. CASE MoveHook
  BY <1>16, MoveHookEffect, NoTreeTyped, BeforeTyped
     DEF DeployInv, TreesWhole, Exists, NoTree, system
<1>17. CASE CopyHook
  BY <1>17, CopyHookEffect, NoTreeTyped, BeforeTyped
     DEF DeployInv, TreesWhole, Exists, NoTree, system
<1>18. CASE Publish
  BY <1>18, PublishEffect, NoTreeTyped, BeforeTyped
     DEF DeployInv, TreesWhole, Exists, NoTree, system
<1>19. CASE StageAsset
  BY <1>19, StageAssetEffect, NoTreeTyped, BeforeTyped
     DEF DeployInv, TreesWhole, Exists, NoTree, system
<1>20. CASE StageTree
  BY <1>20, StageTreeEffect, NoTreeTyped, BeforeTyped
     DEF DeployInv, TreesWhole, Exists, NoTree, system, Only
<1>21. CASE DropMeta
  BY <1>21, DropMetaEffect, NoTreeTyped, BeforeTyped
     DEF DeployInv, TreesWhole, Exists, NoTree, system
<1>22. CASE Unhook
  BY <1>22, UnhookEffect, NoTreeTyped, BeforeTyped
     DEF DeployInv, TreesWhole, Exists, NoTree, system
<1>23. CASE CopyHookAgain
  BY <1>23, CopyHookAgainEffect, NoTreeTyped, BeforeTyped
     DEF DeployInv, TreesWhole, Exists, NoTree, system
<1>24. CASE RemoveStaged
  BY <1>24, RemoveStagedEffect, NoTreeTyped, BeforeTyped
     DEF DeployInv, TreesWhole, Exists, NoTree, system, Only
<1>25. CASE ReplaceFails
  BY <1>25, ReplaceFailsEffect, NoTreeTyped, BeforeTyped
     DEF DeployInv, TreesWhole, Exists, NoTree, system, Only
<1>26. CASE Raises
  BY <1>26, RaisesEffect, NoTreeTyped, BeforeTyped
     DEF DeployInv, TreesWhole, Exists, NoTree, project, system
<1>27. CASE RestoreTree
  BY <1>27, RestoreTreeEffect, NoTreeTyped, BeforeTyped
     DEF DeployInv, TreesWhole, Exists, NoTree, system, Only
<1>28. CASE RestoreFiles
  BY <1>28, RestoreFilesEffect, NoTreeTyped, BeforeTyped
     DEF DeployInv, TreesWhole, Exists, NoTree, system
<1>29. CASE Unstage
  BY <1>29, UnstageEffect, NoTreeTyped, BeforeTyped
     DEF DeployInv, TreesWhole, Exists, NoTree, system, Only
<1>30. CASE Kill \/ RollbackStops
  BY <1>30, CutEffect, NoTreeTyped, BeforeTyped
     DEF IsCut, DeployInv, TreesWhole, Among, Exists, NoTree, project, system
<1>31. ASSUME NEW a \in Adapter, EditOwnFile(a) \/ EditFramework(a) PROVE TreesWhole'
  BY <1>31, EditTreeEffect, NoTreeTyped, BeforeTyped
     DEF DeployInv, TreesWhole, Exists, NoTree, system
<1>32. CASE EditAsset
  BY <1>32, EditAssetEffect, NoTreeTyped, BeforeTyped
     DEF DeployInv, TreesWhole, Exists, NoTree, system
<1>33. ASSUME NEW h \in UserHook, WriteHook(h) PROVE TreesWhole'
  BY <1>33, WriteHookEffect, NoTreeTyped, BeforeTyped
     DEF DeployInv, TreesWhole, Exists, NoTree, system
<1>34. CASE UNCHANGED deployVars
  BY <1>34, NoTreeTyped, BeforeTyped
     DEF DeployInv, TreesWhole, Exists, NoTree, project, deployVars
<1>. QED
  BY <1>1, <1>2, <1>3, <1>4, <1>5, <1>6, <1>7, <1>8, <1>9, <1>10, <1>11,
     <1>12, <1>13, <1>14, <1>15, <1>16, <1>17, <1>18, <1>19, <1>20, <1>21, <1>22,
     <1>23, <1>24, <1>25, <1>26, <1>27, <1>28, <1>29, <1>30, <1>31, <1>32, <1>33, <1>34
     DEF DeployNext, Replace, Uninstall, Rollback, UserWorks

\* What the system installation has is a number of a release.
LEMMA ReleaseTyped ==
  ASSUME DeployTypeOK
  PROVE  /\ upstream \in Nat \ {0} /\ elsewhere \in Nat
         /\ core.content \in Nat \ {0} /\ core.commit \in Nat \ {0}
         /\ job.fresh.content \in Nat /\ job.fresh.commit \in Nat
         /\ \A a \in Adapter : /\ tree[a].content \in Nat /\ tree[a].commit \in Nat
                               /\ backup[a].content \in Nat /\ backup[a].commit \in Nat
                               /\ staged[a].content \in Nat /\ staged[a].commit \in Nat
BY Bounds, BeforeTyped DEF DeployTypeOK, Release, Tree

LEMMA ReleaseStep ==
  ASSUME DeployInv, [DeployNext]_deployVars
  PROVE  ReleasesInOrder'
<1>1. ASSUME NEW a \in Adapter, BeginInit(a) PROVE ReleasesInOrder'
  BY <1>1, BeginInitEffect, NoTreeTyped, BeforeTyped
     DEF DeployInv, ReleasesInOrder, Truthful, Seen, At, project, system, Begins, NoTree
<1>2. CASE BeginUpdate
  BY <1>2, BeginUpdateEffect, NoTreeTyped, BeforeTyped
     DEF DeployInv, ReleasesInOrder, Truthful, Seen, At, project, system, Begins, NoTree
<1>3. ASSUME NEW a \in Adapter, BeginUninstall(a) PROVE ReleasesInOrder'
  BY <1>3, BeginUninstallEffect, NoTreeTyped, BeforeTyped
     DEF DeployInv, ReleasesInOrder, Truthful, Seen, At, project, system, Begins, NoTree
<1>4. CASE SystemSwap
  <2>1. CASE Goes("sync") /\ UNCHANGED core
    BY <1>4, <2>1, SystemSwapEffect
       DEF DeployInv, ReleasesInOrder, Truthful, Seen, At, Goes, OnWith, project
  <2>2. CASE /\ OnWith("stamp", [job.fresh EXCEPT !.commit = upstream])
             /\ core'.content = upstream /\ core'.commit = core.commit
    <3>1. /\ job'.pc = "stamp" /\ job'.fresh.local = 0 /\ job'.fresh.commit = upstream
      BY <1>4, <2>2, SystemSwapEffect, BeforeTyped
         DEF DeployInv, ReleasesInOrder, At, OnWith, Tree
    <3>2. /\ upstream' = upstream /\ elsewhere' = elsewhere /\ past' = past
          /\ tree' = tree /\ backup' = backup /\ staged' = staged
      BY <1>4, SystemSwapEffect DEF DeployInv, project
    <3>3. /\ core'.commit <= core'.content /\ elsewhere <= core'.content
          /\ core'.content <= upstream /\ upstream \in 1 .. core'.content
      BY <1>4, <2>2, ReleaseTyped DEF DeployInv, ReleasesInOrder
    <3>. QED
      BY <3>1, <3>2, <3>3 DEF DeployInv, ReleasesInOrder, Truthful, Seen, At
  <2>. QED
    BY <1>4, <2>1, <2>2, SystemSwapEffect DEF DeployInv
<1>5. CASE SystemStamp
  <2>1. job'.pc = "sync" /\ job'.fresh = NoTree /\ NoTree.local = 0
    BY <1>5, SystemStampEffect DEF DeployInv, OnWith, NoTree
  <2>2. core'.commit <= core'.content /\ core'.content = core.content
    BY <1>5, SystemStampEffect, ReleaseTyped DEF DeployInv, ReleasesInOrder
  <2>. QED
    BY <1>5, <2>1, <2>2, SystemStampEffect
       DEF DeployInv, ReleasesInOrder, Truthful, Seen, At, project
<1>6. CASE SyncProject
  BY <1>6, SyncProjectEffect, NoTreeTyped, BeforeTyped
     DEF DeployInv, ReleasesInOrder, Truthful, Seen, At, system, Stops, OnWith, NoTree
<1>7. CASE ElsewhereSwap \/ ElsewhereStamp
  <2>1. /\ core'.commit <= core'.content /\ elsewhere' <= core'.content
        /\ core'.content <= upstream' /\ core.content <= core'.content
    BY <1>7, ElsewhereEffect, ReleaseTyped DEF DeployInv, ReleasesInOrder
  <2>2. core'.content \in Nat
    BY <1>7, ElsewhereEffect, ReleaseTyped DEF DeployInv
  <2>3. At("stamp") => job.fresh.commit \in 1 .. core'.content
    BY <2>1, <2>2, ReleaseTyped DEF DeployInv, ReleasesInOrder
  <2>4. Copying => Seen({"overlap"})'
    BY <1>7, ElsewhereEffect DEF DeployInv, Seen
  <2>5. ~Copying => Seen({"overlap"})' = Seen({"overlap"})
    BY <1>7, ElsewhereEffect DEF DeployInv, Seen
  <2>6. /\ job' = job /\ tree' = tree /\ backup' = backup /\ staged' = staged
    BY <1>7, ElsewhereEffect DEF DeployInv, project
  <2>. QED
    BY <2>1, <2>3, <2>4, <2>5, <2>6
       DEF DeployInv, ReleasesInOrder, Truthful, At, Copying
<1>8. CASE Publication
  <2>1. core.content <= upstream'
    BY <1>8, PublicationEffect, ReleaseTyped DEF DeployInv, ReleasesInOrder
  <2>. QED
    BY <1>8, <2>1, PublicationEffect
       DEF DeployInv, ReleasesInOrder, Truthful, Seen, At, project
<1>9. CASE ClearBackup
  BY <1>9, ClearBackupEffect, NoTreeTyped, BeforeTyped
     DEF DeployInv, ReleasesInOrder, Truthful, Seen, At, system, Only, Goes, OnWith,
         NoTree, Tree
<1>10. CASE MoveAside
  BY <1>10, MoveAsideEffect, NoTreeTyped, BeforeTyped
     DEF DeployInv, ReleasesInOrder, Truthful, Seen, At, system, Only, Goes, OnWith,
         NoTree, Tree
<1>11. CASE CopyContent \/ CopyCommit
  <2>1. /\ job'.pc = "build" /\ job'.fresh.local = 0
        /\ job'.fresh.content \in {job.fresh.content, core.content}
        /\ job'.fresh.commit \in {job.fresh.commit, core.commit}
    BY <1>11, CopyEffect, BeforeTyped DEF DeployInv, ReleasesInOrder, OnWith, Tree
  <2>. QED
    BY <1>11, <2>1, CopyEffect
       DEF DeployInv, ReleasesInOrder, Truthful, Seen, At, project, system
<1>12. CASE SwapIn
  BY <1>12, SwapInEffect, NoTreeTyped, BeforeTyped
     DEF DeployInv, ReleasesInOrder, Truthful, Seen, At, system, Only, Goes, OnWith,
         NoTree, Tree
<1>13. CASE CarryForward
  BY <1>13, CarryForwardEffect, NoTreeTyped, BeforeTyped
     DEF DeployInv, ReleasesInOrder, Truthful, Seen, At, system, Only, Goes, OnWith,
         NoTree, Tree
<1>14. CASE CopyAssets
  BY <1>14, CopyAssetsEffect, NoTreeTyped, BeforeTyped
     DEF DeployInv, ReleasesInOrder, Truthful, Seen, At, system, Goes, OnWith, NoTree
<1>15. CASE Seed
  BY <1>15, SeedEffect, NoTreeTyped, BeforeTyped
     DEF DeployInv, ReleasesInOrder, Truthful, Seen, At, system, Goes, OnWith, NoTree
<1>16. CASE MoveHook
  BY <1>16, MoveHookEffect, NoTreeTyped, BeforeTyped
     DEF DeployInv, ReleasesInOrder, Truthful, Seen, At, system, Goes, OnWith, NoTree
<1>17. CASE CopyHook
  BY <1>17, CopyHookEffect, NoTreeTyped, BeforeTyped
     DEF DeployInv, ReleasesInOrder, Truthful, Seen, At, system, Goes, OnWith, NoTree
<1>18. CASE Publish
  BY <1>18, PublishEffect, NoTreeTyped, BeforeTyped
     DEF DeployInv, ReleasesInOrder, Truthful, Seen, At, system, Stops, OnWith, NoTree
<1>19. CASE StageAsset
  BY <1>19, StageAssetEffect, NoTreeTyped, BeforeTyped
     DEF DeployInv, ReleasesInOrder, Truthful, Seen, At, system, Goes, OnWith, NoTree
<1>20. CASE StageTree
  BY <1>20, StageTreeEffect, NoTreeTyped, BeforeTyped
     DEF DeployInv, ReleasesInOrder, Truthful, Seen, At, system, Only, Goes, OnWith,
         NoTree, Tree
<1>21. CASE DropMeta
  BY <1>21, DropMetaEffect, NoTreeTyped, BeforeTyped
     DEF DeployInv, ReleasesInOrder, Truthful, Seen, At, system, Goes, OnWith, NoTree
<1>22. CASE Unhook
  BY <1>22, UnhookEffect, NoTreeTyped, BeforeTyped
     DEF DeployInv, ReleasesInOrder, Truthful, Seen, At, system, Goes, OnWith, NoTree
<1>23. CASE CopyHookAgain
  BY <1>23, CopyHookAgainEffect, NoTreeTyped, BeforeTyped
     DEF DeployInv, ReleasesInOrder, Truthful, Seen, At, system, Goes, OnWith, NoTree
<1>24. CASE RemoveStaged
  BY <1>24, RemoveStagedEffect, NoTreeTyped, BeforeTyped
     DEF DeployInv, ReleasesInOrder, Truthful, Seen, At, system, Only, Stops, OnWith,
         NoTree, Tree
<1>25. CASE ReplaceFails
  BY <1>25, ReplaceFailsEffect, NoTreeTyped, BeforeTyped
     DEF DeployInv, ReleasesInOrder, Truthful, Seen, At, system, Only, Stops, OnWith,
         Faulty, NoTree, Tree
<1>26. CASE Raises
  BY <1>26, RaisesEffect, NoTreeTyped, BeforeTyped
     DEF DeployInv, ReleasesInOrder, Truthful, Seen, At, project, system, Goes, Stops,
         OnWith, Faulty, NoTree
<1>27. CASE RestoreTree
  BY <1>27, RestoreTreeEffect, NoTreeTyped, BeforeTyped
     DEF DeployInv, ReleasesInOrder, Truthful, Seen, At, system, Only, Goes, OnWith,
         NoTree, Tree
<1>28. CASE RestoreFiles
  BY <1>28, RestoreFilesEffect, NoTreeTyped, BeforeTyped
     DEF DeployInv, ReleasesInOrder, Truthful, Seen, At, system, Goes, Stops, OnWith,
         NoTree
<1>29. CASE Unstage
  BY <1>29, UnstageEffect, NoTreeTyped, BeforeTyped
     DEF DeployInv, ReleasesInOrder, Truthful, Seen, At, system, Only, Stops, OnWith,
         NoTree, Tree
<1>30. CASE Kill \/ RollbackStops
  BY <1>30, CutEffect, NoTreeTyped, BeforeTyped
     DEF IsCut, DeployInv, ReleasesInOrder, Among, Truthful, Seen, At, project, system, Stops, OnWith,
         Faulty, NoTree
<1>31. ASSUME NEW a \in Adapter, EditOwnFile(a) \/ EditFramework(a) PROVE ReleasesInOrder'
  BY <1>31, EditTreeEffect, NoTreeTyped, BeforeTyped
     DEF DeployInv, ReleasesInOrder, Truthful, Seen, At, system, NoTree, Tree
<1>32. CASE EditAsset
  BY <1>32, EditAssetEffect, NoTreeTyped, BeforeTyped
     DEF DeployInv, ReleasesInOrder, Truthful, Seen, At, system
<1>33. ASSUME NEW h \in UserHook, WriteHook(h) PROVE ReleasesInOrder'
  BY <1>33, WriteHookEffect, NoTreeTyped, BeforeTyped
     DEF DeployInv, ReleasesInOrder, Truthful, Seen, At, system
<1>34. CASE UNCHANGED deployVars
  BY <1>34, NoTreeTyped, BeforeTyped
     DEF DeployInv, ReleasesInOrder, Truthful, Seen, At, project, deployVars
<1>. QED
  BY <1>1, <1>2, <1>3, <1>4, <1>5, <1>6, <1>7, <1>8, <1>9, <1>10, <1>11,
     <1>12, <1>13, <1>14, <1>15, <1>16, <1>17, <1>18, <1>19, <1>20, <1>21, <1>22,
     <1>23, <1>24, <1>25, <1>26, <1>27, <1>28, <1>29, <1>30, <1>31, <1>32, <1>33, <1>34
     DEF DeployNext, Replace, Uninstall, Rollback, UserWorks

\* The fields of what a command found.
LEMMA FoundFields ==
  ASSUME NEW a \in Adapter
  PROVE  /\ Found(a).tree = tree[a] /\ Found(a).staged = staged[a]
         /\ Found(a).asset = asset /\ Found(a).away = away /\ Found(a).meta = meta
         /\ Found(a).hook = hook /\ Found(a).seeded = seeded
BY DEF Found

LEMMA PhaseStep ==
  ASSUME DeployInv, [DeployNext]_deployVars
  PROVE  PhasesFit'
<1>1. ASSUME NEW a \in Adapter, BeginInit(a) PROVE PhasesFit'
  BY <1>1, BeginInitEffect
     DEF DeployInv, Undoable, PhasesFit, Removal, Staged, Idle, At, Begins
<1>2. CASE BeginUpdate
  BY <1>2, BeginUpdateEffect
     DEF DeployInv, Undoable, PhasesFit, Removal, Staged, Idle, At, Begins
<1>3. ASSUME NEW a \in Adapter, BeginUninstall(a) PROVE PhasesFit'
  BY <1>3, BeginUninstallEffect
     DEF DeployInv, Undoable, PhasesFit, Removal, Staged, Idle, At, Begins
<1>4. CASE SystemSwap
  BY <1>4, SystemSwapEffect
     DEF DeployInv, Undoable, PhasesFit, Removal, Staged, Idle, At, Goes, OnWith
<1>5. CASE SystemStamp
  BY <1>5, SystemStampEffect
     DEF DeployInv, Undoable, PhasesFit, Removal, Staged, Idle, At, OnWith
<1>6. CASE SyncProject
  BY <1>6, SyncProjectEffect
     DEF DeployInv, Undoable, PhasesFit, Removal, Staged, Idle, At, Stops, OnWith
<1>7. CASE ElsewhereSwap \/ ElsewhereStamp
  BY <1>7, ElsewhereEffect DEF DeployInv, Undoable, PhasesFit, Removal, Staged, Idle, At
<1>8. CASE Publication
  BY <1>8, PublicationEffect
     DEF DeployInv, Undoable, PhasesFit, Removal, Staged, Idle, At
<1>9. CASE ClearBackup
  BY <1>9, ClearBackupEffect
     DEF DeployInv, Undoable, PhasesFit, Removal, Staged, Idle, At, Goes, OnWith
<1>10. CASE MoveAside
  BY <1>10, MoveAsideEffect
     DEF DeployInv, Undoable, PhasesFit, Removal, Staged, Idle, At, Goes, OnWith
<1>11. CASE CopyContent \/ CopyCommit
  BY <1>11, CopyEffect
     DEF DeployInv, Undoable, PhasesFit, Removal, Staged, Idle, At, OnWith
<1>12. CASE SwapIn
  BY <1>12, SwapInEffect
     DEF DeployInv, Undoable, PhasesFit, Removal, Staged, Idle, At, Goes, OnWith
<1>13. CASE CarryForward
  BY <1>13, CarryForwardEffect
     DEF DeployInv, Undoable, PhasesFit, Removal, Staged, Idle, At, Goes, OnWith
<1>14. CASE CopyAssets
  BY <1>14, CopyAssetsEffect
     DEF DeployInv, Undoable, PhasesFit, Removal, Staged, Idle, At, Goes, OnWith
<1>15. CASE Seed
  BY <1>15, SeedEffect
     DEF DeployInv, Undoable, PhasesFit, Removal, Staged, Idle, At, Goes, OnWith
<1>16. CASE MoveHook
  BY <1>16, MoveHookEffect
     DEF DeployInv, Undoable, PhasesFit, Removal, Staged, Idle, At, Goes, OnWith
<1>17. CASE CopyHook
  BY <1>17, CopyHookEffect
     DEF DeployInv, Undoable, PhasesFit, Removal, Staged, Idle, At, Goes, OnWith
<1>18. CASE Publish
  BY <1>18, PublishEffect
     DEF DeployInv, Undoable, PhasesFit, Removal, Staged, Idle, At, Stops, OnWith
<1>19. CASE StageAsset
  BY <1>19, StageAssetEffect
     DEF DeployInv, Undoable, PhasesFit, Removal, Staged, Idle, At, Goes, OnWith
<1>20. CASE StageTree
  BY <1>20, StageTreeEffect
     DEF DeployInv, Undoable, PhasesFit, Removal, Staged, Idle, At, Goes, OnWith
<1>21. CASE DropMeta
  BY <1>21, DropMetaEffect
     DEF DeployInv, Undoable, PhasesFit, Removal, Staged, Idle, At, Goes, OnWith
<1>22. CASE Unhook
  BY <1>22, UnhookEffect
     DEF DeployInv, Undoable, PhasesFit, Removal, Staged, Idle, At, Goes, OnWith
<1>23. CASE CopyHookAgain
  BY <1>23, CopyHookAgainEffect
     DEF DeployInv, Undoable, PhasesFit, Removal, Staged, Idle, At, Goes, OnWith
<1>24. CASE RemoveStaged
  BY <1>24, RemoveStagedEffect
     DEF DeployInv, Undoable, PhasesFit, Removal, Staged, Idle, At, Stops, OnWith
<1>25. CASE ReplaceFails
  BY <1>25, ReplaceFailsEffect
     DEF DeployInv, Undoable, PhasesFit, Removal, Staged, Idle, At, Stops, OnWith
<1>26. CASE Raises
  BY <1>26, RaisesEffect
     DEF DeployInv, Undoable, PhasesFit, Removal, Staged, Idle, At, Goes, Stops, OnWith
<1>27. CASE RestoreTree
  BY <1>27, RestoreTreeEffect
     DEF DeployInv, Undoable, PhasesFit, Removal, Staged, Idle, At, Goes, OnWith
<1>28. CASE RestoreFiles
  BY <1>28, RestoreFilesEffect
     DEF DeployInv, Undoable, PhasesFit, Removal, Staged, Idle, At, Goes, Stops, OnWith
<1>29. CASE Unstage
  BY <1>29, UnstageEffect
     DEF DeployInv, Undoable, PhasesFit, Removal, Staged, Idle, At, Stops, OnWith
<1>30. CASE Kill \/ RollbackStops
  BY <1>30, CutEffect
     DEF IsCut, DeployInv, Undoable, PhasesFit, Removal, Staged, Idle, At, Stops, OnWith
<1>31. ASSUME NEW a \in Adapter, EditOwnFile(a) \/ EditFramework(a) PROVE PhasesFit'
  BY <1>31, EditTreeEffect DEF DeployInv, Undoable, PhasesFit, Removal, Staged, Idle, At
<1>32. CASE EditAsset
  BY <1>32, EditAssetEffect
     DEF DeployInv, Undoable, PhasesFit, Removal, Staged, Idle, At
<1>33. ASSUME NEW h \in UserHook, WriteHook(h) PROVE PhasesFit'
  BY <1>33, WriteHookEffect
     DEF DeployInv, Undoable, PhasesFit, Removal, Staged, Idle, At
<1>34. CASE UNCHANGED deployVars
  BY <1>34 DEF DeployInv, Undoable, PhasesFit, Removal, Staged, Idle, At, deployVars
<1>. QED
  BY <1>1, <1>2, <1>3, <1>4, <1>5, <1>6, <1>7, <1>8, <1>9, <1>10, <1>11,
     <1>12, <1>13, <1>14, <1>15, <1>16, <1>17, <1>18, <1>19, <1>20, <1>21, <1>22,
     <1>23, <1>24, <1>25, <1>26, <1>27, <1>28, <1>29, <1>30, <1>31, <1>32, <1>33, <1>34
     DEF DeployNext, Replace, Uninstall, Rollback, UserWorks

LEMMA TreeUndoStep ==
  ASSUME DeployInv, [DeployNext]_deployVars
  PROVE  (~Idle => TreeUndo)'
<1>1. ASSUME NEW a \in Adapter, BeginInit(a) PROVE (~Idle => TreeUndo)'
  <2>1. /\ job'.cmd = "init" /\ job'.a = a
        /\ job'.pc = (IF Exists(tree[a]) THEN "clear" ELSE "build")
        /\ job'.before.tree = tree[a] /\ job'.before.staged = staged[a]
        /\ tree' = tree /\ backup' = backup /\ staged' = staged
    BY <1>1, BeginInitEffect, FoundFields DEF DeployInv, Begins, project
  <2>2. ~Exists(tree[a]) => tree[a] = NoTree
    BY <1>1 DEF DeployInv, TreesWhole
  <2>. QED
    BY <2>1, <2>2 DEF TreeUndo, At, Untouched, Swapped, Replaced
<1>2. CASE BeginUpdate
  BY <1>2, BeginUpdateEffect, BeforeTyped, NoTreeTyped
     DEF DeployInv, Undoable, PhasesFit, TreeUndo, Idle, At, Untouched, Swapped,
         Removal, Staged, TreeKept, TreeStaged, Replaced, project, Begins, Found
<1>3. ASSUME NEW a \in Adapter, BeginUninstall(a) PROVE (~Idle => TreeUndo)'
  <2>1. /\ job'.cmd = "uninstall" /\ job'.a = a /\ job'.pc = "stageasset"
        /\ job'.before.tree = tree[a] /\ job'.before.staged = staged[a]
        /\ tree' = tree /\ staged' = staged /\ tree[a].kind = "cairness"
    BY <1>3, BeginUninstallEffect, FoundFields DEF DeployInv, Begins, project
  <2>. QED
    BY <2>1 DEF TreeUndo, Staged, TreeKept, Exists
<1>4. CASE SystemSwap
  BY <1>4, SystemSwapEffect, BeforeTyped, NoTreeTyped
     DEF DeployInv, Undoable, PhasesFit, TreeUndo, Idle, At, Untouched, Swapped,
         Removal, Staged, TreeKept, TreeStaged, Replaced, project, Goes, OnWith
<1>5. CASE SystemStamp
  BY <1>5, SystemStampEffect, BeforeTyped, NoTreeTyped
     DEF DeployInv, Undoable, PhasesFit, TreeUndo, Idle, At, Untouched, Swapped,
         Removal, Staged, TreeKept, TreeStaged, Replaced, project, OnWith
<1>6. CASE SyncProject
  <2>1. CASE Stops("passed") \/ Stops("failed")
    BY <2>1 DEF Stops, OnWith, Idle
  <2>2. ASSUME NEW a \in Adapter,
               tree[a].kind = "cairness", job'.pc = "clear", job'.cmd = job.cmd,
               job'.a = a, job'.before = Found(a)
        PROVE  (~Idle => TreeUndo)'
    <3>1. /\ job.cmd # "uninstall" /\ Exists(tree[a])
          /\ tree' = tree /\ backup' = backup /\ staged' = staged
      BY <1>6, <2>2, SyncProjectEffect
         DEF DeployInv, Undoable, PhasesFit, Removal, Staged, At, Exists
    <3>2. job'.before.tree = tree[a] /\ job'.before.staged = staged[a]
      BY <2>2, FoundFields
    <3>. QED
      BY <2>2, <3>1, <3>2 DEF TreeUndo, At, Untouched, Swapped, Replaced
  <2>. QED
    BY <1>6, <2>1, <2>2, SyncProjectEffect DEF DeployInv
<1>7. CASE ElsewhereSwap \/ ElsewhereStamp
  BY <1>7, ElsewhereEffect, BeforeTyped, NoTreeTyped
     DEF DeployInv, Undoable, PhasesFit, TreeUndo, Idle, At, Untouched, Swapped,
         Removal, Staged, TreeKept, TreeStaged, Replaced, project
<1>8. CASE Publication
  BY <1>8, PublicationEffect, BeforeTyped, NoTreeTyped
     DEF DeployInv, Undoable, PhasesFit, TreeUndo, Idle, At, Untouched, Swapped,
         Removal, Staged, TreeKept, TreeStaged, Replaced, project
<1>9. CASE ClearBackup
  BY <1>9, ClearBackupEffect, BeforeTyped, NoTreeTyped
     DEF DeployInv, Undoable, PhasesFit, TreeUndo, Idle, At, Untouched, Swapped,
         Removal, Staged, TreeKept, TreeStaged, Replaced, Goes, OnWith, Only
<1>10. CASE MoveAside
  BY <1>10, MoveAsideEffect, BeforeTyped, NoTreeTyped
     DEF DeployInv, Undoable, PhasesFit, TreeUndo, Idle, At, Untouched, Swapped,
         Removal, Staged, TreeKept, TreeStaged, Replaced, Goes, OnWith, Only
<1>11. CASE CopyContent \/ CopyCommit
  BY <1>11, CopyEffect, BeforeTyped, NoTreeTyped
     DEF DeployInv, Undoable, PhasesFit, TreeUndo, Idle, At, Untouched, Swapped,
         Removal, Staged, TreeKept, TreeStaged, Replaced, project, OnWith
<1>12. CASE SwapIn
  <2> DEFINE fresh == [job.fresh EXCEPT !.kind = "cairness"]
  <2>1. fresh.kind = "cairness" /\ fresh.local = 0 /\ NoTree.local = 0
    BY <1>12, BeforeTyped DEF DeployInv, ReleasesInOrder, Tree, NoTree
  <2>2. /\ At("build") /\ Goes(IF Replaced THEN "carry" ELSE "assets")
        /\ tree'[job.a] = fresh /\ UNCHANGED <<backup, staged>>
    BY <1>12, SwapInEffect DEF DeployInv, Only
  <2> HIDE DEF fresh
  <2>. QED
    BY <2>1, <2>2
       DEF DeployInv, Undoable, PhasesFit, TreeUndo, Idle, At, Untouched, Swapped,
           Removal, Staged, Replaced, Goes, OnWith
<1>13. CASE CarryForward
  <2> DEFINE carried == [tree[job.a] EXCEPT !.local = backup[job.a].local]
  <2>1. carried.kind = tree[job.a].kind /\ carried.local = backup[job.a].local
    BY BeforeTyped DEF DeployInv, Tree
  <2>2. /\ At("carry") /\ Goes("assets") /\ tree'[job.a] = carried
        /\ UNCHANGED <<backup, staged>>
    BY <1>13, CarryForwardEffect DEF DeployInv, Only
  <2> HIDE DEF carried
  <2>. QED
    BY <2>1, <2>2
       DEF DeployInv, Undoable, PhasesFit, TreeUndo, Idle, At, Untouched, Swapped,
           Removal, Staged, Replaced, Goes, OnWith
<1>14. CASE CopyAssets
  BY <1>14, CopyAssetsEffect, BeforeTyped, NoTreeTyped
     DEF DeployInv, Undoable, PhasesFit, TreeUndo, Idle, At, Untouched, Swapped,
         Removal, Staged, TreeKept, TreeStaged, Replaced, Goes, OnWith
<1>15. CASE Seed
  BY <1>15, SeedEffect, BeforeTyped, NoTreeTyped
     DEF DeployInv, Undoable, PhasesFit, TreeUndo, Idle, At, Untouched, Swapped,
         Removal, Staged, TreeKept, TreeStaged, Replaced, Goes, OnWith
<1>16. CASE MoveHook
  BY <1>16, MoveHookEffect, BeforeTyped, NoTreeTyped
     DEF DeployInv, Undoable, PhasesFit, TreeUndo, Idle, At, Untouched, Swapped,
         Removal, Staged, TreeKept, TreeStaged, Replaced, Goes, OnWith
<1>17. CASE CopyHook
  BY <1>17, CopyHookEffect, BeforeTyped, NoTreeTyped
     DEF DeployInv, Undoable, PhasesFit, TreeUndo, Idle, At, Untouched, Swapped,
         Removal, Staged, TreeKept, TreeStaged, Replaced, Goes, OnWith
<1>18. CASE Publish
  BY <1>18, PublishEffect, BeforeTyped, NoTreeTyped
     DEF DeployInv, Undoable, PhasesFit, TreeUndo, Idle, At, Untouched, Swapped,
         Removal, Staged, TreeKept, TreeStaged, Replaced, Stops, OnWith
<1>19. CASE StageAsset
  BY <1>19, StageAssetEffect, BeforeTyped, NoTreeTyped
     DEF DeployInv, Undoable, PhasesFit, TreeUndo, Idle, At, Untouched, Swapped,
         Removal, Staged, TreeKept, TreeStaged, Replaced, Goes, OnWith
<1>20. CASE StageTree
  <2>1. staged[job.a] = NoTree
    BY <1>20, StageTreeEffect, BeforeTyped DEF DeployInv, TreesWhole
  <2>. QED
    BY <1>20, <2>1, StageTreeEffect, BeforeTyped, NoTreeTyped
       DEF DeployInv, Undoable, PhasesFit, TreeUndo, Idle, At, Untouched, Swapped,
           Removal, Staged, TreeKept, TreeStaged, Replaced, project, Goes, Stops,
           OnWith, Only
<1>21. CASE DropMeta
  BY <1>21, DropMetaEffect, BeforeTyped, NoTreeTyped
     DEF DeployInv, Undoable, PhasesFit, TreeUndo, Idle, At, Untouched, Swapped,
         Removal, Staged, TreeKept, TreeStaged, Replaced, Goes, OnWith
<1>22. CASE Unhook
  BY <1>22, UnhookEffect, BeforeTyped, NoTreeTyped
     DEF DeployInv, Undoable, PhasesFit, TreeUndo, Idle, At, Untouched, Swapped,
         Removal, Staged, TreeKept, TreeStaged, Replaced, Goes, OnWith
<1>23. CASE CopyHookAgain
  BY <1>23, CopyHookAgainEffect, BeforeTyped, NoTreeTyped
     DEF DeployInv, Undoable, PhasesFit, TreeUndo, Idle, At, Untouched, Swapped,
         Removal, Staged, TreeKept, TreeStaged, Replaced, Goes, OnWith
<1>24. CASE RemoveStaged
  BY <1>24, RemoveStagedEffect, BeforeTyped, NoTreeTyped
     DEF DeployInv, Undoable, PhasesFit, TreeUndo, Idle, At, Untouched, Swapped,
         Removal, Staged, TreeKept, TreeStaged, Replaced, Stops, OnWith, Only
<1>25. CASE ReplaceFails
  BY <1>25, ReplaceFailsEffect, BeforeTyped, NoTreeTyped
     DEF DeployInv, Undoable, PhasesFit, TreeUndo, Idle, At, Untouched, Swapped,
         Removal, Staged, TreeKept, TreeStaged, Replaced, Stops, OnWith, Only
<1>26. CASE Raises
  BY <1>26, RaisesEffect, BeforeTyped, NoTreeTyped
     DEF DeployInv, Undoable, PhasesFit, TreeUndo, Idle, At, Untouched, Swapped,
         Removal, Staged, TreeKept, TreeStaged, Replaced, project, Goes, Stops, OnWith
<1>27. CASE RestoreTree
  BY <1>27, RestoreTreeEffect, BeforeTyped, NoTreeTyped
     DEF DeployInv, Undoable, PhasesFit, TreeUndo, Idle, At, Untouched, Swapped,
         Removal, Staged, TreeKept, TreeStaged, Replaced, Goes, OnWith, Only
<1>28. CASE RestoreFiles
  BY <1>28, RestoreFilesEffect, BeforeTyped, NoTreeTyped
     DEF DeployInv, Undoable, PhasesFit, TreeUndo, Idle, At, Untouched, Swapped,
         Removal, Staged, TreeKept, TreeStaged, Replaced, Goes, Stops, OnWith
<1>29. CASE Unstage
  BY <1>29, UnstageEffect, BeforeTyped, NoTreeTyped
     DEF DeployInv, Undoable, PhasesFit, TreeUndo, Idle, At, Untouched, Swapped,
         Removal, Staged, TreeKept, TreeStaged, Replaced, Stops, OnWith, Only
<1>30. CASE Kill \/ RollbackStops
  BY <1>30, CutEffect, BeforeTyped, NoTreeTyped
     DEF IsCut, DeployInv, Undoable, PhasesFit, TreeUndo, Idle, At, Untouched, Swapped,
         Removal, Staged, TreeKept, TreeStaged, Replaced, project, Stops, OnWith
<1>31. ASSUME NEW a \in Adapter, EditOwnFile(a) \/ EditFramework(a) PROVE (~Idle => TreeUndo)'
  BY <1>31, EditTreeEffect, BeforeTyped, NoTreeTyped
     DEF DeployInv, Undoable, PhasesFit, TreeUndo, Idle, At, Untouched, Swapped,
         Removal, Staged, TreeKept, TreeStaged, Replaced
<1>32. CASE EditAsset
  BY <1>32, EditAssetEffect, BeforeTyped, NoTreeTyped
     DEF DeployInv, Undoable, PhasesFit, TreeUndo, Idle, At, Untouched, Swapped,
         Removal, Staged, TreeKept, TreeStaged, Replaced
<1>33. ASSUME NEW h \in UserHook, WriteHook(h) PROVE (~Idle => TreeUndo)'
  BY <1>33, WriteHookEffect, BeforeTyped, NoTreeTyped
     DEF DeployInv, Undoable, PhasesFit, TreeUndo, Idle, At, Untouched, Swapped,
         Removal, Staged, TreeKept, TreeStaged, Replaced
<1>34. CASE UNCHANGED deployVars
  BY <1>34, BeforeTyped, NoTreeTyped
     DEF DeployInv, Undoable, PhasesFit, TreeUndo, Idle, At, Untouched, Swapped,
         Removal, Staged, TreeKept, TreeStaged, Replaced, project, deployVars
<1>. QED
  BY <1>1, <1>2, <1>3, <1>4, <1>5, <1>6, <1>7, <1>8, <1>9, <1>10, <1>11,
     <1>12, <1>13, <1>14, <1>15, <1>16, <1>17, <1>18, <1>19, <1>20, <1>21, <1>22,
     <1>23, <1>24, <1>25, <1>26, <1>27, <1>28, <1>29, <1>30, <1>31, <1>32, <1>33, <1>34
     DEF DeployNext, Replace, Uninstall, Rollback, UserWorks

LEMMA AssetUndoStep ==
  ASSUME DeployInv, [DeployNext]_deployVars
  PROVE  (~Idle => AssetUndo)'
<1>1. ASSUME NEW a \in Adapter, BeginInit(a) PROVE (~Idle => AssetUndo)'
  <2>1. /\ job'.cmd = "init" /\ job'.a = a /\ job'.pc \in {"clear", "build"}
        /\ job'.before.asset = asset /\ job'.before.away = away /\ job'.before.tree = tree[a]
        /\ asset' = asset /\ away' = away
    BY <1>1, BeginInitEffect, FoundFields DEF DeployInv, Begins, project
  <2>. QED
    BY <1>1, BeginInitEffect, <2>1
       DEF AssetUndo, AssetKept, At, Swapped, DeployInv, PreflightPasses, AssetIntact
<1>2. CASE BeginUpdate
  BY <1>2, BeginUpdateEffect, BeforeTyped
     DEF DeployInv, Undoable, PhasesFit, AssetUndo, AssetKept, AssetStaged, Idle, At,
         Swapped, Removal, Staged, Replaced, project, Begins, Found
<1>3. ASSUME NEW a \in Adapter, BeginUninstall(a) PROVE (~Idle => AssetUndo)'
  <2>1. /\ job'.cmd = "uninstall" /\ job'.a = a /\ job'.pc = "stageasset"
        /\ job'.before.asset = asset /\ job'.before.away = away /\ job'.before.tree = tree[a]
        /\ asset' = asset /\ away' = away
    BY <1>3, BeginUninstallEffect, FoundFields DEF DeployInv, Begins, project
  <2>. QED
    BY <2>1 DEF AssetUndo, AssetKept, At, Swapped
<1>4. CASE SystemSwap
  BY <1>4, SystemSwapEffect, BeforeTyped
     DEF DeployInv, Undoable, PhasesFit, AssetUndo, AssetKept, AssetStaged, Idle, At,
         Swapped, Removal, Staged, Replaced, project, Goes, OnWith
<1>5. CASE SystemStamp
  BY <1>5, SystemStampEffect, BeforeTyped
     DEF DeployInv, Undoable, PhasesFit, AssetUndo, AssetKept, AssetStaged, Idle, At,
         Swapped, Removal, Staged, Replaced, project, OnWith
<1>6. CASE SyncProject
  <2>1. CASE Stops("passed") \/ Stops("failed")
    BY <2>1 DEF Stops, OnWith, Idle
  <2>2. ASSUME NEW a \in Adapter,
               PreflightPasses(a), job'.pc = "clear", job'.cmd = job.cmd,
               job'.a = a, job'.before = Found(a), UNCHANGED meta
        PROVE  (~Idle => AssetUndo)'
    <3>1. /\ job.cmd # "uninstall"
          /\ job'.before.asset = asset /\ job'.before.away = away /\ job'.before.tree = tree[a]
        /\ asset' = asset /\ away' = away
      BY <1>6, <2>2, SyncProjectEffect, FoundFields
         DEF DeployInv, Undoable, PhasesFit, Removal, Staged, At
    <3>. QED
      BY <2>2, <3>1 DEF AssetUndo, AssetKept, At, Swapped, PreflightPasses, AssetIntact
  <2>. QED
    BY <1>6, <2>1, <2>2, SyncProjectEffect DEF DeployInv
<1>7. CASE ElsewhereSwap \/ ElsewhereStamp
  BY <1>7, ElsewhereEffect, BeforeTyped
     DEF DeployInv, Undoable, PhasesFit, AssetUndo, AssetKept, AssetStaged, Idle, At,
         Swapped, Removal, Staged, Replaced, project
<1>8. CASE Publication
  BY <1>8, PublicationEffect, BeforeTyped
     DEF DeployInv, Undoable, PhasesFit, AssetUndo, AssetKept, AssetStaged, Idle, At,
         Swapped, Removal, Staged, Replaced, project
<1>9. CASE ClearBackup
  BY <1>9, ClearBackupEffect, BeforeTyped
     DEF DeployInv, Undoable, PhasesFit, AssetUndo, AssetKept, AssetStaged, Idle, At,
         Swapped, Removal, Staged, Replaced, Goes, OnWith
<1>10. CASE MoveAside
  BY <1>10, MoveAsideEffect, BeforeTyped
     DEF DeployInv, Undoable, PhasesFit, AssetUndo, AssetKept, AssetStaged, Idle, At,
         Swapped, Removal, Staged, Replaced, Goes, OnWith
<1>11. CASE CopyContent \/ CopyCommit
  BY <1>11, CopyEffect, BeforeTyped
     DEF DeployInv, Undoable, PhasesFit, AssetUndo, AssetKept, AssetStaged, Idle, At,
         Swapped, Removal, Staged, Replaced, project, OnWith
<1>12. CASE SwapIn
  BY <1>12, SwapInEffect, BeforeTyped
     DEF DeployInv, Undoable, PhasesFit, AssetUndo, AssetKept, AssetStaged, Idle, At,
         Swapped, Removal, Staged, Replaced, Goes, OnWith
<1>13. CASE CarryForward
  BY <1>13, CarryForwardEffect, BeforeTyped
     DEF DeployInv, Undoable, PhasesFit, AssetUndo, AssetKept, AssetStaged, Idle, At,
         Swapped, Removal, Staged, Replaced, Goes, OnWith
<1>14. CASE CopyAssets
  BY <1>14, CopyAssetsEffect, BeforeTyped
     DEF DeployInv, Undoable, PhasesFit, AssetUndo, HasAsset, AssetKept, AssetStaged, Idle, At,
         Swapped, Removal, Staged, Replaced, Goes, OnWith
<1>15. CASE Seed
  BY <1>15, SeedEffect, BeforeTyped
     DEF DeployInv, Undoable, PhasesFit, AssetUndo, AssetKept, AssetStaged, Idle, At,
         Swapped, Removal, Staged, Replaced, Goes, OnWith
<1>16. CASE MoveHook
  BY <1>16, MoveHookEffect, BeforeTyped
     DEF DeployInv, Undoable, PhasesFit, AssetUndo, AssetKept, AssetStaged, Idle, At,
         Swapped, Removal, Staged, Replaced, Goes, OnWith
<1>17. CASE CopyHook
  BY <1>17, CopyHookEffect, BeforeTyped
     DEF DeployInv, Undoable, PhasesFit, AssetUndo, AssetKept, AssetStaged, Idle, At,
         Swapped, Removal, Staged, Replaced, Goes, OnWith
<1>18. CASE Publish
  BY <1>18, PublishEffect, BeforeTyped
     DEF DeployInv, Undoable, PhasesFit, AssetUndo, AssetKept, AssetStaged, Idle, At,
         Swapped, Removal, Staged, Replaced, Stops, OnWith
<1>19. CASE StageAsset
  BY <1>19, StageAssetEffect, BeforeTyped
     DEF DeployInv, Undoable, PhasesFit, AssetUndo, HasAsset, AssetKept, AssetStaged, Idle, At,
         Swapped, Removal, Staged, Replaced, Goes, OnWith, StagesAsset, AssetIntact
<1>20. CASE StageTree
  BY <1>20, StageTreeEffect, BeforeTyped
     DEF DeployInv, Undoable, PhasesFit, AssetUndo, AssetKept, AssetStaged, Idle, At,
         Swapped, Removal, Staged, Replaced, Goes, OnWith
<1>21. CASE DropMeta
  BY <1>21, DropMetaEffect, BeforeTyped
     DEF DeployInv, Undoable, PhasesFit, AssetUndo, AssetKept, AssetStaged, Idle, At,
         Swapped, Removal, Staged, Replaced, Goes, OnWith
<1>22. CASE Unhook
  BY <1>22, UnhookEffect, BeforeTyped
     DEF DeployInv, Undoable, PhasesFit, AssetUndo, AssetKept, AssetStaged, Idle, At,
         Swapped, Removal, Staged, Replaced, Goes, OnWith
<1>23. CASE CopyHookAgain
  BY <1>23, CopyHookAgainEffect, BeforeTyped
     DEF DeployInv, Undoable, PhasesFit, AssetUndo, AssetKept, AssetStaged, Idle, At,
         Swapped, Removal, Staged, Replaced, Goes, OnWith
<1>24. CASE RemoveStaged
  BY <1>24, RemoveStagedEffect, BeforeTyped
     DEF DeployInv, Undoable, PhasesFit, AssetUndo, AssetKept, AssetStaged, Idle, At,
         Swapped, Removal, Staged, Replaced, Stops, OnWith
<1>25. CASE ReplaceFails
  BY <1>25, ReplaceFailsEffect, BeforeTyped
     DEF DeployInv, Undoable, PhasesFit, AssetUndo, AssetKept, AssetStaged, Idle, At,
         Swapped, Removal, Staged, Replaced, Stops, OnWith
<1>26. CASE Raises
  BY <1>26, RaisesEffect, BeforeTyped
     DEF DeployInv, Undoable, PhasesFit, AssetUndo, AssetKept, AssetStaged, Idle, At,
         Swapped, Removal, Staged, Replaced, project, Goes, Stops, OnWith
<1>27. CASE RestoreTree
  BY <1>27, RestoreTreeEffect, BeforeTyped
     DEF DeployInv, Undoable, PhasesFit, AssetUndo, HasAsset, AssetKept, AssetStaged, Idle, At,
         Swapped, Removal, Staged, Replaced, Goes, OnWith
<1>28. CASE RestoreFiles
  BY <1>28, RestoreFilesEffect, BeforeTyped
     DEF DeployInv, Undoable, PhasesFit, AssetUndo, AssetKept, AssetStaged, Idle, At,
         Swapped, Removal, Staged, Replaced, Goes, Stops, OnWith
<1>29. CASE Unstage
  BY <1>29, UnstageEffect, BeforeTyped
     DEF DeployInv, Undoable, PhasesFit, AssetUndo, AssetKept, AssetStaged, Idle, At,
         Swapped, Removal, Staged, Replaced, Stops, OnWith
<1>30. CASE Kill \/ RollbackStops
  BY <1>30, CutEffect, BeforeTyped
     DEF IsCut, DeployInv, Undoable, PhasesFit, AssetUndo, AssetKept, AssetStaged, Idle, At,
         Swapped, Removal, Staged, Replaced, project, Stops, OnWith
<1>31. ASSUME NEW a \in Adapter, EditOwnFile(a) \/ EditFramework(a) PROVE (~Idle => AssetUndo)'
  BY <1>31, EditTreeEffect, BeforeTyped
     DEF DeployInv, Undoable, PhasesFit, AssetUndo, AssetKept, AssetStaged, Idle, At,
         Swapped, Removal, Staged, Replaced
<1>32. CASE EditAsset
  BY <1>32, EditAssetEffect, BeforeTyped
     DEF DeployInv, Undoable, PhasesFit, AssetUndo, AssetKept, AssetStaged, Idle, At,
         Swapped, Removal, Staged, Replaced
<1>33. ASSUME NEW h \in UserHook, WriteHook(h) PROVE (~Idle => AssetUndo)'
  BY <1>33, WriteHookEffect, BeforeTyped
     DEF DeployInv, Undoable, PhasesFit, AssetUndo, AssetKept, AssetStaged, Idle, At,
         Swapped, Removal, Staged, Replaced
<1>34. CASE UNCHANGED deployVars
  BY <1>34, BeforeTyped
     DEF DeployInv, Undoable, PhasesFit, AssetUndo, AssetKept, AssetStaged, Idle, At,
         Swapped, Removal, Staged, Replaced, project, deployVars
<1>. QED
  BY <1>1, <1>2, <1>3, <1>4, <1>5, <1>6, <1>7, <1>8, <1>9, <1>10, <1>11,
     <1>12, <1>13, <1>14, <1>15, <1>16, <1>17, <1>18, <1>19, <1>20, <1>21, <1>22,
     <1>23, <1>24, <1>25, <1>26, <1>27, <1>28, <1>29, <1>30, <1>31, <1>32, <1>33, <1>34
     DEF DeployNext, Replace, Uninstall, Rollback, UserWorks

LEMMA RecordUndoStep ==
  ASSUME DeployInv, [DeployNext]_deployVars
  PROVE  (~Idle => RecordUndo)'
<1>1. ASSUME NEW a \in Adapter, BeginInit(a) PROVE (~Idle => RecordUndo)'
  <2>1. /\ job'.cmd = "init" /\ job'.a = a /\ job'.pc \in {"clear", "build"}
        /\ job'.before.meta = meta /\ job'.before.hook = hook /\ job'.before.seeded = seeded
        /\ meta' = meta /\ hook' = hook /\ seeded' = seeded
    BY <1>1, BeginInitEffect, FoundFields DEF DeployInv, Begins, project
  <2>. QED
    BY <2>1 DEF RecordUndo, At, Untouched
<1>2. CASE BeginUpdate
  BY <1>2, BeginUpdateEffect, BeforeTyped
     DEF DeployInv, Undoable, PhasesFit, RecordUndo, Idle, At, Untouched, Removal,
         Staged, project, Begins, Found
<1>3. ASSUME NEW a \in Adapter, BeginUninstall(a) PROVE (~Idle => RecordUndo)'
  <2>1. /\ job'.cmd = "uninstall" /\ job'.a = a /\ job'.pc = "stageasset"
        /\ job'.before.meta = meta /\ job'.before.hook = hook /\ job'.before.seeded = seeded
        /\ meta' = meta /\ hook' = hook /\ seeded' = seeded
    BY <1>3, BeginUninstallEffect, FoundFields DEF DeployInv, Begins, project
  <2>. QED
    BY <2>1 DEF RecordUndo, At, Untouched
<1>4. CASE SystemSwap
  BY <1>4, SystemSwapEffect, BeforeTyped
     DEF DeployInv, Undoable, PhasesFit, RecordUndo, Idle, At, Untouched, Removal,
         Staged, project, Goes, OnWith
<1>5. CASE SystemStamp
  BY <1>5, SystemStampEffect, BeforeTyped
     DEF DeployInv, Undoable, PhasesFit, RecordUndo, Idle, At, Untouched, Removal,
         Staged, project, OnWith
<1>6. CASE SyncProject
  <2>1. CASE Stops("passed") \/ Stops("failed")
    BY <2>1 DEF Stops, OnWith, Idle
  <2>2. ASSUME NEW a \in Adapter,
               PreflightPasses(a), job'.pc = "clear", job'.cmd = job.cmd,
               job'.a = a, job'.before = Found(a), UNCHANGED meta
        PROVE  (~Idle => RecordUndo)'
    <3>1. /\ job.cmd # "uninstall"
          /\ job'.before.meta = meta /\ job'.before.hook = hook /\ job'.before.seeded = seeded
        /\ meta' = meta /\ hook' = hook /\ seeded' = seeded
      BY <1>6, <2>2, SyncProjectEffect, FoundFields
         DEF DeployInv, Undoable, PhasesFit, Removal, Staged, At
    <3>. QED
      BY <2>2, <3>1 DEF RecordUndo, At, Untouched
  <2>. QED
    BY <1>6, <2>1, <2>2, SyncProjectEffect DEF DeployInv
<1>7. CASE ElsewhereSwap \/ ElsewhereStamp
  BY <1>7, ElsewhereEffect, BeforeTyped
     DEF DeployInv, Undoable, PhasesFit, RecordUndo, Idle, At, Untouched, Removal,
         Staged, project
<1>8. CASE Publication
  BY <1>8, PublicationEffect, BeforeTyped
     DEF DeployInv, Undoable, PhasesFit, RecordUndo, Idle, At, Untouched, Removal,
         Staged, project
<1>9. CASE ClearBackup
  BY <1>9, ClearBackupEffect, BeforeTyped
     DEF DeployInv, Undoable, PhasesFit, RecordUndo, Idle, At, Untouched, Removal,
         Staged, Goes, OnWith
<1>10. CASE MoveAside
  BY <1>10, MoveAsideEffect, BeforeTyped
     DEF DeployInv, Undoable, PhasesFit, RecordUndo, Idle, At, Untouched, Removal,
         Staged, Goes, OnWith
<1>11. CASE CopyContent \/ CopyCommit
  BY <1>11, CopyEffect, BeforeTyped
     DEF DeployInv, Undoable, PhasesFit, RecordUndo, Idle, At, Untouched, Removal,
         Staged, project, OnWith
<1>12. CASE SwapIn
  BY <1>12, SwapInEffect, BeforeTyped
     DEF DeployInv, Undoable, PhasesFit, RecordUndo, Idle, At, Untouched, Removal,
         Staged, Goes, OnWith
<1>13. CASE CarryForward
  BY <1>13, CarryForwardEffect, BeforeTyped
     DEF DeployInv, Undoable, PhasesFit, RecordUndo, Idle, At, Untouched, Removal,
         Staged, Goes, OnWith
<1>14. CASE CopyAssets
  BY <1>14, CopyAssetsEffect, BeforeTyped
     DEF DeployInv, Undoable, PhasesFit, RecordUndo, Idle, At, Untouched, Removal,
         Staged, Goes, OnWith
<1>15. CASE Seed
  BY <1>15, SeedEffect, BeforeTyped
     DEF DeployInv, Undoable, PhasesFit, RecordUndo, Idle, At, Untouched, Removal,
         Staged, Goes, OnWith
<1>16. CASE MoveHook
  BY <1>16, MoveHookEffect, BeforeTyped
     DEF DeployInv, Undoable, PhasesFit, RecordUndo, Idle, At, Untouched, Removal,
         Staged, Goes, OnWith
<1>17. CASE CopyHook
  BY <1>17, CopyHookEffect, BeforeTyped
     DEF DeployInv, Undoable, PhasesFit, RecordUndo, Idle, At, Untouched, Removal,
         Staged, Goes, OnWith
<1>18. CASE Publish
  BY <1>18, PublishEffect, BeforeTyped
     DEF DeployInv, Undoable, PhasesFit, RecordUndo, Idle, At, Untouched, Removal,
         Staged, Stops, OnWith
<1>19. CASE StageAsset
  BY <1>19, StageAssetEffect, BeforeTyped
     DEF DeployInv, Undoable, PhasesFit, RecordUndo, Idle, At, Untouched, Removal,
         Staged, Goes, OnWith
<1>20. CASE StageTree
  BY <1>20, StageTreeEffect, BeforeTyped
     DEF DeployInv, Undoable, PhasesFit, RecordUndo, Idle, At, Untouched, Removal,
         Staged, Goes, OnWith
<1>21. CASE DropMeta
  BY <1>21, DropMetaEffect, BeforeTyped
     DEF DeployInv, Undoable, PhasesFit, RecordUndo, Idle, At, Untouched, Removal,
         Staged, Goes, OnWith
<1>22. CASE Unhook
  BY <1>22, UnhookEffect, BeforeTyped
     DEF DeployInv, Undoable, PhasesFit, RecordUndo, Idle, At, Untouched, Removal,
         Staged, Goes, OnWith
<1>23. CASE CopyHookAgain
  BY <1>23, CopyHookAgainEffect, BeforeTyped
     DEF DeployInv, Undoable, PhasesFit, RecordUndo, Idle, At, Untouched, Removal,
         Staged, Goes, OnWith
<1>24. CASE RemoveStaged
  BY <1>24, RemoveStagedEffect, BeforeTyped
     DEF DeployInv, Undoable, PhasesFit, RecordUndo, Idle, At, Untouched, Removal,
         Staged, Stops, OnWith
<1>25. CASE ReplaceFails
  BY <1>25, ReplaceFailsEffect, BeforeTyped
     DEF DeployInv, Undoable, PhasesFit, RecordUndo, Idle, At, Untouched, Removal,
         Staged, Stops, OnWith
<1>26. CASE Raises
  BY <1>26, RaisesEffect, BeforeTyped
     DEF DeployInv, Undoable, PhasesFit, RecordUndo, Idle, At, Untouched, Removal,
         Staged, project, Goes, Stops, OnWith
<1>27. CASE RestoreTree
  BY <1>27, RestoreTreeEffect, BeforeTyped
     DEF DeployInv, Undoable, PhasesFit, RecordUndo, Idle, At, Untouched, Removal,
         Staged, Goes, OnWith
<1>28. CASE RestoreFiles
  BY <1>28, RestoreFilesEffect, BeforeTyped
     DEF DeployInv, Undoable, PhasesFit, RecordUndo, Idle, At, Untouched, Removal,
         Staged, Goes, Stops, OnWith
<1>29. CASE Unstage
  BY <1>29, UnstageEffect, BeforeTyped
     DEF DeployInv, Undoable, PhasesFit, RecordUndo, Idle, At, Untouched, Removal,
         Staged, Stops, OnWith
<1>30. CASE Kill \/ RollbackStops
  BY <1>30, CutEffect, BeforeTyped
     DEF IsCut, DeployInv, Undoable, PhasesFit, RecordUndo, Idle, At, Untouched, Removal,
         Staged, project, Stops, OnWith
<1>31. ASSUME NEW a \in Adapter, EditOwnFile(a) \/ EditFramework(a) PROVE (~Idle => RecordUndo)'
  BY <1>31, EditTreeEffect, BeforeTyped
     DEF DeployInv, Undoable, PhasesFit, RecordUndo, Idle, At, Untouched, Removal,
         Staged
<1>32. CASE EditAsset
  BY <1>32, EditAssetEffect, BeforeTyped
     DEF DeployInv, Undoable, PhasesFit, RecordUndo, Idle, At, Untouched, Removal,
         Staged
<1>33. ASSUME NEW h \in UserHook, WriteHook(h) PROVE (~Idle => RecordUndo)'
  BY <1>33, WriteHookEffect, BeforeTyped
     DEF DeployInv, Undoable, PhasesFit, RecordUndo, Idle, At, Untouched, Removal,
         Staged
<1>34. CASE UNCHANGED deployVars
  BY <1>34, BeforeTyped
     DEF DeployInv, Undoable, PhasesFit, RecordUndo, Idle, At, Untouched, Removal,
         Staged, project, deployVars
<1>. QED
  BY <1>1, <1>2, <1>3, <1>4, <1>5, <1>6, <1>7, <1>8, <1>9, <1>10, <1>11,
     <1>12, <1>13, <1>14, <1>15, <1>16, <1>17, <1>18, <1>19, <1>20, <1>21, <1>22,
     <1>23, <1>24, <1>25, <1>26, <1>27, <1>28, <1>29, <1>30, <1>31, <1>32, <1>33, <1>34
     DEF DeployNext, Replace, Uninstall, Rollback, UserWorks

LEMMA UndoStep ==
  ASSUME DeployInv, [DeployNext]_deployVars
  PROVE  Undoable'
<1>1. PhasesFit'
  BY PhaseStep
<1>. QED
  BY <1>1, TreeUndoStep, AssetUndoStep, RecordUndoStep DEF Undoable

LEMMA HooksTyped ==
  ASSUME DeployTypeOK
  PROVE  past.hooks \subseteq UserHook /\ "cairness" \notin UserHook /\ "none" \notin UserHook
BY Bounds DEF DeployTypeOK, Past

\* A step that leaves the hooks and what the command would restore as they are
HooksUnmoved ==
  /\ hook' = hook /\ past'.hooks = past.hooks
  /\ Seen({"torn"}) => Seen({"torn"})'
  /\ \/ job' = job
     \/ job'.pc = "idle"
     \/ /\ job'.pc \notin {"copyhook", "copyagain"}
        /\ \/ job'.before.hook = hook
           \/ job'.before = job.before /\ ~Idle /\ ~At("remove")

LEMMA UnmovedStep ==
  ASSUME HooksHeld, HooksUnmoved
  PROVE  HooksHeld'
<1>1. CASE job' = job
  BY <1>1 DEF HooksHeld, HooksUnmoved, HookFiles, Seen, Idle, At
<1>2. CASE job'.pc = "idle"
  BY <1>2 DEF HooksHeld, HooksUnmoved, HookFiles, Seen, Idle, At
<1>3. CASE job'.pc \notin {"copyhook", "copyagain"} /\ job'.before.hook = hook
  BY <1>3 DEF HooksHeld, HooksUnmoved, HookFiles, Seen
<1>4. CASE /\ job'.pc \notin {"copyhook", "copyagain"}
           /\ job'.before = job.before /\ ~Idle /\ ~At("remove")
  BY <1>4 DEF HooksHeld, HooksUnmoved, HookFiles, Seen
<1>. QED
  BY <1>1, <1>2, <1>3, <1>4 DEF HooksUnmoved

\* Wherever a restoration of the hooks stops between two files, they are there.
LEMMA HooksBackKept ==
  ASSUME DeployInv, ~Idle, ~At("remove"), ~Seen({"torn"}), NEW n \in 0 .. 3
  PROVE  past.hooks \subseteq HookFiles(HooksBack(n))
<1>1. /\ past.hooks \subseteq HookFiles(hook) /\ past.hooks \subseteq HookFiles(job.before.hook)
      /\ job.before.hook.bak \in {"none", hook.bak}
      /\ job.before.hook.cbak \in {"none", hook.cbak} /\ "none" \notin past.hooks
  BY HooksTyped DEF DeployInv, HooksHeld
<1>2. CASE n = 0
  BY <1>1, <1>2 DEF HooksBack, HookFiles
<1>3. CASE n = 1
  BY <1>1, <1>3 DEF HooksBack, HookFiles
<1>4. CASE n = 2
  BY <1>1, <1>4 DEF HooksBack, HookFiles
<1>5. CASE n = 3
  BY <1>1, <1>5 DEF HooksBack, HookFiles
<1>. QED
  BY <1>2, <1>3, <1>4, <1>5

LEMMA CutHooks ==
  ASSUME DeployInv, Kill \/ RollbackStops, ~Seen({"torn"})'
  PROVE  past.hooks \subseteq HookFiles(hook')
<1>1. ~Seen({"torn"}) /\ ~Idle
  BY CutEffect DEF IsCut, DeployInv, Seen
<1>2. past.hooks \subseteq HookFiles(hook) /\ past.hooks \subseteq HookFiles(job.before.hook)
  BY <1>1 DEF DeployInv, HooksHeld
<1>3. CASE Kill
  <2>1. hook'.bak = hook.bak /\ hook'.cbak = hook.cbak
        /\ (hook'.active = hook.active \/ hook.active \notin past.hooks)
    BY <1>3, KillEffect, HookCutTyped, HooksTyped DEF DeployInv, HooksHeld
  <2>. QED
    BY <1>2, <2>1 DEF HookFiles
<1>4. ASSUME NEW how \in {"killed", "lost"}, RestoreTreeStops(how)
      PROVE  past.hooks \subseteq HookFiles(hook')
  BY <1>2, <1>4, RestoreTreeStopsEffect DEF DeployInv
<1>5. ASSUME NEW how \in {"killed", "lost"}, RestoreFilesStop(how)
      PROVE  past.hooks \subseteq HookFiles(hook')
  <2>1. /\ ~At("remove")
        /\ hook' = hook \/ \E n \in 0 .. 3 : hook' = HooksBack(n)
    BY <1>5, RestoreFilesStopEffect DEF DeployInv, Seen, At
  <2>2. CASE hook' = hook
    BY <1>2, <2>2
  <2>3. ASSUME NEW n \in 0 .. 3, hook' = HooksBack(n)
        PROVE  past.hooks \subseteq HookFiles(hook')
    BY <1>1, <2>1, <2>3, HooksBackKept
  <2>. QED
    BY <2>1, <2>2, <2>3
<1>6. ASSUME NEW how \in {"killed", "lost"}, UnstageStops(how)
      PROVE  past.hooks \subseteq HookFiles(hook')
  BY <1>2, <1>6, UnstageStopsEffect DEF DeployInv
<1>. QED
  BY <1>3, <1>4, <1>5, <1>6 DEF RollbackStops

LEMMA HookStep ==
  ASSUME DeployInv, [DeployNext]_deployVars
  PROVE  HooksHeld'
<1>1. ASSUME NEW a \in Adapter, BeginInit(a) PROVE HooksUnmoved
  BY <1>1, BeginInitEffect, FoundFields
     DEF DeployInv, HooksUnmoved, Seen, At, Begins, project
<1>2. ASSUME BeginUpdate PROVE HooksUnmoved
  BY <1>2, BeginUpdateEffect, FoundFields, Bounds
     DEF DeployInv, HooksUnmoved, Seen, At, Begins, project
<1>3. ASSUME NEW a \in Adapter, BeginUninstall(a) PROVE HooksUnmoved
  BY <1>3, BeginUninstallEffect, FoundFields
     DEF DeployInv, HooksUnmoved, Seen, At, Begins, project
<1>4. ASSUME SystemSwap PROVE HooksUnmoved
  BY <1>4, SystemSwapEffect
     DEF DeployInv, HooksUnmoved, Seen, Idle, At, project, Goes, OnWith
<1>5. ASSUME SystemStamp PROVE HooksUnmoved
  BY <1>5, SystemStampEffect
     DEF DeployInv, HooksUnmoved, Seen, Idle, At, project, OnWith
<1>6. ASSUME SyncProject PROVE HooksUnmoved
  <2>1. past' = past /\ hook' = hook
    BY <1>6, SyncProjectEffect DEF DeployInv
  <2>2. CASE Stops("passed") \/ Stops("failed")
    BY <2>1, <2>2 DEF HooksUnmoved, Seen, Stops, OnWith
  <2>3. ASSUME NEW a \in Adapter, job'.pc = "clear", job'.before = Found(a)
        PROVE  HooksUnmoved
    BY <2>1, <2>3, FoundFields DEF HooksUnmoved, Seen
  <2>. QED
    BY <1>6, <2>2, <2>3, SyncProjectEffect DEF DeployInv
<1>7. ASSUME ElsewhereSwap \/ ElsewhereStamp PROVE HooksUnmoved
  BY <1>7, ElsewhereEffect
     DEF DeployInv, HooksUnmoved, Seen, Idle, At, project
<1>8. ASSUME Publication PROVE HooksUnmoved
  BY <1>8, PublicationEffect
     DEF DeployInv, HooksUnmoved, Seen, Idle, At, project
<1>9. ASSUME ClearBackup PROVE HooksUnmoved
  BY <1>9, ClearBackupEffect
     DEF DeployInv, HooksUnmoved, Seen, Idle, At, Goes, OnWith
<1>10. ASSUME MoveAside PROVE HooksUnmoved
  BY <1>10, MoveAsideEffect
     DEF DeployInv, HooksUnmoved, Seen, Idle, At, Goes, OnWith
<1>11. ASSUME CopyContent \/ CopyCommit PROVE HooksUnmoved
  BY <1>11, CopyEffect
     DEF DeployInv, HooksUnmoved, Seen, Idle, At, project, OnWith
<1>12. ASSUME SwapIn PROVE HooksUnmoved
  BY <1>12, SwapInEffect
     DEF DeployInv, HooksUnmoved, Seen, Idle, At, Goes, OnWith
<1>13. ASSUME CarryForward PROVE HooksUnmoved
  BY <1>13, CarryForwardEffect
     DEF DeployInv, HooksUnmoved, Seen, Idle, At, Goes, OnWith
<1>14. ASSUME CopyAssets PROVE HooksUnmoved
  BY <1>14, CopyAssetsEffect
     DEF DeployInv, HooksUnmoved, Seen, Idle, At, Goes, OnWith
<1>15. ASSUME Seed PROVE HooksUnmoved
  BY <1>15, SeedEffect
     DEF DeployInv, HooksUnmoved, Seen, Idle, At, Goes, OnWith
<1>16. CASE MoveHook
  BY <1>16, MoveHookEffect, HooksTyped DEF DeployInv, HooksHeld, HookFiles, Seen, Idle, At, Goes, OnWith
<1>17. CASE CopyHook
  BY <1>17, CopyHookEffect, HooksTyped DEF DeployInv, HooksHeld, HookFiles, Seen, Idle, At, Goes, OnWith
<1>18. ASSUME Publish PROVE HooksUnmoved
  BY <1>18, PublishEffect
     DEF DeployInv, HooksUnmoved, Seen, Idle, At, Stops, OnWith
<1>19. ASSUME StageAsset PROVE HooksUnmoved
  BY <1>19, StageAssetEffect
     DEF DeployInv, HooksUnmoved, Seen, Idle, At, Goes, OnWith
<1>20. ASSUME StageTree PROVE HooksUnmoved
  BY <1>20, StageTreeEffect
     DEF DeployInv, HooksUnmoved, Seen, Idle, At, Goes, OnWith
<1>21. ASSUME DropMeta PROVE HooksUnmoved
  BY <1>21, DropMetaEffect
     DEF DeployInv, HooksUnmoved, Seen, Idle, At, Goes, OnWith
<1>22. CASE Unhook
  BY <1>22, UnhookEffect, HooksTyped DEF DeployInv, HooksHeld, HookFiles, Seen, Idle, At, Goes, OnWith
<1>23. CASE CopyHookAgain
  BY <1>23, CopyHookAgainEffect, HooksTyped DEF DeployInv, HooksHeld, HookFiles, Seen, Idle, At, Goes, OnWith
<1>24. ASSUME RemoveStaged PROVE HooksUnmoved
  BY <1>24, RemoveStagedEffect
     DEF DeployInv, HooksUnmoved, Seen, Idle, At, Stops, OnWith
<1>25. ASSUME ReplaceFails PROVE HooksUnmoved
  BY <1>25, ReplaceFailsEffect
     DEF DeployInv, HooksUnmoved, Seen, Idle, At, Stops, OnWith, Faulty
<1>26. CASE Raises
  <2>1. /\ hook'.bak = hook.bak /\ hook'.cbak = hook.cbak
        /\ hook'.active = hook.active \/ hook.active \notin past.hooks
    BY <1>26, RaisesEffect, HookCutTyped, HooksTyped DEF DeployInv, HooksHeld
  <2>2. /\ past'.hooks = past.hooks
        /\ Seen({"torn"}) => Seen({"torn"})'
        /\ job'.before = job.before
        /\ (~Idle /\ ~At("remove")) \/ Idle'
        /\ job'.pc \notin {"copyhook", "copyagain"}
    BY <1>26, RaisesEffect DEF DeployInv, Seen, Idle, At, Goes, Stops, OnWith, Faulty
  <2>. QED
    BY <2>1, <2>2 DEF DeployInv, HooksHeld, HookFiles, Seen, At
<1>27. ASSUME RestoreTree PROVE HooksUnmoved
  BY <1>27, RestoreTreeEffect
     DEF DeployInv, HooksUnmoved, Seen, Idle, At, Goes, OnWith
<1>28. CASE RestoreFiles
  BY <1>28, RestoreFilesEffect, HooksTyped DEF DeployInv, HooksHeld, HookFiles, Seen, Idle, At, Goes, Stops, OnWith
<1>29. ASSUME Unstage PROVE HooksUnmoved
  BY <1>29, UnstageEffect
     DEF DeployInv, HooksUnmoved, Seen, Idle, At, Stops, OnWith
<1>30. CASE Kill \/ RollbackStops
  <2>1. /\ past'.hooks = past.hooks
        /\ Seen({"torn"}) => Seen({"torn"})'
        /\ Idle' /\ job'.pc \notin {"copyhook", "copyagain"}
    BY <1>30, CutEffect DEF IsCut, DeployInv, Seen, Idle, At, Stops, OnWith
  <2>2. ~Seen({"torn"})' => past.hooks \subseteq HookFiles(hook')
    BY <1>30, <2>1, CutHooks
  <2>. QED
    BY <2>1, <2>2 DEF HooksHeld, Seen
<1>31. ASSUME NEW a \in Adapter, EditOwnFile(a) \/ EditFramework(a) PROVE HooksUnmoved
  BY <1>31, EditTreeEffect
     DEF DeployInv, HooksUnmoved, Seen, Idle, At
<1>32. ASSUME EditAsset PROVE HooksUnmoved
  BY <1>32, EditAssetEffect
     DEF DeployInv, HooksUnmoved, Seen, Idle, At
<1>33. ASSUME NEW h \in UserHook, WriteHook(h) PROVE HooksHeld'
  BY <1>33, WriteHookEffect, HooksTyped DEF DeployInv, HooksHeld, HookFiles, Seen, Idle, At
<1>34. ASSUME UNCHANGED deployVars PROVE HooksUnmoved
  BY <1>34 DEF HooksUnmoved, Seen, project, deployVars
<1>35. ASSUME HooksUnmoved PROVE HooksHeld'
  BY <1>35, UnmovedStep DEF DeployInv
<1>. QED
  BY <1>1, <1>2, <1>3, <1>4, <1>5, <1>6, <1>7, <1>8, <1>9, <1>10, <1>11,
     <1>12, <1>13, <1>14, <1>15, <1>16, <1>17, <1>18, <1>19, <1>20, <1>21, <1>22,
     <1>23, <1>24, <1>25, <1>26, <1>27, <1>28, <1>29, <1>30, <1>31, <1>32, <1>33, <1>34,
     <1>35
     DEF DeployNext, Replace, Uninstall, Rollback, UserWorks

\* Wherever a command is, what it found of the user's is still somewhere.
LEMMA WorkSomewhere ==
  ASSUME DeployInv, ~Idle
  PROVE  job.before.tree.local \in {tree[job.a].local, backup[job.a].local, staged[job.a].local}
<1>1. job.pc \in Phase /\ job.a \in Adapter
  BY DEF DeployInv, DeployTypeOK, Job
<1>2. CASE job.cmd = "uninstall"
  BY <1>2
     DEF DeployInv, Undoable, PhasesFit, TreeUndo, TreeKept, TreeStaged, Removal,
         Staged, Idle
<1>3. CASE job.cmd # "uninstall"
  <2>1. CASE job.pc \in Untouched \cup Swapped \cup {"unfiles", "carry"}
    BY <1>3, <2>1 DEF DeployInv, Undoable, TreeUndo, Untouched, Swapped, At, Idle
  <2>2. CASE At("build")
    BY <1>1, <1>3, <2>2 DEF DeployInv, Undoable, TreeUndo, TreesWhole, At, Idle
  <2>. QED
    BY <1>1, <1>3, <2>1, <2>2
       DEF DeployInv, Undoable, PhasesFit, Removal, Staged, Untouched, Swapped, Phase,
           Idle, At
<1>. QED
  BY <1>2, <1>3

\* A command that is cut short loses nothing of its own tree, ...
LEMMA CutWork ==
  ASSUME DeployInv, Kill \/ RollbackStops
  PROVE  job.before.tree.local \in {tree'[job.a].local, backup'[job.a].local, staged'[job.a].local}
<1>1. ~Idle
  BY CutEffect DEF IsCut, DeployInv
<1>2. CASE Kill
  BY <1>1, <1>2, WorkSomewhere, KillEffect DEF DeployInv
<1>3. ASSUME NEW how \in {"killed", "lost"}, RestoreTreeStops(how)
      PROVE  job.before.tree.local \in {tree'[job.a].local, backup'[job.a].local}
  <2>1. /\ tree[job.a].local = job.before.tree.local
        /\ IF Replaced THEN backup[job.a] = job.before.tree ELSE job.before.tree = NoTree
    BY <1>1, <1>3, RestoreTreeStopsEffect
       DEF DeployInv, Undoable, PhasesFit, TreeUndo, Removal, Staged, Swapped, At
  <2>. QED
    BY <1>3, <2>1, RestoreTreeStopsEffect DEF DeployInv, Only
<1>4. ASSUME NEW how \in {"killed", "lost"}, RestoreFilesStop(how)
      PROVE  job.before.tree.local \in {tree'[job.a].local, backup'[job.a].local, staged'[job.a].local}
  BY <1>1, <1>4, WorkSomewhere, RestoreFilesStopEffect DEF DeployInv
<1>5. ASSUME NEW how \in {"killed", "lost"}, UnstageStops(how)
      PROVE  job.before.tree.local \in {tree'[job.a].local, staged'[job.a].local}
  <2>1. TreeKept \/ TreeStaged
    BY <1>1, <1>5, UnstageStopsEffect
       DEF DeployInv, Undoable, PhasesFit, TreeUndo, Removal, At
  <2>2. CASE UNCHANGED <<tree, staged>>
    BY <2>1, <2>2 DEF TreeKept, TreeStaged
  <2>3. CASE TreeUnstaged
    BY <2>1, <2>3, TreeUnstagedTyped, BeforeTyped
       DEF DeployInv, TreesWhole, TreeKept, TreeStaged, Only
  <2>. QED
    BY <1>5, <2>2, <2>3 DEF UnstageStops
<1>. QED
  BY <1>2, <1>3, <1>4, <1>5 DEF RollbackStops

\* ... and leaves the other trees alone.
LEMMA CutElsewhere ==
  ASSUME DeployInv, Kill \/ RollbackStops, NEW a \in Adapter, a # job.a
  PROVE  tree'[a] = tree[a] /\ backup'[a] = backup[a] /\ staged'[a] = staged[a]
<1>1. CASE Kill
  BY <1>1, KillEffect DEF DeployInv
<1>2. ASSUME NEW how \in {"killed", "lost"}, RestoreTreeStops(how)
      PROVE  tree'[a] = tree[a] /\ backup'[a] = backup[a] /\ staged'[a] = staged[a]
  BY <1>2, RestoreTreeStopsEffect DEF DeployInv, Only
<1>3. ASSUME NEW how \in {"killed", "lost"}, RestoreFilesStop(how)
      PROVE  tree'[a] = tree[a] /\ backup'[a] = backup[a] /\ staged'[a] = staged[a]
  BY <1>3, RestoreFilesStopEffect DEF DeployInv
<1>4. ASSUME NEW how \in {"killed", "lost"}, UnstageStops(how)
      PROVE  tree'[a] = tree[a] /\ backup'[a] = backup[a] /\ staged'[a] = staged[a]
  BY <1>4, UnstageStopsEffect DEF DeployInv, Only
<1>. QED
  BY <1>1, <1>2, <1>3, <1>4 DEF RollbackStops

LEMMA FaultsDiffer ==
  Stops("failed") => ~Stops("lost")
BY DEF Stops

LEMMA WorkStep ==
  ASSUME DeployInv, [DeployNext]_deployVars
  PROVE  WorkHeld'
<1>1. ASSUME NEW a \in Adapter, BeginInit(a) PROVE WorkHeld'
  <2>1. /\ past'.local = past.local /\ tree' = tree /\ Idle /\ ~Idle'
        /\ job'.a = a /\ job'.before.tree = tree[a]
        /\ backup' = backup /\ staged' = staged
    BY <1>1, BeginInitEffect, FoundFields, Bounds DEF DeployInv, Begins, Idle, project
  <2>2. past'.seen = IF Clean THEN past.seen ELSE past.seen \cup {"retry"}
    BY <1>1, BeginInitEffect, Bounds DEF DeployInv, Begins, Clean, Seen
  <2>. QED
    BY <2>1, <2>2, Bounds DEF DeployInv, WorkHeld, Clean, Seen, Rests
<1>2. CASE BeginUpdate
  <2>1. /\ past'.local = past.local /\ tree' = tree /\ Idle /\ ~Idle'
        /\ job'.a = Legacy /\ job'.before.tree = tree[Legacy]
        /\ backup' = backup /\ staged' = staged
    BY <1>2, BeginUpdateEffect, FoundFields, Bounds DEF DeployInv, Begins, Idle, project
  <2>2. past'.seen = IF Clean THEN past.seen ELSE past.seen \cup {"retry"}
    BY <1>2, BeginUpdateEffect, Bounds DEF DeployInv, Begins, Clean, Seen
  <2>. QED
    BY <2>1, <2>2, Bounds DEF DeployInv, WorkHeld, Clean, Seen, Rests
<1>3. ASSUME NEW a \in Adapter, BeginUninstall(a) PROVE WorkHeld'
  <2>1. /\ past'.local = past.local /\ tree' = tree /\ Idle /\ ~Idle'
        /\ job'.a = a /\ job'.before.tree = tree[a]
        /\ backup' = backup /\ staged' = staged
    BY <1>3, BeginUninstallEffect, FoundFields, Bounds
       DEF DeployInv, Begins, Idle, project
  <2>2. past'.seen = IF Clean THEN past.seen ELSE past.seen \cup {"retry"}
    BY <1>3, BeginUninstallEffect, Bounds DEF DeployInv, Begins, Clean, Seen
  <2>. QED
    BY <2>1, <2>2, Bounds DEF DeployInv, WorkHeld, Clean, Seen, Rests
<1>4. CASE SystemSwap
  BY <1>4, SystemSwapEffect, BeforeTyped
     DEF DeployInv, WorkHeld, Clean, Seen, Rests, Idle, At, project, Goes, OnWith,
         Undoable, PhasesFit, TreeUndo, TreeKept, TreeStaged, Untouched, Swapped,
         Removal, Staged, Replaced
<1>5. CASE SystemStamp
  BY <1>5, SystemStampEffect, BeforeTyped
     DEF DeployInv, WorkHeld, Clean, Seen, Rests, Idle, At, project, OnWith
<1>6. CASE SyncProject
  <2>1. /\ past' = past /\ tree' = tree /\ backup' = backup /\ staged' = staged /\ ~Idle
        /\ tree[job.a] = job.before.tree
    BY <1>6, SyncProjectEffect
       DEF DeployInv, Undoable, PhasesFit, TreeUndo, Untouched, Removal, Staged, Idle,
           At
  <2>2. CASE Stops("passed") \/ Stops("failed")
    BY <2>1, <2>2 DEF DeployInv, WorkHeld, Clean, Seen, Rests, Stops, OnWith, Idle
  <2>3. ASSUME NEW a \in Adapter, job'.pc = "clear", job'.a = a, job'.before = Found(a)
        PROVE  WorkHeld'
    <3>1. job'.before.tree = tree[a]
      BY <2>3, FoundFields
    <3>2. Clean => \A b \in Adapter : tree[b].local = past.local[b]
      BY <2>1 DEF DeployInv, WorkHeld, Rests
    <3>. QED
      BY <2>1, <2>3, <3>1, <3>2 DEF DeployInv, WorkHeld, Clean, Seen, Rests, Idle
  <2>. QED
    BY <1>6, <2>2, <2>3, SyncProjectEffect DEF DeployInv
<1>7. CASE ElsewhereSwap \/ ElsewhereStamp
  BY <1>7, ElsewhereEffect, BeforeTyped
     DEF DeployInv, WorkHeld, Clean, Seen, Rests, Idle, At, project
<1>8. CASE Publication
  BY <1>8, PublicationEffect, BeforeTyped
     DEF DeployInv, WorkHeld, Clean, Seen, Rests, Idle, At, project
<1>9. CASE ClearBackup
  BY <1>9, ClearBackupEffect, BeforeTyped
     DEF DeployInv, WorkHeld, Clean, Seen, Rests, Idle, At, Goes, OnWith, Only
<1>10. CASE MoveAside
  BY <1>10, MoveAsideEffect, BeforeTyped
     DEF DeployInv, WorkHeld, Clean, Seen, Rests, Idle, At, Goes, OnWith, Only
<1>11. CASE CopyContent \/ CopyCommit
  BY <1>11, CopyEffect, BeforeTyped
     DEF DeployInv, WorkHeld, Clean, Seen, Rests, Idle, At, project, OnWith
<1>12. CASE SwapIn
  BY <1>12, SwapInEffect, BeforeTyped
     DEF DeployInv, WorkHeld, Clean, Seen, Rests, Idle, At, Goes, OnWith, Only
<1>13. CASE CarryForward
  BY <1>13, CarryForwardEffect, BeforeTyped
     DEF DeployInv, WorkHeld, Clean, Seen, Rests, Idle, At, Goes, OnWith, Only
<1>14. CASE CopyAssets
  BY <1>14, CopyAssetsEffect, BeforeTyped
     DEF DeployInv, WorkHeld, Clean, Seen, Rests, Idle, At, Goes, OnWith
<1>15. CASE Seed
  BY <1>15, SeedEffect, BeforeTyped
     DEF DeployInv, WorkHeld, Clean, Seen, Rests, Idle, At, Goes, OnWith
<1>16. CASE MoveHook
  BY <1>16, MoveHookEffect, BeforeTyped
     DEF DeployInv, WorkHeld, Clean, Seen, Rests, Idle, At, Goes, OnWith
<1>17. CASE CopyHook
  BY <1>17, CopyHookEffect, BeforeTyped
     DEF DeployInv, WorkHeld, Clean, Seen, Rests, Idle, At, Goes, OnWith
<1>18. CASE Publish
  BY <1>18, PublishEffect, BeforeTyped
     DEF DeployInv, WorkHeld, Clean, Seen, Rests, Idle, At, Stops, OnWith, Undoable,
         PhasesFit, TreeUndo, TreeKept, TreeStaged, Untouched, Swapped, Removal, Staged,
         Replaced
<1>19. CASE StageAsset
  BY <1>19, StageAssetEffect, BeforeTyped
     DEF DeployInv, WorkHeld, Clean, Seen, Rests, Idle, At, Goes, OnWith
<1>20. CASE StageTree
  BY <1>20, StageTreeEffect, BeforeTyped
     DEF DeployInv, WorkHeld, Clean, Seen, Rests, Idle, At, Goes, OnWith, Only
<1>21. CASE DropMeta
  BY <1>21, DropMetaEffect, BeforeTyped
     DEF DeployInv, WorkHeld, Clean, Seen, Rests, Idle, At, Goes, OnWith
<1>22. CASE Unhook
  BY <1>22, UnhookEffect, BeforeTyped
     DEF DeployInv, WorkHeld, Clean, Seen, Rests, Idle, At, Goes, OnWith
<1>23. CASE CopyHookAgain
  BY <1>23, CopyHookAgainEffect, BeforeTyped
     DEF DeployInv, WorkHeld, Clean, Seen, Rests, Idle, At, Goes, OnWith
<1>24. CASE RemoveStaged
  <2>1. /\ tree' = tree /\ past'.seen = past.seen /\ past'.local[job.a] = 0
        /\ \A a \in Adapter : a # job.a => past'.local[a] = past.local[a]
        /\ job'.a = job.a /\ Idle' /\ ~Idle
    BY <1>24, RemoveStagedEffect DEF DeployInv, Only, Stops, OnWith, Idle, At
  <2>2. tree[job.a].local = 0
    BY <1>24, RemoveStagedEffect, BeforeTyped
       DEF DeployInv, TreesWhole, Undoable, PhasesFit, TreeUndo, TreeStaged, Removal,
           Staged, NoTree, Idle, At
  <2>. QED
    BY <2>1, <2>2 DEF DeployInv, WorkHeld, Clean, Seen, Rests
<1>25. CASE ReplaceFails
  <2>1. CASE /\ At("aside") \/ At("build")
             /\ Faulty({}) /\ Stops("failed")
    <3>1. tree'[job.a] = job.before.tree
      BY <1>25, <2>1, ReplaceFailsEffect, BeforeTyped, FaultsDiffer
         DEF DeployInv, TreesWhole, Undoable, PhasesFit, TreeUndo, Untouched, Removal,
             Staged, Replaced, Only, Idle, At
    <3>2. \A a \in Adapter : a # job.a => tree'[a] = tree[a]
      BY <1>25, <2>1, ReplaceFailsEffect DEF DeployInv, Only, At
    <3>3. ~Idle /\ Idle' /\ past'.local = past.local /\ past'.seen = past.seen
      BY <2>1 DEF Idle, At, Stops, OnWith, Faulty
    <3>. QED
      BY <3>1, <3>2, <3>3 DEF DeployInv, WorkHeld, Clean, Seen, Rests
  <2>2. CASE Faulty({"lost"}) /\ Stops("lost") /\ ~Idle /\ UNCHANGED <<tree, backup>>
    <3>1. ~Seen({"retry"}) => \A a \in Adapter :
            past.local[a] \in {tree[a].local, backup[a].local, staged[a].local}
      BY <2>2, WorkSomewhere DEF DeployInv, WorkHeld, Rests
    <3>2. tree' = tree /\ backup' = backup /\ staged' = staged
      BY <1>25, <2>2, ReplaceFailsEffect DEF DeployInv
    <3>. QED
      BY <2>2, <3>1, <3>2
         DEF DeployInv, WorkHeld, Clean, Seen, Idle, Stops, OnWith, Faulty
  <2>. QED
    BY <1>25, <2>1, <2>2, ReplaceFailsEffect DEF DeployInv, Idle, At
<1>26. CASE Raises
  <2>1. tree' = tree /\ backup' = backup /\ staged' = staged
    BY <1>26, RaisesEffect DEF DeployInv, project
  <2>2. CASE /\ job.pc # "idle" /\ Faulty({})
             /\ Goes("untree") \/ Goes("unfiles")
    BY <2>1, <2>2
       DEF DeployInv, WorkHeld, Clean, Seen, Rests, Idle, Goes, OnWith, Faulty
  <2>3. CASE At("remove") /\ Faulty({"lost"}) /\ Stops("lost")
    <3>1. ~Seen({"retry"}) => \A a \in Adapter :
            past.local[a] \in {tree[a].local, backup[a].local, staged[a].local}
      BY <2>3, WorkSomewhere DEF DeployInv, WorkHeld, Rests, Idle, At
    <3>. QED
      BY <2>1, <2>3, <3>1
         DEF DeployInv, WorkHeld, Clean, Seen, Idle, At, Stops, OnWith, Faulty
  <2>. QED
    BY <1>26, <2>2, <2>3, RaisesEffect DEF DeployInv
<1>27. CASE RestoreTree
  BY <1>27, RestoreTreeEffect, BeforeTyped
     DEF DeployInv, WorkHeld, Clean, Seen, Rests, Idle, At, Goes, OnWith, Only
<1>28. CASE RestoreFiles
  BY <1>28, RestoreFilesEffect, BeforeTyped
     DEF DeployInv, WorkHeld, Clean, Seen, Rests, Idle, At, Goes, Stops, OnWith,
         Undoable, PhasesFit, TreeUndo, TreeKept, TreeStaged, Untouched, Swapped,
         Removal, Staged, Replaced
<1>29. CASE Unstage
  BY <1>29, UnstageEffect, BeforeTyped
     DEF DeployInv, WorkHeld, Clean, Seen, Rests, Idle, At, Stops, OnWith, Undoable,
         PhasesFit, TreeUndo, TreeKept, TreeStaged, Untouched, Swapped, Removal, Staged,
         Replaced, Only
<1>30. CASE Kill \/ RollbackStops
  <2>1. /\ ~Idle /\ Idle' /\ ~Clean' /\ past'.local = past.local
        /\ ~Seen({"retry"})' => ~Seen({"retry"})
    BY <1>30, CutEffect DEF IsCut, DeployInv, Clean, Seen, Idle, Stops, OnWith
  <2>2. ASSUME ~Seen({"retry"}), NEW a \in Adapter
        PROVE  past.local[a] \in {tree'[a].local, backup'[a].local, staged'[a].local}
    <3>1. CASE a = job.a
      BY <1>30, <2>1, <2>2, <3>1, CutWork DEF DeployInv, WorkHeld
    <3>2. CASE a # job.a
      BY <1>30, <2>1, <2>2, <3>2, CutElsewhere DEF DeployInv, WorkHeld, Rests
    <3>. QED
      BY <3>1, <3>2
  <2>. QED
    BY <2>1, <2>2 DEF WorkHeld
<1>31. ASSUME NEW a \in Adapter, EditOwnFile(a) \/ EditFramework(a) PROVE WorkHeld'
  BY <1>31, EditTreeEffect, BeforeTyped
     DEF DeployInv, WorkHeld, Clean, Seen, Rests, Idle, At
<1>32. CASE EditAsset
  BY <1>32, EditAssetEffect, BeforeTyped
     DEF DeployInv, WorkHeld, Clean, Seen, Rests, Idle, At
<1>33. ASSUME NEW h \in UserHook, WriteHook(h) PROVE WorkHeld'
  BY <1>33, WriteHookEffect, BeforeTyped
     DEF DeployInv, WorkHeld, Clean, Seen, Rests, Idle, At
<1>34. CASE UNCHANGED deployVars
  BY <1>34, BeforeTyped
     DEF DeployInv, WorkHeld, Clean, Seen, Rests, Idle, At, project, deployVars
<1>. QED
  BY <1>1, <1>2, <1>3, <1>4, <1>5, <1>6, <1>7, <1>8, <1>9, <1>10, <1>11,
     <1>12, <1>13, <1>14, <1>15, <1>16, <1>17, <1>18, <1>19, <1>20, <1>21, <1>22,
     <1>23, <1>24, <1>25, <1>26, <1>27, <1>28, <1>29, <1>30, <1>31, <1>32, <1>33, <1>34
     DEF DeployNext, Replace, Uninstall, Rollback, UserWorks

LEMMA RecordStep ==
  ASSUME DeployInv, [DeployNext]_deployVars
  PROVE  RecordHeld'
<1>1. ASSUME NEW a \in Adapter, BeginInit(a) PROVE RecordHeld'
  <2>1. /\ tree' = tree /\ Idle /\ ~Idle' /\ job'.a = a
        /\ job'.before.tree = tree[a] /\ job'.before.meta = meta
        /\ job'.before.hook = hook /\ meta' = meta /\ hook' = hook
        /\ job'.pc \notin {"remove", "copyagain"} /\ meta # TornMeta
    BY <1>1, BeginInitEffect, FoundFields, Bounds DEF DeployInv, Begins, Idle, project
  <2>2. Clean' => Clean
    BY <1>1, BeginInitEffect, Bounds DEF DeployInv, Begins, Clean, Seen
  <2>. QED
    BY <2>1, <2>2, Bounds DEF DeployInv, RecordHeld, Sound, Rests, At
<1>2. CASE BeginUpdate
  <2>1. /\ tree' = tree /\ Idle /\ ~Idle' /\ job'.a = Legacy
        /\ job'.before.tree = tree[Legacy] /\ job'.before.meta = meta
        /\ job'.before.hook = hook /\ meta' = meta /\ hook' = hook
        /\ job'.pc \notin {"remove", "copyagain"} /\ meta # TornMeta
    BY <1>2, BeginUpdateEffect, FoundFields, Bounds DEF DeployInv, Begins, Idle, project
  <2>2. Clean' => Clean
    BY <1>2, BeginUpdateEffect, Bounds DEF DeployInv, Begins, Clean, Seen
  <2>. QED
    BY <2>1, <2>2, Bounds DEF DeployInv, RecordHeld, Sound, Rests, At
<1>3. ASSUME NEW a \in Adapter, BeginUninstall(a) PROVE RecordHeld'
  <2>1. /\ tree' = tree /\ Idle /\ ~Idle' /\ job'.a = a
        /\ job'.before.tree = tree[a] /\ job'.before.meta = meta
        /\ job'.before.hook = hook /\ meta' = meta /\ hook' = hook
        /\ job'.pc \notin {"remove", "copyagain"} /\ meta # TornMeta
    BY <1>3, BeginUninstallEffect, FoundFields, Bounds
       DEF DeployInv, Begins, Idle, project
  <2>2. Clean' => Clean
    BY <1>3, BeginUninstallEffect, Bounds DEF DeployInv, Begins, Clean, Seen
  <2>. QED
    BY <2>1, <2>2, Bounds DEF DeployInv, RecordHeld, Sound, Rests, At
<1>4. CASE SystemSwap
  BY <1>4, SystemSwapEffect, BeforeTyped
     DEF DeployInv, RecordHeld, Clean, Seen, Rests, Sound, Idle, At, project, Goes,
         OnWith
<1>5. CASE SystemStamp
  BY <1>5, SystemStampEffect, BeforeTyped
     DEF DeployInv, RecordHeld, Clean, Seen, Rests, Sound, Idle, At, project, OnWith
<1>6. CASE SyncProject
  <2>1. /\ past' = past /\ tree' = tree /\ hook' = hook /\ ~Idle /\ At("sync")
        /\ tree[job.a] = job.before.tree /\ meta = job.before.meta /\ hook = job.before.hook
    BY <1>6, SyncProjectEffect
       DEF DeployInv, Undoable, PhasesFit, TreeUndo, RecordUndo, Untouched, Removal,
           Staged, Idle, At
  <2>2. Clean => /\ \A b \in Adapter : b \in meta.listed <=> tree[b].kind = "cairness"
                 /\ hook.active = "cairness" => meta.listed # {}
    BY <2>1 DEF DeployInv, RecordHeld, Rests
  <2>3. CASE UNCHANGED meta /\ (Stops("passed") \/ Stops("failed"))
    BY <2>1, <2>2, <2>3
       DEF DeployInv, RecordHeld, Clean, Seen, Rests, Stops, OnWith, Idle, At
  <2>4. ASSUME NEW a \in Adapter, a = meta.active \/ tree[a].kind = "cairness",
               Stops("passed"), meta' = Listing(a)
        PROVE  RecordHeld'
    <3>1. meta'.listed = meta.listed \cup {a} /\ Sound(meta')
      BY <2>4 DEF Listing, Sound
    <3>2. Clean => meta'.listed = meta.listed
      BY <2>2, <2>4, <3>1, Bounds DEF DeployInv, RecordHeld, Sound
    <3>. QED
      BY <2>1, <2>2, <2>4, <3>1, <3>2
         DEF DeployInv, RecordHeld, Clean, Seen, Rests, Stops, OnWith, Idle, At
  <2>5. ASSUME NEW a \in Adapter, job'.pc = "clear", job'.a = a, job'.before = Found(a),
               UNCHANGED meta
        PROVE  RecordHeld'
    <3>1. /\ job'.before.tree = tree[a] /\ job'.before.meta = meta
          /\ job'.before.hook = hook
      BY <2>5, FoundFields
    <3>. QED
      BY <2>1, <2>2, <2>5, <3>1 DEF DeployInv, RecordHeld, Clean, Seen, Rests, Idle, At
  <2>. QED
    BY <1>6, <2>3, <2>4, <2>5, SyncProjectEffect DEF DeployInv
<1>7. CASE ElsewhereSwap \/ ElsewhereStamp
  BY <1>7, ElsewhereEffect, BeforeTyped
     DEF DeployInv, RecordHeld, Clean, Seen, Rests, Sound, Idle, At, project
<1>8. CASE Publication
  BY <1>8, PublicationEffect, BeforeTyped
     DEF DeployInv, RecordHeld, Clean, Seen, Rests, Sound, Idle, At, project
<1>9. CASE ClearBackup
  BY <1>9, ClearBackupEffect, BeforeTyped
     DEF DeployInv, RecordHeld, Clean, Seen, Rests, Sound, Idle, At, Goes, OnWith, Only
<1>10. CASE MoveAside
  BY <1>10, MoveAsideEffect, BeforeTyped
     DEF DeployInv, RecordHeld, Clean, Seen, Rests, Sound, Idle, At, Goes, OnWith, Only
<1>11. CASE CopyContent \/ CopyCommit
  BY <1>11, CopyEffect, BeforeTyped
     DEF DeployInv, RecordHeld, Clean, Seen, Rests, Sound, Idle, At, project, OnWith
<1>12. CASE SwapIn
  BY <1>12, SwapInEffect, BeforeTyped
     DEF DeployInv, RecordHeld, Clean, Seen, Rests, Sound, Idle, At, Goes, OnWith, Only
<1>13. CASE CarryForward
  BY <1>13, CarryForwardEffect, BeforeTyped
     DEF DeployInv, RecordHeld, Clean, Seen, Rests, Sound, Idle, At, Goes, OnWith, Only
<1>14. CASE CopyAssets
  BY <1>14, CopyAssetsEffect, BeforeTyped
     DEF DeployInv, RecordHeld, Clean, Seen, Rests, Sound, Idle, At, Goes, OnWith
<1>15. CASE Seed
  BY <1>15, SeedEffect, BeforeTyped
     DEF DeployInv, RecordHeld, Clean, Seen, Rests, Sound, Idle, At, Goes, OnWith
<1>16. CASE MoveHook
  BY <1>16, MoveHookEffect, BeforeTyped
     DEF DeployInv, RecordHeld, Clean, Seen, Rests, Sound, Idle, At, Goes, OnWith
<1>17. CASE CopyHook
  BY <1>17, CopyHookEffect, BeforeTyped
     DEF DeployInv, RecordHeld, Clean, Seen, Rests, Sound, Idle, At, Goes, OnWith
<1>18. CASE Publish
  BY <1>18, PublishEffect, BeforeTyped
     DEF DeployInv, RecordHeld, Clean, Seen, Rests, Sound, Idle, At, Stops, OnWith,
         Undoable, PhasesFit, TreeUndo, TreeKept, TreeStaged, Untouched, Swapped,
         Removal, Staged, Replaced, RecordUndo, Listing
<1>19. CASE StageAsset
  BY <1>19, StageAssetEffect, BeforeTyped
     DEF DeployInv, RecordHeld, Clean, Seen, Rests, Sound, Idle, At, Goes, OnWith
<1>20. CASE StageTree
  BY <1>20, StageTreeEffect, BeforeTyped
     DEF DeployInv, RecordHeld, Clean, Seen, Rests, Sound, Idle, At, Goes, OnWith, Only
<1>21. CASE DropMeta
  BY <1>21, DropMetaEffect, BeforeTyped
     DEF DeployInv, RecordHeld, Clean, Seen, Rests, Sound, Idle, At, Goes, OnWith,
         Undoable, PhasesFit, TreeUndo, TreeKept, TreeStaged, Untouched, Swapped,
         Removal, Staged, Replaced, RecordUndo
<1>22. CASE Unhook
  BY <1>22, UnhookEffect, BeforeTyped
     DEF DeployInv, RecordHeld, Clean, Seen, Rests, Sound, Idle, At, Goes, OnWith
<1>23. CASE CopyHookAgain
  BY <1>23, CopyHookAgainEffect, BeforeTyped
     DEF DeployInv, RecordHeld, Clean, Seen, Rests, Sound, Idle, At, Goes, OnWith
<1>24. CASE RemoveStaged
  <2>1. /\ At("remove") /\ Stops("passed") /\ past'.seen = past.seen
        /\ UNCHANGED <<tree, meta, hook>>
    BY <1>24, RemoveStagedEffect DEF DeployInv
  <2>2. job.a \notin meta.listed /\ tree[job.a].kind = "none"
    BY <2>1
       DEF DeployInv, Undoable, PhasesFit, TreeUndo, TreeStaged, RecordUndo, Removal,
           Staged, Exists, Idle, At
  <2>. QED
    BY <2>1, <2>2 DEF DeployInv, RecordHeld, Clean, Seen, Rests, Stops, OnWith, Idle, At
<1>25. CASE ReplaceFails
  <2>1. CASE /\ At("aside") \/ At("build")
             /\ Faulty({}) /\ Stops("failed")
    <3>1. tree'[job.a] = job.before.tree
      BY <1>25, <2>1, ReplaceFailsEffect, BeforeTyped, FaultsDiffer
         DEF DeployInv, TreesWhole, Undoable, PhasesFit, TreeUndo, Untouched, Removal,
             Staged, Replaced, Only, Idle, At
    <3>2. \A a \in Adapter : a # job.a => tree'[a] = tree[a]
      BY <1>25, <2>1, ReplaceFailsEffect DEF DeployInv, Only, At
    <3>3. /\ ~Idle /\ Idle' /\ past'.seen = past.seen
          /\ hook' = hook /\ hook = job.before.hook
          /\ meta' = meta /\ meta = job.before.meta
      BY <1>25, <2>1, ReplaceFailsEffect
         DEF DeployInv, Undoable, PhasesFit, RecordUndo, Untouched, Removal, Staged,
             Idle, At, Stops, OnWith, Faulty
    <3>4. \A a \in Adapter : Clean => (a \in meta.listed <=> tree'[a].kind = "cairness")
      BY <3>1, <3>2, <3>3 DEF DeployInv, RecordHeld, Rests
    <3>. QED
      BY <3>3, <3>4 DEF DeployInv, RecordHeld, Clean, Seen, Rests, Idle, At
  <2>2. CASE Faulty({"lost"}) /\ Stops("lost") /\ ~Idle
    BY <1>25, <2>2, ReplaceFailsEffect
       DEF DeployInv, RecordHeld, Clean, Seen, Idle, At, Stops, OnWith, Faulty
  <2>. QED
    BY <1>25, <2>1, <2>2, ReplaceFailsEffect DEF DeployInv, Idle, At
<1>26. CASE Raises
  BY <1>26, RaisesEffect, BeforeTyped
     DEF DeployInv, RecordHeld, Clean, Seen, Rests, Sound, Idle, At, project, Goes,
         Stops, OnWith, Faulty
<1>27. CASE RestoreTree
  BY <1>27, RestoreTreeEffect, BeforeTyped
     DEF DeployInv, RecordHeld, Clean, Seen, Rests, Sound, Idle, At, Goes, OnWith, Only
<1>28. CASE RestoreFiles
  BY <1>28, RestoreFilesEffect, BeforeTyped
     DEF DeployInv, RecordHeld, Clean, Seen, Rests, Sound, Idle, At, Goes, Stops,
         OnWith, Undoable, PhasesFit, TreeUndo, TreeKept, TreeStaged, Untouched,
         Swapped, Removal, Staged, Replaced, RecordUndo
<1>29. CASE Unstage
  BY <1>29, UnstageEffect, BeforeTyped
     DEF DeployInv, RecordHeld, Clean, Seen, Rests, Sound, Idle, At, Stops, OnWith,
         Undoable, PhasesFit, TreeUndo, TreeKept, TreeStaged, Untouched, Swapped,
         Removal, Staged, Replaced, Only, RecordUndo
<1>30. CASE Kill \/ RollbackStops
  BY <1>30, CutEffect, BeforeTyped
     DEF IsCut, DeployInv, RecordHeld, Clean, Seen, Rests, Sound, Idle, At, project, Stops,
         OnWith, Faulty
<1>31. ASSUME NEW a \in Adapter, EditOwnFile(a) \/ EditFramework(a) PROVE RecordHeld'
  BY <1>31, EditTreeEffect, BeforeTyped
     DEF DeployInv, RecordHeld, Clean, Seen, Rests, Sound, Idle, At
<1>32. CASE EditAsset
  BY <1>32, EditAssetEffect, BeforeTyped
     DEF DeployInv, RecordHeld, Clean, Seen, Rests, Sound, Idle, At
<1>33. ASSUME NEW h \in UserHook, WriteHook(h) PROVE RecordHeld'
  BY <1>33, WriteHookEffect, Bounds
     DEF DeployInv, RecordHeld, Clean, Seen, Rests, Sound, Idle, At
<1>34. CASE UNCHANGED deployVars
  BY <1>34, BeforeTyped
     DEF DeployInv, RecordHeld, Clean, Seen, Rests, Sound, Idle, At, project, deployVars
<1>. QED
  BY <1>1, <1>2, <1>3, <1>4, <1>5, <1>6, <1>7, <1>8, <1>9, <1>10, <1>11,
     <1>12, <1>13, <1>14, <1>15, <1>16, <1>17, <1>18, <1>19, <1>20, <1>21, <1>22,
     <1>23, <1>24, <1>25, <1>26, <1>27, <1>28, <1>29, <1>30, <1>31, <1>32, <1>33, <1>34
     DEF DeployNext, Replace, Uninstall, Rollback, UserWorks

-----------------------------------------------------------------------------
\* A command that fails has undone what it did.
AsFound ==
  /\ tree'[job.a] = job.before.tree /\ staged'[job.a] = job.before.staged
  /\ asset' = job.before.asset /\ away' = job.before.away
  /\ meta' = job.before.meta /\ hook' = job.before.hook /\ seeded' = job.before.seeded

LEMMA SyncRestores ==
  ASSUME DeployInv, SyncProject, Stops("failed")
  PROVE  AsFound
<1>1. /\ At("sync") /\ UNCHANGED <<tree, staged, asset, away, hook, seeded>>
  BY SyncProjectEffect DEF DeployInv
<1>2. meta' = meta
  BY SyncProjectEffect DEF DeployInv, Stops, OnWith
<1>. QED
  BY <1>1, <1>2
     DEF DeployInv, Undoable, PhasesFit, TreeUndo, AssetUndo, RecordUndo, Untouched,
         Swapped, Removal, Staged, AsFound, Idle, At

LEMMA ReplaceRestores ==
  ASSUME DeployInv, ReplaceFails, Stops("failed")
  PROVE  AsFound
<1>1. At("aside") \/ At("build")
  BY ReplaceFailsEffect DEF DeployInv, Stops
<1>2. tree'[job.a] = job.before.tree
  BY <1>1, ReplaceFailsEffect, BeforeTyped, FaultsDiffer
     DEF DeployInv, TreesWhole, Undoable, PhasesFit, TreeUndo, Untouched, Removal,
         Staged, Replaced, Only, Idle, At
<1>3. UNCHANGED <<staged, asset, away, meta, hook, seeded>>
  BY ReplaceFailsEffect DEF DeployInv
<1>. QED
  BY <1>1, <1>2, <1>3
     DEF DeployInv, Undoable, PhasesFit, TreeUndo, AssetUndo, RecordUndo, Untouched,
         Swapped, Removal, Staged, AsFound, Idle, At

LEMMA FilesRestore ==
  ASSUME DeployInv, RestoreFiles, Stops("failed")
  PROVE  AsFound
<1>1. job.cmd # "uninstall" /\ At("unfiles")
  BY RestoreFilesEffect DEF DeployInv, Goes, Stops, OnWith
<1>2. /\ UNCHANGED <<tree, staged, asset, away>>
      /\ meta' = job.before.meta /\ hook' = job.before.hook /\ seeded' = job.before.seeded
  BY RestoreFilesEffect DEF DeployInv
<1>. QED
  BY <1>1, <1>2
     DEF DeployInv, Undoable, TreeUndo, AssetUndo, Untouched, Swapped, AsFound, Idle, At

LEMMA UnstageRestores ==
  ASSUME DeployInv, Unstage
  PROVE  AsFound
<1>1. /\ At("unstage") /\ job.cmd = "uninstall" /\ UNCHANGED <<meta, hook, seeded>>
  BY UnstageEffect DEF DeployInv, Undoable, PhasesFit, Removal, At
<1>2. tree'[job.a] = job.before.tree /\ staged'[job.a] = job.before.staged
  <2>1. (TreeKept \/ TreeStaged) /\ Exists(job.before.tree)
    BY <1>1 DEF DeployInv, Undoable, TreeUndo, Idle, At
  <2>2. CASE TreeKept
    BY <2>1, <2>2, UnstageEffect DEF DeployInv, TreeKept
  <2>3. CASE TreeStaged
    BY <2>3, UnstageEffect DEF DeployInv, TreeStaged, Only
  <2>. QED
    BY <2>1, <2>2, <2>3
<1>3. asset' = job.before.asset /\ away' = job.before.away
  BY <1>1, UnstageEffect
     DEF DeployInv, Undoable, AssetUndo, AssetKept, AssetStaged, Idle, At
<1>. QED
  BY <1>1, <1>2, <1>3 DEF DeployInv, Undoable, RecordUndo, AsFound, Idle, At

\* There is one asset, and what AssetHeld says of it does not depend on the
\* adapter of a command that has none.
LEMMA OneAsset ==
  ASSUME NEW a \in AssetAdapter, NEW b \in AssetAdapter
  PROVE  a = b
BY DeployParameters DEF DeployAssumption

LEMMA AssetElsewhere ==
  ASSUME DeployInv, ~Idle, job.a \notin AssetAdapter
  PROVE  asset = job.before.asset
BY DEF DeployInv, Undoable, AssetUndo, AssetKept

\* After a failure the asset is again that of its tree.
LEMMA AssetRestored ==
  ASSUME DeployInv, ~Idle, AsFound, Idle', past'.seen = past.seen, job'.a = job.a,
         \A a \in Adapter : a # job.a => tree'[a] = tree[a]
  PROVE  AssetHeld'
<1> SUFFICES ASSUME ~Seen({"killed", "lost", "overlap"}),
                    NEW a \in AssetAdapter
             PROVE  \/ asset' = tree'[a].content
                    \/ asset' = Strange /\ Seen({"dropped", "touched"})
  BY DEF AssetHeld, Clean, OddAsset, Seen, Rests
<1>0. Clean /\ ~Seen({"overlap"})
  BY DEF Clean, Seen
<1>1. CASE a = job.a
  BY <1>0, <1>1 DEF DeployInv, AssetHeld, OddAsset, AsFound, Rests
<1>2. CASE a # job.a
  <2>1. job.a \notin AssetAdapter
    BY <1>2, OneAsset
  <2>. QED
    BY <1>0, <1>2, <2>1, AssetElsewhere, Bounds
       DEF DeployInv, AssetHeld, OddAsset, AsFound, Rests
<1>. QED
  BY <1>1, <1>2

LEMMA AssetStep ==
  ASSUME DeployInv, [DeployNext]_deployVars
  PROVE  AssetHeld'
<1>1. ASSUME NEW a \in Adapter, BeginInit(a) PROVE AssetHeld'
  <2>1. /\ tree' = tree /\ asset' = asset /\ Idle /\ ~Idle' /\ job'.a = a
        /\ job'.before.tree = tree[a] /\ job'.before.asset = asset
        /\ job'.pc \in {"clear", "build", "system", "stageasset"}
    BY <1>1, BeginInitEffect, FoundFields, Bounds DEF DeployInv, Begins, Idle, project
  <2>2. past.seen \subseteq past'.seen
    BY <1>1, BeginInitEffect, Bounds DEF DeployInv, Begins
  <2>. QED
    BY <2>1, <2>2, Bounds DEF DeployInv, AssetHeld, Clean, OddAsset, Seen, Rests, Staged
<1>2. CASE BeginUpdate
  <2>1. /\ tree' = tree /\ asset' = asset /\ Idle /\ ~Idle' /\ job'.a = Legacy
        /\ job'.before.tree = tree[Legacy] /\ job'.before.asset = asset
        /\ job'.pc \in {"clear", "build", "system", "stageasset"}
    BY <1>2, BeginUpdateEffect, FoundFields, Bounds DEF DeployInv, Begins, Idle, project
  <2>2. past.seen \subseteq past'.seen
    BY <1>2, BeginUpdateEffect, Bounds DEF DeployInv, Begins
  <2>. QED
    BY <2>1, <2>2, Bounds DEF DeployInv, AssetHeld, Clean, OddAsset, Seen, Rests, Staged
<1>3. ASSUME NEW a \in Adapter, BeginUninstall(a) PROVE AssetHeld'
  <2>1. /\ tree' = tree /\ asset' = asset /\ Idle /\ ~Idle' /\ job'.a = a
        /\ job'.before.tree = tree[a] /\ job'.before.asset = asset
        /\ job'.pc \in {"clear", "build", "system", "stageasset"}
    BY <1>3, BeginUninstallEffect, FoundFields, Bounds
       DEF DeployInv, Begins, Idle, project
  <2>2. past.seen \subseteq past'.seen
    BY <1>3, BeginUninstallEffect, Bounds DEF DeployInv, Begins
  <2>. QED
    BY <2>1, <2>2, Bounds DEF DeployInv, AssetHeld, Clean, OddAsset, Seen, Rests, Staged
<1>4. CASE SystemSwap
  BY <1>4, SystemSwapEffect, BeforeTyped, OneAsset, Bounds
     DEF DeployInv, AssetHeld, Clean, OddAsset, Seen, Rests, Staged, Idle, At, project,
         Goes, OnWith
<1>5. CASE SystemStamp
  BY <1>5, SystemStampEffect, BeforeTyped, OneAsset, Bounds
     DEF DeployInv, AssetHeld, Clean, OddAsset, Seen, Rests, Staged, Idle, At, project,
         OnWith
<1>6. CASE SyncProject
  <2>1. /\ past' = past /\ tree' = tree /\ asset' = asset /\ ~Idle
        /\ tree[job.a] = job.before.tree /\ asset = job.before.asset
    BY <1>6, SyncProjectEffect
       DEF DeployInv, Undoable, PhasesFit, TreeUndo, AssetUndo, Untouched, Swapped,
           Removal, Staged, Idle, At
  <2>2. CASE Stops("passed") \/ Stops("failed")
    BY <2>1, <2>2 DEF DeployInv, AssetHeld, Clean, OddAsset, Seen, Rests, Stops,
    OnWith, Idle
  <2>3. ASSUME NEW a \in Adapter, job'.pc = "clear", job'.a = a, job'.before = Found(a)
        PROVE  AssetHeld'
    <3>1. job'.before.tree = tree[a] /\ job'.before.asset = asset
      BY <2>3, FoundFields
    <3>2. Clean /\ ~Seen({"overlap"}) =>
            \A b \in AssetAdapter : asset = tree[b].content \/ OddAsset(asset)
      BY <2>1 DEF DeployInv, AssetHeld, Rests
    <3>. QED
      BY <2>1, <2>3, <3>1, <3>2 DEF DeployInv, AssetHeld, Clean, OddAsset, Seen, Rests,
      Staged, Idle
  <2>. QED
    BY <1>6, <2>2, <2>3, SyncProjectEffect DEF DeployInv
<1>7. CASE ElsewhereSwap \/ ElsewhereStamp
  BY <1>7, ElsewhereEffect, BeforeTyped, OneAsset, Bounds
     DEF DeployInv, AssetHeld, Clean, OddAsset, Seen, Rests, Staged, Idle, At, project
<1>8. CASE Publication
  BY <1>8, PublicationEffect, BeforeTyped, OneAsset, Bounds
     DEF DeployInv, AssetHeld, Clean, OddAsset, Seen, Rests, Staged, Idle, At, project
<1>9. CASE ClearBackup
  BY <1>9, ClearBackupEffect, BeforeTyped, OneAsset, Bounds
     DEF DeployInv, AssetHeld, Clean, OddAsset, Seen, Rests, Staged, Idle, At, Goes,
         OnWith, Only
<1>10. CASE MoveAside
  BY <1>10, MoveAsideEffect, BeforeTyped, OneAsset, Bounds
     DEF DeployInv, AssetHeld, Clean, OddAsset, Seen, Rests, Staged, Idle, At, Goes,
         OnWith, Only
<1>11. CASE CopyContent \/ CopyCommit
  BY <1>11, CopyEffect, BeforeTyped, OneAsset, Bounds
     DEF DeployInv, AssetHeld, Clean, OddAsset, Seen, Rests, Staged, Idle, At, project,
         OnWith
<1>12. CASE SwapIn
  BY <1>12, SwapInEffect, BeforeTyped, OneAsset, Bounds
     DEF DeployInv, AssetHeld, Clean, OddAsset, Seen, Rests, Staged, Idle, At, Goes,
         OnWith, Only
<1>13. CASE CarryForward
  BY <1>13, CarryForwardEffect, BeforeTyped, OneAsset, Bounds
     DEF DeployInv, AssetHeld, Clean, OddAsset, Seen, Rests, Staged, Idle, At, Goes,
         OnWith, Only
<1>14. CASE CopyAssets
  <2>1. tree[job.a].content = core.content \/ Seen({"overlap"})
    BY <1>14, CopyAssetsEffect DEF DeployInv, ReleasesInOrder, At
  <2>2. /\ tree' = tree /\ ~Idle
        /\ \/ /\ asset' = IF job.a \in AssetAdapter THEN core.content ELSE asset
              /\ past'.seen = past.seen
           \/ /\ job.a \in AssetAdapter /\ asset' = Strange
              /\ past'.seen = past.seen \cup {"dropped"}
        /\ job'.a = job.a /\ job'.before = job.before /\ job'.pc \in {"seed", "hook"}
    BY <1>14, CopyAssetsEffect DEF DeployInv, HasAsset, Goes, OnWith, Idle, At
  <2>. QED
    BY <2>1, <2>2, OneAsset, Bounds DEF DeployInv, AssetHeld, Clean, OddAsset, Seen,
    Rests, Staged, Idle
<1>15. CASE Seed
  BY <1>15, SeedEffect, BeforeTyped, OneAsset, Bounds
     DEF DeployInv, AssetHeld, Clean, OddAsset, Seen, Rests, Staged, Idle, At, Goes,
         OnWith
<1>16. CASE MoveHook
  BY <1>16, MoveHookEffect, BeforeTyped, OneAsset, Bounds
     DEF DeployInv, AssetHeld, Clean, OddAsset, Seen, Rests, Staged, Idle, At, Goes,
         OnWith
<1>17. CASE CopyHook
  BY <1>17, CopyHookEffect, BeforeTyped, OneAsset, Bounds
     DEF DeployInv, AssetHeld, Clean, OddAsset, Seen, Rests, Staged, Idle, At, Goes,
         OnWith
<1>18. CASE Publish
  BY <1>18, PublishEffect, BeforeTyped, OneAsset, Bounds
     DEF DeployInv, AssetHeld, Clean, OddAsset, Seen, Rests, Staged, Idle, At, Stops,
         OnWith
<1>19. CASE StageAsset
  <2>1. /\ At("stageasset") /\ Goes("stagetree") /\ UNCHANGED <<tree, past>>
        /\ asset' = IF StagesAsset THEN 0 ELSE asset
    BY <1>19, StageAssetEffect DEF DeployInv
  <2>2. /\ tree[job.a] = job.before.tree /\ Exists(tree[job.a])
        /\ asset = job.before.asset
    BY <2>1
       DEF DeployInv, Undoable, PhasesFit, TreeUndo, TreeKept, AssetUndo, AssetKept,
           Removal, Staged, Idle, At
  <2>3. CASE job.a \in AssetAdapter
    <3>1. Clean /\ ~Seen({"overlap"}) =>
            asset' = 0 \/ (asset' = asset /\ OddAsset(asset))
      BY <2>1, <2>2, <2>3
         DEF DeployInv, AssetHeld, Rests, StagesAsset, HasAsset, AssetIntact, Idle, At
    <3>. QED
      BY <2>1, <2>3, <3>1, OneAsset
         DEF DeployInv, AssetHeld, Clean, OddAsset, Seen, Rests, Staged, Goes, OnWith,
             Idle, At
  <2>4. CASE job.a \notin AssetAdapter
    BY <2>1, <2>4
       DEF DeployInv, AssetHeld, Clean, OddAsset, Seen, Rests, Staged, StagesAsset,
           HasAsset, Goes, OnWith, Idle, At
  <2>. QED
    BY <2>3, <2>4
<1>20. CASE StageTree
  BY <1>20, StageTreeEffect, BeforeTyped, OneAsset, Bounds
     DEF DeployInv, AssetHeld, Clean, OddAsset, Seen, Rests, Staged, Idle, At, Goes,
         OnWith, Only
<1>21. CASE DropMeta
  BY <1>21, DropMetaEffect, BeforeTyped, OneAsset, Bounds
     DEF DeployInv, AssetHeld, Clean, OddAsset, Seen, Rests, Staged, Idle, At, Goes,
         OnWith
<1>22. CASE Unhook
  BY <1>22, UnhookEffect, BeforeTyped, OneAsset, Bounds
     DEF DeployInv, AssetHeld, Clean, OddAsset, Seen, Rests, Staged, Idle, At, Goes,
         OnWith
<1>23. CASE CopyHookAgain
  BY <1>23, CopyHookAgainEffect, BeforeTyped, OneAsset, Bounds
     DEF DeployInv, AssetHeld, Clean, OddAsset, Seen, Rests, Staged, Idle, At, Goes,
         OnWith
<1>24. CASE RemoveStaged
  <2>1. /\ At("remove") /\ Stops("passed") /\ past'.seen = past.seen
        /\ UNCHANGED <<tree, asset>>
    BY <1>24, RemoveStagedEffect DEF DeployInv
  <2>2. tree[job.a].content = 0
    BY <2>1, BeforeTyped
       DEF DeployInv, TreesWhole, Undoable, PhasesFit, TreeUndo, TreeStaged, Removal,
           Staged, NoTree, Idle, At
  <2>. QED
    BY <2>1, <2>2, Bounds
       DEF DeployInv, AssetHeld, Clean, OddAsset, Seen, Rests, Staged, Stops, OnWith,
           Idle, At
<1>25. CASE ReplaceFails
  <2>1. CASE Faulty({}) /\ Stops("failed")
    <3>1. AsFound
      BY <1>25, <2>1, ReplaceRestores
    <3>2. /\ \A a \in Adapter : a # job.a => tree'[a] = tree[a]
          /\ past'.seen = past.seen /\ job'.a = job.a /\ Idle' /\ ~Idle
      BY <1>25, <2>1, ReplaceFailsEffect
         DEF DeployInv, Only, Stops, OnWith, Faulty, Idle, At
    <3>. QED
      BY <3>1, <3>2, AssetRestored
  <2>2. CASE Faulty({"lost"})
    BY <2>2 DEF AssetHeld, Clean, OddAsset, Seen, Faulty
  <2>. QED
    BY <1>25, <2>1, <2>2, ReplaceFailsEffect DEF DeployInv
<1>26. CASE Raises
  BY <1>26, RaisesEffect, BeforeTyped, OneAsset, Bounds
     DEF DeployInv, AssetHeld, Clean, OddAsset, Seen, Rests, Staged, Idle, At, project,
         Goes, Stops,
         OnWith, Faulty
<1>27. CASE RestoreTree
  BY <1>27, RestoreTreeEffect, BeforeTyped, OneAsset, Bounds
     DEF DeployInv, HasAsset, AssetHeld, Clean, OddAsset, Seen, Rests, Staged, Idle,
         At, Goes, OnWith, Only
<1>28. CASE RestoreFiles
  <2>1. CASE Goes("unstage")
    BY <1>28, <2>1, RestoreFilesEffect
       DEF DeployInv, AssetHeld, Clean, OddAsset, Seen, Rests, Staged, Idle, At, Goes,
           OnWith
  <2>2. CASE Stops("failed")
    <3>1. AsFound
      BY <1>28, <2>2, FilesRestore
    <3>2. /\ \A a \in Adapter : a # job.a => tree'[a] = tree[a]
          /\ past'.seen = past.seen /\ job'.a = job.a /\ Idle' /\ ~Idle
      BY <1>28, <2>2, RestoreFilesEffect DEF DeployInv, Stops, OnWith, Idle, At
    <3>. QED
      BY <3>1, <3>2, AssetRestored
  <2>. QED
    BY <1>28, <2>1, <2>2, RestoreFilesEffect DEF DeployInv
<1>29. CASE Unstage
  <2>1. AsFound
    BY <1>29, UnstageRestores
  <2>2. /\ \A a \in Adapter : a # job.a => tree'[a] = tree[a]
        /\ past'.seen = past.seen /\ job'.a = job.a /\ Idle' /\ ~Idle
    BY <1>29, UnstageEffect DEF DeployInv, Only, Stops, OnWith, Idle, At
  <2>. QED
    BY <2>1, <2>2, AssetRestored
<1>30. CASE Kill \/ RollbackStops
  BY <1>30, CutEffect, BeforeTyped, OneAsset, Bounds
     DEF IsCut, DeployInv, AssetHeld, Clean, OddAsset, Seen, Rests, Staged, Idle, At,
         project, Stops, OnWith,
         Faulty
<1>31. ASSUME NEW a \in Adapter, EditOwnFile(a) \/ EditFramework(a) PROVE AssetHeld'
  BY <1>31, EditTreeEffect, BeforeTyped, OneAsset, Bounds
     DEF DeployInv, AssetHeld, Clean, OddAsset, Seen, Rests, Staged, Idle, At
<1>32. CASE EditAsset
  BY <1>32, EditAssetEffect, BeforeTyped, OneAsset, Bounds
     DEF DeployInv, AssetHeld, Clean, OddAsset, Seen, Rests, Staged, Idle, At
<1>33. ASSUME NEW h \in UserHook, WriteHook(h) PROVE AssetHeld'
  BY <1>33, WriteHookEffect, BeforeTyped, OneAsset, Bounds
     DEF DeployInv, AssetHeld, Clean, OddAsset, Seen, Rests, Staged, Idle, At
<1>34. CASE UNCHANGED deployVars
  BY <1>34, BeforeTyped, OneAsset, Bounds
     DEF DeployInv, AssetHeld, Clean, OddAsset, Seen, Rests, Staged, Idle, At, project,
         deployVars
<1>. QED
  BY <1>1, <1>2, <1>3, <1>4, <1>5, <1>6, <1>7, <1>8, <1>9, <1>10, <1>11,
     <1>12, <1>13, <1>14, <1>15, <1>16, <1>17, <1>18, <1>19, <1>20, <1>21, <1>22,
     <1>23, <1>24, <1>25, <1>26, <1>27, <1>28, <1>29, <1>30, <1>31, <1>32, <1>33, <1>34
     DEF DeployNext, Replace, Uninstall, Rollback, UserWorks

LEMMA FailureStep ==
  ASSUME DeployInv, [DeployNext]_deployVars, Ends("failed")
  PROVE  AsFound
<1>1. ASSUME NEW a \in Adapter, BeginInit(a) PROVE AsFound
  BY <1>1, BeginInitEffect DEF DeployInv, Ends, Idle, Begins
<1>2. CASE BeginUpdate
  BY <1>2, BeginUpdateEffect DEF DeployInv, Ends, Idle, Begins
<1>3. ASSUME NEW a \in Adapter, BeginUninstall(a) PROVE AsFound
  BY <1>3, BeginUninstallEffect DEF DeployInv, Ends, Idle, Begins
<1>4. CASE SystemSwap
  BY <1>4, SystemSwapEffect DEF DeployInv, Ends, Idle, Goes, OnWith, At
<1>5. CASE SystemStamp
  BY <1>5, SystemStampEffect DEF DeployInv, Ends, Idle, OnWith, At
<1>6. CASE SyncProject
  <2>1. Stops("failed")
    BY <1>6, SyncProjectEffect DEF DeployInv, Ends, Stops, OnWith
  <2>. QED
    BY <1>6, <2>1, SyncRestores
<1>7. CASE ElsewhereSwap \/ ElsewhereStamp
  BY <1>7, ElsewhereEffect DEF DeployInv, Ends, Idle
<1>8. CASE Publication
  BY <1>8, PublicationEffect DEF DeployInv, Ends, Idle
<1>9. CASE ClearBackup
  BY <1>9, ClearBackupEffect DEF DeployInv, Ends, Idle, Goes, OnWith, At
<1>10. CASE MoveAside
  BY <1>10, MoveAsideEffect DEF DeployInv, Ends, Idle, Goes, OnWith, At
<1>11. CASE CopyContent \/ CopyCommit
  BY <1>11, CopyEffect DEF DeployInv, Ends, Idle, OnWith, At
<1>12. CASE SwapIn
  BY <1>12, SwapInEffect DEF DeployInv, Ends, Idle, Goes, OnWith, At
<1>13. CASE CarryForward
  BY <1>13, CarryForwardEffect DEF DeployInv, Ends, Idle, Goes, OnWith, At
<1>14. CASE CopyAssets
  BY <1>14, CopyAssetsEffect DEF DeployInv, Ends, Idle, Goes, OnWith, At
<1>15. CASE Seed
  BY <1>15, SeedEffect DEF DeployInv, Ends, Idle, Goes, OnWith, At
<1>16. CASE MoveHook
  BY <1>16, MoveHookEffect DEF DeployInv, Ends, Idle, Goes, OnWith, At
<1>17. CASE CopyHook
  BY <1>17, CopyHookEffect DEF DeployInv, Ends, Idle, Goes, OnWith, At
<1>18. CASE Publish
  BY <1>18, PublishEffect DEF DeployInv, Ends, Idle, Stops, OnWith, At
<1>19. CASE StageAsset
  BY <1>19, StageAssetEffect DEF DeployInv, Ends, Idle, Goes, OnWith, At
<1>20. CASE StageTree
  BY <1>20, StageTreeEffect DEF DeployInv, Ends, Idle, Goes, OnWith, At
<1>21. CASE DropMeta
  BY <1>21, DropMetaEffect DEF DeployInv, Ends, Idle, Goes, OnWith, At
<1>22. CASE Unhook
  BY <1>22, UnhookEffect DEF DeployInv, Ends, Idle, Goes, OnWith, At
<1>23. CASE CopyHookAgain
  BY <1>23, CopyHookAgainEffect DEF DeployInv, Ends, Idle, Goes, OnWith, At
<1>24. CASE RemoveStaged
  BY <1>24, RemoveStagedEffect DEF DeployInv, Ends, Idle, Stops, OnWith, At
<1>25. CASE ReplaceFails
  <2>1. Stops("failed")
    BY <1>25, ReplaceFailsEffect DEF DeployInv, Ends, Stops, OnWith
  <2>. QED
    BY <1>25, <2>1, ReplaceRestores
<1>26. CASE Raises
  BY <1>26, RaisesEffect DEF DeployInv, Ends, Idle, Goes, Stops, OnWith, At
<1>27. CASE RestoreTree
  BY <1>27, RestoreTreeEffect DEF DeployInv, Ends, Idle, Goes, OnWith, At
<1>28. CASE RestoreFiles
  <2>1. Stops("failed")
    BY <1>28, RestoreFilesEffect DEF DeployInv, Ends, Goes, Stops, OnWith
  <2>. QED
    BY <1>28, <2>1, FilesRestore
<1>29. CASE Unstage
  BY <1>29, UnstageRestores
<1>30. CASE Kill \/ RollbackStops
  BY <1>30, CutEffect DEF IsCut, DeployInv, Ends, Idle, Stops, OnWith, At
<1>31. ASSUME NEW a \in Adapter, EditOwnFile(a) \/ EditFramework(a) PROVE AsFound
  BY <1>31, EditTreeEffect DEF DeployInv, Ends, Idle
<1>32. CASE EditAsset
  BY <1>32, EditAssetEffect DEF DeployInv, Ends, Idle
<1>33. ASSUME NEW h \in UserHook, WriteHook(h) PROVE AsFound
  BY <1>33, WriteHookEffect DEF DeployInv, Ends, Idle
<1>34. CASE UNCHANGED deployVars
  BY <1>34 DEF Ends, deployVars, Idle
<1>. QED
  BY <1>1, <1>2, <1>3, <1>4, <1>5, <1>6, <1>7, <1>8, <1>9, <1>10, <1>11,
     <1>12, <1>13, <1>14, <1>15, <1>16, <1>17, <1>18, <1>19, <1>20, <1>21, <1>22,
     <1>23, <1>24, <1>25, <1>26, <1>27, <1>28, <1>29, <1>30, <1>31, <1>32, <1>33, <1>34
     DEF DeployNext, Replace, Uninstall, Rollback, UserWorks

\* Of the steps of a command at publish, one alone ends it well.
LEMMA PublishStep ==
  ASSUME DeployInv, [DeployNext]_deployVars, Ends("passed"), At("publish")
  PROVE  UNCHANGED <<tree, backup>>
<1>1. ASSUME NEW a \in Adapter, BeginInit(a) PROVE UNCHANGED <<tree, backup>>
  BY <1>1, BeginInitEffect DEF DeployInv, Ends, Idle, At, Begins
<1>2. CASE BeginUpdate
  BY <1>2, BeginUpdateEffect DEF DeployInv, Ends, Idle, At, Begins
<1>3. ASSUME NEW a \in Adapter, BeginUninstall(a) PROVE UNCHANGED <<tree, backup>>
  BY <1>3, BeginUninstallEffect DEF DeployInv, Ends, Idle, At, Begins
<1>4. CASE SystemSwap
  BY <1>4, SystemSwapEffect DEF DeployInv, Ends, Idle, Goes, OnWith, At
<1>5. CASE SystemStamp
  BY <1>5, SystemStampEffect DEF DeployInv, Ends, Idle, OnWith, At
<1>6. CASE SyncProject
  BY <1>6, SyncProjectEffect DEF DeployInv, Ends, Idle, Stops, OnWith, At
<1>7. CASE ElsewhereSwap \/ ElsewhereStamp
  BY <1>7, ElsewhereEffect DEF DeployInv, Ends, Idle, At
<1>8. CASE Publication
  BY <1>8, PublicationEffect DEF DeployInv, Ends, Idle, At
<1>9. CASE ClearBackup
  BY <1>9, ClearBackupEffect DEF DeployInv, Ends, Idle, Goes, OnWith, At
<1>10. CASE MoveAside
  BY <1>10, MoveAsideEffect DEF DeployInv, Ends, Idle, Goes, OnWith, At
<1>11. CASE CopyContent \/ CopyCommit
  BY <1>11, CopyEffect DEF DeployInv, Ends, Idle, OnWith, At
<1>12. CASE SwapIn
  BY <1>12, SwapInEffect DEF DeployInv, Ends, Idle, Goes, OnWith, At
<1>13. CASE CarryForward
  BY <1>13, CarryForwardEffect DEF DeployInv, Ends, Idle, Goes, OnWith, At
<1>14. CASE CopyAssets
  BY <1>14, CopyAssetsEffect DEF DeployInv, Ends, Idle, Goes, OnWith, At
<1>15. CASE Seed
  BY <1>15, SeedEffect DEF DeployInv, Ends, Idle, Goes, OnWith, At
<1>16. CASE MoveHook
  BY <1>16, MoveHookEffect DEF DeployInv, Ends, Idle, Goes, OnWith, At
<1>17. CASE CopyHook
  BY <1>17, CopyHookEffect DEF DeployInv, Ends, Idle, Goes, OnWith, At
<1>18. CASE Publish
  BY <1>18, PublishEffect DEF DeployInv
<1>19. CASE StageAsset
  BY <1>19, StageAssetEffect DEF DeployInv, Ends, Idle, Goes, OnWith, At
<1>20. CASE StageTree
  BY <1>20, StageTreeEffect DEF DeployInv, Ends, Idle, Goes, OnWith, At
<1>21. CASE DropMeta
  BY <1>21, DropMetaEffect DEF DeployInv, Ends, Idle, Goes, OnWith, At
<1>22. CASE Unhook
  BY <1>22, UnhookEffect DEF DeployInv, Ends, Idle, Goes, OnWith, At
<1>23. CASE CopyHookAgain
  BY <1>23, CopyHookAgainEffect DEF DeployInv, Ends, Idle, Goes, OnWith, At
<1>24. CASE RemoveStaged
  BY <1>24, RemoveStagedEffect DEF DeployInv, Ends, Idle, Stops, OnWith, At
<1>25. CASE ReplaceFails
  BY <1>25, ReplaceFailsEffect DEF DeployInv, Ends, Idle, Stops, OnWith, At
<1>26. CASE Raises
  BY <1>26, RaisesEffect DEF DeployInv, Ends, Idle, Goes, Stops, OnWith, At
<1>27. CASE RestoreTree
  BY <1>27, RestoreTreeEffect DEF DeployInv, Ends, Idle, Goes, OnWith, At
<1>28. CASE RestoreFiles
  BY <1>28, RestoreFilesEffect DEF DeployInv, Ends, Idle, Goes, Stops, OnWith, At
<1>29. CASE Unstage
  BY <1>29, UnstageEffect DEF DeployInv, Ends, Idle, Stops, OnWith, At
<1>30. CASE Kill \/ RollbackStops
  BY <1>30, CutEffect DEF IsCut, DeployInv, Ends, Idle, Stops, OnWith, At
<1>31. ASSUME NEW a \in Adapter, EditOwnFile(a) \/ EditFramework(a) PROVE UNCHANGED <<tree, backup>>
  BY <1>31, EditTreeEffect DEF DeployInv, Ends, Idle, At
<1>32. CASE EditAsset
  BY <1>32, EditAssetEffect DEF DeployInv, Ends, Idle, At
<1>33. ASSUME NEW h \in UserHook, WriteHook(h) PROVE UNCHANGED <<tree, backup>>
  BY <1>33, WriteHookEffect DEF DeployInv, Ends, Idle, At
<1>34. CASE UNCHANGED deployVars
  BY <1>34 DEF Ends, deployVars, Idle
<1>. QED
  BY <1>1, <1>2, <1>3, <1>4, <1>5, <1>6, <1>7, <1>8, <1>9, <1>10, <1>11,
     <1>12, <1>13, <1>14, <1>15, <1>16, <1>17, <1>18, <1>19, <1>20, <1>21, <1>22,
     <1>23, <1>24, <1>25, <1>26, <1>27, <1>28, <1>29, <1>30, <1>31, <1>32, <1>33, <1>34
     DEF DeployNext, Replace, Uninstall, Rollback, UserWorks

-----------------------------------------------------------------------------
\* The invariant holds.
LEMMA InitHolds == DeployInit => DeployInv
<1> SUFFICES ASSUME DeployInit PROVE DeployInv
  OBVIOUS
<1>1. DeployTypeOK
  BY InitTyped
<1>2. PICK present \in SUBSET Adapter, mine \in BOOLEAN :
        /\ mine => Legacy \notin present
        /\ tree = [a \in Adapter |->
                   IF a \in present THEN Installed
                   ELSE IF a = Legacy /\ mine THEN [NoTree EXCEPT !.kind = "foreign"]
                   ELSE NoTree]
        /\ asset = IF present \cap AssetAdapter # {} THEN 1 ELSE 0
        /\ meta.listed = present
        /\ IF present = {} THEN meta.active = "none" ELSE meta.active \in present
        /\ IF present = {} THEN hook.active # "cairness" ELSE hook.active = "cairness"
  BY DEF DeployInit
<1>3. \A a \in Adapter :
        /\ a \in present => tree[a] = Installed
        /\ a \notin present => tree[a] \in {NoTree, [NoTree EXCEPT !.kind = "foreign"]}
        /\ backup[a] = NoTree /\ staged[a] = NoTree
  BY <1>2 DEF DeployInit
<1>4. /\ core.content = 1 /\ core.commit = 1 /\ upstream = 1 /\ elsewhere = 0
      /\ job.pc = "idle" /\ job.cmd = "init" /\ job.fresh = NoTree
      /\ past.seen = {} /\ past.hooks = UserHook \cap HookFiles(hook)
      /\ \A a \in Adapter : past.local[a] = 0
  BY DEF DeployInit, HookFiles
<1> DEFINE foreign == [NoTree EXCEPT !.kind = "foreign"]
<1>5. /\ foreign.kind = "foreign" /\ foreign.content = 0 /\ foreign.commit = 0
      /\ foreign.local = 0
      /\ NoTree.kind = "none" /\ NoTree.content = 0 /\ NoTree.commit = 0
      /\ NoTree.local = 0
      /\ Installed.kind = "cairness" /\ Installed.content = 1 /\ Installed.commit = 1
      /\ Installed.local = 0
  BY DEF NoTree, Installed
<1>6. \A a \in Adapter : a \notin present => tree[a] \in {NoTree, foreign}
  BY <1>3
<1> HIDE DEF foreign
<1>7. TreesWhole
  BY <1>3, <1>5, <1>6 DEF TreesWhole, Exists
<1>8. ReleasesInOrder
  <2>1. \A a \in Adapter : Truthful(tree[a]) /\ Truthful(backup[a]) /\ Truthful(staged[a])
    BY <1>3, <1>5, <1>6 DEF Truthful
  <2>. QED
    BY <2>1, <1>4, <1>5 DEF ReleasesInOrder, At
<1>9. Undoable /\ HooksHeld
  BY <1>4 DEF Undoable, PhasesFit, Removal, Staged, HooksHeld, Idle
<1>10. WorkHeld
  BY <1>3, <1>4, <1>5, <1>6 DEF WorkHeld, Clean, Seen, Rests, Idle
<1>11. RecordHeld
  BY <1>2, <1>3, <1>4, <1>5, <1>6 DEF RecordHeld, Sound, Clean, Seen, Rests, Idle, At
<1>12. AssetHeld
  <2>1. \A a \in AssetAdapter : asset = tree[a].content
    BY <1>2, <1>3, <1>5, <1>6, OneAsset, Bounds
  <2>. QED
    BY <2>1, <1>4 DEF AssetHeld, Rests, Idle
<1>. QED
  BY <1>1, <1>7, <1>8, <1>9, <1>10, <1>11, <1>12 DEF DeployInv

\* Every step of the commands, of their failures and of the user keeps it.
THEOREM DeployInvariant == DeploySpec => []DeployInv
<1>1. DeployInit => DeployInv
  BY InitHolds
<1>2. DeployInv /\ [DeployNext]_deployVars => DeployInv'
  <2> SUFFICES ASSUME DeployInv, [DeployNext]_deployVars PROVE DeployInv'
    OBVIOUS
  <2>1. DeployTypeOK'
    BY TypeStep DEF DeployInv
  <2>. QED
    BY <2>1, WholeStep, ReleaseStep, UndoStep, HookStep, WorkStep, RecordStep, AssetStep
       DEF DeployInv
<1>. QED
  BY <1>1, <1>2, PTL DEF DeploySpec

-----------------------------------------------------------------------------
\* What follows from it.

\* The types of the deployment's state, for every value of the constants.
THEOREM DeployTypes == DeploySpec => []DeployTypeOK
<1>1. DeployInv => DeployTypeOK
  BY DEF DeployInv
<1>. QED
  BY <1>1, DeployInvariant, PTL

\* No single kill or failure of init, update or uninstall loses the user's own
\* files, and after commands that were not cut short they are in place.
THEOREM UserWorkStays == DeploySpec => []UserWorkInPlace
<1>1. DeployInv => UserWorkInPlace
  <2> SUFFICES ASSUME DeployInv, NEW a \in Adapter
               PROVE  /\ ~Seen({"retry"}) =>
                           past.local[a] \in {tree[a].local, backup[a].local, staged[a].local}
                      /\ Idle /\ Clean =>
                           tree[a].local = past.local[a]
    BY DEF UserWorkInPlace
  <2>1. Clean => past.local[a] \in {tree[a].local, backup[a].local, staged[a].local}
    BY WorkSomewhere DEF DeployInv, WorkHeld, Rests
  <2>. QED
    BY <2>1 DEF DeployInv, WorkHeld, Clean, Rests
<1>. QED
  BY <1>1, DeployInvariant, PTL

\* The backups of _install_git_hooks and the hook that uninstall puts back:
\* no hook of the user's is lost, wherever a command fails or is killed, unless
\* a rollback is cut short within the rewriting of a hook.
THEOREM HooksAreKept == DeploySpec => []UserHooksKept
<1>1. DeployInv => UserHooksKept
  BY DEF DeployInv, HooksHeld, HookFiles, UserHooksKept
<1>. QED
  BY <1>1, DeployInvariant, PTL

\* install.yaml and the git hook agree with the trees that are there, after any
\* commands that were not cut short.
THEOREM RecordIsTrue == DeploySpec => []RecordTellsTruth
<1>1. DeployInv => RecordTellsTruth
  <2> SUFFICES ASSUME DeployInv, Idle, Clean
               PROVE  /\ \A a \in Adapter : a \in meta.listed <=> tree[a].kind = "cairness"
                      /\ meta.active # "none" <=> meta.listed # {}
                      /\ hook.active = "cairness" => meta.listed # {}
    BY DEF RecordTellsTruth, Clean
  <2>1. "none" \notin meta.listed
    BY Bounds DEF DeployInv, DeployTypeOK, Meta
  <2>. QED
    BY <2>1 DEF DeployInv, RecordHeld, Sound, Rests
<1>. QED
  BY <1>1, DeployInvariant, PTL

\* The asset outside of the tree is the one that the next preflight expects, or
\* is of no release, because the user changed it or a release dropped a file.
THEOREM AssetIsRight == DeploySpec => []AssetFollowsTree
<1>1. DeployInv => AssetFollowsTree
  BY DEF DeployInv, AssetHeld, AssetFollowsTree, Rests
<1>. QED
  BY <1>1, DeployInvariant, PTL

\* write_commit_hash comes last, so that no COMMIT is ahead of its files,
\* unless two updates of the system installation overlapped.
THEOREM CommitIsTrue == DeploySpec => []CommitTellsContent
<1>1. DeployInv => CommitTellsContent
  BY DEF DeployInv, ReleasesInOrder, Truthful, CommitTellsContent
<1>. QED
  BY <1>1, DeployInvariant, PTL

\* Whatever a command had done when it failed, a rollback that comes to its end
\* leaves what the command found.
THEOREM FailuresAreUndone == DeploySpec => FailureRestores
<1>1. DeployInv /\ [DeployNext]_deployVars =>
        [Ends("failed") =>
           /\ tree'[job.a] = job.before.tree /\ staged'[job.a] = job.before.staged
           /\ asset' = job.before.asset /\ away' = job.before.away
           /\ meta' = job.before.meta /\ hook' = job.before.hook
           /\ seeded' = job.before.seeded]_deployVars
  BY FailureStep DEF AsFound
<1>. QED
  BY <1>1, DeployInvariant, PTL DEF DeploySpec, FailureRestores

\* An upgrade that succeeds has the previous tree whole in the backup, and the
\* user's own files in the new one.
THEOREM UpgradesKeepPrevious == DeploySpec => UpgradeKeepsPrevious
<1>1. DeployInv /\ [DeployNext]_deployVars =>
        [Ends("passed") /\ job.pc = "publish" /\ Replaced =>
           /\ backup'[job.a] = job.before.tree
           /\ tree'[job.a].local = job.before.tree.local]_deployVars
  <2> SUFFICES ASSUME DeployInv, [DeployNext]_deployVars, Ends("passed"),
                      At("publish"), Replaced
               PROVE  /\ backup'[job.a] = job.before.tree
                      /\ tree'[job.a].local = job.before.tree.local
    BY DEF At
  <2>1. UNCHANGED <<tree, backup>>
    BY PublishStep
  <2>. QED
    BY <2>1
       DEF DeployInv, Undoable, PhasesFit, TreeUndo, Swapped, Removal, Staged, Idle, At
<1>. QED
  BY <1>1, DeployInvariant, PTL DEF DeploySpec, UpgradeKeepsPrevious

-----------------------------------------------------------------------------
\* What Doctor looks at: the asset is there as long as the tree that it belongs
\* to, and what init seeds as long as an adapter is recorded.

\* A rollback restores both of them.
LEMMA ThereRestored ==
  ASSUME DeployInv, AssetThere, ~Idle, AsFound, Idle', past'.seen = past.seen, job'.a = job.a,
         \A a \in Adapter : a # job.a => tree'[a] = tree[a]
  PROVE  AssetThere'
<1> SUFFICES ASSUME Clean, NEW a \in AssetAdapter, tree'[a].kind = "cairness"
             PROVE  asset' # 0
  BY DEF AssetThere, Clean, Seen, Rests
<1>1. CASE a = job.a
  BY <1>1 DEF DeployInv, AssetThere, AsFound, Rests
<1>2. CASE a # job.a
  <2>1. job.a \notin AssetAdapter
    BY <1>2, OneAsset
  <2>. QED
    BY <1>2, <2>1, AssetElsewhere, Bounds DEF DeployInv, AssetThere, AsFound, Rests
<1>. QED
  BY <1>1, <1>2

\* Every step of every command keeps the two together.
LEMMA ThereStep ==
  ASSUME DeployInv, AssetThere, [DeployNext]_deployVars
  PROVE  AssetThere'
<1>1. ASSUME NEW a \in Adapter, BeginInit(a) PROVE AssetThere'
  <2>1. /\ tree' = tree /\ asset' = asset /\ Idle /\ ~Idle' /\ job'.a = a
        /\ job'.before.tree = tree[a] /\ job'.before.asset = asset
        /\ job'.pc \in {"clear", "build", "system", "stageasset"}
    BY <1>1, BeginInitEffect, FoundFields, Bounds DEF DeployInv, Begins, Idle, project
  <2>2. past.seen \subseteq past'.seen
    BY <1>1, BeginInitEffect, Bounds DEF DeployInv, Begins
  <2>. QED
    BY <2>1, <2>2, Bounds DEF DeployInv, AssetThere, Clean, Seen, Rests, Staged
<1>2. CASE BeginUpdate
  <2>1. /\ tree' = tree /\ asset' = asset /\ Idle /\ ~Idle' /\ job'.a = Legacy
        /\ job'.before.tree = tree[Legacy] /\ job'.before.asset = asset
        /\ job'.pc \in {"clear", "build", "system", "stageasset"}
    BY <1>2, BeginUpdateEffect, FoundFields, Bounds DEF DeployInv, Begins, Idle, project
  <2>2. past.seen \subseteq past'.seen
    BY <1>2, BeginUpdateEffect, Bounds DEF DeployInv, Begins
  <2>. QED
    BY <2>1, <2>2, Bounds DEF DeployInv, AssetThere, Clean, Seen, Rests, Staged
<1>3. ASSUME NEW a \in Adapter, BeginUninstall(a) PROVE AssetThere'
  <2>1. /\ tree' = tree /\ asset' = asset /\ Idle /\ ~Idle' /\ job'.a = a
        /\ job'.before.tree = tree[a] /\ job'.before.asset = asset
        /\ job'.pc \in {"clear", "build", "system", "stageasset"}
    BY <1>3, BeginUninstallEffect, FoundFields, Bounds
       DEF DeployInv, Begins, Idle, project
  <2>2. past.seen \subseteq past'.seen
    BY <1>3, BeginUninstallEffect, Bounds DEF DeployInv, Begins
  <2>. QED
    BY <2>1, <2>2, Bounds DEF DeployInv, AssetThere, Clean, Seen, Rests, Staged
<1>4. CASE SystemSwap
  BY <1>4, SystemSwapEffect, BeforeTyped, OneAsset, Bounds
     DEF DeployInv, AssetThere, Clean, Seen, Rests, Staged, Idle, At, project, Goes, OnWith
<1>5. CASE SystemStamp
  BY <1>5, SystemStampEffect, BeforeTyped, OneAsset, Bounds
     DEF DeployInv, AssetThere, Clean, Seen, Rests, Staged, Idle, At, project, OnWith
<1>6. CASE SyncProject
  <2>1. /\ past' = past /\ tree' = tree /\ asset' = asset /\ ~Idle
        /\ tree[job.a] = job.before.tree /\ asset = job.before.asset
    BY <1>6, SyncProjectEffect
       DEF DeployInv, Undoable, PhasesFit, TreeUndo, AssetUndo, Untouched, Swapped,
           Removal, Staged, Idle, At
  <2>2. CASE Stops("passed") \/ Stops("failed")
    BY <2>1, <2>2 DEF DeployInv, AssetThere, Clean, Seen, Rests, Stops, OnWith, Idle
  <2>3. ASSUME NEW a \in Adapter, job'.pc = "clear", job'.a = a, job'.before = Found(a)
        PROVE  AssetThere'
    <3>1. job'.before.tree = tree[a] /\ job'.before.asset = asset
      BY <2>3, FoundFields
    <3>2. Clean => \A b \in AssetAdapter : tree[b].kind = "cairness" => asset # 0
      BY <2>1 DEF DeployInv, AssetThere, Rests
    <3>. QED
      BY <2>1, <2>3, <3>1, <3>2 DEF DeployInv, AssetThere, Clean, Seen, Rests, Staged, Idle
  <2>. QED
    BY <1>6, <2>2, <2>3, SyncProjectEffect DEF DeployInv
<1>7. CASE ElsewhereSwap \/ ElsewhereStamp
  BY <1>7, ElsewhereEffect, BeforeTyped, OneAsset, Bounds
     DEF DeployInv, AssetThere, Clean, Seen, Rests, Staged, Idle, At, project
<1>8. CASE Publication
  BY <1>8, PublicationEffect, BeforeTyped, OneAsset, Bounds
     DEF DeployInv, AssetThere, Clean, Seen, Rests, Staged, Idle, At, project
<1>9. CASE ClearBackup
  BY <1>9, ClearBackupEffect, BeforeTyped, OneAsset, Bounds
     DEF DeployInv, AssetThere, Clean, Seen, Rests, Staged, Idle, At, Goes, OnWith, Only
<1>10. CASE MoveAside
  BY <1>10, MoveAsideEffect, BeforeTyped, OneAsset, Bounds
     DEF DeployInv, AssetThere, Clean, Seen, Rests, Staged, Idle, At, Goes, OnWith, Only
<1>11. CASE CopyContent \/ CopyCommit
  BY <1>11, CopyEffect, BeforeTyped, OneAsset, Bounds
     DEF DeployInv, AssetThere, Clean, Seen, Rests, Staged, Idle, At, project, OnWith
<1>12. CASE SwapIn
  BY <1>12, SwapInEffect, BeforeTyped, OneAsset, Bounds
     DEF DeployInv, AssetThere, Clean, Seen, Rests, Staged, Idle, At, Goes, OnWith, Only
<1>13. CASE CarryForward
  BY <1>13, CarryForwardEffect, BeforeTyped, OneAsset, Bounds
     DEF DeployInv, AssetThere, Clean, Seen, Rests, Staged, Idle, At, Goes, OnWith, Only
<1>14. CASE CopyAssets
  <2>1. core.content # 0
    BY Bounds DEF DeployInv, DeployTypeOK, Release
  <2>2. /\ tree' = tree /\ past.seen \subseteq past'.seen /\ ~Idle
        /\ asset' = asset \/ (job.a \in AssetAdapter /\ asset' \in {core.content, Strange})
        /\ job.a \in AssetAdapter => asset' \in {core.content, Strange}
        /\ job'.a = job.a /\ job'.before = job.before /\ job'.pc \in {"seed", "hook"}
    BY <1>14, CopyAssetsEffect DEF DeployInv, Goes, OnWith, Idle, At, HasAsset
  <2>3. Clean' => Clean
    BY <2>2 DEF Clean, Seen
  <2>4. Strange # 0
    BY Bounds
  <2>. QED
    BY <2>1, <2>2, <2>3, <2>4, OneAsset DEF DeployInv, AssetThere, Rests, Idle
<1>15. CASE Seed
  BY <1>15, SeedEffect, BeforeTyped, OneAsset, Bounds
     DEF DeployInv, AssetThere, Clean, Seen, Rests, Staged, Idle, At, Goes, OnWith
<1>16. CASE MoveHook
  BY <1>16, MoveHookEffect, BeforeTyped, OneAsset, Bounds
     DEF DeployInv, AssetThere, Clean, Seen, Rests, Staged, Idle, At, Goes, OnWith
<1>17. CASE CopyHook
  BY <1>17, CopyHookEffect, BeforeTyped, OneAsset, Bounds
     DEF DeployInv, AssetThere, Clean, Seen, Rests, Staged, Idle, At, Goes, OnWith
<1>18. CASE Publish
  BY <1>18, PublishEffect, BeforeTyped, OneAsset, Bounds
     DEF DeployInv, AssetThere, Clean, Seen, Rests, Staged, Idle, At, Stops, OnWith
<1>19. CASE StageAsset
  <2>1. /\ At("stageasset") /\ Goes("stagetree") /\ UNCHANGED <<tree, past>>
        /\ asset' = IF StagesAsset THEN 0 ELSE asset
    BY <1>19, StageAssetEffect DEF DeployInv
  <2>2. asset' # asset => job.a \in AssetAdapter
    BY <2>1 DEF StagesAsset, HasAsset
  <2>. QED
    BY <2>1, <2>2, OneAsset
       DEF DeployInv, AssetThere, Clean, Seen, Rests, Goes, OnWith, Idle, At
<1>20. CASE StageTree
  BY <1>20, StageTreeEffect, BeforeTyped, OneAsset, Bounds
     DEF DeployInv, AssetThere, Clean, Seen, Rests, Staged, Idle, At, Goes, OnWith, Only
<1>21. CASE DropMeta
  BY <1>21, DropMetaEffect, BeforeTyped, OneAsset, Bounds
     DEF DeployInv, AssetThere, Clean, Seen, Rests, Staged, Idle, At, Goes, OnWith
<1>22. CASE Unhook
  BY <1>22, UnhookEffect, BeforeTyped, OneAsset, Bounds
     DEF DeployInv, AssetThere, Clean, Seen, Rests, Staged, Idle, At, Goes, OnWith
<1>23. CASE CopyHookAgain
  BY <1>23, CopyHookAgainEffect, BeforeTyped, OneAsset, Bounds
     DEF DeployInv, AssetThere, Clean, Seen, Rests, Staged, Idle, At, Goes, OnWith
<1>24. CASE RemoveStaged
  <2>1. /\ At("remove") /\ Stops("passed") /\ past'.seen = past.seen
        /\ UNCHANGED <<tree, asset>>
    BY <1>24, RemoveStagedEffect DEF DeployInv
  <2>2. tree[job.a].kind = "none"
    BY <2>1, BeforeTyped
       DEF DeployInv, TreesWhole, Undoable, PhasesFit, TreeUndo, TreeStaged, Removal,
           Staged, NoTree, Idle, At
  <2>. QED
    BY <2>1, <2>2, Bounds
       DEF DeployInv, AssetThere, Clean, Seen, Rests, Staged, Stops, OnWith, Idle, At
<1>25. CASE ReplaceFails
  <2>1. CASE Faulty({}) /\ Stops("failed")
    <3>1. AsFound
      BY <1>25, <2>1, ReplaceRestores
    <3>2. /\ \A a \in Adapter : a # job.a => tree'[a] = tree[a]
          /\ past'.seen = past.seen /\ job'.a = job.a /\ Idle' /\ ~Idle
      BY <1>25, <2>1, ReplaceFailsEffect
         DEF DeployInv, Only, Stops, OnWith, Faulty, Idle, At
    <3>. QED
      BY <3>1, <3>2, ThereRestored
  <2>2. CASE Faulty({"lost"})
    BY <2>2 DEF AssetThere, Clean, Seen, Faulty
  <2>. QED
    BY <1>25, <2>1, <2>2, ReplaceFailsEffect DEF DeployInv
<1>26. CASE Raises
  BY <1>26, RaisesEffect, BeforeTyped, OneAsset, Bounds
     DEF DeployInv, AssetThere, Clean, Seen, Rests, Staged, Idle, At, project, Goes, Stops,
         OnWith, Faulty
<1>27. CASE RestoreTree
  BY <1>27, RestoreTreeEffect, BeforeTyped, OneAsset, Bounds
     DEF DeployInv, AssetThere, Clean, Seen, Rests, Staged, Idle, At, Goes, OnWith, Only,
         HasAsset
<1>28. CASE RestoreFiles
  <2>1. CASE Goes("unstage")
    BY <1>28, <2>1, RestoreFilesEffect
       DEF DeployInv, AssetThere, Clean, Seen, Rests, Staged, Idle, At, Goes, OnWith
  <2>2. CASE Stops("failed")
    <3>1. AsFound
      BY <1>28, <2>2, FilesRestore
    <3>2. /\ \A a \in Adapter : a # job.a => tree'[a] = tree[a]
          /\ past'.seen = past.seen /\ job'.a = job.a /\ Idle' /\ ~Idle
      BY <1>28, <2>2, RestoreFilesEffect DEF DeployInv, Stops, OnWith, Idle, At
    <3>. QED
      BY <3>1, <3>2, ThereRestored
  <2>. QED
    BY <1>28, <2>1, <2>2, RestoreFilesEffect DEF DeployInv
<1>29. CASE Unstage
  <2>1. AsFound
    BY <1>29, UnstageRestores
  <2>2. /\ \A a \in Adapter : a # job.a => tree'[a] = tree[a]
        /\ past'.seen = past.seen /\ job'.a = job.a /\ Idle' /\ ~Idle
    BY <1>29, UnstageEffect DEF DeployInv, Only, Stops, OnWith, Idle, At
  <2>. QED
    BY <2>1, <2>2, ThereRestored
<1>30. CASE Kill \/ RollbackStops
  BY <1>30, CutEffect, BeforeTyped, OneAsset, Bounds
     DEF IsCut, DeployInv, AssetThere, Clean, Seen, Rests, Staged, Idle, At, project, Stops, OnWith,
         Faulty
<1>31. ASSUME NEW a \in Adapter, EditOwnFile(a) \/ EditFramework(a) PROVE AssetThere'
  BY <1>31, EditTreeEffect, BeforeTyped, OneAsset, Bounds
     DEF DeployInv, AssetThere, Clean, Seen, Rests, Staged, Idle, At
<1>32. CASE EditAsset
  BY <1>32, EditAssetEffect, Bounds
     DEF EditAsset, DeployInv, AssetThere, Clean, Seen, Rests, Staged, Idle, At
<1>33. ASSUME NEW h \in UserHook, WriteHook(h) PROVE AssetThere'
  BY <1>33, WriteHookEffect, BeforeTyped, OneAsset, Bounds
     DEF DeployInv, AssetThere, Clean, Seen, Rests, Staged, Idle, At
<1>34. CASE UNCHANGED deployVars
  BY <1>34, BeforeTyped, OneAsset, Bounds
     DEF DeployInv, AssetThere, Clean, Seen, Rests, Staged, Idle, At, project, deployVars
<1>. QED
  BY <1>1, <1>2, <1>3, <1>4, <1>5, <1>6, <1>7, <1>8, <1>9, <1>10, <1>11,
     <1>12, <1>13, <1>14, <1>15, <1>16, <1>17, <1>18, <1>19, <1>20, <1>21, <1>22,
     <1>23, <1>24, <1>25, <1>26, <1>27, <1>28, <1>29, <1>30, <1>31, <1>32, <1>33, <1>34
     DEF DeployNext, Replace, Uninstall, Rollback, UserWorks

\* Nothing but init and update seeds, and nothing but a rollback takes it away.
LEMMA SeededStep ==
  ASSUME DeployInv, RecordHeld', SeededHeld, [DeployNext]_deployVars
  PROVE  SeededHeld'
<1>1. ASSUME NEW a \in Adapter, BeginInit(a) PROVE SeededHeld'
  <2>1. /\ UNCHANGED <<meta, seeded>> /\ Idle /\ job'.before = Found(a)
        /\ job'.cmd = "init" /\ job'.pc \in {"clear", "build"}
        /\ past.seen \subseteq past'.seen
    BY <1>1, BeginInitEffect, Bounds DEF DeployInv, Begins, project, Idle
  <2>2. job'.before.meta = meta /\ job'.before.seeded = seeded
    BY <2>1, FoundFields, Bounds
  <2>. QED
    BY <2>1, <2>2 DEF SeededHeld, Clean, Seen, Installing, Swapped, Idle
<1>2. CASE BeginUpdate
  <2>1. /\ UNCHANGED <<meta, seeded>> /\ Idle /\ job'.before = Found(Legacy)
        /\ job'.cmd = "update" /\ job'.pc \in {"system"}
        /\ past.seen \subseteq past'.seen
    BY <1>2, BeginUpdateEffect, Bounds DEF DeployInv, Begins, project, Idle
  <2>2. job'.before.meta = meta /\ job'.before.seeded = seeded
    BY <2>1, FoundFields, Bounds
  <2>. QED
    BY <2>1, <2>2 DEF SeededHeld, Clean, Seen, Installing, Swapped, Idle
<1>3. ASSUME NEW a \in Adapter, BeginUninstall(a) PROVE SeededHeld'
  <2>1. /\ UNCHANGED <<meta, seeded>> /\ Idle /\ job'.before = Found(a)
        /\ job'.cmd = "uninstall" /\ job'.pc \in {"stageasset"}
        /\ past.seen \subseteq past'.seen
    BY <1>3, BeginUninstallEffect, Bounds DEF DeployInv, Begins, project, Idle
  <2>2. job'.before.meta = meta /\ job'.before.seeded = seeded
    BY <2>1, FoundFields
  <2>. QED
    BY <2>1, <2>2 DEF SeededHeld, Clean, Seen, Installing, Swapped, Idle
<1>4. CASE SyncProject
  <2>1. /\ past' = past /\ seeded' = seeded /\ At("sync") /\ job.cmd # "uninstall"
        /\ tree[job.a] = job.before.tree /\ meta = job.before.meta
    BY <1>4, SyncProjectEffect
       DEF DeployInv, Undoable, PhasesFit, TreeUndo, RecordUndo, Untouched, Removal,
           Staged, Idle, At
  <2>2. CASE (Stops("passed") \/ Stops("failed")) /\ UNCHANGED meta
    BY <2>1, <2>2 DEF SeededHeld, Clean, Seen, Installing, Swapped, Stops, OnWith, Idle
  <2>3. ASSUME NEW a \in Adapter, a = meta.active \/ tree[a].kind = "cairness",
               Stops("passed"), meta' = Listing(a)
        PROVE  SeededHeld'
    <3>1. Clean => meta.listed # {}
      <4>1. Clean /\ tree[a].kind = "cairness" => a \in meta.listed
        BY <2>1 DEF DeployInv, RecordHeld, Rests, Idle, At
      <4>2. a = meta.active => meta.listed # {}
        BY Bounds DEF DeployInv, RecordHeld, Sound, TornMeta
      <4>. QED
        BY <2>3, <4>1, <4>2
    <3>. QED
      BY <2>1, <2>3, <3>1
         DEF SeededHeld, Clean, Seen, Installing, Swapped, Stops, OnWith, Idle
  <2>4. ASSUME NEW a \in Adapter, tree[a].kind = "cairness", job'.pc = "clear", job'.a = a,
               job'.before = Found(a), UNCHANGED meta
        PROVE  SeededHeld'
    <3>1. /\ job'.before.meta = meta /\ job'.before.seeded = seeded
          /\ job'.before.tree = tree[a]
      BY <2>4, FoundFields
    <3>2. Clean => meta.listed # {}
      BY <2>1, <2>4, <3>1 DEF RecordHeld, Clean, Seen, Idle
    <3>. QED
      BY <2>1, <2>4, <3>1, <3>2
         DEF SeededHeld, Clean, Seen, Installing, Swapped, Idle
  <2>. QED
    BY <1>4, <2>2, <2>3, <2>4, SyncProjectEffect DEF DeployInv
<1>5. CASE SystemSwap
  BY <1>5, SystemSwapEffect
     DEF DeployInv, SeededHeld, Clean, Seen, Installing, Swapped, Idle, At, project, Goes, Stops,
         OnWith, Faulty
<1>6. CASE SystemStamp
  BY <1>6, SystemStampEffect
     DEF DeployInv, SeededHeld, Clean, Seen, Installing, Swapped, Idle, At, project, Goes, Stops,
         OnWith, Faulty
<1>7. CASE ElsewhereSwap \/ ElsewhereStamp
  BY <1>7, ElsewhereEffect
     DEF DeployInv, SeededHeld, Clean, Seen, Installing, Swapped, Idle, At, project, Goes, Stops,
         OnWith, Faulty
<1>8. CASE Publication
  BY <1>8, PublicationEffect
     DEF DeployInv, SeededHeld, Clean, Seen, Installing, Swapped, Idle, At, project, Goes, Stops,
         OnWith, Faulty
<1>9. CASE ClearBackup
  BY <1>9, ClearBackupEffect
     DEF DeployInv, SeededHeld, Clean, Seen, Installing, Swapped, Idle, At, project, Goes, Stops,
         OnWith, Faulty
<1>10. CASE MoveAside
  BY <1>10, MoveAsideEffect
     DEF DeployInv, SeededHeld, Clean, Seen, Installing, Swapped, Idle, At, project, Goes, Stops,
         OnWith, Faulty
<1>11. CASE CopyContent \/ CopyCommit
  BY <1>11, CopyEffect
     DEF DeployInv, SeededHeld, Clean, Seen, Installing, Swapped, Idle, At, project, Goes, Stops,
         OnWith, Faulty
<1>12. CASE SwapIn
  BY <1>12, SwapInEffect
     DEF DeployInv, SeededHeld, Clean, Seen, Installing, Swapped, Idle, At, project, Goes, Stops,
         OnWith, Faulty
<1>13. CASE CarryForward
  BY <1>13, CarryForwardEffect
     DEF DeployInv, SeededHeld, Clean, Seen, Installing, Swapped, Idle, At, project, Goes, Stops,
         OnWith, Faulty
<1>14. CASE CopyAssets
  <2>1. /\ At("assets") /\ UNCHANGED <<meta, seeded>> /\ past.seen \subseteq past'.seen
        /\ Goes(IF job.cmd = "init" THEN "seed" ELSE "hook")
    BY <1>14, CopyAssetsEffect DEF DeployInv
  <2>2. job.cmd \in {"init", "update"}
    BY <2>1 DEF DeployInv, DeployTypeOK, Job, Undoable, PhasesFit, Removal, Staged, At
  <2>. QED
    BY <2>1, <2>2
       DEF SeededHeld, Clean, Seen, Installing, Swapped, Idle, At, Goes, OnWith
<1>15. CASE Seed
  BY <1>15, SeedEffect
     DEF Seed, DeployInv, SeededHeld, Clean, Seen, Installing, Swapped, Idle, At, Goes,
         OnWith
<1>16. CASE MoveHook
  BY <1>16, MoveHookEffect
     DEF DeployInv, SeededHeld, Clean, Seen, Installing, Swapped, Idle, At, project, Goes, Stops,
         OnWith, Faulty
<1>17. CASE CopyHook
  BY <1>17, CopyHookEffect
     DEF DeployInv, SeededHeld, Clean, Seen, Installing, Swapped, Idle, At, project, Goes, Stops,
         OnWith, Faulty
<1>18. CASE Publish
  BY <1>18, PublishEffect
     DEF DeployInv, SeededHeld, Clean, Seen, Installing, Swapped, Idle, At, project, Goes, Stops,
         OnWith, Faulty
<1>19. CASE StageAsset
  BY <1>19, StageAssetEffect
     DEF DeployInv, SeededHeld, Clean, Seen, Installing, Swapped, Idle, At, project, Goes, Stops,
         OnWith, Faulty
<1>20. CASE StageTree
  BY <1>20, StageTreeEffect
     DEF DeployInv, SeededHeld, Clean, Seen, Installing, Swapped, Idle, At, project, Goes, Stops,
         OnWith, Faulty
<1>21. CASE DropMeta
  BY <1>21, DropMetaEffect
     DEF DeployInv, SeededHeld, Clean, Seen, Installing, Swapped, Idle, At, project, Goes, Stops,
         OnWith, Faulty
<1>22. CASE Unhook
  BY <1>22, UnhookEffect
     DEF DeployInv, SeededHeld, Clean, Seen, Installing, Swapped, Idle, At, project, Goes, Stops,
         OnWith, Faulty
<1>23. CASE CopyHookAgain
  BY <1>23, CopyHookAgainEffect
     DEF DeployInv, SeededHeld, Clean, Seen, Installing, Swapped, Idle, At, project, Goes, Stops,
         OnWith, Faulty
<1>24. CASE RemoveStaged
  BY <1>24, RemoveStagedEffect
     DEF DeployInv, SeededHeld, Clean, Seen, Installing, Swapped, Idle, At, project, Goes, Stops,
         OnWith, Faulty
<1>25. CASE ReplaceFails
  BY <1>25, ReplaceFailsEffect
     DEF DeployInv, SeededHeld, Clean, Seen, Installing, Swapped, Idle, At, project, Goes, Stops,
         OnWith, Faulty
<1>26. CASE Raises
  BY <1>26, RaisesEffect
     DEF DeployInv, SeededHeld, Clean, Seen, Installing, Swapped, Idle, At, project, Goes, Stops,
         OnWith, Faulty
<1>27. CASE RestoreTree
  BY <1>27, RestoreTreeEffect
     DEF DeployInv, SeededHeld, Clean, Seen, Installing, Swapped, Idle, At, project, Goes, Stops,
         OnWith, Faulty
<1>28. CASE RestoreFiles
  BY <1>28, RestoreFilesEffect
     DEF DeployInv, SeededHeld, Clean, Seen, Installing, Swapped, Idle, At, project, Goes, Stops,
         OnWith, Faulty
<1>29. CASE Unstage
  BY <1>29, UnstageEffect
     DEF DeployInv, SeededHeld, Clean, Seen, Installing, Swapped, Idle, At, project, Goes, Stops,
         OnWith, Faulty
<1>30. CASE Kill \/ RollbackStops
  BY <1>30, CutEffect
     DEF IsCut, DeployInv, SeededHeld, Clean, Seen, Installing, Swapped, Idle, At, project, Goes, Stops,
         OnWith, Faulty
<1>31. ASSUME NEW a \in Adapter, EditOwnFile(a) \/ EditFramework(a) PROVE SeededHeld'
  BY <1>31, EditTreeEffect DEF DeployInv, SeededHeld, Clean, Seen, Idle
<1>32. CASE EditAsset
  BY <1>32, EditAssetEffect DEF DeployInv, SeededHeld, Clean, Seen, Idle
<1>33. ASSUME NEW h \in UserHook, WriteHook(h) PROVE SeededHeld'
  BY <1>33, WriteHookEffect DEF DeployInv, SeededHeld, Clean, Seen, Idle
<1>34. CASE UNCHANGED deployVars
  BY <1>34 DEF SeededHeld, Clean, Seen, Idle, project, deployVars
<1>. QED
  BY <1>1, <1>2, <1>3, <1>4, <1>5, <1>6, <1>7, <1>8, <1>9, <1>10, <1>11, <1>12, <1>13,
     <1>14, <1>15, <1>16, <1>17, <1>18, <1>19, <1>20, <1>21, <1>22, <1>23, <1>24, <1>25,
     <1>26, <1>27, <1>28, <1>29, <1>30, <1>31, <1>32, <1>33, <1>34
     DEF DeployNext, Replace, Uninstall, Rollback, UserWorks

\* What Doctor looks at is in order after commands that were not cut short.
LEMMA InitHealthy == DeployInit => SeededHeld /\ AssetThere
<1> SUFFICES ASSUME DeployInit PROVE SeededHeld /\ AssetThere
  OBVIOUS
<1>1. PICK present \in SUBSET Adapter, mine \in BOOLEAN :
        /\ tree = [a \in Adapter |->
                   IF a \in present THEN Installed
                   ELSE IF a = Legacy /\ mine THEN [NoTree EXCEPT !.kind = "foreign"]
                   ELSE NoTree]
        /\ asset = IF present \cap AssetAdapter # {} THEN 1 ELSE 0
        /\ seeded = (present # {})
        /\ meta.listed = present
  BY DEF DeployInit
<1>2. job.pc = "idle"
  BY DEF DeployInit
<1>3. SeededHeld
  BY <1>1, <1>2 DEF SeededHeld, Idle, Installing, Swapped
<1>4. \A a \in Adapter : tree[a].kind = "cairness" => a \in present
  BY <1>1 DEF NoTree
<1>. QED
  BY <1>1, <1>2, <1>3, <1>4, Bounds DEF AssetThere, Rests, Idle

LEMMA HealthInvariant == DeploySpec => [](SeededHeld /\ AssetThere)
<1>1. DeployInit => SeededHeld /\ AssetThere
  BY InitHealthy
<1>2. DeployInv /\ DeployInv' /\ SeededHeld /\ AssetThere /\ [DeployNext]_deployVars =>
        (SeededHeld /\ AssetThere)'
  BY SeededStep, ThereStep DEF DeployInv
<1>. QED
  BY <1>1, <1>2, DeployInvariant, PTL DEF DeploySpec

\* Doctor tells a deployment that lacks something from one that does not,
\* after any commands, whatever was killed or failed where.
THEOREM DoctorTellsTruth == DeploySpec => []DoctorIsRight
<1>1. DeployInv /\ SeededHeld /\ AssetThere => DoctorIsRight
  <2> SUFFICES ASSUME DeployInv, SeededHeld, AssetThere, Idle, meta.active # "none",
                      NEW option \in meta.listed \cup {"none"}
               PROVE  LET found == DoctorIssues(option, IF seeded THEN {} ELSE {Top}) IN
                        /\ Damaged(Diagnosed(option)) => found # {}
                        /\ Clean => found = {}
    BY DEF DoctorIsRight
  <2> DEFINE a == Diagnosed(option)
             missing == IF seeded THEN {} ELSE {Top}
  <2>1. Clean => meta.active \in meta.listed
    BY DEF DeployInv, RecordHeld, Sound
  <2>2. a \in Adapter /\ (Clean => a \in meta.listed)
    BY <2>1, Bounds DEF Diagnosed, Recorded, DeployInv, DeployTypeOK, Meta
  <2>3. ASSUME Damaged(a) PROVE DoctorIssues(option, missing) # {}
    BY <2>3 DEF Damaged, DoctorIssues, InternalIssues, HostAssetIssues, OwnFramework
  <2>4. ASSUME Clean PROVE DoctorIssues(option, missing) = {}
    <3>1. seeded /\ OwnFramework(a) /\ (a \in AssetAdapter => asset # 0)
      BY <2>2, <2>4
         DEF DeployInv, RecordHeld, SeededHeld, AssetThere, Rests, OwnFramework
    <3>. QED
      BY <3>1 DEF DoctorIssues, InternalIssues, HostAssetIssues
  <2>. QED
    BY <2>3, <2>4
<1>. QED
  BY <1>1, DeployInvariant, HealthInvariant, PTL

-----------------------------------------------------------------------------
\* doctor --fix --apply: the types.

LEMMA Paths ==
  /\ Top \in Path /\ Directory \subseteq Path /\ Top \notin Directory
  /\ \A p \in Path : p # Top => p \in Directory
BY DoctorParameters DEF Path, Directory, Top, LoopDirectory

\* The types of what a call keeps
LEMMA NoFixTyped == NoFix \in Fix
BY DEF NoFix, Fix

LEMMA MissingTyped == MissingDirectories \in SUBSET Directory
BY DEF MissingDirectories, Required, Directory

LEMMA MeddlesTyped ==
  ASSUME DoctorTypeOK, Meddles
  PROVE  meddling' \in 0 .. MaxMeddling
BY DoctorParameters DEF DoctorTypeOK, Meddles

\* A call's step leaves the other calls as they are, but for met.
Steps(c, f) ==
  /\ f \in Fix /\ fixer' \in [Fixer -> Fix] /\ fixer'[c] = f
  /\ \A d \in Fixer : d # c =>
       /\ fixer'[d].pc = fixer[d].pc /\ fixer'[d].todo = fixer[d].todo
       /\ fixer'[d].missing = fixer[d].missing /\ fixer'[d].created = fixer[d].created
       /\ fixer'[d].plan = fixer[d].plan /\ fixer'[d].made = fixer[d].made
       /\ fixer'[d].ended = fixer[d].ended
       /\ fixer'[d].met = fixer[d].met \/ fixer'[d].met

LEMMA OneSteps ==
  ASSUME DoctorTypeOK, NEW c \in Fixer, NEW f \in Fix, fixer' = [fixer EXCEPT ![c] = f]
  PROVE  Steps(c, f) /\ \A d \in Fixer : d # c => fixer'[d] = fixer[d]
BY DEF DoctorTypeOK, Steps

\* What each step of a call changes, its record typed
LEMMA BeginFixEffect ==
  ASSUME DoctorTypeOK, NEW c \in Fixer, BeginFix(c)
  PROVE  /\ FixAt(c, "idle") /\ fixer[c].ended = ""
         /\ UNCHANGED <<place, filled, looping, meddling>>
         /\ Steps(c, [NoFix EXCEPT !.pc = "next", !.todo = MissingDirectories,
                                   !.plan = MissingDirectories])
         /\ \A d \in Fixer : d # c => fixer'[d] = fixer[d]
<1> DEFINE f == [NoFix EXCEPT !.pc = "next", !.todo = MissingDirectories,
                              !.plan = MissingDirectories]
<1>1. f \in Fix
  BY NoFixTyped, MissingTyped DEF Fix
<1>2. fixer' = [fixer EXCEPT ![c] = f]
  BY DEF BeginFix
<1> HIDE DEF f
<1>3. Steps(c, f) /\ \A d \in Fixer : d # c => fixer'[d] = fixer[d]
  BY <1>1, <1>2, OneSteps
<1>. QED
  BY <1>3 DEF BeginFix, f

LEMMA NextDirectoryEffect ==
  ASSUME DoctorTypeOK, NEW c \in Fixer, NextDirectory(c)
  PROVE  /\ FixAt(c, "next") /\ UNCHANGED <<place, filled, looping, meddling>>
         /\ \E d \in fixer[c].todo :
              LET there == place[d] # "nothing" IN
                Steps(c, [fixer[c] EXCEPT
                  !.todo = @ \ {d},
                  !.pc = IF there THEN "next" ELSE "make",
                  !.missing = IF there THEN <<>>
                              ELSE IF place[Top] = "nothing" THEN <<Top, d>> ELSE <<d>>])
         /\ \A d \in Fixer : d # c => fixer'[d] = fixer[d]
<1>1. PICK d \in fixer[c].todo :
        fixer' = [fixer EXCEPT
            ![c].todo = @ \ {d},
            ![c].pc = IF place[d] # "nothing" THEN "next" ELSE "make",
            ![c].missing = IF place[d] # "nothing" THEN <<>>
                           ELSE IF place[Top] = "nothing" THEN <<Top, d>> ELSE <<d>>]
  BY DEF NextDirectory
<1> DEFINE list == IF place[d] # "nothing" THEN <<>>
                   ELSE IF place[Top] = "nothing" THEN <<Top, d>> ELSE <<d>>
           f == [fixer[c] EXCEPT !.todo = @ \ {d},
                                 !.pc = IF place[d] # "nothing" THEN "next" ELSE "make",
                                 !.missing = list]
<1>2. d \in Directory
  BY DEF DoctorTypeOK, Fix
<1>3. list \in Seq(Path)
  BY <1>2, Paths
<1>4. fixer[c] \in Fix /\ fixer \in [Fixer -> Fix]
  BY DEF DoctorTypeOK
<1>5. f \in Fix
  BY <1>3, <1>4 DEF Fix
<1>6. fixer' = [fixer EXCEPT ![c] = f]
  BY <1>1, <1>4
<1>7. Steps(c, f) /\ \A e \in Fixer : e # c => fixer'[e] = fixer[e]
  BY <1>5, <1>6, OneSteps
<1>. QED
  BY <1>7 DEF NextDirectory

LEMMA MakeDirectoryEffect ==
  ASSUME DoctorTypeOK, FixesFit, NEW c \in Fixer, MakeDirectory(c)
  PROVE  LET p == Head(fixer[c].missing) IN
           /\ FixAt(c, "make") /\ fixer[c].missing # <<>> /\ p \in Path
           /\ UNCHANGED <<filled, looping, meddling>>
           /\ \A d \in Fixer : d # c => fixer'[d] = fixer[d]
           /\ \/ /\ CanMake(p) /\ place' = [place EXCEPT ![p] = "directory"]
                 /\ Steps(c, [fixer[c] EXCEPT
                      !.missing = Tail(@),
                      !.pc = IF Len(fixer[c].missing) = 1 THEN "next" ELSE "make",
                      !.created = Append(@, p), !.made = @ \cup {p}])
              \/ UNCHANGED place /\ Steps(c, [fixer[c] EXCEPT !.pc = "undo"])
<1> DEFINE p == Head(fixer[c].missing)
           f == [fixer[c] EXCEPT !.missing = Tail(@),
                      !.pc = IF Len(fixer[c].missing) = 1 THEN "next" ELSE "make",
                      !.created = Append(@, p), !.made = @ \cup {p}]
           g == [fixer[c] EXCEPT !.pc = "undo"]
<1>1. /\ FixAt(c, "make") /\ fixer[c].missing # <<>>
      /\ fixer[c] \in Fix /\ fixer \in [Fixer -> Fix]
  BY DEF MakeDirectory, FixesFit, FixFits, FixAt, DoctorTypeOK
<1>2. /\ fixer[c].missing \in Seq(Path) /\ fixer[c].created \in Seq(Path)
      /\ fixer[c].made \in SUBSET Path
  BY <1>1 DEF Fix
<1>3. p \in Path /\ Tail(fixer[c].missing) \in Seq(Path)
  BY <1>1, <1>2
<1>4. Append(fixer[c].created, p) \in Seq(Path)
  BY <1>2, <1>3
<1>5. f \in Fix /\ g \in Fix
  BY <1>1, <1>2, <1>3, <1>4 DEF Fix
<1>6. CASE CanMake(p)
  <2>1. place' = [place EXCEPT ![p] = "directory"]
    BY <1>6 DEF MakeDirectory
  <2>2. fixer' = [fixer EXCEPT ![c] = f]
    BY <1>1, <1>6 DEF MakeDirectory
  <2>3. Steps(c, f) /\ \A d \in Fixer : d # c => fixer'[d] = fixer[d]
    BY <1>5, <2>2, OneSteps
  <2>. QED
    BY <1>1, <1>3, <1>6, <2>1, <2>3 DEF MakeDirectory
<1>7. CASE ~CanMake(p)
  <2>1. UNCHANGED place /\ fixer' = [fixer EXCEPT ![c] = g]
    BY <1>1, <1>7 DEF MakeDirectory
  <2>2. Steps(c, g) /\ \A d \in Fixer : d # c => fixer'[d] = fixer[d]
    BY <1>5, <2>1, OneSteps
  <2>. QED
    BY <1>1, <1>3, <2>1, <2>2 DEF MakeDirectory
<1>. QED
  BY <1>6, <1>7

\* A step that only says where the call is, and how it has ended
LEMMA JumpEffect ==
  ASSUME DoctorTypeOK, NEW c \in Fixer, NEW pc \in {"idle", "undo"},
         NEW ended \in {"", "passed", "issues", "failed", "killed"},
         fixer' = [fixer EXCEPT ![c].pc = pc, ![c].ended = ended]
  PROVE  /\ Steps(c, [fixer[c] EXCEPT !.pc = pc, !.ended = ended])
         /\ \A d \in Fixer : d # c => fixer'[d] = fixer[d]
<1> DEFINE f == [fixer[c] EXCEPT !.pc = pc, !.ended = ended]
<1>1. fixer[c] \in Fix /\ fixer \in [Fixer -> Fix]
  BY DEF DoctorTypeOK
<1>2. f \in Fix /\ fixer' = [fixer EXCEPT ![c] = f]
  BY <1>1 DEF Fix
<1> HIDE DEF f
<1>3. Steps(c, f) /\ \A d \in Fixer : d # c => fixer'[d] = fixer[d]
  BY <1>2, OneSteps
<1>. QED
  BY <1>3 DEF f

LEMMA MakeFailsEffect ==
  ASSUME DoctorTypeOK, NEW c \in Fixer, MakeFails(c)
  PROVE  /\ FixAt(c, "make") /\ UNCHANGED <<place, filled, looping>>
         /\ meddling' \in 0 .. MaxMeddling
         /\ Steps(c, [fixer[c] EXCEPT !.pc = "undo"])
         /\ \A d \in Fixer : d # c => fixer'[d] = fixer[d]
<1> DEFINE f == [fixer[c] EXCEPT !.pc = "undo"]
<1>1. fixer[c] \in Fix /\ fixer \in [Fixer -> Fix]
  BY DEF DoctorTypeOK
<1>2. f \in Fix /\ fixer' = [fixer EXCEPT ![c] = f]
  BY <1>1 DEF Fix, MakeFails
<1>3. Steps(c, f) /\ \A d \in Fixer : d # c => fixer'[d] = fixer[d]
  BY <1>2, OneSteps
<1>. QED
  BY <1>3, MeddlesTyped DEF MakeFails

LEMMA ReportAgainEffect ==
  ASSUME DoctorTypeOK, NEW c \in Fixer, ReportAgain(c)
  PROVE  /\ FixAt(c, "next") /\ fixer[c].todo = {}
         /\ UNCHANGED <<place, filled, looping, meddling>>
         /\ \A d \in Fixer : d # c => fixer'[d] = fixer[d]
         /\ \E how \in {"passed", "issues"} :
              Steps(c, [fixer[c] EXCEPT !.pc = "idle", !.ended = how])
<1>1. PICK how \in {"passed", "issues"} :
        fixer' = [fixer EXCEPT ![c].pc = "idle", ![c].ended = how]
  BY DEF ReportAgain
<1>. QED
  BY <1>1, JumpEffect DEF ReportAgain

LEMMA KillFixEffect ==
  ASSUME DoctorTypeOK, NEW c \in Fixer, KillFix(c)
  PROVE  /\ ~FixAt(c, "idle") /\ UNCHANGED <<place, filled, looping>>
         /\ meddling' \in 0 .. MaxMeddling
         /\ Steps(c, [fixer[c] EXCEPT !.pc = "idle", !.ended = "killed"])
         /\ \A d \in Fixer : d # c => fixer'[d] = fixer[d]
BY JumpEffect, MeddlesTyped DEF KillFix

\* Front and Last of what was made
LEMMA FrontTyped ==
  ASSUME NEW S, NEW s \in Seq(S), s # <<>>
  PROVE  /\ Front(s) \in Seq(S) /\ Len(Front(s)) = Len(s) - 1
         /\ Last(s) = s[Len(s)] /\ Last(s) \in S /\ Len(s) \in DOMAIN s
         /\ DOMAIN Front(s) = 1 .. (Len(s) - 1) /\ DOMAIN s = 1 .. Len(s)
         /\ \A i \in DOMAIN Front(s) : Front(s)[i] = s[i]
<1>1. Len(s) \in Nat \ {0} /\ DOMAIN s = 1 .. Len(s)
  OBVIOUS
<1>2. Front(s) = [i \in 1 .. (Len(s) - 1) |-> s[i]]
  BY <1>1 DEF Front
<1>. QED
  BY <1>1, <1>2 DEF Last

\* One turn of the handler, which removes the last one or does not
Undone(c, f, gone) ==
  LET left == fixer[c].created
      ends == Len(left) <= 1
  IN /\ f.created = IF left = <<>> THEN left ELSE Front(left)
     /\ f.pc = IF ends THEN "idle" ELSE "undo"
     /\ f.ended = IF ends THEN "failed" ELSE ""
     /\ f.todo = fixer[c].todo /\ f.missing = fixer[c].missing
     /\ f.plan = fixer[c].plan /\ f.made = fixer[c].made /\ f.met = fixer[c].met
     /\ gone <=> left # <<>> /\ IsDirectory(Last(left)) /\ ~Occupied(Last(left))
     /\ place' = IF gone THEN [place EXCEPT ![Last(left)] = "nothing"] ELSE place
     /\ \A d \in Fixer : d # c /\ gone => fixer'[d].met
     /\ ~gone => \A d \in Fixer : d # c => fixer'[d] = fixer[d]

LEMMA UndoDirectoryEffect ==
  ASSUME DoctorTypeOK, NEW c \in Fixer, UndoDirectory(c)
  PROVE  /\ FixAt(c, "undo") /\ UNCHANGED <<filled, looping, meddling>>
         /\ \E f \in Fix, gone \in BOOLEAN : Steps(c, f) /\ Undone(c, f, gone)
<1> DEFINE left == fixer[c].created
           ends == Len(left) <= 1
           gone == left # <<>> /\ IsDirectory(Last(left)) /\ ~Occupied(Last(left))
           f == [fixer[c] EXCEPT !.created = IF left = <<>> THEN left ELSE Front(left),
                                 !.pc = IF ends THEN "idle" ELSE "undo",
                                 !.ended = IF ends THEN "failed" ELSE ""]
           next == [fixer EXCEPT ![c].created = IF left = <<>> THEN left ELSE Front(left),
                                 ![c].pc = IF ends THEN "idle" ELSE "undo",
                                 ![c].ended = IF ends THEN "failed" ELSE ""]
<1>1. fixer[c] \in Fix /\ fixer \in [Fixer -> Fix] /\ left \in Seq(Path)
  BY DEF DoctorTypeOK, Fix
<1>2. (IF left = <<>> THEN left ELSE Front(left)) \in Seq(Path)
  BY <1>1, FrontTyped
<1>3. f \in Fix /\ next = [fixer EXCEPT ![c] = f]
  BY <1>1, <1>2 DEF Fix
<1>4. /\ place' = IF gone THEN [place EXCEPT ![Last(left)] = "nothing"] ELSE place
      /\ fixer' = Meets(next, c, gone)
      /\ FixAt(c, "undo") /\ UNCHANGED <<filled, looping, meddling>>
  BY DEF UndoDirectory
<1>5. next \in [Fixer -> Fix] /\ next[c] = f /\ \A d \in Fixer : d # c => next[d] = fixer[d]
  BY <1>1, <1>3
<1>6. /\ f.created = IF left = <<>> THEN left ELSE Front(left)
      /\ f.pc = IF ends THEN "idle" ELSE "undo"
      /\ f.ended = IF ends THEN "failed" ELSE ""
      /\ f.todo = fixer[c].todo /\ f.missing = fixer[c].missing
      /\ f.plan = fixer[c].plan /\ f.made = fixer[c].made /\ f.met = fixer[c].met
  BY <1>1 DEF Fix
<1> HIDE DEF f, next
<1>7. /\ fixer'[c] = f
      /\ \A d \in Fixer : d # c =>
           fixer'[d] = IF gone THEN [fixer[d] EXCEPT !.met = TRUE] ELSE fixer[d]
      /\ fixer' = [d \in Fixer |-> IF d # c /\ gone THEN [next[d] EXCEPT !.met = TRUE]
                                                    ELSE next[d]]
  BY <1>4, <1>5 DEF Meets
<1>8. \A d \in Fixer : [fixer[d] EXCEPT !.met = TRUE] \in Fix
  BY <1>1 DEF Fix
<1>9. fixer' \in [Fixer -> Fix]
  BY <1>1, <1>3, <1>5, <1>7, <1>8
<1>10. Steps(c, f)
  <2>1. ASSUME NEW d \in Fixer, d # c
        PROVE  /\ fixer'[d].pc = fixer[d].pc /\ fixer'[d].todo = fixer[d].todo
               /\ fixer'[d].missing = fixer[d].missing
               /\ fixer'[d].created = fixer[d].created
               /\ fixer'[d].plan = fixer[d].plan /\ fixer'[d].made = fixer[d].made
               /\ fixer'[d].ended = fixer[d].ended
               /\ fixer'[d].met = fixer[d].met \/ fixer'[d].met
    <3>1. fixer[d] \in Fix
      BY <1>1, <2>1
    <3>2. CASE gone
      <4>1. fixer'[d] = [fixer[d] EXCEPT !.met = TRUE]
        BY <1>7, <2>1, <3>2
      <4>. QED
        BY <3>1, <4>1 DEF Fix
    <3>3. CASE ~gone
      <4>1. fixer'[d] = fixer[d]
        BY <1>7, <2>1, <3>3
      <4>. QED
        BY <4>1
    <3>. QED
      BY <3>2, <3>3
  <2>. QED
    BY <1>3, <1>7, <1>9, <2>1 DEF Steps
<1>11. Undone(c, f, gone)
  <2>1. ASSUME NEW d \in Fixer, d # c, gone PROVE fixer'[d].met
    <3>1. fixer[d] \in Fix /\ fixer'[d] = [fixer[d] EXCEPT !.met = TRUE]
      BY <1>1, <1>7, <2>1
    <3>. QED
      BY <3>1 DEF Fix
  <2>2. ~gone => \A d \in Fixer : d # c => fixer'[d] = fixer[d]
    BY <1>7
  <2>. QED
    BY <1>4, <1>6, <2>1, <2>2 DEF Undone
<1>. QED
  BY <1>3, <1>4, <1>10, <1>11

\* What anybody else does takes nothing away.
LEMMA OthersEffect ==
  ASSUME DoctorTypeOK, OthersWrite \/ OthersBlock \/ ProfileChanges
  PROVE  /\ fixer' = fixer /\ meddling' \in 0 .. MaxMeddling /\ looping' \in BOOLEAN
         /\ place' \in [Path -> {"nothing", "directory", "file"}]
         /\ \/ \E d \in Directory :
                 /\ place[d] \in {"nothing", "directory"} /\ place[Top] # "file"
                 /\ place' = [place EXCEPT ![d] = "directory", ![Top] = "directory"]
                 /\ filled' = filled \cup {d}
            \/ \E p \in Path : CanMake(p) /\ place' = [place EXCEPT ![p] = "file"]
                               /\ filled' = filled
            \/ UNCHANGED <<place, filled>>
<1>1. CASE OthersWrite
  <2>1. PICK d \in Directory :
                 /\ place[d] \in {"nothing", "directory"} /\ place[Top] # "file"
                 /\ place' = [place EXCEPT ![d] = "directory", ![Top] = "directory"]
                 /\ filled' = filled \cup {d}
    BY <1>1 DEF OthersWrite
  <2>2. place' \in [Path -> {"nothing", "directory", "file"}]
    BY <2>1 DEF DoctorTypeOK
  <2>. QED
    BY <1>1, <2>1, <2>2, MeddlesTyped DEF OthersWrite, DoctorTypeOK
<1>2. CASE OthersBlock
  <2>1. PICK p \in Path : CanMake(p) /\ place' = [place EXCEPT ![p] = "file"]
    BY <1>2 DEF OthersBlock
  <2>2. place' \in [Path -> {"nothing", "directory", "file"}]
    BY <2>1 DEF DoctorTypeOK
  <2>. QED
    BY <1>2, <2>1, <2>2, MeddlesTyped DEF OthersBlock, DoctorTypeOK
<1>3. CASE ProfileChanges
  BY <1>3, MeddlesTyped DEF ProfileChanges, DoctorTypeOK
<1>. QED
  BY <1>1, <1>2, <1>3

\* The inductive invariant
FixInv == DoctorTypeOK /\ Parented /\ CreatedStands /\ FixesFit

\* Every step keeps the types, ...
LEMMA FixTypes ==
  ASSUME FixInv, [DoctorNext]_doctorVars
  PROVE  DoctorTypeOK'
<1> USE DEF FixInv
<1>1. ASSUME NEW c \in Fixer, BeginFix(c) PROVE DoctorTypeOK'
  BY <1>1, BeginFixEffect DEF DoctorTypeOK, Steps
<1>2. ASSUME NEW c \in Fixer, NextDirectory(c) PROVE DoctorTypeOK'
  BY <1>2, NextDirectoryEffect DEF DoctorTypeOK, Steps
<1>3. ASSUME NEW c \in Fixer, MakeDirectory(c) PROVE DoctorTypeOK'
  <2>1. place' \in [Path -> {"nothing", "directory", "file"}]
    BY <1>3, MakeDirectoryEffect DEF DoctorTypeOK
  <2>2. fixer' \in [Fixer -> Fix]
    BY <1>3, MakeDirectoryEffect DEF Steps
  <2>. QED
    BY <1>3, <2>1, <2>2, MakeDirectoryEffect DEF DoctorTypeOK
<1>4. ASSUME NEW c \in Fixer, MakeFails(c) PROVE DoctorTypeOK'
  BY <1>4, MakeFailsEffect DEF DoctorTypeOK, Steps
<1>5. ASSUME NEW c \in Fixer, UndoDirectory(c) PROVE DoctorTypeOK'
  <2>1. PICK f \in Fix, gone \in BOOLEAN : Steps(c, f) /\ Undone(c, f, gone)
    BY <1>5, UndoDirectoryEffect
  <2>2. place' \in [Path -> {"nothing", "directory", "file"}]
    BY <2>1 DEF Undone, DoctorTypeOK
  <2>. QED
    BY <1>5, <2>1, <2>2, UndoDirectoryEffect DEF DoctorTypeOK, Steps
<1>6. ASSUME NEW c \in Fixer, ReportAgain(c) PROVE DoctorTypeOK'
  BY <1>6, ReportAgainEffect DEF DoctorTypeOK, Steps
<1>7. ASSUME NEW c \in Fixer, KillFix(c) PROVE DoctorTypeOK'
  BY <1>7, KillFixEffect DEF DoctorTypeOK, Steps
<1>8. CASE OthersWrite \/ OthersBlock \/ ProfileChanges
  <2>1. filled' \in SUBSET Directory
    BY <1>8, OthersEffect DEF DoctorTypeOK
  <2>. QED
    BY <1>8, <2>1, OthersEffect DEF DoctorTypeOK
<1>9. CASE UNCHANGED doctorVars
  BY <1>9 DEF doctorVars, DoctorTypeOK
<1>. QED
  BY <1>1, <1>2, <1>3, <1>4, <1>5, <1>6, <1>7, <1>8, <1>9 DEF DoctorNext

\* ... the parents: only an undo takes a directory away, an empty one, ...
LEMMA ParentStep ==
  ASSUME FixInv, [DoctorNext]_doctorVars
  PROVE  Parented'
<1> USE DEF FixInv
<1>1. CASE UNCHANGED place
  BY <1>1 DEF Parented, IsDirectory
<1>2. ASSUME NEW c \in Fixer, MakeDirectory(c), ~UNCHANGED place PROVE Parented'
  <2>1. PICK p \in Path : CanMake(p) /\ place' = [place EXCEPT ![p] = "directory"]
    BY <1>2, MakeDirectoryEffect
  <2>. QED
    BY <2>1, Paths DEF Parented, CanMake, IsDirectory, DoctorTypeOK
<1>3. ASSUME NEW c \in Fixer, UndoDirectory(c), ~UNCHANGED place PROVE Parented'
  <2>1. PICK p \in Path : ~Occupied(p) /\ place' = [place EXCEPT ![p] = "nothing"]
    <3>1. PICK f \in Fix, gone \in BOOLEAN : Undone(c, f, gone)
      BY <1>3, UndoDirectoryEffect
    <3>2. fixer[c].created \in Seq(Path)
      BY DEF DoctorTypeOK, Fix
    <3>3. /\ fixer[c].created # <<>> /\ ~Occupied(Last(fixer[c].created))
          /\ place' = [place EXCEPT ![Last(fixer[c].created)] = "nothing"]
      BY <1>3, <3>1 DEF Undone
    <3>. QED
      BY <3>2, <3>3, FrontTyped
  <2>. QED
    BY <2>1, Paths DEF Parented, Occupied, Children, IsDirectory, DoctorTypeOK
<1>4. CASE OthersWrite \/ OthersBlock \/ ProfileChanges
  BY <1>4, OthersEffect, Paths DEF Parented, CanMake, IsDirectory, DoctorTypeOK
<1>5. CASE UNCHANGED doctorVars
  BY <1>1, <1>5 DEF doctorVars
<1>. QED
  BY <1>1, <1>2, <1>3, <1>4, <1>5, BeginFixEffect, NextDirectoryEffect, MakeFailsEffect,
     ReportAgainEffect, KillFixEffect DEF DoctorNext

\* What a call has noted
NotesStay(c) ==
  fixer'[c].created = fixer[c].created /\ fixer'[c].made = fixer[c].made

LEMMA FixerTyped ==
  ASSUME FixInv, NEW c \in Fixer
  PROVE  /\ fixer[c] \in Fix /\ fixer[c].created \in Seq(Path)
         /\ \A i \in DOMAIN fixer[c].created : fixer[c].created[i] \in Path
<1>1. fixer[c] \in Fix
  BY DEF FixInv, DoctorTypeOK
<1>2. fixer[c].created \in Seq(Path)
  BY <1>1 DEF Fix
<1>. QED
  BY <1>1, <1>2

LEMMA NotesKept ==
  ASSUME FixInv, NEW c \in Fixer, NEW f, Steps(c, f),
         f.created = fixer[c].created, f.made = fixer[c].made
  PROVE  \A d \in Fixer : NotesStay(d)
BY DEF Steps, NotesStay

LEMMA CreatedKept ==
  ASSUME FixInv, \A c \in Fixer : NotesStay(c) \/ fixer'[c].created = <<>>,
         \A p \in Path : IsDirectory(p) => IsDirectory(p)'
  PROVE  CreatedStands'
<1> SUFFICES ASSUME NEW c \in Fixer, NEW i \in DOMAIN fixer'[c].created
             PROVE  LET p == fixer'[c].created[i] IN
                      /\ place'[p] = "directory" /\ p \in fixer'[c].made
                      /\ p = Top => i = 1
                      /\ \A d \in Fixer : \A k \in DOMAIN fixer'[d].created :
                           fixer'[d].created[k] = p => d = c /\ k = i
  BY DEF CreatedStands, IsDirectory
<1>1. \A d \in Fixer : \A k \in DOMAIN fixer'[d].created : NotesStay(d)
  OBVIOUS
<1>2. fixer'[c].created = fixer[c].created /\ fixer'[c].made = fixer[c].made
  BY <1>1 DEF NotesStay
<1> DEFINE p == fixer[c].created[i]
<1>3. p \in Path
  BY <1>2, FixerTyped
<1>4. /\ IsDirectory(p) /\ p \in fixer[c].made /\ (p = Top => i = 1)
      /\ \A d \in Fixer : \A k \in DOMAIN fixer[d].created :
           fixer[d].created[k] = p => d = c /\ k = i
  BY <1>2 DEF FixInv, CreatedStands
<1>5. place'[p] = "directory"
  BY <1>3, <1>4 DEF IsDirectory
<1> HIDE DEF p
<1>6. \A d \in Fixer : \A k \in DOMAIN fixer'[d].created :
        fixer'[d].created[k] = p => d = c /\ k = i
  BY <1>1, <1>4 DEF NotesStay
<1>. QED
  BY <1>2, <1>4, <1>5, <1>6 DEF p

\* ... what is noted, ...
LEMMA CreatedStep ==
  ASSUME FixInv, [DoctorNext]_doctorVars
  PROVE  CreatedStands'
<1>1. ASSUME NEW c \in Fixer, BeginFix(c) PROVE CreatedStands'
  <2>1. fixer'[c].created = <<>> /\ UNCHANGED place
    <3> DEFINE f == [NoFix EXCEPT !.pc = "next", !.todo = MissingDirectories,
                                  !.plan = MissingDirectories]
    <3>1. f.created = <<>>
      BY DEF NoFix
    <3>2. Steps(c, f) /\ UNCHANGED place
      BY <1>1, BeginFixEffect DEF FixInv
    <3>. QED
      BY <3>1, <3>2 DEF Steps
  <2>2. \A d \in Fixer : d # c => NotesStay(d)
    BY <1>1, BeginFixEffect DEF FixInv, NotesStay
  <2>. QED
    BY <2>1, <2>2, CreatedKept DEF IsDirectory
<1>2. ASSUME NEW c \in Fixer, NextDirectory(c) PROVE CreatedStands'
  <2>1. UNCHANGED place /\ \A d \in Fixer : d # c => NotesStay(d)
    BY <1>2, NextDirectoryEffect DEF FixInv, NotesStay
  <2>2. PICK f : /\ Steps(c, f) /\ f.created = fixer[c].created
                 /\ f.made = fixer[c].made
    <3>1. PICK d \in fixer[c].todo :
            LET there == place[d] # "nothing" IN
                Steps(c, [fixer[c] EXCEPT
                  !.todo = @ \ {d},
                  !.pc = IF there THEN "next" ELSE "make",
                  !.missing = IF there THEN <<>>
                              ELSE IF place[Top] = "nothing" THEN <<Top, d>> ELSE <<d>>])
      BY <1>2, NextDirectoryEffect DEF FixInv
    <3> DEFINE there == place[d] # "nothing"
               g == [fixer[c] EXCEPT
                  !.todo = @ \ {d},
                  !.pc = IF there THEN "next" ELSE "make",
                  !.missing = IF there THEN <<>>
                              ELSE IF place[Top] = "nothing" THEN <<Top, d>> ELSE <<d>>]
    <3>2. g.created = fixer[c].created /\ g.made = fixer[c].made
      BY FixerTyped DEF Fix
    <3>3. Steps(c, g)
      BY <3>1
    <3>. QED
      BY <3>2, <3>3
  <2>. QED
    BY <2>1, <2>2, NotesKept, CreatedKept DEF IsDirectory
<1>3. ASSUME NEW c \in Fixer, MakeDirectory(c) PROVE CreatedStands'
  <2> DEFINE p == Head(fixer[c].missing)
             f == [fixer[c] EXCEPT
                      !.missing = Tail(@),
                      !.pc = IF Len(fixer[c].missing) = 1 THEN "next" ELSE "make",
                      !.created = Append(@, p), !.made = @ \cup {p}]
  <2>1. /\ p \in Path /\ \A d \in Fixer : d # c => fixer'[d] = fixer[d]
        /\ \/ CanMake(p) /\ place' = [place EXCEPT ![p] = "directory"] /\ Steps(c, f)
           \/ UNCHANGED place /\ Steps(c, [fixer[c] EXCEPT !.pc = "undo"])
    BY <1>3, MakeDirectoryEffect DEF FixInv
  <2>2. CASE UNCHANGED place /\ Steps(c, [fixer[c] EXCEPT !.pc = "undo"])
    <3>1. NotesStay(c) /\ \A d \in Fixer : d # c => NotesStay(d)
      BY <2>1, <2>2 DEF FixInv, NotesStay, Steps, DoctorTypeOK, Fix
    <3>. QED
      BY <2>2, <3>1, CreatedKept DEF IsDirectory
  <2>3. CASE CanMake(p) /\ place' = [place EXCEPT ![p] = "directory"] /\ Steps(c, f)
    <3> DEFINE old == fixer[c].created
               new == fixer'[c].created
    <3>1. old \in Seq(Path) /\ new = Append(old, p) /\ fixer'[c].made = fixer[c].made \cup {p}
      BY <2>3 DEF FixInv, Steps, DoctorTypeOK, Fix
    <3>2. /\ DOMAIN old = 1 .. Len(old) /\ Len(old) \in Nat
          /\ DOMAIN new = 1 .. (Len(old) + 1)
          /\ new[Len(old) + 1] = p /\ \A i \in DOMAIN old : new[i] = old[i]
      BY <2>1, <3>1
    <3>3. ~IsDirectory(p) /\ place'[p] = "directory"
      BY <2>1, <2>3 DEF CanMake, IsDirectory, FixInv, DoctorTypeOK
    <3>4. \A q \in Path : IsDirectory(q) => IsDirectory(q)'
      BY <2>3 DEF IsDirectory, FixInv, DoctorTypeOK
    <3>5. \A d \in Fixer : \A k \in DOMAIN fixer[d].created :
            /\ fixer[d].created[k] \in Path /\ IsDirectory(fixer[d].created[k])
            /\ fixer[d].created[k] # p
      BY <3>3, FixerTyped DEF FixInv, CreatedStands
    <3>6. p = Top => Len(old) = 0
      <4> SUFFICES ASSUME p = Top, Len(old) # 0 PROVE FALSE
        OBVIOUS
      <4>1. IsDirectory(old[1]) /\ old[1] \in Path /\ old[1] # Top
        BY <3>2, <3>5
      <4>2. IsDirectory(Top)
        BY <4>1, Paths DEF FixInv, Parented, IsDirectory
      <4>. QED
        BY <3>3, <4>2
    <3> HIDE DEF p, f, old, new
    <3>7. \A d \in Fixer : d # c => fixer'[d].created = fixer[d].created /\ fixer'[d].made = fixer[d].made
      BY <2>1
    <3>8. ASSUME NEW d \in Fixer, NEW i \in DOMAIN fixer'[d].created
          PROVE  \/ i \in DOMAIN fixer[d].created /\ fixer'[d].created[i] = fixer[d].created[i]
                 \/ d = c /\ i = Len(old) + 1 /\ fixer'[d].created[i] = p
      <4>1. CASE d # c
        BY <3>7, <4>1
      <4>2. CASE d = c
        <5>1. i \in 1 .. (Len(old) + 1)
          BY <3>2, <4>2 DEF new
        <5>2. i \in DOMAIN old \/ i = Len(old) + 1
          BY <3>2, <5>1
        <5>3. fixer'[d].created = new /\ fixer[d].created = old
          BY <4>2 DEF old, new
        <5>. QED
          BY <3>2, <4>2, <5>2, <5>3
      <4>. QED
        BY <4>1, <4>2
    <3>9. ASSUME NEW d \in Fixer, NEW i \in DOMAIN fixer'[d].created
          PROVE  LET q == fixer'[d].created[i] IN
                   /\ place'[q] = "directory" /\ q \in fixer'[d].made
                   /\ q = Top => i = 1
                   /\ \A e \in Fixer : \A k \in DOMAIN fixer'[e].created :
                        fixer'[e].created[k] = q => e = d /\ k = i
      <4>1. CASE i \in DOMAIN fixer[d].created /\ fixer'[d].created[i] = fixer[d].created[i]
        <5>1. fixer[d].created[i] \in fixer'[d].made
          BY <3>1, <3>7, <4>1 DEF FixInv, CreatedStands
        <5>2. \A e \in Fixer : \A k \in DOMAIN fixer'[e].created :
                fixer'[e].created[k] = fixer[d].created[i] => e = d /\ k = i
          BY <3>5, <3>8, <4>1 DEF FixInv, CreatedStands
        <5>. QED
          BY <3>4, <3>5, <4>1, <5>1, <5>2 DEF FixInv, CreatedStands, IsDirectory
      <4>2. CASE d = c /\ i = Len(old) + 1 /\ fixer'[d].created[i] = p
        <5>1. \A e \in Fixer : \A k \in DOMAIN fixer'[e].created :
                fixer'[e].created[k] = p => e = d /\ k = i
          BY <3>5, <3>8, <4>2
        <5>. QED
          BY <3>1, <3>3, <3>6, <4>2, <5>1
      <4>. QED
        BY <3>8, <4>1, <4>2
    <3>. QED
      BY <3>9 DEF CreatedStands, IsDirectory
  <2>. QED
    BY <2>1, <2>2, <2>3
<1>4. ASSUME NEW c \in Fixer, MakeFails(c) PROVE CreatedStands'
  <2>1. PICK f : /\ UNCHANGED place /\ Steps(c, f)
                 /\ f.created = fixer[c].created /\ f.made = fixer[c].made
    <3> DEFINE g == [fixer[c] EXCEPT !.pc = "undo"]
    <3>1. g.created = fixer[c].created /\ g.made = fixer[c].made
      BY FixerTyped DEF Fix
    <3>2. UNCHANGED place /\ Steps(c, g)
      BY <1>4, MakeFailsEffect DEF FixInv
    <3>. QED
      BY <3>1, <3>2
  <2>. QED
    BY <2>1, NotesKept, CreatedKept DEF IsDirectory
<1>5. ASSUME NEW c \in Fixer, UndoDirectory(c) PROVE CreatedStands'
  <2> DEFINE left == fixer[c].created
  <2>1. PICK f \in Fix, gone \in BOOLEAN : Steps(c, f) /\ Undone(c, f, gone)
    BY <1>5, UndoDirectoryEffect DEF FixInv
  <2>2. \A d \in Fixer : d # c => NotesStay(d)
    BY <2>1 DEF Steps, NotesStay
  <2>3. left \in Seq(Path) /\ fixer'[c].made = fixer[c].made
    BY <2>1 DEF FixInv, DoctorTypeOK, Fix, Steps, Undone
  <2>4. CASE left = <<>>
    <3>1. UNCHANGED place /\ fixer'[c].created = left
      BY <2>1, <2>4 DEF Undone, Steps
    <3>. QED
      BY <2>2, <2>3, <3>1, CreatedKept DEF NotesStay, IsDirectory
  <2>5. CASE left # <<>>
    <3>1. /\ fixer'[c].created = Front(left)
          /\ place' = IF gone THEN [place EXCEPT ![Last(left)] = "nothing"] ELSE place
      BY <2>1, <2>5 DEF Undone, Steps
    <3>2. /\ DOMAIN Front(left) = 1 .. (Len(left) - 1) /\ DOMAIN left = 1 .. Len(left)
          /\ \A i \in DOMAIN Front(left) : Front(left)[i] = left[i]
          /\ Last(left) = left[Len(left)] /\ Len(left) \in DOMAIN left /\ Len(left) \in Nat
      <4> HIDE DEF left
      <4>1. Len(left) \in Nat
        BY <2>3
      <4>. QED
        BY <2>3, <2>5, <4>1, FrontTyped
    <3>3. ASSUME NEW d \in Fixer, NEW i \in DOMAIN fixer'[d].created
          PROVE  /\ i \in DOMAIN fixer[d].created
                 /\ fixer'[d].created[i] = fixer[d].created[i]
                 /\ fixer[d].created[i] \in Path /\ fixer[d].created[i] # Last(left)
                 /\ fixer'[d].made = fixer[d].made
      <4>1. CASE d = c
        <5>1. i \in DOMAIN left /\ i # Len(left) /\ fixer'[c].created[i] = left[i]
          BY <3>1, <3>2, <4>1
        <5>2. left[i] # Last(left)
          BY <3>2, <5>1 DEF FixInv, CreatedStands
        <5>. QED
          BY <2>3, <4>1, <5>1, <5>2
      <4>2. CASE d # c
        <5>1. fixer'[d].created = fixer[d].created /\ fixer'[d].made = fixer[d].made
          BY <2>2, <4>2 DEF NotesStay
        <5>2. fixer[d].created[i] # Last(left)
          BY <3>2, <4>2, <5>1 DEF FixInv, CreatedStands
        <5>. QED
          BY <5>1, <5>2, FixerTyped
      <4>. QED
        BY <4>1, <4>2
    <3>4. \A q \in Path : IsDirectory(q) /\ q # Last(left) => IsDirectory(q)'
      BY <3>1 DEF IsDirectory, FixInv, DoctorTypeOK
    <3> HIDE DEF left
    <3>5. ASSUME NEW d \in Fixer, NEW i \in DOMAIN fixer'[d].created
          PROVE  LET q == fixer'[d].created[i] IN
                   /\ place'[q] = "directory" /\ q \in fixer'[d].made
                   /\ q = Top => i = 1
                   /\ \A e \in Fixer : \A k \in DOMAIN fixer'[e].created :
                        fixer'[e].created[k] = q => e = d /\ k = i
      BY <3>3, <3>4 DEF FixInv, CreatedStands, IsDirectory
    <3>. QED
      BY <3>5 DEF CreatedStands, IsDirectory
  <2>. QED
    BY <2>4, <2>5
<1>6. ASSUME NEW c \in Fixer, ReportAgain(c) PROVE CreatedStands'
  <2>1. PICK f : /\ UNCHANGED place /\ Steps(c, f)
                 /\ f.created = fixer[c].created /\ f.made = fixer[c].made
    <3>1. PICK how \in {"passed", "issues"} :
            UNCHANGED place /\ Steps(c, [fixer[c] EXCEPT !.pc = "idle", !.ended = how])
      BY <1>6, ReportAgainEffect DEF FixInv
    <3> DEFINE g == [fixer[c] EXCEPT !.pc = "idle", !.ended = how]
    <3>2. g.created = fixer[c].created /\ g.made = fixer[c].made
      BY FixerTyped DEF Fix
    <3>. QED
      BY <3>1, <3>2
  <2>. QED
    BY <2>1, NotesKept, CreatedKept DEF IsDirectory
<1>7. ASSUME NEW c \in Fixer, KillFix(c) PROVE CreatedStands'
  <2>1. PICK f : /\ UNCHANGED place /\ Steps(c, f)
                 /\ f.created = fixer[c].created /\ f.made = fixer[c].made
    <3> DEFINE g == [fixer[c] EXCEPT !.pc = "idle", !.ended = "killed"]
    <3>1. g.created = fixer[c].created /\ g.made = fixer[c].made
      BY FixerTyped DEF Fix
    <3>2. UNCHANGED place /\ Steps(c, g)
      BY <1>7, KillFixEffect DEF FixInv
    <3>. QED
      BY <3>1, <3>2
  <2>. QED
    BY <2>1, NotesKept, CreatedKept DEF IsDirectory
<1>8. CASE OthersWrite \/ OthersBlock \/ ProfileChanges
  <2>1. \A d \in Fixer : NotesStay(d)
    BY <1>8, OthersEffect DEF FixInv, NotesStay
  <2>2. \A q \in Path : IsDirectory(q) => IsDirectory(q)'
    BY <1>8, OthersEffect DEF FixInv, DoctorTypeOK, IsDirectory, CanMake
  <2>. QED
    BY <2>1, <2>2, CreatedKept
<1>9. CASE UNCHANGED doctorVars
  BY <1>9, CreatedKept DEF doctorVars, NotesStay, IsDirectory
<1>. QED
  BY <1>1, <1>2, <1>3, <1>4, <1>5, <1>6, <1>7, <1>8, <1>9 DEF DoctorNext

\* ... and where a call's directories are.  A call that takes no step itself:
LEMMA FitsStay ==
  ASSUME FixInv, NEW d \in Fixer,
         /\ fixer'[d].pc = fixer[d].pc /\ fixer'[d].todo = fixer[d].todo
         /\ fixer'[d].missing = fixer[d].missing /\ fixer'[d].created = fixer[d].created
         /\ fixer'[d].plan = fixer[d].plan /\ fixer'[d].made = fixer[d].made
         /\ fixer'[d].ended = fixer[d].ended,
         fixer[d].met => fixer'[d].met,
         \A e \in Fixer : fixer[e].made \subseteq fixer'[e].made,
         filled \subseteq filled',
         \A p \in Directory : place[p] # "directory" /\ place'[p] = "directory" =>
           p \in filled' \/ \E e \in Fixer \ {d} : p \in fixer'[e].made,
         fixer'[d].met \/ \A p \in Path : place[p] # "nothing" => place'[p] # "nothing"
  PROVE  FixFits(d)'
<1>1. FixFits(d)
  BY DEF FixInv, FixesFit
<1>2. fixer[d].made \subseteq Path /\ fixer[d].plan \subseteq Directory
  BY FixerTyped DEF Fix
<1>3. \A p \in fixer[d].made : Noted(d, p) => Noted(d, p)'
  BY DEF Noted
<1>4. \A p \in fixer[d].made : Done(d, p) => Done(d, p)'
  BY <1>2, Paths DEF Done, IsDirectory
<1>5. \A p \in fixer[d].plan : Pending(d, p) => Pending(d, p)'
  BY DEF Pending
<1>6. \A p \in fixer[d].plan :
        fixer'[d].met \/ (place[p] # "nothing" => place'[p] # "nothing")
  BY <1>2, Paths
<1>. QED
  BY <1>1, <1>3, <1>4, <1>5, <1>6 DEF FixFits, FixAt

\* The others are as they were, if a step of c makes nothing that it does not note.
LEMMA OthersFit ==
  ASSUME FixInv, NEW c \in Fixer, NEW f, Steps(c, f),
         fixer[c].made \subseteq f.made, filled' = filled,
         \A p \in Directory : place[p] # "directory" /\ place'[p] = "directory" => p \in f.made,
         \/ \A d \in Fixer : d # c => fixer'[d].met
         \/ \A p \in Path : place[p] # "nothing" => place'[p] # "nothing"
  PROVE  \A d \in Fixer : d # c => FixFits(d)'
<1> SUFFICES ASSUME NEW d \in Fixer, d # c PROVE FixFits(d)'
  OBVIOUS
<1>1. \A e \in Fixer : fixer[e].made \subseteq fixer'[e].made
  BY DEF Steps
<1>2. \A p \in Directory : place[p] # "directory" /\ place'[p] = "directory" =>
        \E e \in Fixer \ {d} : p \in fixer'[e].made
  BY DEF Steps
<1>3. fixer[d].met => fixer'[d].met
  BY FixerTyped DEF Steps, Fix
<1>. QED
  BY <1>1, <1>2, <1>3, FitsStay DEF Steps

\* Every step keeps them where they are to be.
LEMMA FitStep ==
  ASSUME FixInv, [DoctorNext]_doctorVars
  PROVE  FixesFit'
<1> USE DEF FixesFit
<1>1. ASSUME NEW c \in Fixer, BeginFix(c) PROVE FixesFit'
  <2> DEFINE f == [NoFix EXCEPT !.pc = "next", !.todo = MissingDirectories,
                                !.plan = MissingDirectories]
  <2>1. /\ f.pc = "next" /\ f.ended = "" /\ f.made = {} /\ f.missing = <<>>
        /\ f.todo = f.plan
    BY DEF NoFix
  <2>2. /\ Steps(c, f) /\ UNCHANGED <<place, filled>>
        /\ FixAt(c, "idle") /\ fixer[c].ended = ""
    BY <1>1, BeginFixEffect DEF FixInv
  <2> HIDE DEF f
  <2>3. fixer[c].made = {}
    BY <2>2 DEF FixInv, FixFits
  <2>4. FixFits(c)'
    BY <2>1, <2>2 DEF Steps, FixFits, FixAt, Pending
  <2>5. \A d \in Fixer : d # c => FixFits(d)'
    BY <2>2, <2>3, OthersFit
  <2>. QED
    BY <2>4, <2>5
<1>2. ASSUME NEW c \in Fixer, NextDirectory(c) PROVE FixesFit'
  <2>1. PICK d \in fixer[c].todo :
          LET there == place[d] # "nothing" IN
            Steps(c, [fixer[c] EXCEPT
                  !.todo = @ \ {d},
                  !.pc = IF there THEN "next" ELSE "make",
                  !.missing = IF there THEN <<>>
                              ELSE IF place[Top] = "nothing" THEN <<Top, d>> ELSE <<d>>])
    BY <1>2, NextDirectoryEffect DEF FixInv
  <2> DEFINE there == place[d] # "nothing"
             list == IF there THEN <<>>
                     ELSE IF place[Top] = "nothing" THEN <<Top, d>> ELSE <<d>>
             f == [fixer[c] EXCEPT !.todo = @ \ {d},
                                   !.pc = IF there THEN "next" ELSE "make",
                                   !.missing = list]
  <2>2. /\ f.pc = IF there THEN "next" ELSE "make"
        /\ f.todo = fixer[c].todo \ {d} /\ f.missing = list
        /\ f.created = fixer[c].created /\ f.made = fixer[c].made
        /\ f.plan = fixer[c].plan /\ f.met = fixer[c].met /\ f.ended = fixer[c].ended
    BY FixerTyped DEF Fix
  <2>3. Steps(c, f) /\ UNCHANGED <<place, filled>> /\ FixAt(c, "next")
    BY <1>2, <2>1, NextDirectoryEffect DEF FixInv
  <2> HIDE DEF f
  <2>4. FixFits(c)
    BY DEF FixInv
  <2>5. ~there => list # <<>> /\ \E i \in DOMAIN list : list[i] = d
    <3>1. 2 \in DOMAIN <<Top, d>> /\ <<Top, d>>[2] = d
      OBVIOUS
    <3>2. 1 \in DOMAIN <<d>> /\ <<d>>[1] = d
      OBVIOUS
    <3>3. <<Top, d>> # <<>> /\ <<d>> # <<>>
      OBVIOUS
    <3>. QED
      BY <3>1, <3>2, <3>3
  <2>6. ASSUME ~fixer'[c].met, NEW p \in fixer'[c].plan
        PROVE  place'[p] # "nothing" \/ Pending(c, p)'
    <3>1. place[p] # "nothing" \/ Pending(c, p)
      BY <2>2, <2>3, <2>4, <2>6 DEF Steps, FixFits, FixAt
    <3>2. ~\E i \in DOMAIN fixer[c].missing : fixer[c].missing[i] = p
      <4>1. fixer[c].missing = <<>>
        BY <2>3, <2>4 DEF FixFits, FixAt
      <4>2. DOMAIN << >> = {}
        OBVIOUS
      <4>. QED
        BY <4>1, <4>2
    <3>3. CASE p = d
      BY <2>2, <2>3, <2>5, <3>3 DEF Steps, Pending
    <3>4. CASE p # d
      BY <2>2, <2>3, <3>1, <3>2, <3>4 DEF Steps, Pending
    <3>. QED
      BY <3>3, <3>4
  <2>7. \A p \in fixer'[c].made : Noted(c, p)'
    <3>1. \A p \in fixer[c].made : Noted(c, p)
      BY <2>3, <2>4 DEF FixFits
    <3>. QED
      BY <2>2, <2>3, <3>1 DEF Steps, Noted
  <2> HIDE DEF list
  <2>8. FixFits(c)'
    BY <2>2, <2>3, <2>4, <2>5, <2>6, <2>7 DEF Steps, FixFits, FixAt, list
  <2>9. \A d2 \in Fixer : d2 # c => FixFits(d2)'
    BY <2>2, <2>3, OthersFit
  <2>. QED
    BY <2>8, <2>9
<1>3. ASSUME NEW c \in Fixer, MakeDirectory(c) PROVE FixesFit'
  <2> DEFINE list == fixer[c].missing
             p == Head(list)
             f == [fixer[c] EXCEPT
                      !.missing = Tail(@),
                      !.pc = IF Len(fixer[c].missing) = 1 THEN "next" ELSE "make",
                      !.created = Append(@, p), !.made = @ \cup {p}]
             g == [fixer[c] EXCEPT !.pc = "undo"]
  <2>1. /\ p \in Path /\ FixAt(c, "make") /\ filled' = filled /\ list # <<>>
        /\ \/ CanMake(p) /\ place' = [place EXCEPT ![p] = "directory"] /\ Steps(c, f)
           \/ UNCHANGED place /\ Steps(c, g)
    BY <1>3, MakeDirectoryEffect DEF FixInv
  <2>2. FixFits(c)
    BY DEF FixInv
  <2>3. CASE UNCHANGED place /\ Steps(c, g)
    <3>1. /\ g.pc = "undo" /\ g.ended = fixer[c].ended /\ g.made = fixer[c].made
          /\ g.created = fixer[c].created
      BY FixerTyped DEF Fix
    <3> HIDE DEF g
    <3>2. FixFits(c)'
      <4>1. \A q \in fixer[c].made : Noted(c, q)
        BY <2>1, <2>2 DEF FixFits
      <4>2. \A q \in fixer'[c].made : Noted(c, q)'
        BY <2>3, <3>1, <4>1 DEF Steps, Noted
      <4>. QED
        BY <2>1, <2>2, <2>3, <3>1, <4>2 DEF Steps, FixFits, FixAt
    <3>3. \A d \in Fixer : d # c => FixFits(d)'
      BY <2>1, <2>3, <3>1, OthersFit
    <3>. QED
      BY <3>2, <3>3
  <2>4. CASE CanMake(p) /\ place' = [place EXCEPT ![p] = "directory"] /\ Steps(c, f)
    <3>1. /\ f.pc = IF Len(list) = 1 THEN "next" ELSE "make"
          /\ f.missing = Tail(list) /\ f.created = Append(fixer[c].created, p)
          /\ f.made = fixer[c].made \cup {p} /\ f.todo = fixer[c].todo
          /\ f.plan = fixer[c].plan /\ f.met = fixer[c].met /\ f.ended = fixer[c].ended
      BY FixerTyped DEF Fix
    <3> HIDE DEF f
    <3>2. list \in Seq(Path) /\ fixer[c].created \in Seq(Path)
      BY FixerTyped DEF Fix
    <3>3. /\ Len(list) = 1 => Tail(list) = <<>>
          /\ Len(list) # 1 => Tail(list) # <<>>
          /\ \A i \in DOMAIN list :
               list[i] = p \/ \E k \in DOMAIN Tail(list) : Tail(list)[k] = list[i]
      <4> HIDE DEF list
      <4>1. /\ Len(list) \in Nat \ {0} /\ DOMAIN list = 1 .. Len(list) /\ p = list[1]
            /\ DOMAIN Tail(list) = 1 .. (Len(list) - 1) /\ Len(Tail(list)) = Len(list) - 1
            /\ \A k \in 1 .. (Len(list) - 1) : Tail(list)[k] = list[k + 1]
        BY <2>1, <3>2
      <4>2. Tail(list) = <<>> <=> Len(list) = 1
        BY <2>1, <3>2, <4>1
      <4>3. ASSUME NEW i \in DOMAIN list, i # 1
            PROVE  i - 1 \in DOMAIN Tail(list) /\ Tail(list)[i - 1] = list[i]
        BY <4>1, <4>3
      <4>. QED
        BY <4>1, <4>2, <4>3
    <3>4. /\ \A i \in DOMAIN fixer[c].created :
               i \in DOMAIN f.created /\ f.created[i] = fixer[c].created[i]
          /\ \E i \in DOMAIN f.created : f.created[i] = p
      <4>1. /\ Len(fixer[c].created) + 1 \in DOMAIN f.created
            /\ f.created[Len(fixer[c].created) + 1] = p
        BY <2>1, <3>1, <3>2
      <4>2. \A i \in DOMAIN fixer[c].created :
               i \in DOMAIN f.created /\ f.created[i] = fixer[c].created[i]
        BY <2>1, <3>1, <3>2
      <4>. QED
        BY <4>1, <4>2
    <3> HIDE DEF list, p
    <3>5. place'[p] = "directory" /\ \A q \in Path : q # p => place'[q] = place[q]
      BY <2>1, <2>4 DEF FixInv, DoctorTypeOK
    <3>6. \A q \in fixer'[c].made : Noted(c, q)'
      <4>1. \A q \in fixer[c].made : Noted(c, q)
        BY <2>1, <2>2 DEF FixFits
      <4>. QED
        BY <2>4, <3>1, <3>4, <4>1 DEF Steps, Noted
    <3>7. ASSUME ~fixer'[c].met, NEW q \in fixer'[c].plan
          PROVE  place'[q] # "nothing" \/ Pending(c, q)'
      <4>1. q \in Path /\ (place[q] # "nothing" \/ Pending(c, q))
        <5>1. q \in fixer[c].plan /\ ~fixer[c].met
          BY <2>4, <3>1, <3>7 DEF Steps
        <5>2. q \in Path
          BY <5>1, FixerTyped, Paths DEF Fix
        <5>. QED
          BY <2>1, <2>2, <5>1, <5>2 DEF FixFits
      <4>2. q = p => place'[q] # "nothing"
        BY <3>5
      <4>3. q # p /\ place[q] # "nothing" => place'[q] # "nothing"
        BY <3>5, <4>1
      <4>4. q # p /\ Pending(c, q) => Pending(c, q)'
        BY <2>4, <3>1, <3>3 DEF Steps, Pending, list
      <4>. QED
        BY <4>1, <4>2, <4>3, <4>4
    <3>8. FixFits(c)'
      BY <2>1, <2>2, <2>4, <3>1, <3>3, <3>6, <3>7 DEF Steps, FixFits, FixAt
    <3>9. /\ \A q \in Directory : place[q] # "directory" /\ place'[q] = "directory" => q \in f.made
          /\ \A q \in Path : place[q] # "nothing" => place'[q] # "nothing"
      BY <3>1, <3>5, Paths
    <3>10. \A d \in Fixer : d # c => FixFits(d)'
      BY <2>1, <2>4, <3>1, <3>9, OthersFit
    <3>. QED
      BY <3>8, <3>10
  <2>. QED
    BY <2>1, <2>3, <2>4
<1>4. ASSUME NEW c \in Fixer, MakeFails(c) PROVE FixesFit'
  <2> DEFINE g == [fixer[c] EXCEPT !.pc = "undo"]
  <2>1. FixAt(c, "make") /\ UNCHANGED <<place, filled>> /\ Steps(c, g) /\ FixFits(c)
    BY <1>4, MakeFailsEffect DEF FixInv
  <2>2. /\ g.pc = "undo" /\ g.ended = fixer[c].ended /\ g.made = fixer[c].made
        /\ g.created = fixer[c].created
    BY FixerTyped DEF Fix
  <2> HIDE DEF g
  <2>3. FixFits(c)'
    <3>1. \A q \in fixer[c].made : Noted(c, q)
      BY <2>1 DEF FixFits
    <3>2. \A q \in fixer'[c].made : Noted(c, q)'
      BY <2>1, <2>2, <3>1 DEF Steps, Noted
    <3>. QED
      BY <2>1, <2>2, <3>2 DEF Steps, FixFits, FixAt
  <2>4. \A d \in Fixer : d # c => FixFits(d)'
    BY <2>1, <2>2, OthersFit
  <2>. QED
    BY <2>3, <2>4
<1>5. ASSUME NEW c \in Fixer, UndoDirectory(c) PROVE FixesFit'
  <2> DEFINE left == fixer[c].created
  <2>1. PICK f \in Fix, gone \in BOOLEAN : Steps(c, f) /\ Undone(c, f, gone)
    BY <1>5, UndoDirectoryEffect DEF FixInv
  <2>2. FixAt(c, "undo") /\ filled' = filled /\ FixFits(c)
    BY <1>5, UndoDirectoryEffect DEF FixInv
  <2>3. /\ f.made = fixer[c].made
        /\ place' = IF gone THEN [place EXCEPT ![Last(left)] = "nothing"] ELSE place
        /\ gone <=> left # <<>> /\ IsDirectory(Last(left)) /\ ~Occupied(Last(left))
    BY <2>1 DEF Undone
  <2>4. \A d \in Fixer : d # c => FixFits(d)'
    <3>1. \A p \in Directory : place[p] # "directory" => place'[p] # "directory"
      BY <2>3, Paths DEF FixInv, DoctorTypeOK
    <3>2. \/ \A d \in Fixer : d # c => fixer'[d].met
          \/ \A p \in Path : place[p] # "nothing" => place'[p] # "nothing"
      BY <2>1, <2>3 DEF Undone
    <3>. QED
      BY <2>1, <2>2, <2>3, <3>1, <3>2, OthersFit
  <2>5. left \in Seq(Path)
    BY FixerTyped
  <2>6. Len(left) \in Nat /\ (Len(left) > 1 => left # <<>>)
    BY <2>5
  <2>7. CASE Len(left) <= 1
    <3>1. f.pc = "idle" /\ f.ended = "failed"
      BY <2>1, <2>7 DEF Undone
    <3>2. fixer'[c].pc = "idle" /\ fixer'[c].ended = "failed"
      BY <2>1, <3>1 DEF Steps
    <3>3. FixFits(c)'
      BY <3>2 DEF FixFits, FixAt
    <3>. QED
      BY <2>4, <3>3
  <2>8. CASE Len(left) > 1
    <3>1. /\ f.pc = "undo" /\ f.ended = "" /\ f.created = Front(left) /\ left # <<>>
      <4>1. ~(Len(left) <= 1) /\ left # <<>>
        BY <2>6, <2>8
      <4>. QED
        BY <2>1, <4>1 DEF Undone
    <3>2. /\ DOMAIN Front(left) = 1 .. (Len(left) - 1) /\ DOMAIN left = 1 .. Len(left)
          /\ \A i \in DOMAIN Front(left) : Front(left)[i] = left[i]
          /\ Last(left) = left[Len(left)] /\ Len(left) \in DOMAIN left /\ Last(left) \in Path
      <4> HIDE DEF left
      <4>. QED
        BY <2>5, <3>1, FrontTyped
    <3>3. Last(left) # Top /\ IsDirectory(Last(left))
      BY <2>6, <2>8, <3>2 DEF FixInv, CreatedStands
    <3>4. ASSUME NEW p \in fixer[c].made PROVE Noted(c, p)' \/ Done(c, p)'
      <4>1. CASE Done(c, p)
        <5>1. p \in Path
          BY FixerTyped DEF Fix
        <5>2. place[p] # "directory" => place'[p] # "directory"
          BY <2>3, <5>1 DEF FixInv, DoctorTypeOK
        <5>3. \A d \in Fixer : fixer'[d].made = fixer[d].made
          BY <2>1, <2>3 DEF Steps
        <5>. QED
          BY <2>2, <4>1, <5>2, <5>3 DEF Done, IsDirectory
      <4>2. CASE p = Last(left)
        <5>1. CASE gone
          <6>1. place'[p] = "nothing"
            BY <2>3, <3>2, <4>2, <5>1 DEF FixInv, DoctorTypeOK
          <6>. QED
            BY <3>3, <4>2, <6>1 DEF Done, IsDirectory
        <5>2. CASE ~gone
          <6>1. p \in filled
            BY <2>3, <3>1, <3>3, <4>2, <5>2 DEF Occupied
          <6>. QED
            BY <2>2, <3>3, <4>2, <6>1 DEF Done
        <5>. QED
          BY <5>1, <5>2
      <4>3. CASE Noted(c, p) /\ p # Last(left)
        <5>1. PICK i \in DOMAIN left : left[i] = p /\ i # Len(left)
          BY <3>2, <4>3 DEF Noted
        <5>2. i \in DOMAIN Front(left) /\ Front(left)[i] = p
          BY <2>6, <3>2, <5>1
        <5>. QED
          BY <2>1, <3>1, <5>2 DEF Noted, Steps
      <4>. QED
        BY <2>2, <4>1, <4>2, <4>3 DEF FixFits
    <3>5. FixFits(c)'
      BY <2>1, <2>3, <3>1, <3>4 DEF Steps, FixFits, FixAt
    <3>. QED
      BY <2>4, <3>5
  <2>. QED
    BY <2>4, <2>6, <2>7, <2>8
<1>6. ASSUME NEW c \in Fixer, ReportAgain(c) PROVE FixesFit'
  <2>1. PICK how \in {"passed", "issues"} :
          Steps(c, [fixer[c] EXCEPT !.pc = "idle", !.ended = how])
    BY <1>6, ReportAgainEffect DEF FixInv
  <2> DEFINE g == [fixer[c] EXCEPT !.pc = "idle", !.ended = how]
  <2>2. g.pc = "idle" /\ g.ended = how /\ g.made = fixer[c].made
    BY FixerTyped DEF Fix
  <2>3. Steps(c, g) /\ UNCHANGED <<place, filled>>
    BY <1>6, <2>1, ReportAgainEffect DEF FixInv
  <2> HIDE DEF g
  <2>4. FixFits(c)'
    BY <2>2, <2>3 DEF Steps, FixFits, FixAt
  <2>5. \A d \in Fixer : d # c => FixFits(d)'
    BY <2>2, <2>3, OthersFit
  <2>. QED
    BY <2>4, <2>5
<1>7. ASSUME NEW c \in Fixer, KillFix(c) PROVE FixesFit'
  <2> DEFINE g == [fixer[c] EXCEPT !.pc = "idle", !.ended = "killed"]
  <2>1. Steps(c, g) /\ UNCHANGED <<place, filled>>
    BY <1>7, KillFixEffect DEF FixInv
  <2>2. g.pc = "idle" /\ g.ended = "killed" /\ g.made = fixer[c].made
    BY FixerTyped DEF Fix
  <2> HIDE DEF g
  <2>3. FixFits(c)'
    BY <2>1, <2>2 DEF Steps, FixFits, FixAt
  <2>4. \A d \in Fixer : d # c => FixFits(d)'
    BY <2>1, <2>2, OthersFit
  <2>. QED
    BY <2>3, <2>4
<1>8. CASE OthersWrite \/ OthersBlock \/ ProfileChanges
  <2>1. /\ fixer' = fixer /\ filled \subseteq filled'
        /\ \A p \in Directory : place[p] # "directory" /\ place'[p] = "directory" => p \in filled'
        /\ \A p \in Path : place[p] # "nothing" => place'[p] # "nothing"
    BY <1>8, OthersEffect, Paths DEF FixInv, DoctorTypeOK, CanMake
  <2>. QED
    BY <2>1, FitsStay
<1>9. CASE UNCHANGED doctorVars
  BY <1>9, FitsStay DEF doctorVars
<1>. QED
  BY <1>1, <1>2, <1>3, <1>4, <1>5, <1>6, <1>7, <1>8, <1>9 DEF DoctorNext

\* No call has begun at first.
LEMMA InitFits ==
  ASSUME DoctorInit
  PROVE  FixInv
<1>1. PICK there \in SUBSET Directory, file \in SUBSET Path, top \in BOOLEAN :
        /\ there # {} => top /\ Top \notin file
        /\ Top \in file => ~top /\ file = {Top}
        /\ file # {} => Top \in file \/ top
        /\ place = [p \in Path |-> IF p \in file THEN "file"
                                   ELSE IF p \in there \/ (p = Top /\ top) THEN "directory"
                                   ELSE "nothing"]
        /\ filled \in SUBSET there
  BY DEF DoctorInit
<1>2. DoctorTypeOK
  <2>1. place \in [Path -> {"nothing", "directory", "file"}]
    BY <1>1
  <2>2. fixer \in [Fixer -> Fix] /\ looping \in BOOLEAN /\ filled \in SUBSET Directory
    BY <1>1, NoFixTyped DEF DoctorInit
  <2>3. meddling \in 0 .. MaxMeddling
    BY DoctorParameters DEF DoctorInit
  <2>. QED
    BY <2>1, <2>2, <2>3 DEF DoctorTypeOK
<1>3. Parented
  BY <1>1, Paths DEF Parented, IsDirectory
<1>4. /\ \A c \in Fixer : fixer[c].pc = "idle" /\ fixer[c].ended = ""
                          /\ fixer[c].created = <<>> /\ fixer[c].made = {}
  BY DEF DoctorInit, NoFix
<1>5. CreatedStands
  <2>1. DOMAIN << >> = {}
    OBVIOUS
  <2>. QED
    BY <1>4, <2>1 DEF CreatedStands
<1>6. FixesFit
  BY <1>4 DEF FixesFit, FixFits, FixAt
<1>. QED
  BY <1>2, <1>3, <1>5, <1>6 DEF FixInv

\* What a call has made is there and noted, until it is undone; what it was to
\* make and has not is still before it.
THEOREM FixInvariant == DoctorSpec => []FixInv
<1>1. DoctorInit => FixInv
  BY InitFits
<1>2. FixInv /\ [DoctorNext]_doctorVars => FixInv'
  <2> SUFFICES ASSUME FixInv, [DoctorNext]_doctorVars PROVE FixInv'
    OBVIOUS
  <2>1. DoctorTypeOK'
    BY FixTypes DEF FixInv
  <2>2. Parented'
    BY ParentStep
  <2>3. CreatedStands'
    BY CreatedStep
  <2>4. FixesFit'
    BY FitStep
  <2>. QED
    BY <2>1, <2>2, <2>3, <2>4 DEF FixInv
<1>. QED
  BY <1>1, <1>2, PTL DEF DoctorSpec

\* A step that removes no directory and ends no fix
LEMMA QuietStep ==
  ASSUME NEW c \in Fixer, fixer'[c].ended \notin {"failed", "passed", "issues"}
                          \/ fixer'[c].ended = fixer[c].ended,
         \A p \in Path : IsDirectory(p) => place'[p] # "nothing"
  PROVE  TakesItsOwn(c) /\ LeavesNone(c) /\ SeesToAll(c)
BY DEF TakesItsOwn, LeavesNone, SeesToAll

\* FixAllOrNothing: apply_fix_plan of two calls, undone or killed anywhere and
\* with others writing into the state directories, removes only what it made
\* itself; a call that fails leaves nothing of its own behind.
THEOREM FixesAreAllOrNothing == DoctorSpec => FixAllOrNothing
<1> DEFINE Whole(c) == TakesItsOwn(c) /\ LeavesNone(c) /\ SeesToAll(c)
<1>1. ASSUME FixInv, [DoctorNext]_doctorVars, NEW c \in Fixer
      PROVE  Whole(c)
  <2> USE <1>1
  <2>1. CASE UNCHANGED fixer /\ \A p \in Path : IsDirectory(p) => place'[p] # "nothing"
    BY <2>1, QuietStep
  <2>2. ASSUME NEW d \in Fixer, NEW f, Steps(d, f), f.ended \in {fixer[d].ended, "", "killed"},
               \A p \in Path : IsDirectory(p) => place'[p] # "nothing"
        PROVE  Whole(c)
    BY <2>2, QuietStep DEF Steps
  <2>3. ASSUME NEW d \in Fixer, BeginFix(d) PROVE Whole(c)
    <3> DEFINE f == [NoFix EXCEPT !.pc = "next", !.todo = MissingDirectories,
                                  !.plan = MissingDirectories]
    <3>1. f.ended = ""
      BY DEF NoFix
    <3>2. Steps(d, f) /\ place' = place
      BY <2>3, BeginFixEffect DEF FixInv
    <3> HIDE DEF f
    <3>. QED
      BY <2>2, <3>1, <3>2 DEF IsDirectory
  <2>4. ASSUME NEW d \in Fixer, NextDirectory(d) PROVE Whole(c)
    <3>1. PICK e \in fixer[d].todo :
            LET there == place[e] # "nothing" IN
              Steps(d, [fixer[d] EXCEPT
                    !.todo = @ \ {e},
                    !.pc = IF there THEN "next" ELSE "make",
                    !.missing = IF there THEN <<>>
                                ELSE IF place[Top] = "nothing" THEN <<Top, e>> ELSE <<e>>])
      BY <2>4, NextDirectoryEffect DEF FixInv
    <3> DEFINE f == [fixer[d] EXCEPT
                    !.todo = @ \ {e},
                    !.pc = IF place[e] # "nothing" THEN "next" ELSE "make",
                    !.missing = IF place[e] # "nothing" THEN <<>>
                                ELSE IF place[Top] = "nothing" THEN <<Top, e>> ELSE <<e>>]
    <3>2. f.ended = fixer[d].ended
      BY FixerTyped DEF Fix
    <3>3. Steps(d, f) /\ place' = place
      BY <2>4, <3>1, NextDirectoryEffect DEF FixInv
    <3> HIDE DEF f
    <3>. QED
      BY <2>2, <3>2, <3>3 DEF IsDirectory
  <2>5. ASSUME NEW d \in Fixer, MakeDirectory(d) PROVE Whole(c)
    <3> DEFINE p == Head(fixer[d].missing)
               f == [fixer[d] EXCEPT
                      !.missing = Tail(@),
                      !.pc = IF Len(fixer[d].missing) = 1 THEN "next" ELSE "make",
                      !.created = Append(@, p), !.made = @ \cup {p}]
               g == [fixer[d] EXCEPT !.pc = "undo"]
    <3>1. \/ CanMake(p) /\ place' = [place EXCEPT ![p] = "directory"] /\ Steps(d, f)
          \/ UNCHANGED place /\ Steps(d, g)
      BY <2>5, MakeDirectoryEffect DEF FixInv
    <3>2. f.ended = fixer[d].ended /\ g.ended = fixer[d].ended
      BY FixerTyped DEF Fix
    <3> HIDE DEF f, g, p
    <3>3. \A q \in Path : IsDirectory(q) => place'[q] # "nothing"
      BY <3>1 DEF FixInv, DoctorTypeOK, IsDirectory
    <3>. QED
      BY <2>2, <3>1, <3>2, <3>3
  <2>6. ASSUME NEW d \in Fixer, MakeFails(d) PROVE Whole(c)
    <3> DEFINE g == [fixer[d] EXCEPT !.pc = "undo"]
    <3>1. UNCHANGED place /\ Steps(d, g)
      BY <2>6, MakeFailsEffect DEF FixInv
    <3>2. g.ended = fixer[d].ended
      BY FixerTyped DEF Fix
    <3> HIDE DEF g
    <3>. QED
      BY <2>2, <3>1, <3>2 DEF IsDirectory
  <2>7. ASSUME NEW d \in Fixer, KillFix(d) PROVE Whole(c)
    <3> DEFINE g == [fixer[d] EXCEPT !.pc = "idle", !.ended = "killed"]
    <3>1. UNCHANGED place /\ Steps(d, g)
      BY <2>7, KillFixEffect DEF FixInv
    <3>2. g.ended = "killed"
      BY FixerTyped DEF Fix
    <3> HIDE DEF g
    <3>. QED
      BY <2>2, <3>1, <3>2 DEF IsDirectory
  <2>8. ASSUME NEW d \in Fixer, UndoDirectory(d) PROVE Whole(c)
    <3> DEFINE left == fixer[d].created
    <3>1. PICK f \in Fix, gone \in BOOLEAN : Steps(d, f) /\ Undone(d, f, gone)
      BY <2>8, UndoDirectoryEffect DEF FixInv
    <3>2. FixAt(d, "undo") /\ filled' = filled /\ FixFits(d) /\ left \in Seq(Path)
      BY <2>8, UndoDirectoryEffect, FixerTyped DEF FixInv, FixesFit
    <3>3. /\ place' = IF gone THEN [place EXCEPT ![Last(left)] = "nothing"] ELSE place
          /\ gone <=> left # <<>> /\ IsDirectory(Last(left)) /\ ~Occupied(Last(left))
          /\ f.ended = IF Len(left) <= 1 THEN "failed" ELSE ""
      BY <3>1 DEF Undone
    <3> HIDE DEF left
    <3>4. left # <<>> =>
            /\ DOMAIN left = 1 .. Len(left) /\ Last(left) = left[Len(left)]
            /\ Len(left) \in DOMAIN left /\ Last(left) \in Path
      BY <3>2, FrontTyped
    <3>5. left # <<>> => Last(left) \in fixer[d].made
      BY <3>4 DEF FixInv, CreatedStands, left
    <3>6. \A p \in Path : IsDirectory(p) /\ place'[p] = "nothing" => gone /\ p = Last(left)
      BY <3>3, <3>4 DEF FixInv, DoctorTypeOK, IsDirectory
    <3>7. TakesItsOwn(c)
      <4>1. CASE c = d
        BY <3>3, <3>5, <3>6, <4>1 DEF TakesItsOwn
      <4>2. CASE c # d
        BY <3>1, <4>2 DEF TakesItsOwn, Steps
      <4>. QED
        BY <4>1, <4>2
    <3>8. SeesToAll(c)
      BY <3>1, <3>3 DEF SeesToAll, Steps
    <3>9. LeavesNone(c)
      <4>1. CASE c # d
        BY <3>1, <4>1 DEF LeavesNone, Steps
      <4>2. CASE c = d
        <5> SUFFICES ASSUME fixer'[d].ended = "failed", NEW p \in fixer[d].made
                     PROVE  ~IsDirectory(p)' \/ Occupied(p)'
                            \/ \E e \in Fixer \ {d} : p \in fixer[e].made
          BY <4>2 DEF LeavesNone
        <5>1. p \in Path
          BY FixerTyped DEF Fix
        <5>2. Len(left) <= 1 /\ Len(left) \in Nat
          <6>1. f.ended = "failed"
            BY <3>1 DEF Steps
          <6>2. Len(left) <= 1
            BY <3>3, <6>1
          <6>. QED
            BY <3>2, <6>2
        <5>3. Noted(d, p) \/ Done(d, p)
          BY <3>2 DEF FixFits
        <5>4. CASE Done(d, p)
          <6>1. ~IsDirectory(p) => ~IsDirectory(p)'
            BY <3>3, <5>1 DEF FixInv, DoctorTypeOK, IsDirectory
          <6>. QED
            BY <3>2, <5>4, <6>1 DEF Done, Occupied
        <5>5. CASE Noted(d, p)
          <6>1. PICK i \in DOMAIN left : left[i] = p
            BY <5>5 DEF Noted, left
          <6>2. left # <<>>
            BY <6>1
          <6>3. p = Last(left)
            BY <3>4, <5>2, <6>1, <6>2
          <6>4. CASE gone
            BY <3>3, <5>1, <6>3, <6>4 DEF FixInv, DoctorTypeOK, IsDirectory
          <6>5. CASE ~gone
            <7>1. Occupied(p) \/ ~IsDirectory(p)
              BY <3>3, <6>2, <6>3, <6>5
            <7>2. place' = place
              BY <3>3, <6>5
            <7>. QED
              BY <3>2, <7>1, <7>2 DEF Occupied, IsDirectory, Children
          <6>. QED
            BY <6>4, <6>5
        <5>. QED
          BY <5>3, <5>4, <5>5
      <4>. QED
        BY <4>1, <4>2
    <3>. QED
      BY <3>7, <3>8, <3>9
  <2>9. ASSUME NEW d \in Fixer, ReportAgain(d) PROVE Whole(c)
    <3>1. PICK how \in {"passed", "issues"} :
            Steps(d, [fixer[d] EXCEPT !.pc = "idle", !.ended = how])
      BY <2>9, ReportAgainEffect DEF FixInv
    <3> DEFINE g == [fixer[d] EXCEPT !.pc = "idle", !.ended = how]
    <3>2. g.ended = how
      BY FixerTyped DEF Fix
    <3>3. Steps(d, g) /\ place' = place /\ FixAt(d, "next") /\ fixer[d].todo = {}
      BY <2>9, <3>1, ReportAgainEffect DEF FixInv, ReportAgain
    <3> HIDE DEF g
    <3>4. TakesItsOwn(c)
      BY <3>3 DEF TakesItsOwn, IsDirectory
    <3>5. LeavesNone(c)
      BY <3>2, <3>3 DEF LeavesNone, Steps
    <3>6. SeesToAll(c)
      <4>1. CASE c # d
        BY <3>3, <4>1 DEF SeesToAll, Steps
      <4>2. CASE c = d
        <5>1. FixFits(d)
          BY DEF FixInv, FixesFit
        <5>2. fixer[d].missing = <<>> /\ fixer[d].pc = "next"
          BY <3>3, <5>1 DEF FixFits, FixAt
        <5>3. DOMAIN << >> = {}
          OBVIOUS
        <5>4. \A p : ~Pending(d, p)
          BY <3>3, <5>2, <5>3 DEF Pending
        <5>. QED
          BY <4>2, <5>1, <5>2, <5>4 DEF SeesToAll, FixFits, FixAt
      <4>. QED
        BY <4>1, <4>2
    <3>. QED
      BY <3>4, <3>5, <3>6
  <2>10. CASE OthersWrite \/ OthersBlock \/ ProfileChanges
    <3>1. fixer' = fixer /\ \A p \in Path : IsDirectory(p) => place'[p] # "nothing"
      BY <2>10, OthersEffect DEF FixInv, DoctorTypeOK, IsDirectory, CanMake
    <3>. QED
      BY <2>1, <3>1
  <2>11. CASE UNCHANGED doctorVars
    BY <2>1, <2>11 DEF doctorVars, IsDirectory
  <2>. QED
    BY <2>3, <2>4, <2>5, <2>6, <2>7, <2>8, <2>9, <2>10, <2>11 DEF DoctorNext
<1>2. FixInv /\ [DoctorNext]_doctorVars => [\A c \in Fixer : Whole(c)]_doctorVars
  BY <1>1
<1>. QED
  BY <1>2, FixInvariant, PTL DEF DoctorSpec, FixAllOrNothing

===============================================================================
