-------------------------- MODULE VerificationCache --------------------------
(***************************************************************************)
(* cc-verify --reuse-cache: a passed step is filed under a key of the      *)
(* repository's state and taken from there when the key is met again.      *)
(*                                                                         *)
(* The key is made in two steps, git's list of what has changed and then   *)
(* the digests of the files; the step runs after that, and the result is   *)
(* filed under the old key when it has passed.  Edits, git's index and     *)
(* commits go on meanwhile.  A step is the one thing it objects to: a      *)
(* content of a file, or that the file is missing.                         *)
(***************************************************************************)
EXTENDS Naturals

CONSTANTS
  Verifier,       \* concurrent runs of cc-verify
  VPath,          \* files that a step looks at
  VVersion,       \* contents of a file
  Alike,          \* pairs of contents that git takes for one file, renamed
  FirstTree,      \* the worktree and the commit at first
  Ignored,        \* files that git ignores
  Configured,     \* those digested in any case: harness.config.yaml, core.yaml...
  Unresolved,     \* those whose name, as git prints it, is no path from the root
  MaxTreeChanges, \* bound: edits, files added to git's index or dropped, commits
  MaxCachedRuns   \* bound: steps that look into the cache

Content == VVersion \cup {"missing"}
Tree == [VPath -> Content]

CacheAssumption ==
  /\ FirstTree \in Tree
  /\ Ignored \subseteq VPath /\ Configured \subseteq VPath /\ Unresolved \subseteq VPath
  /\ Alike \subseteq VVersion \X VVersion
  /\ "none" \notin VVersion /\ "missing" \notin VVersion

ASSUME CacheParameters == CacheAssumption

VARIABLES
  tree, head,  \* contents of the worktree; of the commit that HEAD names
  index,       \* the files that git's index names
  objection,   \* <<file, content>>: the step fails where the file has it
  verifier,    \* per run: where it is, its key
  filed,       \* what is in the cache: key, and the tree the step has seen
  treeChanges, cachedRuns

cacheVars == <<tree, head, index, objection, verifier, filed, treeChanges, cachedRuns>>

Passes(t) == t[objection[1]] # objection[2]

-----------------------------------------------------------------------------
\* What git says of a worktree t, a commit h and an index ix

\* The worktree as git diff sees it: the files of the index
Indexed(t, ix) == [p \in VPath |-> IF p \in ix THEN t[p] ELSE "missing"]

Differing(t, h, ix) == {p \in VPath : Indexed(t, ix)[p] # h[p]}

\* A file that is gone and one that is new, with contents that are alike
Renamings(t, h, ix) ==
  {r \in Differing(t, h, ix) \X Differing(t, h, ix) :
     /\ Indexed(t, ix)[r[1]] = "missing" /\ h[r[2]] = "missing"
     /\ <<h[r[1]], t[r[2]]>> \in Alike}

\* git pairs each file once at most and leaves none that could be paired; which
\* of several pairings is its affair.
OneToOne(pairs) == \A q, r \in pairs : q[1] = r[1] \/ q[2] = r[2] => q = r
Pairing(t, h, ix) ==
  CHOOSE pairs \in SUBSET Renamings(t, h, ix) :
    /\ OneToOne(pairs)
    /\ \A r \in Renamings(t, h, ix) \ pairs : ~OneToOne(pairs \cup {r})

\* With --name-only a renaming is listed under its new name alone.
Hidden(t, h, ix) == {r[1] : r \in Pairing(t, h, ix)}

\* git diff --name-only HEAD; git ls-files --others --exclude-standard
Diff(t, h, ix) == Differing(t, h, ix) \ Hidden(t, h, ix)
Others(t, ix) == {p \in VPath \ (ix \cup Ignored) : t[p] # "missing"}

ChangedPaths(t, h, ix) == Diff(t, h, ix) \cup Others(t, ix)

-----------------------------------------------------------------------------
\* The key

DigestSlip(t, changed) ==
  [p \in VPath |-> IF p \in Configured THEN t[p]
                   ELSE IF p \in changed THEN "missing" ELSE "none"]

\* A changed file is looked for at the project root, under the name that git
\* prints: relative to the repository, and quoted when it is not ASCII.
Digest(t, changed) ==
  [p \in VPath |-> IF p \in Configured \/ p \in changed \ Unresolved THEN t[p]
                   ELSE IF p \in changed THEN "missing" ELSE "none"]

Key(t, h, ix) == [head |-> h, changed |-> ChangedPaths(t, h, ix),
                  digest |-> Digest(t, ChangedPaths(t, h, ix))]

\* When git does not answer within ten seconds, or this is no repository, the
\* key has no commit and no changed files.
NoGit == [p \in VPath |-> "none"]
NoKey == [head |-> NoGit, changed |-> {}, digest |-> NoGit]
KeyType == [head : [VPath -> Content \cup {"none"}], changed : SUBSET VPath,
            digest : [VPath -> Content \cup {"none"}]]

\* "undisturbed": git has answered, and nothing changed since it was asked.
Waiting == [pc |-> "waiting", key |-> NoKey, undisturbed |-> FALSE]

CacheInit ==
  /\ tree = FirstTree
  /\ index = {p \in VPath \ Ignored : FirstTree[p] # "missing"}
  /\ head = Indexed(FirstTree, index)
  /\ objection \in VPath \X Content
  /\ verifier = [v \in Verifier |-> Waiting]
  /\ filed = {}
  /\ treeChanges = 0 /\ cachedRuns = 0

-----------------------------------------------------------------------------
\* build_cache_key

ListChanges(v) ==
  /\ verifier[v].pc = "waiting" /\ cachedRuns < MaxCachedRuns
  /\ cachedRuns' = cachedRuns + 1
  /\ verifier' = [verifier EXCEPT ![v] =
       [pc |-> "listed", undisturbed |-> TRUE,
        key |-> [NoKey EXCEPT !.head = head,
                              !.changed = ChangedPaths(tree, head, index)]]]
  /\ UNCHANGED <<tree, head, index, objection, filed, treeChanges>>

\* Each of the three questions may go without an answer.
GitSilent(v) ==
  /\ verifier[v].pc = "waiting" /\ cachedRuns < MaxCachedRuns
  /\ cachedRuns' = cachedRuns + 1
  /\ \E h \in {head, NoGit}, diff \in {{}, Diff(tree, head, index)},
        others \in {{}, Others(tree, index)} :
       /\ <<h, diff, others>> # <<head, Diff(tree, head, index), Others(tree, index)>>
       /\ verifier' = [verifier EXCEPT ![v] =
            [pc |-> "listed", undisturbed |-> FALSE,
             key |-> [NoKey EXCEPT !.head = h, !.changed = diff \cup others]]]
  /\ UNCHANGED <<tree, head, index, objection, filed, treeChanges>>

DigestFiles(v) ==
  /\ verifier[v].pc = "listed"
  /\ verifier' = [verifier EXCEPT ![v].pc = "keyed",
                                  ![v].key.digest = Digest(tree, verifier[v].key.changed)]
  /\ UNCHANGED <<tree, head, index, objection, filed, treeChanges, cachedRuns>>

-----------------------------------------------------------------------------
\* run_step: a hit is the result; otherwise the step runs.

Hit(v) == \E e \in filed : e.key = verifier[v].key

Reuse(v) ==
  /\ verifier[v].pc = "keyed" /\ Hit(v)
  /\ verifier' = [verifier EXCEPT ![v] = Waiting]
  /\ UNCHANGED <<tree, head, index, objection, filed, treeChanges, cachedRuns>>

Miss(v) ==
  /\ verifier[v].pc = "keyed" /\ ~Hit(v)
  /\ verifier' = [verifier EXCEPT ![v].pc = "running"]
  /\ UNCHANGED <<tree, head, index, objection, filed, treeChanges, cachedRuns>>

\* The step has passed, and save_cached replaces the file of its key.
Save(v) ==
  /\ verifier[v].pc = "running" /\ Passes(tree)
  /\ filed' = {e \in filed : e.key # verifier[v].key}
              \cup {[key |-> verifier[v].key, seen |-> tree, index |-> index,
                     undisturbed |-> verifier[v].undisturbed]}
  /\ verifier' = [verifier EXCEPT ![v] = Waiting]
  /\ UNCHANGED <<tree, head, index, objection, treeChanges, cachedRuns>>

\* It has failed, was stopped, could not be started, could not be filed; or
\* cc-verify was killed.
NotSaved(v) ==
  /\ verifier[v].pc # "waiting"
  /\ verifier' = [verifier EXCEPT ![v] = Waiting]
  /\ UNCHANGED <<tree, head, index, objection, filed, treeChanges, cachedRuns>>

-----------------------------------------------------------------------------
\* What goes on meanwhile

Disturb == verifier' = [v \in Verifier |-> [verifier[v] EXCEPT !.undisturbed = FALSE]]

\* A file is written or deleted.
Edit(p, content) ==
  /\ treeChanges < MaxTreeChanges /\ tree[p] # content
  /\ tree' = [tree EXCEPT ![p] = content]
  /\ treeChanges' = treeChanges + 1
  /\ Disturb
  /\ UNCHANGED <<head, index, objection, filed, cachedRuns>>

\* git add, git rm --cached
Track(p) ==
  /\ treeChanges < MaxTreeChanges /\ p \notin Ignored
  /\ p \in index \/ tree[p] # "missing"
  /\ index' = IF p \in index THEN index \ {p} ELSE index \cup {p}
  /\ treeChanges' = treeChanges + 1
  /\ Disturb
  /\ UNCHANGED <<tree, head, objection, filed, cachedRuns>>

\* git commit --all
Commit ==
  /\ treeChanges < MaxTreeChanges /\ Differing(tree, head, index) # {}
  /\ head' = Indexed(tree, index)
  /\ index' = {p \in index : tree[p] # "missing"}
  /\ treeChanges' = treeChanges + 1
  /\ Disturb
  /\ UNCHANGED <<tree, objection, filed, cachedRuns>>

CacheNext ==
  \/ \E v \in Verifier :
       \/ ListChanges(v) \/ GitSilent(v) \/ DigestFiles(v)
       \/ Reuse(v) \/ Miss(v) \/ Save(v) \/ NotSaved(v)
  \/ \E p \in VPath, content \in Content : Edit(p, content)
  \/ \E p \in VPath : Track(p)
  \/ Commit

CacheSpec == CacheInit /\ [][CacheNext]_cacheVars

-----------------------------------------------------------------------------
\* Properties

CacheTypeOK ==
  /\ tree \in Tree /\ head \in Tree /\ index \subseteq VPath \ Ignored
  /\ objection \in VPath \X Content
  /\ verifier \in [Verifier -> [pc : {"waiting", "listed", "keyed", "running"},
                                key : KeyType, undisturbed : BOOLEAN]]
  /\ filed \subseteq [key : KeyType, seen : Tree, index : SUBSET (VPath \ Ignored),
                      undisturbed : BOOLEAN]
  /\ treeChanges \in Nat /\ cachedRuns \in Nat

\* The files whose contents the key tells: those digested in any case, and
\* those that git lists under a name of theirs whenever they have changed
ToldByKey(t, h, ix) == Configured \cup (VPath \ (Ignored \cup Unresolved \cup Hidden(t, h, ix)))

\* The present worktree passes wherever v takes the result e from the cache.
ReusedRightly(v, e) ==
  verifier[v].pc = "keyed" /\ e.key = verifier[v].key => Passes(tree)

\* A result that cc-verify reuses (verification_runner.py:54-60) is what the
\* step would say of the present tree, whichever edits, commits and other runs
\* came between - if git answers, nothing is written between the question to
\* git and the end of the step that was filed, and what the step objects to is
\* in a file that the key tells of, now and when the result was filed.
ReuseIsTruth ==
  \A v \in Verifier : \A e \in filed :
    /\ verifier[v].undisturbed /\ e.undisturbed
    /\ objection[1] \in ToldByKey(tree, head, index) \cap ToldByKey(e.seen, e.key.head, e.index)
    => ReusedRightly(v, e)

\* "any change of source, Harness, profile, readset or command input makes a
\* new cache key" (docs/maintenance/runtime-model.md:134-135): what is reused is
\* true of the present tree, in whatever file git does not ignore the step finds
\* its fault.
EveryChangeIsTold ==
  \A v \in Verifier : \A e \in filed :
    verifier[v].undisturbed /\ e.undisturbed /\ objection[1] \notin Ignored
    => ReusedRightly(v, e)

\* "only those whose fingerprint of the contents agrees and that passed"
\* (docs/maintenance/runtime-model.md:132): a result that git's answers are
\* behind is filed under the key of the tree that has passed.
FiledUnderItsTree ==
  \A e \in filed : e.key.head # NoGit => e.key.digest = Digest(e.seen, e.key.changed)

-----------------------------------------------------------------------------
\* The inductive invariant of the proofs

\* What was filed without a disturbance: a pass, under the key of its tree
FiledHonestly ==
  \A e \in filed :
    e.undisturbed => /\ Passes(e.seen)
                     /\ e.key.head \in Tree
                     /\ e.key = Key(e.seen, e.key.head, e.index)

\* A run that nothing has disturbed holds the key of the present tree.
KeyIsPresent ==
  \A v \in Verifier :
    verifier[v].undisturbed =>
      /\ verifier[v].pc \in {"listed", "keyed", "running"} =>
           /\ verifier[v].key.head = head
           /\ verifier[v].key.changed = ChangedPaths(tree, head, index)
      /\ verifier[v].pc \in {"keyed", "running"} => verifier[v].key = Key(tree, head, index)

CacheInv == CacheTypeOK /\ FiledHonestly /\ KeyIsPresent
=============================================================================
