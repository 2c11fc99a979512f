----------------------------- MODULE ChangeBoard -----------------------------
(***************************************************************************)
(* All the changes of a project at once: what discover_changes reads of    *)
(* them, and the three things the framework derives from that - whether    *)
(* the dependencies of a change permit its implementation (check_          *)
(* dependencies), where cc-start routes a user (route_intent), and which   *)
(* files of a commit no change has declared (detect_orphans).  Agents move *)
(* the changes as the manifests runtime/commands/cc-*.yaml say; a change   *)
(* whose spec.md is being rewritten cannot be seen.                        *)
(***************************************************************************)
EXTENDS Naturals, FiniteSets

CONSTANTS
  BoardChange, \* ids of changes
  SourceFile,  \* the files that they implement
  Intentional, \* those that task-board.md lists as intentional exceptions
  Misprinted   \* paths that git prints under a name that is not theirs from the
               \* project root

BoardStatus == {"absent", "propose", "apply", "review", "done"}
BoardPath == ({"source"} \X SourceFile) \cup ({"events"} \X BoardChange)
Source(f) == <<"source", f>>
EventsOf(c) == <<"events", c>>          \* the change's events.jsonl

\* A name that is not ASCII is printed in quotes; of a project that lies below
\* the root of its repository, every name is relative to that root.
BoardAssumption ==
  /\ Intentional \subseteq SourceFile /\ IsFiniteSet(BoardChange)
  /\ Misprinted \subseteq {Source(f) : f \in SourceFile} \/ Misprinted = BoardPath

ASSUME BoardParameters == BoardAssumption

VARIABLES
  board,     \* per change: status and deps (spec.md), files (tasks.md), whether
             \* review.md has open findings, and which of the two are cut short
  cleared,   \* per change: {}, or {the dependencies with which cc-deps check passed it}
  staged,    \* the files of the next commit
  stray      \* those that somebody changed outside every change

boardVars == <<board, cleared, staged, stray>>

NoChange == [status |-> "absent", deps |-> {}, files |-> {}, findings |-> FALSE,
             specCut |-> FALSE, reviewCut |-> FALSE]

\* Is the framework installed, has the project a context?  cc-init sees to it.
Site == [installed : BOOLEAN, context : BOOLEAN]

BoardInit ==
  /\ board = [c \in BoardChange |-> NoChange]
  /\ cleared = [c \in BoardChange |-> {}]
  /\ staged = {} /\ stray = {}

-----------------------------------------------------------------------------
\* What discover_changes and _state see.

Seen == {c \in BoardChange : board[c].status # "absent" /\ ~board[c].specCut}
With(status) == {c \in Seen : board[c].status = status}

\* A review.md that cannot be decoded counts as one without open findings.
OpenSeen(c) == board[c].findings /\ ~board[c].reviewCut

\* check_dependencies: unsatisfied, blocked and not_done block alike.
DepsReady(c) == board[c].deps \subseteq With("review") \cup With("done")

-----------------------------------------------------------------------------
\* intent_router.py.  A route has the code of its first precondition ("" if
\* it is ready), the command of next_action, and the changes which that may be
\* called for.

Route(code, next, among) == [code |-> code, next |-> next, among |-> among]

\* Exactly one change, or one that the user has to choose
OneOf(command, S) ==
  Route(IF Cardinality(S) = 1 THEN "" ELSE "E_START102", command, S)

\* _status_route
StatusRoute(site) ==
  IF With("apply") # {} THEN OneOf("cc-apply", With("apply"))
  ELSE IF Cardinality(With("review")) = 1
       THEN OneOf(IF \E c \in With("review") : OpenSeen(c) THEN "cc-fix" ELSE "cc-test",
                  With("review"))
  ELSE IF With("review") # {} THEN OneOf("cc-review", With("review"))
  ELSE IF With("propose") # {} THEN OneOf("cc-apply", With("propose"))
  ELSE Route("", IF site.context THEN "cc-propose" ELSE "cc-init", {})

\* The intent change: resume what is under way, or propose something new
ChangeRoute ==
  IF With("apply") # {} THEN OneOf("cc-apply", With("apply")) ELSE Route("", "cc-propose", {})

\* _single_change_route when no change is in review
Unreviewed(command) ==
  IF Cardinality(With("apply")) = 1 THEN Route("E_START106", "cc-apply", With("apply"))
  ELSE IF Cardinality(With("propose")) = 1
       THEN Route("E_START106", "cc-apply", With("propose"))
  ELSE Route("E_START103", command, {})

\* The intents review, fix and archive
ReviewRouteSlip(command) ==
  IF With("review") = {} THEN Unreviewed(command)
  ELSE IF Cardinality(With("review")) = 1 /\ command = "cc-archive"
            /\ \E c \in With("review") : OpenSeen(c)
       THEN Route("E_START105", "cc-fix", With("review"))
  ELSE OneOf(command, With("review"))
ReviewRoute(command) ==
  IF With("review") = {} THEN Unreviewed(command)
  ELSE IF Cardinality(With("review")) > 1 THEN OneOf(command, With("review"))
  ELSE LET open == \E c \in With("review") : OpenSeen(c) IN
       IF command = "cc-fix" /\ ~open THEN Route("E_START104", "cc-review", With("review"))
       ELSE IF command = "cc-archive" /\ open THEN Route("E_START105", "cc-fix", With("review"))
       ELSE OneOf(command, With("review"))

Intent == {"new-project", "change", "review", "fix", "archive", "status"}

RouteIntent(intent, site) ==
  IF ~site.installed THEN Route("E_START101", "cc-cairn onboard", {})
  ELSE CASE intent = "new-project" -> Route("", "cc-new-project", {})
         [] intent = "change" -> ChangeRoute
         [] intent = "review" -> ReviewRoute("cc-review")
         [] intent = "fix" -> ReviewRoute("cc-fix")
         [] intent = "archive" -> ReviewRoute("cc-archive")
         [] intent = "status" -> StatusRoute(site)

-----------------------------------------------------------------------------
\* detect_orphans of what is staged.  What git prints is compared with the
\* scopes as it stands; a name that is misprinted lies in none of them.

\* Changes whose declarations count: those not done, and those that are done
\* by this very commit
EligibleSlip == {c \in Seen : board[c].status # "done"}
Eligible == {c \in Seen : board[c].status # "done" \/ EventsOf(c) \in staged \ Misprinted}

GovernanceFiles == {EventsOf(c) : c \in Seen}
Declared == {Source(f) : f \in Intentional \cup UNION {board[c].files : c \in Eligible}}

\* The old name of a renamed file, which git leaves out, would only add to them.
Orphans ==
  IF Seen = {} /\ Intentional = {} THEN {}     \* no_declared_source
  ELSE staged \ ((GovernanceFiles \cup Declared) \ Misprinted)

-----------------------------------------------------------------------------
\* Agents.

Update(c, new) == board' = [board EXCEPT ![c] = new]

\* cc-propose writes, or writes again, spec.md and tasks.md.
ProposeChange(c) ==
  /\ board[c].status \in {"absent", "propose"} /\ ~board[c].specCut
  /\ \E deps \in SUBSET (BoardChange \ {c}), files \in SUBSET SourceFile :
       Update(c, [board[c] EXCEPT !.status = "propose", !.deps = deps, !.files = files])
  /\ staged' = staged \cup {EventsOf(c)}
  /\ UNCHANGED <<cleared, stray>>

\* cc-deps check --change c, which passes
ClearDeps(c) ==
  /\ c \in With("propose") /\ DepsReady(c)
  /\ cleared' = [cleared EXCEPT ![c] = {board[c].deps}]
  /\ UNCHANGED <<board, staged, stray>>

\* cc-apply begins after that check, however long after.
BeginApply(c) ==
  /\ c \in With("propose") /\ cleared[c] # {}
  /\ Update(c, [board[c] EXCEPT !.status = "apply"])
  /\ UNCHANGED <<cleared, staged, stray>>

\* cc-apply and cc-fix change files that tasks.md declares.
Implement(c) ==
  /\ board[c].status = "apply" \/ (board[c].status = "review" /\ board[c].findings)
  /\ \E f \in board[c].files : staged' = staged \cup {Source(f)}
  /\ UNCHANGED <<board, cleared, stray>>

\* cc-apply ends, cc-review and cc-fix write review.md, cc-archive ends; each
\* appends its event.
Advance(c) ==
  /\ c \in Seen
  /\ \/ /\ board[c].status = "apply"
        /\ Update(c, [board[c] EXCEPT !.status = "review"])
     \/ /\ board[c].status = "review"
        /\ \E open \in BOOLEAN :
             Update(c, [board[c] EXCEPT !.findings = open, !.reviewCut = FALSE])
     \/ /\ board[c].status = "review" /\ ~board[c].findings
        /\ Update(c, [board[c] EXCEPT !.status = "done"])
  /\ staged' = staged \cup {EventsOf(c)}
  /\ UNCHANGED <<cleared, stray>>

\* A write of spec.md or of review.md is under way, or was cut short.
CutShort(c) ==
  /\ \/ c \in Seen /\ Update(c, [board[c] EXCEPT !.specCut = TRUE])
     \/ /\ board[c].status = "review" /\ ~board[c].reviewCut
        /\ Update(c, [board[c] EXCEPT !.reviewCut = TRUE])
  /\ UNCHANGED <<cleared, staged, stray>>

\* spec.md is written to its end.
WholeAgain(c) ==
  /\ board[c].specCut
  /\ Update(c, [board[c] EXCEPT !.specCut = FALSE])
  /\ UNCHANGED <<cleared, staged, stray>>

\* Somebody changes a file on his own.
EditStray ==
  /\ \E f \in SourceFile : staged' = staged \cup {Source(f)} /\ stray' = stray \cup {Source(f)}
  /\ UNCHANGED <<board, cleared>>

\* git commit of all that changed.  Orphans stop it only where the hook runs,
\* with orphan_policy: strict, and git answers it in time.
CommitAll ==
  /\ staged # {}
  /\ staged' = {} /\ stray' = {}
  /\ UNCHANGED <<board, cleared>>

BoardNext ==
  \/ \E c \in BoardChange :
       \/ ProposeChange(c) \/ ClearDeps(c) \/ BeginApply(c) \/ Implement(c)
       \/ Advance(c) \/ CutShort(c) \/ WholeAgain(c)
  \/ EditStray \/ CommitAll

BoardSpec == BoardInit /\ [][BoardNext]_boardVars

-----------------------------------------------------------------------------
\* Properties

BoardTypeOK ==
  /\ board \in [BoardChange ->
       [status : BoardStatus, deps : SUBSET BoardChange, files : SUBSET SourceFile,
        findings : BOOLEAN, specCut : BOOLEAN, reviewCut : BOOLEAN]]
  /\ cleared \in [BoardChange -> SUBSET SUBSET BoardChange]
  /\ staged \subseteq BoardPath
  /\ stray \subseteq staged

\* What a command accepts: state.change_from of its manifest, an open finding
\* for cc-fix, none for cc-archive.
Accepts(command, c) ==
  CASE command = "cc-apply" -> board[c].status \in {"propose", "apply"}
    [] command = "cc-test" -> board[c].status \in {"apply", "review"}
    [] command = "cc-review" -> board[c].status = "review"
    [] command = "cc-fix" -> board[c].status = "review" /\ board[c].findings
    [] command = "cc-archive" -> board[c].status = "review" /\ ~board[c].findings

\* Wherever a route leads, be it ready or blocked: the command it recommends
\* accepts the change it is for - if it names several, one after the user's
\* choice where the command does not depend on findings.  A review.md that is
\* cut short voids this for its change.
RouteIsLegal ==
  \A intent \in Intent, site \in {s \in Site : s.installed} :
    LET route == RouteIntent(intent, site) IN
      \A c \in route.among :
        \/ Accepts(route.next, c)
        \/ board[c].reviewCut
        \/ route.code = "E_START102" /\ board[c].status = "review"

\* "No spec, no code" raises no false alarm: a file that some change declared
\* when an agent worked on it is no orphan in a commit of all that changed,
\* even when the change was archived meanwhile - if every spec.md is whole and
\* git prints the file's name as it is.  (A misprinted name is an orphan whatever
\* is declared.)
NoFalseOrphan ==
  (\A c \in BoardChange : ~board[c].specCut) => Orphans \subseteq stray \cup Misprinted

\* No progress of other changes outdates a check: what cc-deps check found in
\* review or done stays so, and with it the ground on which cc-apply begins.
\* Only the change itself may be proposed again with other dependencies.
ClearedStaysClear ==
  \A c \in BoardChange : \A deps \in cleared[c] : \A dep \in deps :
    board[dep].status \in {"review", "done"}

-----------------------------------------------------------------------------
\* The inductive invariant of the proofs

\* Why each staged file is staged: an event of a change that there is, a file
\* that somebody changed on his own, or one declared by a change under way -
\* or archived by an event that is staged with it.
StagedIsAccounted ==
  /\ \A c \in BoardChange : EventsOf(c) \in staged => board[c].status # "absent"
  /\ \A f \in SourceFile :
       Source(f) \in staged =>
         \/ Source(f) \in stray
         \/ \E c \in BoardChange :
              /\ f \in board[c].files
              /\ \/ board[c].status \in {"apply", "review"}
                 \/ board[c].status = "done" /\ EventsOf(c) \in staged

BoardInv == BoardTypeOK /\ StagedIsAccounted /\ ClearedStaysClear
=============================================================================
