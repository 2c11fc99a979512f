------------------------------- MODULE Doctor -------------------------------
(***************************************************************************)
(* cc-cairn doctor.  It reads what the deployment commands leave behind    *)
(* and says what is wrong with it; with --fix --apply it makes the state   *)
(* directories that are missing, one mkdir after the other, and takes them *)
(* away again when one fails.  Nothing keeps two doctors, or a doctor and  *)
(* any other command, from doing so at the same time.                      *)
(*                                                                         *)
(* A framework directory is complete or it is not there, so that of the    *)
(* checks inside of it only those are left that can tell the trees of      *)
(* Deployment apart; nobody edits install.yaml.  A report is read at once. *)
(***************************************************************************)
EXTENDS Deployment, SequencesExt

CONSTANTS
  Fixer,             \* the calls of doctor --fix --apply
  StateDirectories,  \* STATE_DIRECTORIES, in order
  MaxMeddling        \* bound: failures, kills, and what others do meanwhile

Top == ".cairness"
LoopDirectory == "loop-audit"

ASSUME DoctorParameters ==
  /\ StateDirectories \in Seq(STRING)
  /\ {Top, LoopDirectory} \cap Range(StateDirectories) = {}
  /\ MaxMeddling \in Nat

Directory == Range(StateDirectories) \cup {LoopDirectory}
Path == Directory \cup {Top}

VARIABLES
  place,     \* what is at a path: nothing, a directory or a file
  filled,    \* the directories in which somebody has put a file
  looping,   \* whether the profile is loop
  fixer,     \* per call: where it is and what it has to undo
  meddling

doctorVars == <<place, filled, looping, fixer, meddling>>

-----------------------------------------------------------------------------
\* What Doctor says of a deployment.  --adapter names one that is listed, or
\* is "none".

\* A doctor that does not read install.yaml
RecordedSlip == Legacy

\* The adapter that install.yaml names; a project without a readable one is
\* of the legacy adapter.
Recorded == IF meta.active \in Adapter THEN meta.active ELSE Legacy

Diagnosed(option) == IF option # "none" THEN option ELSE Recorded

\* cmd_doctor looks into the project's own framework directory if that has a
\* VERSION, and otherwise into the package that it runs from, which has the
\* layout of the legacy adapter.
OwnFramework(a) == tree[a].kind = "cairness"

\* cc-doctor-check of that framework, for the project around it: the shipped
\* profile is loop, and init has seeded loop-config.yaml.  Around the package
\* there is none.
InternalIssues(a) == IF OwnFramework(a) /\ seeded THEN {} ELSE {"E_DOCTOR014"}

\* The assets that the adapter's manifest names: the package has those of the
\* legacy adapter alone, and the project asset is there or it is not, whoever
\* wrote it.  The package also ships the skill that a tree with a project
\* asset must not have a second time.
HostAssetIssues(a) ==
  (IF ~OwnFramework(a) /\ a # Legacy THEN {"E_DOCTOR104"} ELSE {})
    \cup (IF a \in AssetAdapter /\ asset = 0 THEN {"E_DOCTOR104"} ELSE {})
    \cup (IF a \in AssetAdapter /\ ~OwnFramework(a) /\ asset # 0 THEN {"E_DOCTOR105"} ELSE {})

\* build_doctor_report, when these state directories are missing
DoctorIssues(option, missing) ==
  LET a == Diagnosed(option) IN
    InternalIssues(a) \cup HostAssetIssues(a)
      \cup (IF missing # {} THEN {"E_DOCTOR101"} ELSE {})

-----------------------------------------------------------------------------
\* doctor --fix --apply

\* _required_state_directories, and those of them that a report names
Required == Range(StateDirectories) \cup (IF looping THEN {LoopDirectory} ELSE {})
IsDirectory(p) == place[p] = "directory"
MissingDirectories == {d \in Required : ~IsDirectory(d)}

\* fix_plan has the order of the issues.
Turn(d) == IF d = LoopDirectory THEN Len(StateDirectories) + 1
           ELSE CHOOSE i \in DOMAIN StateDirectories : StateDirectories[i] = d

Fix == [pc : {"idle", "next", "make", "undo"}, todo : SUBSET Directory,
        missing : Seq(Path), created : Seq(Path), plan : SUBSET Directory,
        made : SUBSET Path, met : BOOLEAN,
        ended : {"", "passed", "issues", "failed", "killed"}]

NoFix == [pc |-> "idle", todo |-> {}, missing |-> <<>>, created |-> <<>>,
          plan |-> {}, made |-> {}, met |-> FALSE, ended |-> ""]

DoctorInit ==
  /\ \E there \in SUBSET Directory, file \in SUBSET Path, top \in BOOLEAN :
       /\ there # {} => top /\ Top \notin file
       /\ Top \in file => ~top /\ file = {Top}
       /\ file # {} => Top \in file \/ top
       /\ there \cap file = {} /\ Cardinality(file) <= 1
       /\ place = [p \in Path |-> IF p \in file THEN "file"
                                  ELSE IF p \in there \/ (p = Top /\ top) THEN "directory"
                                  ELSE "nothing"]
       /\ filled \in SUBSET there
  /\ looping \in BOOLEAN
  /\ fixer = [c \in Fixer |-> NoFix]
  /\ meddling = 0

Meddles == meddling < MaxMeddling /\ meddling' = meddling + 1
FixAt(c, pc) == fixer[c].pc = pc

\* The report, and the plan made from it
BeginFix(c) ==
  /\ FixAt(c, "idle") /\ fixer[c].ended = ""
  /\ fixer' = [fixer EXCEPT ![c] = [NoFix EXCEPT !.pc = "next", !.todo = MissingDirectories,
                                                 !.plan = MissingDirectories]]
  /\ UNCHANGED <<place, filled, looping, meddling>>

\* One turn of apply_fix_plan's loop, up to its first mkdir: a path at which
\* there is anything is passed over; what is missing is made top down.
NextDirectory(c) ==
  /\ FixAt(c, "next")
  /\ \E d \in fixer[c].todo :
       /\ \A e \in fixer[c].todo : Turn(d) <= Turn(e)
       /\ fixer' = [fixer EXCEPT
            ![c].todo = @ \ {d},
            ![c].pc = IF place[d] # "nothing" THEN "next" ELSE "make",
            ![c].missing = IF place[d] # "nothing" THEN <<>>
                           ELSE IF place[Top] = "nothing" THEN <<Top, d>> ELSE <<d>>]
  /\ UNCHANGED <<place, filled, looping, meddling>>

\* mkdir fails where there is something already and where there is no parent.
CanMake(p) == place[p] = "nothing" /\ (p # Top => IsDirectory(Top))

\* A directory noted before it is made
MakeDirectorySlip(c) ==
  /\ FixAt(c, "make")
  /\ LET p == Head(fixer[c].missing) IN
       /\ IF CanMake(p)
            THEN /\ place' = [place EXCEPT ![p] = "directory"]
                 /\ fixer' = [fixer EXCEPT ![c].missing = Tail(@),
                                           ![c].pc = IF Len(fixer[c].missing) = 1 THEN "next" ELSE "make",
                                           ![c].created = Append(@, p),
                                           ![c].made = @ \cup {p}]
            ELSE /\ fixer' = [fixer EXCEPT ![c].pc = "undo", ![c].created = Append(@, p)]
                 /\ UNCHANGED place
  /\ UNCHANGED <<filled, looping, meddling>>

MakeDirectory(c) ==
  /\ FixAt(c, "make")
  /\ LET p == Head(fixer[c].missing) IN
       IF CanMake(p)
         THEN /\ place' = [place EXCEPT ![p] = "directory"]
              /\ fixer' = [fixer EXCEPT ![c].missing = Tail(@),
                                        ![c].pc = IF Len(fixer[c].missing) = 1 THEN "next" ELSE "make",
                                        ![c].created = Append(@, p),
                                        ![c].made = @ \cup {p}]
         ELSE /\ fixer' = [fixer EXCEPT ![c].pc = "undo"]
              /\ UNCHANGED place
  /\ UNCHANGED <<filled, looping, meddling>>

\* It fails for another reason: the disk is full, permission is denied.
MakeFails(c) ==
  /\ FixAt(c, "make") /\ Meddles
  /\ fixer' = [fixer EXCEPT ![c].pc = "undo"]
  /\ UNCHANGED <<place, filled, looping>>

Children == {d \in Directory : place[d] # "nothing"}
Occupied(p) == p \in filled \/ (p = Top /\ Children # {})

\* What the removal of a directory is to everybody else who is fixing
Meets(f, c, removed) ==
  [d \in Fixer |-> IF d # c /\ removed THEN [f[d] EXCEPT !.met = TRUE] ELSE f[d]]

\* The handler: rmdir on what was made, the last one first, and an error of
\* rmdir is passed over.  Then the exception goes on to cmd_doctor.
UndoDirectory(c) ==
  /\ FixAt(c, "undo")
  /\ LET left == fixer[c].created
         ends == Len(left) <= 1
         gone == left # <<>> /\ IsDirectory(Last(left)) /\ ~Occupied(Last(left))
         next == [fixer EXCEPT ![c].created = IF left = <<>> THEN left ELSE Front(left),
                               ![c].pc = IF ends THEN "idle" ELSE "undo",
                               ![c].ended = IF ends THEN "failed" ELSE ""]
     IN /\ place' = IF gone THEN [place EXCEPT ![Last(left)] = "nothing"] ELSE place
        /\ fixer' = Meets(next, c, gone)
  /\ UNCHANGED <<filled, looping, meddling>>

\* The second report, and the exit code
ReportAgain(c) ==
  /\ FixAt(c, "next") /\ fixer[c].todo = {}
  /\ fixer' = [fixer EXCEPT ![c].pc = "idle",
                 ![c].ended = IF DoctorIssues("none", MissingDirectories) = {}
                              THEN "passed" ELSE "issues"]
  /\ UNCHANGED <<place, filled, looping, meddling>>

KillFix(c) ==
  /\ ~FixAt(c, "idle") /\ Meddles
  /\ fixer' = [fixer EXCEPT ![c].pc = "idle", ![c].ended = "killed"]
  /\ UNCHANGED <<place, filled, looping>>

\* Any other command that puts a file into a state directory makes the
\* directory if it has to; somebody may put a file in its place; and the
\* profile may change.
OthersWrite ==
  /\ Meddles
  /\ \E d \in Directory :
       /\ place[d] \in {"nothing", "directory"} /\ place[Top] # "file"
       /\ place' = [place EXCEPT ![d] = "directory", ![Top] = "directory"]
       /\ filled' = filled \cup {d}
  /\ UNCHANGED <<looping, fixer>>

OthersBlock ==
  /\ Meddles
  /\ \E p \in Path : CanMake(p) /\ place' = [place EXCEPT ![p] = "file"]
  /\ UNCHANGED <<filled, looping, fixer>>

ProfileChanges ==
  /\ Meddles
  /\ looping' = ~looping
  /\ UNCHANGED <<place, filled, fixer>>

DoctorNext ==
  \/ \E c \in Fixer :
       \/ BeginFix(c) \/ NextDirectory(c) \/ MakeDirectory(c) \/ MakeFails(c)
       \/ UndoDirectory(c) \/ ReportAgain(c) \/ KillFix(c)
  \/ OthersWrite \/ OthersBlock \/ ProfileChanges

DoctorSpec == DoctorInit /\ [][DoctorNext]_doctorVars

-----------------------------------------------------------------------------
\* Properties

\* Doctor tells the two kinds of state apart that the deployment commands
\* leave behind: where an adapter's directory or its project asset is missing,
\* it finds fault with it, whatever command was killed or failed where; and
\* with what no command was cut short in, after any sequence of them, failed
\* ones included, it finds none, for the active and for every listed adapter.
Damaged(a) == tree[a].kind # "cairness" \/ (a \in AssetAdapter /\ asset = 0)

DoctorIsRight ==
  Idle /\ meta.active # "none" =>
    \A option \in meta.listed \cup {"none"} :
      LET found == DoctorIssues(option, IF seeded THEN {} ELSE {Top}) IN
        /\ Damaged(Diagnosed(option)) => found # {}
        /\ Clean => found = {}

\* A step of a fix removes nothing but a directory that it made itself and in
\* which there is nothing.
TakesItsOwn(c) ==
  fixer'[c].pc # fixer[c].pc \/ fixer'[c].created # fixer[c].created =>
    \A p \in Path : IsDirectory(p) /\ place'[p] = "nothing" =>
      p \in fixer[c].made /\ ~Occupied(p)

\* One that fails leaves none of them, but for those that somebody uses or has
\* made again.
LeavesNone(c) ==
  fixer'[c].ended = "failed" /\ fixer[c].ended = "" =>
    \A p \in fixer[c].made :
      ~IsDirectory(p)' \/ Occupied(p)' \/ \E d \in Fixer \ {c} : p \in fixer[d].made

\* One that does not fail has seen to every directory of its plan, unless
\* another's undo took some away meanwhile.
SeesToAll(c) ==
  fixer'[c].ended \in {"passed", "issues"} /\ fixer[c].ended = "" /\ ~fixer[c].met =>
    \A p \in fixer[c].plan : place[p] # "nothing"

\* apply_fix_plan makes all that it was to make, or undoes what it made.
FixAllOrNothing ==
  [][\A c \in Fixer : TakesItsOwn(c) /\ LeavesNone(c) /\ SeesToAll(c)]_doctorVars

-----------------------------------------------------------------------------
\* The parts of the inductive invariants that DeploymentProofs uses.

DoctorTypeOK ==
  /\ place \in [Path -> {"nothing", "directory", "file"}]
  /\ filled \in SUBSET Directory
  /\ looping \in BOOLEAN
  /\ fixer \in [Fixer -> Fix]
  /\ meddling \in 0 .. MaxMeddling

\* There is nothing without the directory that it is in.
Parented == \A d \in Directory : place[d] # "nothing" => IsDirectory(Top)

\* What a call has noted as made is there, is its own, and is noted once, the
\* top first, for as long as it may still have to undo it.
CreatedStands ==
  \A c \in Fixer : \A i \in DOMAIN fixer[c].created :
    LET p == fixer[c].created[i] IN
      /\ IsDirectory(p) /\ p \in fixer[c].made
      /\ p = Top => i = 1
      /\ \A d \in Fixer : \A k \in DOMAIN fixer[d].created :
           fixer[d].created[k] = p => d = c /\ k = i

\* Where the directories are that a call made, and those of its plan
Noted(c, p) == \E i \in DOMAIN fixer[c].created : fixer[c].created[i] = p
Done(c, p) ==
  p # Top /\ (~IsDirectory(p) \/ p \in filled \/ \E d \in Fixer \ {c} : p \in fixer[d].made)
Pending(c, p) ==
  p \in fixer[c].todo \/ \E i \in DOMAIN fixer[c].missing : fixer[c].missing[i] = p

FixFits(c) ==
  /\ fixer[c].ended = "" \/ FixAt(c, "idle")
  /\ FixAt(c, "idle") /\ fixer[c].ended = "" => fixer[c].made = {}
  /\ FixAt(c, "make") => fixer[c].missing # <<>>
  /\ FixAt(c, "next") => fixer[c].missing = <<>>
  /\ FixAt(c, "next") \/ FixAt(c, "make") => \A p \in fixer[c].made : Noted(c, p)
  /\ FixAt(c, "undo") => \A p \in fixer[c].made : Noted(c, p) \/ Done(c, p)
  /\ (FixAt(c, "next") \/ FixAt(c, "make")) /\ ~fixer[c].met =>
       \A p \in fixer[c].plan : place[p] # "nothing" \/ Pending(c, p)

FixesFit == \A c \in Fixer : FixFits(c)

\* What holds besides DeployInv's parts while a command is under way, so that
\* Doctor has nothing to find fault with afterwards.

\* What init seeds is there as long as an adapter is recorded, ...
Installing == {"clear", "aside", "build", "carry"} \cup (Swapped \ {"untree"})

SeededHeld ==
  Clean =>
    /\ meta.listed # {} => seeded
    /\ ~Idle /\ job.before.meta.listed # {} => job.before.seeded
    /\ job.pc \in {"hook", "copyhook", "publish"} => seeded
    /\ job.cmd = "update" /\ job.pc \in Installing => seeded

\* ... and the asset as long as its tree.
AssetThere ==
  Clean => \A a \in AssetAdapter :
    /\ Rests(a) => (tree[a].kind = "cairness" => asset # 0)
    /\ ~Rests(a) => (job.before.tree.kind = "cairness" => job.before.asset # 0)
    /\ ~Rests(a) /\ job.pc \in {"seed", "hook", "copyhook", "publish"} => asset # 0
=============================================================================
