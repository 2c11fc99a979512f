------------------------------ MODULE MCCairnCli ------------------------------
(***************************************************************************)
(* The commands of cc-cairn that change several files of a project as one: *)
(* deployment, the knowledge index, the loop profile and Doctor's fix.     *)
(* They have no file in common, so that a behaviour of the program is      *)
(* checked for each on its own: the first state chooses whose it is, and   *)
(* the others stay as they are.  What Doctor says is checked in the states *)
(* of deployment.                                                          *)
(***************************************************************************)
EXTENDS Doctor, KnowledgeIndex, ProfileSwitch

VARIABLE command   \* whose behaviour this is

AnyHookAndFixer == Permutations(UserHook) \cup Permutations(Fixer)

FourFiles == {<<"rules", "a">>, <<"rules", "b">>, <<"rules", "c">>, <<"pitfalls", "d">>}

\* Three rules in their category; the fourth file is not registered.
ThreeRules == <<Heading("rules"), Entry(<<"rules", "a">>, "k1"),
                Entry(<<"rules", "b">>, "k2"), Entry(<<"rules", "c">>, "k3")>>

TwoDirectories == <<"context", "changes">>

\* Where those stand whose behaviour it is not
DeployRests == DeployInit /\ tree = [a \in Adapter |-> NoTree]
                          /\ hook = [active |-> "none", bak |-> "none", cbak |-> "none"]
ProfileRests == ProfileInit /\ disk.profile = "standard" /\ disk.envelope = "absent"
DoctorRests == DoctorInit /\ ~looping /\ filled = {} /\ place = [p \in Path |-> "nothing"]

\* Doctor fixes what an installation of one adapter lacks.
OneInstalled == DeployInit /\ meta.listed = AssetAdapter /\ hook.bak = "none"

\* A project has one adapter at most to begin with; a second one is installed
\* by init.
CliInit ==
  \/ /\ command = "init, update, uninstall" /\ DeployInit /\ meta.listed # Adapter
     /\ IndexInit /\ ProfileRests /\ DoctorRests
  \/ command = "add-knowledge" /\ DeployRests /\ IndexInit /\ ProfileRests /\ DoctorRests
  \/ command = "loop" /\ DeployRests /\ IndexInit /\ ProfileInit /\ DoctorRests
  \/ command = "doctor" /\ OneInstalled /\ IndexInit /\ ProfileRests /\ DoctorInit

CliNext ==
  \/ /\ command = "init, update, uninstall" /\ DeployNext
     /\ UNCHANGED <<command, indexVars, profileVars, doctorVars>>
  \/ /\ command = "add-knowledge" /\ IndexNext
     /\ UNCHANGED <<command, deployVars, profileVars, doctorVars>>
  \/ /\ command = "loop" /\ ProfileNext
     /\ UNCHANGED <<command, deployVars, indexVars, doctorVars>>
  \/ /\ command = "doctor" /\ DoctorNext
     /\ UNCHANGED <<command, deployVars, indexVars, profileVars>>

CliSpec ==
  CliInit /\ [][CliNext]_<<command, deployVars, indexVars, profileVars, doctorVars>>
=============================================================================
