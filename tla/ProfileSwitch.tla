---------------------------- MODULE ProfileSwitch ----------------------------
(***************************************************************************)
(* cc-cairn loop enable / disable and cc-cairn profile set.  A loop switch *)
(* touches three things: loop-config.yaml (the trust envelope), which it   *)
(* seeds from the template, the profile in harness.config.yaml, and the    *)
(* read sets that cc-readset derives from it.  When a step fails it puts   *)
(* back what it saw at the beginning; when it is killed it does not.       *)
(* cc-cairn profile set changes the profile alone.                         *)
(***************************************************************************)
EXTENDS Naturals, FiniteSets

CONSTANTS
  Switcher,    \* concurrent calls
  ReadsetFile, \* files of runtime/readsets
  MaxSwitches, \* bound: calls
  MaxMishaps   \* bound: failures of a step and kills

Profile == {"minimal", "standard", "strict", "loop"}
Envelope == {"absent", "template", "edited"}
Disk == [profile : Profile, byHand : BOOLEAN, envelope : Envelope,
         readset : [ReadsetFile -> Profile]]

VARIABLES
  disk,      \* the three things that a switch touches; and whether the profile
             \* is there by cc-cairn profile set
  switch,    \* per call: where it is, its target, the disk it saw, what it derived
  switches, mishaps,
  disturbed  \* the callers whose calls somebody else's write has met

profileVars == <<disk, switch, switches, mishaps, disturbed>>

Uniform(p) == [f \in ReadsetFile |-> p]
SwitchCall(pc, target, before) == [pc |-> pc, target |-> target, before |-> before,
                             derived |-> before.readset, unwritten |-> {}]
NoSwitch == SwitchCall("idle", "standard", [profile |-> "standard", byHand |-> FALSE,
                                  envelope |-> "absent", readset |-> Uniform("standard")])
UnderWay == {c \in Switcher : switch[c].pc # "idle"}

ProfileInit ==
  /\ \E p \in {"standard", "strict"}, e \in {"absent", "edited"} :
       disk = [profile |-> p, byHand |-> FALSE, envelope |-> e, readset |-> Uniform(p)]
  /\ switch = [c \in Switcher |-> NoSwitch]
  /\ switches = 0 /\ mishaps = 0 /\ disturbed = {}

Goto(c, here, there) ==
  /\ switch[c].pc = here
  /\ switch' = [switch EXCEPT ![c].pc = there]

\* A write of one file; every other call under way is disturbed by it.
Writes(c, new) ==
  /\ disk' = new
  /\ disturbed' = IF new = disk THEN disturbed
                                ELSE disturbed \cup (UnderWay \ {c})

Unbounded == UNCHANGED <<switches, mishaps>>

-----------------------------------------------------------------------------
\* _transition_loop_profile

BeginSwitch(c) ==
  /\ switch[c].pc = "idle" /\ switches < MaxSwitches
  /\ \E target \in {"loop", "standard"} :
       switch' = [switch EXCEPT ![c] =
         SwitchCall(IF target = "loop" THEN "seed" ELSE "set", target, disk)]
  /\ switches' = switches + 1
  /\ UNCHANGED <<disk, mishaps, disturbed>>

\* A switch that forgets the envelope
SeedEnvelopeSlip(c) ==
  /\ Goto(c, "seed", "set")
  /\ Unbounded /\ UNCHANGED <<disk, disturbed>>
SeedEnvelope(c) ==
  /\ Goto(c, "seed", "set")
  /\ Writes(c, IF disk.envelope = "absent" THEN [disk EXCEPT !.envelope = "template"] ELSE disk)
  /\ Unbounded

SetProfile(c) ==
  /\ Goto(c, "set", "derive")
  /\ Writes(c, IF disk.profile = switch[c].target THEN disk
               ELSE [disk EXCEPT !.profile = switch[c].target, !.byHand = FALSE])
  /\ Unbounded

\* cc-readset --write derives all read sets, and writes one after the other.
Derive(c) ==
  /\ switch[c].pc = "derive"
  /\ switch' = [switch EXCEPT ![c].pc = "write", ![c].derived = Uniform(disk.profile),
                              ![c].unwritten = ReadsetFile]
  /\ UNCHANGED <<disk, switches, mishaps, disturbed>>

WriteReadset(c) ==
  /\ switch[c].pc = "write"
  /\ \E f \in switch[c].unwritten :
       /\ Writes(c, [disk EXCEPT !.readset[f] = switch[c].derived[f]])
       /\ switch' = [switch EXCEPT ![c].unwritten = @ \ {f}]
  /\ Unbounded

\* cc-readset --check and cc-schema-check derive again and compare.
CheckReadsetsSlip(c) ==
  /\ Goto(c, "write", IF \A f \in ReadsetFile \ switch[c].unwritten :
                           disk.readset[f] = disk.profile
                      THEN "verify" ELSE "fail1")
  /\ UNCHANGED <<disk, switches, mishaps, disturbed>>
CheckReadsets(c) ==
  /\ switch[c].unwritten = {}
  /\ Goto(c, "write", IF disk.readset = Uniform(disk.profile) THEN "verify" ELSE "fail1")
  /\ UNCHANGED <<disk, switches, mishaps, disturbed>>

VerifySwitch(c) ==
  /\ switch[c].pc = "verify"
  /\ IF disk.profile # switch[c].target \/ (switch[c].target = "loop" /\ disk.envelope = "absent")
     THEN Goto(c, "verify", "fail1")
     ELSE switch' = [switch EXCEPT ![c] = NoSwitch]
  /\ UNCHANGED <<disk, switches, mishaps, disturbed>>

\* The template is missing, the disk is full, a script cannot run, fails or
\* is stopped after its 120 seconds: at any step.
StepFails(c) ==
  /\ switch[c].pc \in {"seed", "set", "derive", "write", "verify"} /\ mishaps < MaxMishaps
  /\ Goto(c, switch[c].pc, "fail1")
  /\ mishaps' = mishaps + 1
  /\ UNCHANGED <<disk, switches, disturbed>>

\* The handler restores the profile, then the envelope, then the read sets.
RestoreProfile(c) ==
  /\ Goto(c, "fail1", "fail2")
  /\ Writes(c, [disk EXCEPT !.profile = switch[c].before.profile,
                            !.byHand = switch[c].before.byHand])
  /\ Unbounded
RestoreEnvelope(c) ==
  /\ Goto(c, "fail2", "fail3")
  /\ Writes(c, [disk EXCEPT !.envelope = switch[c].before.envelope])
  /\ Unbounded
RestoreReadsets(c) ==
  /\ switch[c].pc = "fail3"
  /\ switch' = [switch EXCEPT ![c] = NoSwitch]
  /\ Writes(c, [disk EXCEPT !.readset = switch[c].before.readset])
  /\ Unbounded

-----------------------------------------------------------------------------
\* cc-cairn profile set --apply: one atomic replacement of harness.config.yaml
ProfileSet ==
  /\ switches < MaxSwitches
  /\ \E p \in Profile \ {disk.profile} : 
       disturbed' = disturbed \cup UnderWay /\ disk' = [disk EXCEPT !.profile = p, !.byHand = TRUE]
  /\ switches' = switches + 1
  /\ UNCHANGED <<switch, mishaps>>

\* The user writes the trust envelope.
EditEnvelope ==
  /\ disk.envelope = "template"
  /\ disk' = [disk EXCEPT !.envelope = "edited"]
  /\ disturbed' = disturbed \cup UnderWay
  /\ UNCHANGED <<switch, switches, mishaps>>

KillSwitch(c) ==
  /\ switch[c].pc # "idle" /\ mishaps < MaxMishaps
  /\ switch' = [switch EXCEPT ![c] = NoSwitch]
  /\ mishaps' = mishaps + 1
  /\ UNCHANGED <<disk, switches, disturbed>>

ProfileNext ==
  \/ \E c \in Switcher :
       \/ BeginSwitch(c) \/ SeedEnvelope(c) \/ SetProfile(c) \/ Derive(c) \/ WriteReadset(c)
       \/ CheckReadsets(c) \/ VerifySwitch(c) \/ StepFails(c) \/ KillSwitch(c)
       \/ RestoreProfile(c) \/ RestoreEnvelope(c) \/ RestoreReadsets(c)
  \/ ProfileSet \/ EditEnvelope

ProfileSpec == ProfileInit /\ [][ProfileNext]_profileVars

-----------------------------------------------------------------------------
\* Properties

\* A switch does all or nothing, unless somebody else wrote meanwhile.  When
\* _transition_loop_profile returns, the profile is in force, every read set
\* is derived from it, and there is an envelope if it is loop; when it fails,
\* at whatever step, all three are as it found them, an envelope that it seeded
\* and read sets half written included.
SwitchAllOrNothing ==
  [][\A c \in Switcher :
       switch'[c].pc = "idle" /\ switch[c].pc # "idle" /\ mishaps' = mishaps
         /\ c \notin disturbed =>
         \/ /\ switch[c].pc = "verify"
            /\ disk.profile = switch[c].target /\ disk.readset = Uniform(switch[c].target)
            /\ switch[c].target = "loop" => disk.envelope # "absent"
         \/ /\ switch[c].pc = "fail3"
            /\ disk' = switch[c].before]_profileVars

\* The loop profile never stands without a trust envelope, even when switches
\* are killed at any point or killed while they undo: the envelope is there
\* before the profile and goes after it.  cc-cairn profile set autonomous does
\* not keep to this, nor do switches that overlap.
LoopHasEnvelope ==
  disk.profile = "loop" /\ ~disk.byHand /\ disturbed = {} => disk.envelope # "absent"
-----------------------------------------------------------------------------
\* The inductive invariant of the proofs

CallRecord ==
  [pc : {"idle", "seed", "set", "derive", "write", "verify", "fail1", "fail2", "fail3"},
   target : {"loop", "standard"}, before : Disk, derived : [ReadsetFile -> Profile],
   unwritten : SUBSET ReadsetFile]

ProfileTypeOK ==
  /\ disk \in Disk
  /\ switch \in [Switcher -> CallRecord]
  /\ switches \in Nat /\ mishaps \in Nat
  /\ disturbed \subseteq Switcher

\* How a call that nobody has disturbed stands to the disk: it sees to the
\* envelope before the profile, takes no envelope away before it has put the
\* profile back, puts one thing back after the other, and reports success
\* only over read sets that fit.
Knows(call, d) ==
  /\ call.pc = "set" /\ call.target = "loop" => d.envelope # "absent"
  /\ call.pc \in {"seed", "set", "derive", "write", "verify", "fail1", "fail2"}
       /\ call.before.envelope # "absent" => d.envelope # "absent"
  /\ call.pc = "verify" => d.readset = Uniform(d.profile)
  /\ call.pc \in {"fail2", "fail3"} =>
       d.profile = call.before.profile /\ d.byHand = call.before.byHand
  /\ call.pc = "fail3" => d.envelope = call.before.envelope

\* What a call would put back has an envelope for its loop profile.
Remembers(call) ==
  call.pc # "idle" /\ call.before.profile = "loop" /\ ~call.before.byHand
    => call.before.envelope # "absent"

ProfileInv ==
  /\ ProfileTypeOK
  /\ \A c \in Switcher \ disturbed : Knows(switch[c], disk)
  /\ LoopHasEnvelope
  /\ disturbed = {} => \A c \in Switcher : Remembers(switch[c])
=============================================================================
