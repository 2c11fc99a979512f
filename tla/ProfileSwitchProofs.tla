------------------------ MODULE ProfileSwitchProofs ------------------------
(***************************************************************************)
(* Theorems about ProfileSwitch, for any number of calls, failures, kills, *)
(* edits and read sets: the loop profile never stands without an envelope, *)
(* and a switch that nobody disturbs does all or nothing.                  *)
(***************************************************************************)
EXTENDS ProfileSwitch, TLAPS

LEMMA NoSwitchTyped == NoSwitch \in CallRecord /\ NoSwitch.pc = "idle"
BY DEF NoSwitch, SwitchCall, Uniform, Disk, Profile, Envelope, CallRecord

LEMMA IdleKnows ==
  ASSUME NEW call, NEW d, call.pc = "idle"
  PROVE  Knows(call, d) /\ Remembers(call)
BY DEF Knows, Remembers

LEMMA ProfileInitInv == ProfileInit => ProfileInv
<1> SUFFICES ASSUME ProfileInit PROVE ProfileInv
  OBVIOUS
<1>1. PICK p \in {"standard", "strict"}, e \in {"absent", "edited"} :
        disk = [profile |-> p, byHand |-> FALSE, envelope |-> e, readset |-> Uniform(p)]
  BY DEF ProfileInit
<1>2. disk \in Disk /\ disk.profile # "loop"
  BY <1>1 DEF Disk, Profile, Envelope, Uniform
<1>3. \A c \in Switcher : switch[c].pc = "idle"
  BY NoSwitchTyped DEF ProfileInit
<1>4. ProfileTypeOK
  BY <1>2, NoSwitchTyped DEF ProfileInit, ProfileTypeOK
<1> QED  BY <1>2, <1>3, <1>4, IdleKnows DEF ProfileInv, LoopHasEnvelope

-----------------------------------------------------------------------------
\* What a step of one call may do

\* A write that changes the disk disturbs all the others: of a call that is
\* still undisturbed, it was its own, or it changed nothing.
LEMMA UndisturbedSeesNoWrite ==
  ASSUME NEW c \in Switcher, NEW new, Writes(c, new), ProfileTypeOK
  PROVE  /\ disk' = new
         /\ disturbed \subseteq disturbed' /\ disturbed' \subseteq Switcher
         /\ \A b \in Switcher \ disturbed' : b # c /\ switch[b].pc # "idle" => disk' = disk
BY DEF Writes, UnderWay, ProfileTypeOK

\* Of a step of c, only what concerns c itself has to be shown.
LEMMA OneCallSteps ==
  ASSUME ProfileInv, NEW c \in Switcher, NEW call \in CallRecord,
         switch' = [switch EXCEPT ![c] = call],
         disk' \in Disk, switches' \in Nat, mishaps' \in Nat,
         disturbed \subseteq disturbed', disturbed' \subseteq Switcher,
         \A b \in Switcher \ disturbed' : b # c /\ switch[b].pc # "idle" => disk' = disk,
         c \notin disturbed' => Knows(call, disk'),
         disturbed' = {} => Remembers(call),
         LoopHasEnvelope'
  PROVE  ProfileInv'
<1>1. /\ switch \in [Switcher -> CallRecord] /\ switch' \in [Switcher -> CallRecord]
      /\ switch'[c] = call /\ \A b \in Switcher \ {c} : switch'[b] = switch[b]
  BY DEF ProfileInv, ProfileTypeOK
<1>2. ASSUME NEW b \in Switcher \ disturbed' PROVE Knows(switch'[b], disk')
  <2>1. CASE b = c
    BY <1>1, <2>1
  <2>2. CASE b # c /\ switch[b].pc = "idle"
    BY <1>1, <2>2, IdleKnows
  <2>3. CASE b # c /\ switch[b].pc # "idle"
    BY <1>1, <2>3 DEF ProfileInv
  <2>. QED
    BY <2>1, <2>2, <2>3
<1>3. disturbed' = {} => \A b \in Switcher : Remembers(switch'[b])
  BY <1>1 DEF ProfileInv
<1>4. ProfileTypeOK'
  BY <1>1 DEF ProfileTypeOK
<1>5. \A b \in Switcher \ disturbed' : Knows(switch[b], disk)'
  BY <1>2 DEF Knows, Uniform
<1>6. disturbed' = {} => \A b \in Switcher : Remembers(switch[b])'
  BY <1>3 DEF Remembers
<1>. QED
  BY <1>4, <1>5, <1>6 DEF ProfileInv

\* What is left of a call that only goes on
LEMMA GotoCall ==
  ASSUME ProfileInv, NEW c \in Switcher, NEW here, NEW there, Goto(c, here, there),
         there \in {"idle", "seed", "set", "derive", "write", "verify", "fail1", "fail2", "fail3"}
  PROVE  \E call \in CallRecord :
           /\ switch' = [switch EXCEPT ![c] = call]
           /\ call.pc = there
           /\ call.target = switch[c].target /\ call.before = switch[c].before
<1> DEFINE call == [switch[c] EXCEPT !.pc = there]
<1>1. switch[c] \in CallRecord /\ switch \in [Switcher -> CallRecord]
  BY DEF ProfileInv, ProfileTypeOK
<1>2. /\ call \in CallRecord /\ call.pc = there
      /\ call.target = switch[c].target /\ call.before = switch[c].before
  BY <1>1 DEF CallRecord
<1>3. switch' = [switch EXCEPT ![c] = call]
  BY <1>1 DEF Goto
<1>. QED
  BY <1>2, <1>3

LEMMA TypedDisk ==
  ASSUME ProfileInv
  PROVE  /\ disk \in Disk /\ switches \in Nat /\ mishaps \in Nat /\ disturbed \subseteq Switcher
         /\ \A c \in Switcher : switch[c] \in CallRecord /\ switch[c].before \in Disk
                                /\ switch[c].target \in {"loop", "standard"}
BY DEF ProfileInv, ProfileTypeOK, CallRecord

\* What an EXCEPT leaves of the disk
LEMMA DiskFields ==
  ASSUME NEW d \in Disk, NEW p \in Profile, NEW h \in BOOLEAN, NEW e \in Envelope,
         NEW rs \in [ReadsetFile -> Profile]
  PROVE  /\ [d EXCEPT !.profile = p, !.byHand = h] \in Disk
         /\ [d EXCEPT !.profile = p, !.byHand = h].profile = p
         /\ [d EXCEPT !.profile = p, !.byHand = h].byHand = h
         /\ [d EXCEPT !.profile = p, !.byHand = h].envelope = d.envelope
         /\ [d EXCEPT !.profile = p, !.byHand = h].readset = d.readset
         /\ [d EXCEPT !.envelope = e] \in Disk
         /\ [d EXCEPT !.envelope = e].profile = d.profile
         /\ [d EXCEPT !.envelope = e].byHand = d.byHand
         /\ [d EXCEPT !.envelope = e].envelope = e
         /\ [d EXCEPT !.envelope = e].readset = d.readset
         /\ [d EXCEPT !.readset = rs] \in Disk
         /\ [d EXCEPT !.readset = rs].profile = d.profile
         /\ [d EXCEPT !.readset = rs].byHand = d.byHand
         /\ [d EXCEPT !.readset = rs].envelope = d.envelope
         /\ [d EXCEPT !.readset = rs].readset = rs
BY DEF Disk

-----------------------------------------------------------------------------
\* Every action keeps the invariant

LEMMA SeedKeepsInv ==
  ASSUME ProfileInv, NEW c \in Switcher, SeedEnvelope(c)
  PROVE  ProfileInv'
<1> DEFINE new == IF disk.envelope = "absent" THEN [disk EXCEPT !.envelope = "template"] ELSE disk
<1>1. /\ new \in Disk /\ new.envelope # "absent"
      /\ new.profile = disk.profile /\ new.byHand = disk.byHand
  BY TypedDisk, DiskFields DEF Envelope, Disk
<1>2. Writes(c, new) /\ switches' = switches /\ mishaps' = mishaps
  BY DEF SeedEnvelope, Unbounded
<1>3. /\ disk' = new /\ disturbed \subseteq disturbed' /\ disturbed' \subseteq Switcher
      /\ \A b \in Switcher \ disturbed' : b # c /\ switch[b].pc # "idle" => disk' = disk
  BY <1>2, UndisturbedSeesNoWrite DEF ProfileInv
<1>4. PICK call \in CallRecord :
        /\ switch' = [switch EXCEPT ![c] = call] /\ call.pc = "set"
        /\ call.target = switch[c].target /\ call.before = switch[c].before
  BY GotoCall DEF SeedEnvelope
<1>5. Knows(call, disk')
  BY <1>1, <1>3, <1>4 DEF Knows
<1>6. disturbed' = {} => Remembers(call)
  BY <1>3, <1>4 DEF ProfileInv, Remembers, SeedEnvelope, Goto
<1>7. LoopHasEnvelope'
  BY <1>1, <1>3 DEF LoopHasEnvelope
<1>. QED
  BY <1>1, <1>2, <1>3, <1>4, <1>5, <1>6, <1>7, TypedDisk, OneCallSteps

LEMMA SetKeepsInv ==
  ASSUME ProfileInv, NEW c \in Switcher, SetProfile(c)
  PROVE  ProfileInv'
<1> DEFINE new == IF disk.profile = switch[c].target THEN disk
                  ELSE [disk EXCEPT !.profile = switch[c].target, !.byHand = FALSE]
<1>1. /\ new \in Disk /\ new.envelope = disk.envelope /\ new.profile = switch[c].target
  <2>1. disk \in Disk /\ switch[c].target \in Profile /\ FALSE \in BOOLEAN
    BY TypedDisk DEF Profile
  <2>2. /\ [disk EXCEPT !.profile = switch[c].target, !.byHand = FALSE] \in Disk
        /\ [disk EXCEPT !.profile = switch[c].target, !.byHand = FALSE].profile
             = switch[c].target
        /\ [disk EXCEPT !.profile = switch[c].target, !.byHand = FALSE].envelope
             = disk.envelope
    BY <2>1, TypedDisk DEF Disk
  <2>. QED
    BY <2>1, <2>2
<1>2. /\ Writes(c, new) /\ switches' = switches /\ mishaps' = mishaps
      /\ switch[c].pc = "set"
  BY DEF SetProfile, Unbounded, Goto
<1>3. /\ disk' = new /\ disturbed \subseteq disturbed' /\ disturbed' \subseteq Switcher
      /\ \A b \in Switcher \ disturbed' : b # c /\ switch[b].pc # "idle" => disk' = disk
  BY <1>2, UndisturbedSeesNoWrite DEF ProfileInv
<1>4. PICK call \in CallRecord :
        /\ switch' = [switch EXCEPT ![c] = call] /\ call.pc = "derive"
        /\ call.target = switch[c].target /\ call.before = switch[c].before
  BY GotoCall DEF SetProfile
<1>5. c \notin disturbed' => Knows(call, disk')
  BY <1>1, <1>2, <1>3, <1>4 DEF ProfileInv, Knows
<1>6. disturbed' = {} => Remembers(call)
  BY <1>2, <1>3, <1>4 DEF ProfileInv, Remembers
<1>7. LoopHasEnvelope'
  BY <1>1, <1>2, <1>3 DEF LoopHasEnvelope, ProfileInv, Knows
<1>. QED
  BY <1>1, <1>2, <1>3, <1>4, <1>5, <1>6, <1>7, TypedDisk, OneCallSteps

\* Steps that only read
LEMMA StillKeepsInv ==
  ASSUME ProfileInv, NEW c \in Switcher, NEW call \in CallRecord,
         switch' = [switch EXCEPT ![c] = call], UNCHANGED <<disk, disturbed>>,
         switches' \in Nat, mishaps' \in Nat,
         c \notin disturbed => Knows(call, disk),
         disturbed = {} => Remembers(call)
  PROVE  ProfileInv'
<1>1. /\ disk' \in Disk /\ disturbed \subseteq disturbed' /\ disturbed' \subseteq Switcher
      /\ \A b \in Switcher \ disturbed' : b # c /\ switch[b].pc # "idle" => disk' = disk
  BY TypedDisk
<1>2. LoopHasEnvelope'
  BY DEF ProfileInv, LoopHasEnvelope
<1>3. c \notin disturbed' => Knows(call, disk')
  OBVIOUS
<1>. QED
  BY <1>1, <1>2, <1>3, OneCallSteps

LEMMA BeginKeepsInv ==
  ASSUME ProfileInv, NEW c \in Switcher, BeginSwitch(c)
  PROVE  ProfileInv'
<1>1. PICK target \in {"loop", "standard"} :
        switch' = [switch EXCEPT ![c] =
          SwitchCall(IF target = "loop" THEN "seed" ELSE "set", target, disk)]
  BY DEF BeginSwitch
<1> DEFINE call == SwitchCall(IF target = "loop" THEN "seed" ELSE "set", target, disk)
<1>2. /\ call \in CallRecord /\ call.before = disk
      /\ call.pc \in {"seed", "set"} /\ (call.pc = "set" => call.target # "loop")
  BY TypedDisk DEF SwitchCall, CallRecord, Disk
<1>3. Knows(call, disk)
  BY <1>2 DEF Knows
<1>4. disturbed = {} => Remembers(call)
  BY <1>2 DEF Remembers, LoopHasEnvelope, ProfileInv
<1>5. UNCHANGED <<disk, disturbed>> /\ switches' \in Nat /\ mishaps' \in Nat
  BY TypedDisk DEF BeginSwitch
<1>6. switch' = [switch EXCEPT ![c] = call]
  BY <1>1
<1>. QED
  BY <1>2, <1>3, <1>4, <1>5, <1>6, StillKeepsInv

LEMMA DeriveKeepsInv ==
  ASSUME ProfileInv, NEW c \in Switcher, Derive(c)
  PROVE  ProfileInv'
<1> DEFINE call == [switch[c] EXCEPT !.pc = "write", !.derived = Uniform(disk.profile),
                                     !.unwritten = ReadsetFile]
<1>1. /\ switch[c] \in CallRecord /\ switch \in [Switcher -> CallRecord]
      /\ Uniform(disk.profile) \in [ReadsetFile -> Profile]
      /\ disk.profile \in Profile /\ switch[c].pc = "derive"
  BY DEF ProfileInv, ProfileTypeOK, Disk, Uniform, Derive
<1>2. /\ call \in CallRecord /\ call.pc = "write" /\ call.before = switch[c].before
  BY <1>1 DEF CallRecord
<1>3. switch' = [switch EXCEPT ![c] = call]
  BY <1>1 DEF Derive
<1>4. c \notin disturbed => Knows(call, disk)
  BY <1>1, <1>2 DEF ProfileInv, Knows
<1>5. disturbed = {} => Remembers(call)
  BY <1>1, <1>2 DEF ProfileInv, Remembers
<1>6. UNCHANGED <<disk, disturbed>> /\ switches' \in Nat /\ mishaps' \in Nat
  BY TypedDisk DEF Derive
<1>. QED
  BY <1>2, <1>3, <1>4, <1>5, <1>6, StillKeepsInv

LEMMA WriteKeepsInv ==
  ASSUME ProfileInv, NEW c \in Switcher, WriteReadset(c)
  PROVE  ProfileInv'
<1>1. PICK f \in switch[c].unwritten :
        /\ Writes(c, [disk EXCEPT !.readset[f] = switch[c].derived[f]])
        /\ switch' = [switch EXCEPT ![c].unwritten = @ \ {f}]
  BY DEF WriteReadset
<1> DEFINE new == [disk EXCEPT !.readset[f] = switch[c].derived[f]]
           call == [switch[c] EXCEPT !.unwritten = @ \ {f}]
<1>2. /\ switch[c] \in CallRecord /\ switch \in [Switcher -> CallRecord]
      /\ disk \in Disk /\ switch[c].pc = "write"
  BY DEF ProfileInv, ProfileTypeOK, WriteReadset
<1>3. f \in ReadsetFile /\ switch[c].derived[f] \in Profile
  BY <1>2 DEF CallRecord
<1>4. /\ new \in Disk /\ new.profile = disk.profile /\ new.byHand = disk.byHand
      /\ new.envelope = disk.envelope
  BY <1>2, <1>3 DEF Disk
<1>5. /\ call \in CallRecord /\ call.pc = "write" /\ call.before = switch[c].before
  BY <1>2 DEF CallRecord
<1>6. switch' = [switch EXCEPT ![c] = call]
  BY <1>1, <1>2
<1>7. /\ disk' = new /\ disturbed \subseteq disturbed' /\ disturbed' \subseteq Switcher
      /\ \A b \in Switcher \ disturbed' : b # c /\ switch[b].pc # "idle" => disk' = disk
  BY <1>1, UndisturbedSeesNoWrite DEF ProfileInv
<1>8. c \notin disturbed' => Knows(call, disk')
  BY <1>2, <1>4, <1>5, <1>7 DEF ProfileInv, Knows
<1>9. disturbed' = {} => Remembers(call)
  BY <1>2, <1>5, <1>7 DEF ProfileInv, Remembers
<1>10. LoopHasEnvelope' /\ switches' \in Nat /\ mishaps' \in Nat
  BY <1>4, <1>7, TypedDisk DEF LoopHasEnvelope, ProfileInv, WriteReadset, Unbounded
<1>. QED
  BY <1>4, <1>5, <1>6, <1>7, <1>8, <1>9, <1>10, OneCallSteps

LEMMA CheckKeepsInv ==
  ASSUME ProfileInv, NEW c \in Switcher, CheckReadsets(c) \/ VerifySwitch(c) \/ StepFails(c)
  PROVE  ProfileInv'
<1>1. UNCHANGED <<disk, disturbed>> /\ switches' \in Nat /\ mishaps' \in Nat
  BY TypedDisk DEF CheckReadsets, VerifySwitch, StepFails
<1>2. CASE Goto(c, switch[c].pc, "fail1") /\ switch[c].pc \in {"seed", "set", "derive", "write", "verify"}
  <2>1. PICK call \in CallRecord :
          /\ switch' = [switch EXCEPT ![c] = call] /\ call.pc = "fail1"
          /\ call.target = switch[c].target /\ call.before = switch[c].before
    BY <1>2, GotoCall
  <2>2. c \notin disturbed => Knows(call, disk)
    BY <1>2, <2>1 DEF ProfileInv, Knows
  <2>3. disturbed = {} => Remembers(call)
    BY <1>2, <2>1 DEF ProfileInv, Remembers
  <2>. QED
    BY <1>1, <2>1, <2>2, <2>3, StillKeepsInv
<1>3. CASE /\ switch[c].pc = "write" /\ disk.readset = Uniform(disk.profile)
           /\ Goto(c, "write", "verify")
  <2>1. PICK call \in CallRecord :
          /\ switch' = [switch EXCEPT ![c] = call] /\ call.pc = "verify"
          /\ call.target = switch[c].target /\ call.before = switch[c].before
    BY <1>3, GotoCall
  <2>2. c \notin disturbed => Knows(call, disk)
    BY <1>3, <2>1 DEF ProfileInv, Knows
  <2>3. disturbed = {} => Remembers(call)
    BY <1>3, <2>1 DEF ProfileInv, Remembers
  <2>. QED
    BY <1>1, <2>1, <2>2, <2>3, StillKeepsInv
<1>4. CASE switch' = [switch EXCEPT ![c] = NoSwitch]
  BY <1>1, <1>4, NoSwitchTyped, IdleKnows, StillKeepsInv
<1>. QED
  BY <1>2, <1>3, <1>4 DEF CheckReadsets, VerifySwitch, StepFails, Goto

LEMMA KillKeepsInv ==
  ASSUME ProfileInv, NEW c \in Switcher, KillSwitch(c)
  PROVE  ProfileInv'
<1>1. /\ UNCHANGED <<disk, disturbed>> /\ switches' \in Nat /\ mishaps' \in Nat
      /\ switch' = [switch EXCEPT ![c] = NoSwitch]
  BY TypedDisk DEF KillSwitch
<1>. QED
  BY <1>1, NoSwitchTyped, IdleKnows, StillKeepsInv

LEMMA RestoreProfileKeepsInv ==
  ASSUME ProfileInv, NEW c \in Switcher, RestoreProfile(c)
  PROVE  ProfileInv'
<1> DEFINE new == [disk EXCEPT !.profile = switch[c].before.profile,
                               !.byHand = switch[c].before.byHand]
<1>1. /\ new \in Disk /\ new.envelope = disk.envelope
      /\ new.profile = switch[c].before.profile /\ new.byHand = switch[c].before.byHand
  BY TypedDisk DEF Disk
<1>2. Writes(c, new) /\ switches' = switches /\ mishaps' = mishaps /\ switch[c].pc = "fail1"
  BY DEF RestoreProfile, Unbounded, Goto
<1>3. /\ disk' = new /\ disturbed \subseteq disturbed' /\ disturbed' \subseteq Switcher
      /\ \A b \in Switcher \ disturbed' : b # c /\ switch[b].pc # "idle" => disk' = disk
  BY <1>2, UndisturbedSeesNoWrite DEF ProfileInv
<1>4. PICK call \in CallRecord :
        /\ switch' = [switch EXCEPT ![c] = call] /\ call.pc = "fail2"
        /\ call.target = switch[c].target /\ call.before = switch[c].before
  BY GotoCall DEF RestoreProfile
<1>5. c \notin disturbed' => Knows(call, disk')
  BY <1>1, <1>2, <1>3, <1>4 DEF ProfileInv, Knows
<1>6. disturbed' = {} => Remembers(call)
  BY <1>2, <1>3, <1>4 DEF ProfileInv, Remembers
<1>7. LoopHasEnvelope'
  BY <1>1, <1>2, <1>3 DEF LoopHasEnvelope, ProfileInv, Knows, Remembers
<1>. QED
  BY <1>1, <1>2, <1>3, <1>4, <1>5, <1>6, <1>7, TypedDisk, OneCallSteps

LEMMA RestoreEnvelopeKeepsInv ==
  ASSUME ProfileInv, NEW c \in Switcher, RestoreEnvelope(c)
  PROVE  ProfileInv'
<1> DEFINE new == [disk EXCEPT !.envelope = switch[c].before.envelope]
<1>1. /\ new \in Disk /\ new.envelope = switch[c].before.envelope
      /\ new.profile = disk.profile /\ new.byHand = disk.byHand
  BY TypedDisk DEF Disk
<1>2. Writes(c, new) /\ switches' = switches /\ mishaps' = mishaps /\ switch[c].pc = "fail2"
  BY DEF RestoreEnvelope, Unbounded, Goto
<1>3. /\ disk' = new /\ disturbed \subseteq disturbed' /\ disturbed' \subseteq Switcher
      /\ \A b \in Switcher \ disturbed' : b # c /\ switch[b].pc # "idle" => disk' = disk
  BY <1>2, UndisturbedSeesNoWrite DEF ProfileInv
<1>4. PICK call \in CallRecord :
        /\ switch' = [switch EXCEPT ![c] = call] /\ call.pc = "fail3"
        /\ call.target = switch[c].target /\ call.before = switch[c].before
  BY GotoCall DEF RestoreEnvelope
<1>5. c \notin disturbed' => Knows(call, disk')
  BY <1>1, <1>2, <1>3, <1>4 DEF ProfileInv, Knows
<1>6. disturbed' = {} => Remembers(call)
  BY <1>2, <1>3, <1>4 DEF ProfileInv, Remembers
<1>7. LoopHasEnvelope'
  BY <1>1, <1>2, <1>3 DEF LoopHasEnvelope, ProfileInv, Knows, Remembers
<1>. QED
  BY <1>1, <1>2, <1>3, <1>4, <1>5, <1>6, <1>7, TypedDisk, OneCallSteps

LEMMA RestoreReadsetsKeepsInv ==
  ASSUME ProfileInv, NEW c \in Switcher, RestoreReadsets(c)
  PROVE  ProfileInv'
<1> DEFINE new == [disk EXCEPT !.readset = switch[c].before.readset]
<1>1. /\ new \in Disk /\ new.envelope = disk.envelope
      /\ new.profile = disk.profile /\ new.byHand = disk.byHand
  BY TypedDisk DEF Disk
<1>2. /\ Writes(c, new) /\ switches' = switches /\ mishaps' = mishaps
      /\ switch' = [switch EXCEPT ![c] = NoSwitch]
  BY DEF RestoreReadsets, Unbounded
<1>3. /\ disk' = new /\ disturbed \subseteq disturbed' /\ disturbed' \subseteq Switcher
      /\ \A b \in Switcher \ disturbed' : b # c /\ switch[b].pc # "idle" => disk' = disk
  BY <1>2, UndisturbedSeesNoWrite DEF ProfileInv
<1>4. LoopHasEnvelope'
  BY <1>1, <1>3 DEF LoopHasEnvelope, ProfileInv
<1>5. Knows(NoSwitch, disk') /\ Remembers(NoSwitch)
  BY NoSwitchTyped, IdleKnows
<1>. QED
  BY <1>1, <1>2, <1>3, <1>4, <1>5, TypedDisk, NoSwitchTyped, OneCallSteps

\* cc-cairn profile set and the user's edits
LEMMA OthersKeepInv ==
  ASSUME ProfileInv, ProfileSet \/ EditEnvelope
  PROVE  ProfileInv'
<1>1. /\ switch' = switch /\ disturbed' = disturbed \cup UnderWay
      /\ switches' \in Nat /\ mishaps' \in Nat
  <2>1. switch' = switch /\ disturbed' = disturbed \cup UnderWay
    BY Zenon DEF ProfileSet, EditEnvelope
  <2>2. switches' \in {switches, switches + 1} /\ mishaps' = mishaps
    BY Zenon DEF ProfileSet, EditEnvelope
  <2>. QED
    BY <2>1, <2>2, TypedDisk
<1>2. disk' \in Disk
  BY TypedDisk DEF ProfileSet, EditEnvelope, Disk, Envelope
<1>3. LoopHasEnvelope'
  <2>1. CASE ProfileSet
    BY <2>1, TypedDisk DEF ProfileSet, LoopHasEnvelope, Disk
  <2>2. CASE EditEnvelope
    BY <2>2, TypedDisk DEF EditEnvelope, LoopHasEnvelope, Disk
  <2>. QED
    BY <2>1, <2>2
<1>4. ProfileTypeOK'
  BY <1>1, <1>2 DEF ProfileInv, ProfileTypeOK, UnderWay
<1>5. ASSUME NEW b \in Switcher \ disturbed' PROVE Knows(switch[b], disk)'
  <2>1. Knows(switch[b], disk')
    BY <1>1, IdleKnows DEF UnderWay
  <2>. QED
    BY <1>1, <2>1 DEF Knows, Uniform
<1>6. disturbed' = {} => \A b \in Switcher : Remembers(switch[b])'
  BY <1>1 DEF ProfileInv, Remembers
<1>. QED
  BY <1>3, <1>4, <1>5, <1>6 DEF ProfileInv

LEMMA ProfileStepKeepsInv ==
  ASSUME ProfileInv, [ProfileNext]_profileVars
  PROVE  ProfileInv'
<1>1. ASSUME NEW c \in Switcher,
             \/ BeginSwitch(c) \/ SeedEnvelope(c) \/ SetProfile(c) \/ Derive(c)
             \/ WriteReadset(c)
      PROVE  ProfileInv'
  BY <1>1, BeginKeepsInv, SeedKeepsInv, SetKeepsInv, DeriveKeepsInv, WriteKeepsInv
<1>2. ASSUME NEW c \in Switcher,
             \/ CheckReadsets(c) \/ VerifySwitch(c) \/ StepFails(c) \/ KillSwitch(c)
             \/ RestoreProfile(c) \/ RestoreEnvelope(c) \/ RestoreReadsets(c)
      PROVE  ProfileInv'
  BY <1>2, CheckKeepsInv, KillKeepsInv, RestoreProfileKeepsInv, RestoreEnvelopeKeepsInv,
     RestoreReadsetsKeepsInv
<1>3. CASE ProfileSet \/ EditEnvelope
  BY <1>3, OthersKeepInv
<1>4. CASE UNCHANGED profileVars
  BY <1>4 DEF profileVars, ProfileInv, ProfileTypeOK, LoopHasEnvelope, Knows, Remembers,
              Uniform
<1>. QED
  BY <1>1, <1>2, <1>3, <1>4 DEF ProfileNext

-----------------------------------------------------------------------------
\* Theorems

\* Every state of every loop switch keeps the invariant, however many calls
\* overlap, fail and are killed.
THEOREM ProfileInvHolds == ProfileSpec => []ProfileInv
<1>. QED
  BY ProfileInitInv, ProfileStepKeepsInv, PTL DEF ProfileSpec

\* The loop profile never stands without a trust envelope, unless it was set by
\* cc-cairn profile set or switches overlapped.
THEOREM LoopNeverWithoutEnvelope == ProfileSpec => []LoopHasEnvelope
<1>1. ProfileInv => LoopHasEnvelope
  BY DEF ProfileInv
<1>. QED
  BY <1>1, ProfileInvHolds, PTL

\* A call that nobody kills ends by success or by putting the read sets back.
LEMMA HowCallsEnd ==
  ASSUME ProfileTypeOK, ProfileNext, NEW c \in Switcher,
         switch'[c].pc = "idle", switch[c].pc # "idle", mishaps' = mishaps
  PROVE  VerifySwitch(c) \/ RestoreReadsets(c)
<1>1. switch \in [Switcher -> CallRecord] /\ mishaps \in Nat
  BY DEF ProfileTypeOK
<1>2. ~ (ProfileSet \/ EditEnvelope)
  BY Zenon DEF ProfileSet, EditEnvelope
<1>3. PICK b \in Switcher :
        \/ BeginSwitch(b) \/ SeedEnvelope(b) \/ SetProfile(b) \/ Derive(b) \/ WriteReadset(b)
        \/ CheckReadsets(b) \/ VerifySwitch(b) \/ StepFails(b) \/ KillSwitch(b)
        \/ RestoreProfile(b) \/ RestoreEnvelope(b) \/ RestoreReadsets(b)
  BY <1>2 DEF ProfileNext
<1>4. ~ (StepFails(b) \/ KillSwitch(b))
  BY <1>1 DEF StepFails, KillSwitch
<1>5. b = c
  BY <1>1, <1>3 DEF BeginSwitch, SeedEnvelope, SetProfile, Derive, WriteReadset, CheckReadsets,
     VerifySwitch, StepFails, KillSwitch, RestoreProfile, RestoreEnvelope, RestoreReadsets, Goto
<1>6. ~ (\/ BeginSwitch(c) \/ SeedEnvelope(c) \/ SetProfile(c) \/ Derive(c) \/ WriteReadset(c)
         \/ CheckReadsets(c) \/ RestoreProfile(c) \/ RestoreEnvelope(c))
  BY <1>1 DEF BeginSwitch, SeedEnvelope, SetProfile, Derive, WriteReadset, CheckReadsets,
     RestoreProfile, RestoreEnvelope, Goto, CallRecord
<1>. QED
  BY <1>3, <1>4, <1>5, <1>6

LEMMA SwitchStep ==
  ASSUME ProfileInv, [ProfileNext]_profileVars, NEW c \in Switcher,
         switch'[c].pc = "idle", switch[c].pc # "idle", mishaps' = mishaps, c \notin disturbed
  PROVE  \/ /\ switch[c].pc = "verify"
            /\ disk.profile = switch[c].target /\ disk.readset = Uniform(switch[c].target)
            /\ switch[c].target = "loop" => disk.envelope # "absent"
         \/ /\ switch[c].pc = "fail3"
            /\ disk' = switch[c].before
<1>1. ProfileNext
  BY DEF profileVars
<1>2. switch \in [Switcher -> CallRecord] /\ Knows(switch[c], disk)
  BY DEF ProfileInv, ProfileTypeOK
<1>3. CASE VerifySwitch(c)
  BY <1>2, <1>3 DEF VerifySwitch, Goto, CallRecord, Knows
<1>4. CASE RestoreReadsets(c)
  <2>1. disk' = [disk EXCEPT !.readset = switch[c].before.readset] /\ switch[c].pc = "fail3"
    BY <1>4 DEF RestoreReadsets, Writes
  <2>2. /\ disk.profile = switch[c].before.profile /\ disk.byHand = switch[c].before.byHand
        /\ disk.envelope = switch[c].before.envelope
    BY <1>2, <2>1 DEF Knows
  <2>3. disk' = switch[c].before
    BY <2>1, <2>2, TypedDisk DEF Disk
  <2>. QED
    BY <2>1, <2>3
<1>. QED
  BY <1>1, <1>3, <1>4, HowCallsEnd DEF ProfileInv

\* A loop switch that nobody disturbs does all or nothing: what it reports is
\* what the disk holds.
THEOREM SwitchIsAllOrNothing == ProfileSpec => SwitchAllOrNothing
<1>1. ProfileInv /\ [ProfileNext]_profileVars =>
        [\A c \in Switcher :
           switch'[c].pc = "idle" /\ switch[c].pc # "idle" /\ mishaps' = mishaps
             /\ c \notin disturbed =>
             \/ /\ switch[c].pc = "verify"
                /\ disk.profile = switch[c].target /\ disk.readset = Uniform(switch[c].target)
                /\ switch[c].target = "loop" => disk.envelope # "absent"
             \/ /\ switch[c].pc = "fail3"
                /\ disk' = switch[c].before]_profileVars
  BY SwitchStep
<1>. QED
  BY <1>1, ProfileInvHolds, PTL DEF ProfileSpec, SwitchAllOrNothing
=============================================================================
