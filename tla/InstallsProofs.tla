---------------------------- MODULE InstallsProofs ----------------------------
(***************************************************************************)
(* Theorems about what the overlay installs, for any number of processes,  *)
(* skills and runtimes and any bounds: the two files of its registry of    *)
(* skills (OverlayRegistry), the record of the runtimes that share the     *)
(* memory's binary (InstalledTargets), the contracts in the skill registry *)
(* of a project (ContractRegistry) and a project's copies of skills        *)
(* (ProjectSkills), the settings the hooks are installed in                *)
(* (SettingsHooks), the calls those hooks answer (HookCalls) and the words *)
(* the Bash guard splits (StreamSplitter); and the same for the composition*)
(* MCInstalls, in which they stand beside each other.                      *)
(***************************************************************************)
EXTENDS MCInstalls, FiniteSetTheorems, WellFoundedInduction, TLAPS

(* The registry and its manifest: where a verb holds its lock, and what it *)
(* knows of the two files there.                                           *)
Writing == {"locked", "staged", "half_written", "written"}
Reading == {"reading", "half_read", "read"}
WriteKinds == {"add", "remove", "sync"}

VerbStates ==
  [at : {"idle", "locking", "looked", "validated"} \union Writing \union Reading,
   kind : {"none", "validate"} \union WriteKinds,
   reg : SUBSET SkillIds, man : SUBSET SkillIds, id : SUBSET SkillIds,
   provisional : BOOLEAN, attempt : 0 .. 2]

VerbTypes ==
  /\ registry \subseteq SkillIds /\ manifest \subseteq SkillIds /\ wanted \subseteq SkillIds
  /\ lockFile \in BOOLEAN /\ writer \in Verbs \union {NoVerb} /\ readers \subseteq Verbs
  /\ verb \in [Verbs -> VerbStates]

(* A writer excludes the readers, once there is a lock file to lock.       *)
LocksInv(p) ==
  /\ writer = p <=> verb[p].at \in Writing
  /\ verb[p].at \in Writing \union {"locking"} => lockFile /\ verb[p].kind \in WriteKinds
  /\ p \in readers => verb[p].at \in Reading /\ lockFile /\ writer = NoVerb
  /\ verb[p].at \in Reading /\ ~verb[p].provisional => p \in readers
  /\ verb[p].at = "looked" /\ ~verb[p].provisional => lockFile
  /\ verb[p].attempt = 2 => ~verb[p].provisional

(* What a verb has read is what is there, as long as its lock holds.       *)
ReadsInv(p) ==
  p \in readers \/ ~lockFile =>
    /\ verb[p].at \in {"half_read", "read"} => verb[p].reg = registry
    /\ verb[p].at = "read" => verb[p].man = manifest

(* The skill that a verb adds or removes is the only one astray.           *)
StagedInv(p) ==
  LET v == verb[p]
  IN  /\ v.at \in Writing /\ v.kind = "remove" => v.id \intersect wanted = {}
      /\ v.at \in {"staged", "half_written"} /\ v.kind = "add" =>
           v.reg = registry \union v.id /\ Astray \subseteq v.id
      /\ v.at \in {"staged", "half_written"} /\ v.kind = "remove" =>
           v.reg = registry \ v.id /\ Astray \subseteq v.id
      /\ v.at = "staged" /\ v.kind = "sync" => v.reg = registry
      /\ v.at = "staged" => v.man = v.reg
      /\ v.at = "half_written" => manifest = v.reg /\ v.kind # "sync"
      /\ v.at = "written" => registry = manifest /\ (v.kind = "add" => v.id \subseteq registry)

(* A verb that writes is about one skill, or about none.                   *)
OneSkill(p) ==
  verb[p].at \in Writing \union {"locking"} /\ verb[p].kind \in {"add", "remove"} =>
    \E k \in SkillIds : verb[p].id = {k}

OneAstray == Astray = {} \/ \E k \in SkillIds : Astray \subseteq {k}

RegistryInv ==
  /\ VerbTypes /\ AddedIsKept /\ OneAstray
  /\ \A p \in Verbs : LocksInv(p) /\ ReadsInv(p) /\ StagedInv(p) /\ OneSkill(p)

-----------------------------------------------------------------------------
(* The runtimes and their record.                                          *)
LockedSteps == {"recording", "releasing", "deciding", "removed"}
LeavingSteps == {"unregister", "release", "releasing", "assess", "retire", "deciding", "removed"}

JobStates ==
  [at : {"idle", "deploy", "register", "record"} \union LockedSteps \union LeavingSteps,
   target : Targets \union {Garbled}, purge : BOOLEAN, failed : BOOLEAN]

JobTypes ==
  /\ binary \in BOOLEAN /\ entry \subseteq Targets /\ told \subseteq Targets
  /\ record \in [there : BOOLEAN, names : SUBSET (Targets \union {Garbled}), partial : BOOLEAN]
  /\ ~record.there => record = NoRecordFile
  /\ recordLock \in Scripts \union {NoScript}
  /\ job \in [Scripts -> JobStates]

(* Of a runtime that leaves nobody is told that it is installed.           *)
JobInv(p) ==
  /\ recordLock = p <=> job[p].at \in LockedSteps
  /\ job[p].at # "idle" => job[p].target \in Targets
  /\ job[p].at \in LeavingSteps => job[p].target \notin told /\ (job[p].purge => told = {})
  /\ job[p].at = "removed" => told = {}

TargetsInv == JobTypes /\ InstalledIsHeld /\ \A p \in Scripts : JobInv(p)

(* A step of one verb; a verb that adds or removes is about one skill.     *)
Begins(p, change, id) ==
  /\ BeginWrite(p, change, id)
  /\ IF change = "sync" THEN id = {} ELSE \E k \in SkillIds : id = {k}

VerbStep(p) ==
  \/ \E change \in WriteKinds, id \in SUBSET SkillIds : Begins(p, change, id)
  \/ LockOverlay(p) \/ OverlayBusy(p) \/ Stage(p) \/ RenameManifest(p) \/ RenameRegistry(p)
  \/ ReportWrite(p) \/ WriteFails(p)
  \/ BeginValidate(p) \/ LockShared(p) \/ SharedBusy(p) \/ ReadRegistry(p) \/ ReadManifest(p)
  \/ Recheck(p) \/ TellValidate(p) \/ VerbDies(p)

LEMMA NextIsVerbStep == RegistryNext => \E p \in Verbs : VerbStep(p)
<1>1. ASSUME NEW p \in Verbs, NEW k \in SkillIds
      PROVE  /\ BeginWrite(p, "add", {k}) => Begins(p, "add", {k})
             /\ BeginWrite(p, "remove", {k}) => Begins(p, "remove", {k})
  BY DEF Begins
<1>2. ASSUME NEW p \in Verbs
      PROVE  BeginWrite(p, "sync", {}) => Begins(p, "sync", {})
  BY DEF Begins
<1>3. \A k \in SkillIds : {k} \in SUBSET SkillIds
  OBVIOUS
<1>4. {"add", "remove", "sync"} = WriteKinds /\ {} \in SUBSET SkillIds
  BY DEF WriteKinds
<1> QED BY <1>1, <1>2, <1>3, <1>4 DEF RegistryNext, VerbStep

LEMMA RegistryInitInv == RegistryInit => RegistryInv
<1> SUFFICES ASSUME RegistryInit PROVE RegistryInv
  OBVIOUS
<1>1. NoWork \in VerbStates
  BY DEF VerbStates, NoWork
<1>2. VerbTypes /\ AddedIsKept /\ OneAstray
  BY <1>1 DEF RegistryInit, VerbTypes, AddedIsKept, OneAstray, Astray
<1>3. ASSUME NEW p \in Verbs PROVE LocksInv(p) /\ ReadsInv(p) /\ StagedInv(p) /\ OneSkill(p)
  BY NoVerbAssumption
  DEF RegistryInit, LocksInv, ReadsInv, StagedInv, OneSkill, NoWork, Writing, Reading
<1> QED BY <1>2, <1>3 DEF RegistryInv

(* What a step does to the record of the verb that takes it.               *)
LEMMA VerbStateKept ==
  ASSUME VerbTypes, NEW p \in Verbs, LocksInv(p), VerbStep(p)
  PROVE  \E v \in VerbStates : verb' = [verb EXCEPT ![p] = v]
<1> DEFINE Becomes(v) == v \in VerbStates /\ verb' = [verb EXCEPT ![p] = v]
<1>0. /\ verb \in [Verbs -> VerbStates] /\ verb[p] \in VerbStates
      /\ registry \in SUBSET SkillIds /\ manifest \in SUBSET SkillIds /\ lockFile \in BOOLEAN
  BY DEF VerbTypes
<1>1. NoWork \in VerbStates
  BY DEF VerbStates, NoWork
<1>2. ASSUME NEW change \in WriteKinds, NEW id \in SUBSET SkillIds, Begins(p, change, id)
      PROVE  Becomes([NoWork EXCEPT !.at = "locking", !.kind = change, !.id = id])
  BY <1>1, <1>2 DEF Begins, BeginWrite, VerbStates
<1>3. ASSUME NEW where \in {"locked", "written", "half_written", "reading", "validated"}, Then(p, where)
      PROVE  Becomes([verb[p] EXCEPT !.at = where])
  BY <1>0, <1>3 DEF Then, VerbStates, Writing, Reading
<1>4. CASE Finishes(p)
  BY <1>1, <1>4 DEF Finishes
<1>5. CASE Stage(p)
  <2> DEFINE reg == NewRegistry(verb[p].kind, verb[p].id)
             man == NewManifest(verb[p].kind, verb[p].id)
  <2>1. verb[p].id \in SUBSET SkillIds /\ verb[p].kind \in WriteKinds
    BY <1>0, <1>5 DEF VerbStates, Stage, Doing, LocksInv, Writing
  <2>2. reg \in SUBSET SkillIds /\ man \in SUBSET SkillIds
    BY <1>0, <2>1 DEF NewRegistry, NewManifest, WriteKinds
  <2>3. verb' = [verb EXCEPT ![p].at = "staged", ![p].reg = reg, ![p].man = man]
    BY <1>5 DEF Stage
  <2> HIDE DEF reg, man
  <2>4. Becomes([verb[p] EXCEPT !.at = "staged", !.reg = reg, !.man = man])
    BY <1>0, <2>2, <2>3 DEF VerbStates, Writing
  <2> QED BY <2>4
<1>6. CASE BeginValidate(p)
  <2> DEFINE w == [NoWork EXCEPT !.at = "looked", !.kind = "validate", !.attempt = 1]
             v == [w EXCEPT !.provisional = ~lockFile]
  <2>1. w \in VerbStates
    <3>1. \A n \in 0 .. 2 :
            [NoWork EXCEPT !.at = "looked", !.kind = "validate", !.attempt = n] \in VerbStates
      BY <1>1 DEF VerbStates
    <3> QED BY <3>1
  <2>2. verb' = [verb EXCEPT ![p] = v]
    BY <1>6 DEF BeginValidate, NoWork
  <2> HIDE DEF w
  <2>3. v \in VerbStates
    BY <1>0, <2>1 DEF VerbStates
  <2> QED BY <2>2, <2>3
<1>7. CASE ReadRegistry(p)
  <2>1. Becomes([verb[p] EXCEPT !.at = "half_read", !.reg = registry])
    BY <1>0, <1>7 DEF ReadRegistry, VerbStates, Reading
  <2> QED BY <2>1
<1>8. CASE ReadManifest(p)
  <2>1. Becomes([verb[p] EXCEPT !.at = "read", !.man = manifest])
    BY <1>0, <1>8 DEF ReadManifest, VerbStates, Reading
  <2> QED BY <2>1
<1>9. ASSUME Raced(p), verb[p].attempt + 1 \in 0 .. 2,
             verb' = [verb EXCEPT ![p].at = "looked", ![p].provisional = ~lockFile, ![p].attempt = @ + 1]
      PROVE  Becomes([verb[p] EXCEPT !.at = "looked", !.provisional = ~lockFile, !.attempt = @ + 1])
  BY <1>0, <1>9 DEF VerbStates
<1>10. CASE Recheck(p)
  <2>1. Raced(p) => verb[p].attempt \in 0 .. 1
    BY <1>0 DEF Raced, LocksInv, VerbStates
  <2> QED BY <1>3, <1>4, <1>9, <1>10, <2>1 DEF Recheck
<1>11. CASE RenameManifest(p)
  BY <1>3, <1>11 DEF RenameManifest
<1>12. CASE LockOverlay(p) \/ RenameRegistry(p) \/ LockShared(p)
  BY <1>3, <1>12 DEF LockOverlay, RenameRegistry, LockShared
<1>13. CASE OverlayBusy(p) \/ ReportWrite(p) \/ WriteFails(p) \/ SharedBusy(p) \/ TellValidate(p)
              \/ VerbDies(p)
  BY <1>4, <1>13 DEF OverlayBusy, ReportWrite, WriteFails, SharedBusy, TellValidate, VerbDies
<1> HIDE DEF Becomes
<1>14. ASSUME NEW v, Becomes(v) PROVE \E w \in VerbStates : verb' = [verb EXCEPT ![p] = w]
  BY <1>14 DEF Becomes
<1> QED BY <1>2, <1>5, <1>6, <1>7, <1>8, <1>10, <1>11, <1>12, <1>13, <1>14 DEF VerbStep

LEMMA VerbTypesKept ==
  ASSUME VerbTypes, NEW p \in Verbs, LocksInv(p), StagedInv(p), VerbStep(p)
  PROVE  VerbTypes'
<1>1. PICK v \in VerbStates : verb' = [verb EXCEPT ![p] = v]
  BY VerbStateKept
<1>2. verb' \in [Verbs -> VerbStates]
  BY <1>1 DEF VerbTypes
<1>3. verb[p].reg \in SUBSET SkillIds /\ verb[p].man \in SUBSET SkillIds /\ verb[p].id \in SUBSET SkillIds
  BY DEF VerbTypes, VerbStates
<1>4. registry' \in SUBSET SkillIds /\ manifest' \in SUBSET SkillIds /\ wanted' \in SUBSET SkillIds
  BY <1>3 DEF VerbTypes, VerbStep, Begins, BeginWrite, LockOverlay, OverlayBusy, Stage,
     RenameManifest, RenameRegistry, ReportWrite, WriteFails, BeginValidate, LockShared,
     SharedBusy, ReadRegistry, ReadManifest, Recheck, TellValidate, VerbDies, filesAndGhost
<1>5. lockFile' \in BOOLEAN /\ writer' \in Verbs \union {NoVerb} /\ readers' \in SUBSET Verbs
  BY DEF VerbTypes, VerbStep, Begins, BeginWrite, LockOverlay, OverlayBusy, Stage,
     RenameManifest, RenameRegistry, ReportWrite, WriteFails, BeginValidate, LockShared,
     SharedBusy, ReadRegistry, ReadManifest, Recheck, TellValidate, VerbDies, locks
<1> QED BY <1>2, <1>4, <1>5 DEF VerbTypes

(* What a verb's step can do to what all verbs share.                      *)
LEMMA SharedEffect ==
  ASSUME VerbTypes, NEW p \in Verbs, LocksInv(p), VerbStep(p)
  PROVE  /\ lockFile => lockFile'
         /\ \/ writer' = writer
            \/ writer = NoVerb /\ writer' = p /\ readers = {}
            \/ writer = p /\ writer' = NoVerb
         /\ \A q \in Verbs \ {p} : q \in readers' <=> q \in readers
         /\ (registry' = registry /\ manifest' = manifest) \/ (writer = p /\ lockFile)
         /\ wanted' \subseteq wanted \/ writer = p
<1>1. lockFile => lockFile'
  BY DEF VerbStep, Begins, BeginWrite, LockOverlay, OverlayBusy, Stage, RenameManifest, RenameRegistry,
       ReportWrite, WriteFails, BeginValidate, LockShared, SharedBusy, ReadRegistry, ReadManifest,
       Recheck, TellValidate, VerbDies, locks
<1>2. \/ writer' = writer
      \/ writer = NoVerb /\ writer' = p /\ readers = {}
      \/ writer = p /\ writer' = NoVerb
  BY DEF VerbStep, Begins, BeginWrite, LockOverlay, OverlayBusy, Stage, RenameManifest, RenameRegistry,
       ReportWrite, WriteFails, BeginValidate, LockShared, SharedBusy, ReadRegistry, ReadManifest,
       Recheck, TellValidate, VerbDies, locks, LocksInv, Writing, LockFree, Doing
<1>3. \A q \in Verbs \ {p} : q \in readers' <=> q \in readers
  BY DEF VerbStep, Begins, BeginWrite, LockOverlay, OverlayBusy, Stage, RenameManifest, RenameRegistry,
       ReportWrite, WriteFails, BeginValidate, LockShared, SharedBusy, ReadRegistry, ReadManifest,
       Recheck, TellValidate, VerbDies, locks
<1>4. (registry' = registry /\ manifest' = manifest) \/ (writer = p /\ lockFile)
  <2>1. RenameManifest(p) \/ RenameRegistry(p) => writer = p /\ lockFile
    BY DEF RenameManifest, RenameRegistry, LocksInv, Writing, Doing
  <2>2. RenameManifest(p) \/ RenameRegistry(p) \/ UNCHANGED <<registry, manifest>>
    BY DEF VerbStep, Begins, BeginWrite, LockOverlay, OverlayBusy, Stage, ReportWrite, WriteFails,
       BeginValidate, LockShared, SharedBusy, ReadRegistry, ReadManifest, Recheck, TellValidate,
       VerbDies, filesAndGhost
  <2> QED BY <2>1, <2>2
<1>5. wanted' \subseteq wanted \/ writer = p
  BY DEF VerbStep, Begins, BeginWrite, LockOverlay, OverlayBusy, Stage, RenameManifest, RenameRegistry,
       ReportWrite, WriteFails, BeginValidate, LockShared, SharedBusy, ReadRegistry, ReadManifest,
       Recheck, TellValidate, VerbDies, filesAndGhost, LocksInv, Writing, Doing
<1> QED BY <1>1, <1>2, <1>3, <1>4, <1>5

(* What the others know stays true.                                        *)
LEMMA OtherVerbsKept ==
  ASSUME VerbTypes, NEW p \in Verbs, LocksInv(p), VerbStep(p), NEW q \in Verbs, q # p,
         LocksInv(q), ReadsInv(q), StagedInv(q), OneSkill(q)
  PROVE  LocksInv(q)' /\ ReadsInv(q)' /\ StagedInv(q)' /\ OneSkill(q)'
<1>0. /\ verb'[q] = verb[q] /\ q # NoVerb /\ (q \in readers' <=> q \in readers)
      /\ writer' = q <=> writer = q
  <2>1. PICK v \in VerbStates : verb' = [verb EXCEPT ![p] = v]
    BY VerbStateKept
  <2>2. verb'[q] = verb[q]
    BY <2>1 DEF VerbTypes
  <2> QED BY <2>2, SharedEffect, NoVerbAssumption
<1>1. /\ lockFile => lockFile'
      /\ q \in readers /\ writer = NoVerb => writer' = NoVerb
      /\ (registry' = registry /\ manifest' = manifest) \/ (writer = p /\ lockFile)
      /\ wanted' \subseteq wanted \/ writer = p
      /\ p # NoVerb
  BY SharedEffect, NoVerbAssumption
<1>2. LocksInv(q)'
  BY <1>0, <1>1 DEF LocksInv
<1>3. ReadsInv(q)'
  BY <1>0, <1>1 DEF LocksInv, ReadsInv
<1>4. StagedInv(q)'
  <2>1. CASE verb[q].at \in Writing
    <3>1. registry' = registry /\ manifest' = manifest /\ wanted' \subseteq wanted
      BY <1>1, <2>1 DEF LocksInv
    <3> QED BY <1>0, <3>1 DEF StagedInv, Astray
  <2>2. CASE verb[q].at \notin Writing
    BY <1>0, <2>2 DEF StagedInv, Writing
  <2> QED BY <2>1, <2>2
<1>5. OneSkill(q)'
  BY <1>0 DEF OneSkill
<1> QED BY <1>2, <1>3, <1>4, <1>5

(* What a verb knows itself after its step.                                *)
VerbInv(p) == LocksInv(p) /\ ReadsInv(p) /\ StagedInv(p) /\ OneSkill(p)

LEMMA OwnVerbKept ==
  ASSUME VerbTypes, AddedIsKept, NEW p \in Verbs, VerbInv(p), VerbStep(p),
         \A q \in readers : q \in Verbs /\ LocksInv(q)
  PROVE  VerbInv(p)'
<1> USE NoVerbAssumption DEF Doing
<1>0. /\ verb \in [Verbs -> VerbStates] /\ verb[p] \in VerbStates
      /\ LocksInv(p) /\ ReadsInv(p) /\ StagedInv(p) /\ OneSkill(p) /\ p # NoVerb
      /\ verb[p].attempt \in 0 .. 2 /\ lockFile \in BOOLEAN
  BY DEF VerbTypes, VerbInv, VerbStates
<1>1. ASSUME NEW change \in WriteKinds, NEW id \in SUBSET SkillIds, Begins(p, change, id)
      PROVE  VerbInv(p)'
  <2>1. /\ verb'[p].at = "locking" /\ verb'[p].kind = change /\ verb'[p].id = id
        /\ verb'[p].provisional = FALSE /\ verb'[p].attempt = 0 /\ lockFile' = TRUE
        /\ verb[p].at = "idle" /\ UNCHANGED <<registry, manifest, wanted, writer, readers>>
    BY <1>0, <1>1 DEF Begins, BeginWrite, NoWork, filesAndGhost
  <2>2. LocksInv(p)'
    BY <1>0, <1>1, <2>1 DEF LocksInv, Writing, Reading
  <2>3. ReadsInv(p)'
    BY <1>0, <1>1, <2>1 DEF LocksInv, ReadsInv, Writing, Reading
  <2>4. StagedInv(p)'
    BY <1>0, <1>1, <2>1 DEF StagedInv, Writing
  <2>5. OneSkill(p)'
    BY <1>0, <1>1, <2>1 DEF OneSkill, Writing, Begins
  <2> QED BY <2>2, <2>3, <2>4, <2>5 DEF VerbInv
<1>2. CASE LockOverlay(p)
  <2>1. /\ verb'[p].at = "locked" /\ verb[p].at = "locking" /\ verb'[p].kind = verb[p].kind /\ verb'[p].id = verb[p].id
        /\ verb'[p].reg = verb[p].reg /\ verb'[p].man = verb[p].man
        /\ verb'[p].provisional = verb[p].provisional /\ verb'[p].attempt = verb[p].attempt
        /\ writer' = p /\ writer = NoVerb /\ readers = {}
        /\ wanted' = wanted \ (IF verb[p].kind = "remove" THEN verb[p].id ELSE {})
        /\ UNCHANGED <<registry, manifest, lockFile, readers>>
    BY <1>0, <1>2 DEF LockOverlay, LockFree, Then
  <2>2. LocksInv(p)'
    BY <1>0, <1>2, <2>1 DEF LocksInv, Writing, Reading
  <2>3. ReadsInv(p)'
    BY <1>0, <1>2, <2>1 DEF LocksInv, ReadsInv, Writing, Reading
  <2>4. StagedInv(p)'
    BY <1>0, <1>2, <2>1 DEF StagedInv, Writing
  <2>5. OneSkill(p)'
    BY <1>0, <1>2, <2>1 DEF OneSkill, Writing
  <2> QED BY <2>2, <2>3, <2>4, <2>5 DEF VerbInv
<1>3. CASE RenameManifest(p)
  <2>1. /\ verb'[p].at = (IF verb[p].kind = "sync" THEN "written" ELSE "half_written")
        /\ verb[p].at = "staged" /\ verb'[p].kind = verb[p].kind /\ verb'[p].id = verb[p].id
        /\ verb'[p].reg = verb[p].reg /\ verb'[p].man = verb[p].man
        /\ verb'[p].provisional = verb[p].provisional /\ verb'[p].attempt = verb[p].attempt
        /\ manifest' = verb[p].man /\ UNCHANGED <<registry, wanted, lockFile, writer, readers>>
    BY <1>0, <1>3 DEF RenameManifest, Then, locks
  <2>2. LocksInv(p)'
    BY <1>0, <1>3, <2>1 DEF LocksInv, Writing, Reading
  <2>3. ReadsInv(p)'
    BY <1>0, <1>3, <2>1 DEF LocksInv, ReadsInv, Writing, Reading
  <2>4. StagedInv(p)'
    BY <1>0, <1>3, <2>1 DEF StagedInv, Writing, Astray, LocksInv, WriteKinds
  <2>5. OneSkill(p)'
    BY <1>0, <1>3, <2>1 DEF OneSkill, Writing
  <2> QED BY <2>2, <2>3, <2>4, <2>5 DEF VerbInv
<1>4. CASE RenameRegistry(p)
  <2>1. /\ verb'[p].at = "written" /\ verb[p].at = "half_written" /\ verb'[p].kind = verb[p].kind /\ verb'[p].id = verb[p].id
        /\ verb'[p].reg = verb[p].reg /\ verb'[p].man = verb[p].man
        /\ verb'[p].provisional = verb[p].provisional /\ verb'[p].attempt = verb[p].attempt
        /\ registry' = verb[p].reg /\ UNCHANGED <<manifest, wanted, lockFile, writer, readers>>
    BY <1>0, <1>4 DEF RenameRegistry, Then, locks
  <2>2. LocksInv(p)'
    BY <1>0, <1>4, <2>1 DEF LocksInv, Writing, Reading
  <2>3. ReadsInv(p)'
    BY <1>0, <1>4, <2>1 DEF LocksInv, ReadsInv, Writing, Reading
  <2>4. StagedInv(p)'
    BY <1>0, <1>4, <2>1 DEF StagedInv, Writing
  <2>5. OneSkill(p)'
    BY <1>0, <1>4, <2>1 DEF OneSkill, Writing
  <2> QED BY <2>2, <2>3, <2>4, <2>5 DEF VerbInv
<1>5. CASE OverlayBusy(p) \/ SharedBusy(p) \/ TellValidate(p) \/ ReportWrite(p) \/ WriteFails(p) \/ VerbDies(p)
  <2>1. /\ verb'[p] = NoWork /\ (writer' # p) /\ (p \notin readers')
        /\ (lockFile' <=> lockFile)
    BY <1>0, <1>5 DEF OverlayBusy, SharedBusy, TellValidate, ReportWrite, WriteFails, VerbDies,
       Finishes, locks, LocksInv, Writing, Reading
  <2>2. LocksInv(p)'
    BY <1>0, <1>5, <2>1 DEF LocksInv, Writing, Reading, NoWork
  <2>3. ReadsInv(p)'
    BY <1>0, <1>5, <2>1 DEF LocksInv, ReadsInv, Writing, Reading, NoWork
  <2>4. StagedInv(p)'
    BY <1>0, <1>5, <2>1 DEF StagedInv, Writing, NoWork
  <2>5. OneSkill(p)'
    BY <1>0, <1>5, <2>1 DEF OneSkill, Writing, NoWork
  <2> QED BY <2>2, <2>3, <2>4, <2>5 DEF VerbInv
<1>6. CASE BeginValidate(p)
  <2>1. /\ verb'[p].at = "looked" /\ verb'[p].kind = "validate" /\ verb'[p].attempt = 1
        /\ verb'[p].provisional = ~lockFile /\ verb[p].at = "idle"
        /\ UNCHANGED <<registry, manifest, wanted, lockFile, writer, readers>>
    BY <1>0, <1>6 DEF BeginValidate, NoWork, filesAndGhost, locks
  <2>2. LocksInv(p)'
    <3>1. (~verb'[p].provisional => lockFile) /\ (lockFile' <=> lockFile)
      BY <2>1
    <3> QED BY <1>0, <1>6, <2>1, <3>1 DEF LocksInv, Writing, Reading
  <2>3. ReadsInv(p)'
    BY <1>0, <1>6, <2>1 DEF LocksInv, ReadsInv, Writing, Reading
  <2>4. StagedInv(p)'
    BY <1>0, <1>6, <2>1 DEF StagedInv, Writing
  <2>5. OneSkill(p)'
    BY <1>0, <1>6, <2>1 DEF OneSkill, Writing
  <2> QED BY <2>2, <2>3, <2>4, <2>5 DEF VerbInv
<1>7. CASE LockShared(p)
  <2>1. /\ verb'[p].at = "reading" /\ verb[p].at = "looked" /\ verb'[p].kind = verb[p].kind /\ verb'[p].id = verb[p].id
        /\ verb'[p].reg = verb[p].reg /\ verb'[p].man = verb[p].man
        /\ verb'[p].provisional = verb[p].provisional /\ verb'[p].attempt = verb[p].attempt
        /\ readers' = (IF lockFile THEN readers \union {p} ELSE readers) /\ (lockFile => writer = NoVerb)
        /\ UNCHANGED <<registry, manifest, wanted, lockFile, writer>>
    BY <1>0, <1>7 DEF LockShared, Then, filesAndGhost
  <2>2. LocksInv(p)'
    BY <1>0, <1>7, <2>1 DEF LocksInv, Writing, Reading
  <2>3. ReadsInv(p)'
    BY <1>0, <1>7, <2>1 DEF LocksInv, ReadsInv, Writing, Reading
  <2>4. StagedInv(p)'
    BY <1>0, <1>7, <2>1 DEF StagedInv, Writing
  <2>5. OneSkill(p)'
    BY <1>0, <1>7, <2>1 DEF OneSkill, Writing
  <2> QED BY <2>2, <2>3, <2>4, <2>5 DEF VerbInv
<1>8. CASE ReadRegistry(p)
  <2>1. /\ verb'[p].at = "half_read" /\ verb[p].at = "reading" /\ verb'[p].reg = registry
        /\ verb'[p].kind = verb[p].kind /\ verb'[p].id = verb[p].id
        /\ verb'[p].provisional = verb[p].provisional /\ verb'[p].attempt = verb[p].attempt
        /\ UNCHANGED <<registry, manifest, wanted, lockFile, writer, readers>>
    BY <1>0, <1>8 DEF ReadRegistry, filesAndGhost, locks, VerbStates
  <2>2. LocksInv(p)'
    BY <1>0, <1>8, <2>1 DEF LocksInv, Writing, Reading
  <2>3. ReadsInv(p)'
    BY <1>0, <1>8, <2>1 DEF LocksInv, ReadsInv, Writing, Reading
  <2>4. StagedInv(p)'
    BY <1>0, <1>8, <2>1 DEF StagedInv, Writing
  <2>5. OneSkill(p)'
    BY <1>0, <1>8, <2>1 DEF OneSkill, Writing
  <2> QED BY <2>2, <2>3, <2>4, <2>5 DEF VerbInv
<1>9. CASE ReadManifest(p)
  <2>1. /\ verb'[p].at = "read" /\ verb[p].at = "half_read" /\ verb'[p].man = manifest
        /\ verb'[p].reg = verb[p].reg /\ verb'[p].kind = verb[p].kind /\ verb'[p].id = verb[p].id
        /\ verb'[p].provisional = verb[p].provisional /\ verb'[p].attempt = verb[p].attempt
        /\ UNCHANGED <<registry, manifest, wanted, lockFile, writer, readers>>
    BY <1>0, <1>9 DEF ReadManifest, filesAndGhost, locks, VerbStates
  <2>2. LocksInv(p)'
    BY <1>0, <1>9, <2>1 DEF LocksInv, Writing, Reading
  <2>3. ReadsInv(p)'
    BY <1>0, <1>9, <2>1 DEF LocksInv, ReadsInv, Writing, Reading
  <2>4. StagedInv(p)'
    BY <1>0, <1>9, <2>1 DEF StagedInv, Writing
  <2>5. OneSkill(p)'
    BY <1>0, <1>9, <2>1 DEF OneSkill, Writing
  <2> QED BY <2>2, <2>3, <2>4, <2>5 DEF VerbInv
<1>10. CASE Recheck(p)
  <2>1. /\ verb[p].at = "read" /\ p \notin readers'
        /\ UNCHANGED <<registry, manifest, wanted, lockFile, writer>>
        /\ \/ verb'[p].at = "validated" /\ verb'[p].attempt = verb[p].attempt
              /\ verb'[p].provisional = verb[p].provisional
           \/ verb'[p] = NoWork
           \/ verb'[p].at = "looked" /\ ~verb'[p].provisional /\ lockFile
    BY <1>0, <1>10 DEF Recheck, Raced, Then, Finishes, filesAndGhost, VerbStates
  <2>2. LocksInv(p)'
    <3>1. verb'[p].at = "looked" => ~verb'[p].provisional /\ lockFile'
      BY <2>1 DEF NoWork
    <3> QED BY <1>0, <1>10, <2>1, <3>1 DEF LocksInv, Writing, Reading, NoWork
  <2>3. ReadsInv(p)'
    BY <1>0, <1>10, <2>1 DEF LocksInv, ReadsInv, Writing, Reading, NoWork
  <2>4. StagedInv(p)'
    BY <1>0, <1>10, <2>1 DEF StagedInv, Writing, NoWork
  <2>5. OneSkill(p)'
    BY <1>0, <1>10, <2>1 DEF OneSkill, Writing, NoWork
  <2> QED BY <2>2, <2>3, <2>4, <2>5 DEF VerbInv
<1>11. CASE Stage(p)
  <2> DEFINE change == verb[p].kind
             id == verb[p].id
  <2>1. /\ verb'[p].at = "staged" /\ verb[p].at = "locked"
        /\ verb'[p].kind = change /\ verb'[p].id = id
        /\ verb'[p].reg = NewRegistry(change, id) /\ verb'[p].man = NewManifest(change, id)
        /\ verb'[p].provisional = verb[p].provisional /\ verb'[p].attempt = verb[p].attempt
        /\ UNCHANGED <<registry, manifest, wanted, lockFile, writer, readers>>
        /\ Admitted(change, id) /\ NewRegistry(change, id) = NewManifest(change, id)
    BY <1>0, <1>11 DEF Stage, CrossCheck, filesAndGhost, locks, VerbStates
  <2>2. LocksInv(p)'
    BY <1>0, <2>1 DEF LocksInv, Writing, Reading
  <2>3. ReadsInv(p)'
    BY <1>0, <2>1 DEF LocksInv, ReadsInv, Writing, Reading
  <2>4. StagedInv(p)'
    <3>1. change \in WriteKinds
      BY <1>0, <2>1 DEF LocksInv, Writing
    <3>2. CASE change = "add"
      <4>1. registry \union id = manifest \union id /\ verb'[p].reg = registry \union id
        BY <2>1, <3>2 DEF NewRegistry, NewManifest
      <4>2. Astray' \subseteq verb'[p].id
        BY <2>1, <4>1 DEF Astray
      <4> QED BY <1>0, <2>1, <3>2, <4>1, <4>2 DEF StagedInv, Writing
    <3>3. CASE change = "remove"
      <4>1. registry \ id = manifest \ id /\ verb'[p].reg = registry \ id
        BY <2>1, <3>3 DEF NewRegistry, NewManifest
      <4>2. Astray' \subseteq verb'[p].id
        BY <2>1, <4>1 DEF Astray
      <4> QED BY <1>0, <2>1, <3>3, <4>1, <4>2 DEF StagedInv, Writing
    <3>4. CASE change = "sync"
      BY <1>0, <2>1, <3>4 DEF StagedInv, Writing, NewRegistry
    <3> QED BY <3>1, <3>2, <3>3, <3>4 DEF WriteKinds
  <2>5. OneSkill(p)'
    BY <1>0, <2>1 DEF OneSkill, Writing
  <2> QED BY <2>2, <2>3, <2>4, <2>5 DEF VerbInv
<1> QED BY <1>1, <1>2, <1>3, <1>4, <1>5, <1>6, <1>7, <1>8, <1>9, <1>10, <1>11 DEF VerbStep

(* No skill that was added goes, and no second one goes astray: the files  *)
(* are changed only by the verb that holds the lock.                       *)
LEMMA PairKept ==
  ASSUME VerbTypes, AddedIsKept, OneAstray, NEW p \in Verbs, VerbInv(p), VerbStep(p)
  PROVE  AddedIsKept' /\ OneAstray'
<1>0. LocksInv(p) /\ StagedInv(p) /\ OneSkill(p)
  BY DEF VerbInv
<1>1. CASE RenameManifest(p)
  <2>1. /\ verb[p].at = "staged" /\ manifest' = verb[p].man /\ verb[p].man = verb[p].reg
        /\ UNCHANGED <<registry, wanted>> /\ verb[p].kind \in WriteKinds
    BY <1>0, <1>1 DEF RenameManifest, Doing, StagedInv, LocksInv, Writing
  <2>2. CASE verb[p].kind = "sync"
    BY <1>0, <2>1, <2>2 DEF StagedInv, AddedIsKept, OneAstray, Astray
  <2>3. CASE verb[p].kind # "sync"
    <3>1. PICK k \in SkillIds : verb[p].id = {k}
      BY <1>0, <2>1, <2>3 DEF OneSkill, Writing, WriteKinds
    <3>2. verb[p].reg \in {registry \union {k}, registry \ {k}}
      BY <1>0, <2>1, <2>3, <3>1 DEF StagedInv, WriteKinds
    <3>3. Astray' \subseteq {k}
      BY <2>1, <3>2 DEF Astray
    <3>4. verb[p].kind = "remove" => k \notin wanted
      BY <1>0, <2>1, <3>1 DEF StagedInv, Writing
    <3>5. verb[p].kind = "add" => verb[p].reg = registry \union {k}
      BY <1>0, <2>1, <3>1 DEF StagedInv
    <3> QED BY <2>1, <2>3, <3>2, <3>3, <3>4, <3>5 DEF AddedIsKept, OneAstray, WriteKinds
  <2> QED BY <2>2, <2>3
<1>2. CASE RenameRegistry(p)
  <2>1. /\ verb[p].at = "half_written" /\ registry' = verb[p].reg /\ manifest = verb[p].reg
        /\ UNCHANGED <<manifest, wanted>>
    BY <1>0, <1>2 DEF RenameRegistry, Doing, StagedInv
  <2> QED BY <2>1 DEF AddedIsKept, OneAstray, Astray
<1>3. CASE ReportWrite(p)
  <2>1. /\ verb[p].at = "written" /\ UNCHANGED <<registry, manifest>>
        /\ wanted' = wanted \union (IF verb[p].kind = "add" THEN verb[p].id ELSE {})
    BY <1>3 DEF ReportWrite, Doing
  <2>2. registry = manifest /\ (verb[p].kind = "add" => verb[p].id \subseteq registry)
    BY <1>0, <2>1 DEF StagedInv
  <2> QED BY <2>1, <2>2 DEF AddedIsKept, OneAstray, Astray
<1>4. CASE LockOverlay(p)
  BY <1>4 DEF LockOverlay, AddedIsKept, OneAstray, Astray
<1>5. CASE UNCHANGED <<registry, manifest, wanted>>
  BY <1>5 DEF AddedIsKept, OneAstray, Astray
<1> QED BY <1>1, <1>2, <1>3, <1>4, <1>5
    DEF VerbStep, Begins, BeginWrite, OverlayBusy, Stage, WriteFails, BeginValidate, LockShared,
        SharedBusy, ReadRegistry, ReadManifest, Recheck, TellValidate, VerbDies, filesAndGhost

LEMMA RegistryInvKept ==
  ASSUME RegistryInv, [RegistryNext]_registryVars
  PROVE  RegistryInv'
<1>1. CASE UNCHANGED registryVars
  BY <1>1 DEF registryVars, RegistryInv, VerbTypes, AddedIsKept, OneAstray, Astray, LocksInv,
              ReadsInv, StagedInv, OneSkill
<1>2. ASSUME NEW p \in Verbs, VerbStep(p)
      PROVE  RegistryInv'
  <2>1. VerbTypes /\ AddedIsKept /\ OneAstray /\ VerbInv(p) /\ LocksInv(p) /\ StagedInv(p)
    BY DEF RegistryInv, VerbInv
  <2>2. \A q \in readers : q \in Verbs /\ LocksInv(q)
    BY DEF RegistryInv, VerbTypes
  <2>3. VerbTypes' /\ AddedIsKept' /\ OneAstray' /\ VerbInv(p)'
    BY <1>2, <2>1, <2>2, VerbTypesKept, PairKept, OwnVerbKept
  <2>4. ASSUME NEW q \in Verbs, q # p
        PROVE  LocksInv(q)' /\ ReadsInv(q)' /\ StagedInv(q)' /\ OneSkill(q)'
    <3>1. LocksInv(q) /\ ReadsInv(q) /\ StagedInv(q) /\ OneSkill(q)
      BY DEF RegistryInv
    <3> QED BY <1>2, <2>1, <2>4, <3>1, OtherVerbsKept
  <2> QED BY <2>3, <2>4 DEF RegistryInv, VerbInv
<1> QED BY <1>1, <1>2, NextIsVerbStep

LEMMA RegistryInvImplies == RegistryInv => RegistryTypeOK /\ RegistryIsSound
<1> SUFFICES ASSUME RegistryInv PROVE RegistryTypeOK /\ RegistryIsSound
  OBVIOUS
<1>1. \A p \in Verbs : verb[p].attempt \in 0 .. 2
  BY DEF RegistryInv, VerbTypes, VerbStates
<1>2. RegistryTypeOK
  <2>1. ASSUME NEW p \in Verbs
        PROVE  /\ verb[p].attempt \in 0 .. MaxRereads
               /\ p = writer <=> verb[p].at \in {"locked", "staged", "half_written", "written"}
               /\ p \in readers => verb[p].at \in {"reading", "half_read", "read"}
    BY <1>1 DEF RegistryInv, LocksInv, Writing, Reading, MaxRereads
  <2> QED BY <2>1 DEF RegistryInv, VerbTypes, RegistryTypeOK
<1>3. AtMostOneAstray
  BY DEF RegistryInv, OneAstray, AtMostOneAstray
<1>4. RereadsAtMostOnce
  <2>1. \A n \in 0 .. 2 : n <= 2
    OBVIOUS
  <2> QED BY ONLY <1>1, <2>1 DEF RereadsAtMostOnce
<1> QED BY <1>2, <1>3, <1>4 DEF RegistryIsSound, RegistryInv

(* What a validate lets go of its lock with is the pair that is there.     *)
LEMMA ValidatesStep ==
  ASSUME RegistryInv, [RegistryNext]_registryVars
  PROVE  ValidatesOnePair
<1> SUFFICES ASSUME NEW p \in Verbs, Doing(p, "validated")', ~Doing(p, "validated")
             PROVE  verb'[p].reg = registry /\ verb'[p].man = manifest
  BY DEF ValidatesOnePair
<1>1. verb \in [Verbs -> VerbStates] /\ verb[p] \in VerbStates
      /\ LocksInv(p) /\ ReadsInv(p) /\ lockFile \in BOOLEAN
  BY DEF RegistryInv, VerbTypes
<1>2. verb' # verb
  BY DEF Doing
<1>3. PICK q \in Verbs : VerbStep(q)
  BY <1>2, NextIsVerbStep DEF registryVars
<1>4. PICK v \in VerbStates : verb' = [verb EXCEPT ![q] = v]
  BY <1>3, VerbStateKept DEF RegistryInv
<1>5. q = p /\ verb'[p].at = "validated"
  BY <1>1, <1>4 DEF Doing
<1>6. Recheck(p)
  <2>1. ASSUME NEW where, Then(p, where) PROVE verb'[p].at = where
    BY <1>1, <2>1 DEF Then, VerbStates
  <2>2. Finishes(p) => verb'[p].at = "idle"
    BY <1>1 DEF Finishes, NoWork
  <2>3. ASSUME NEW change, NEW id, Begins(p, change, id) PROVE verb'[p].at = "locking"
    BY <1>1, <2>3 DEF Begins, BeginWrite, NoWork
  <2>4. Stage(p) => verb'[p].at = "staged"
    BY <1>1 DEF Stage, VerbStates
  <2>5. /\ BeginValidate(p) => verb'[p].at = "looked"
        /\ ReadRegistry(p) => verb'[p].at = "half_read"
        /\ ReadManifest(p) => verb'[p].at = "read"
    <3>1. BeginValidate(p) => verb'[p].at = "looked"
      BY <1>1 DEF BeginValidate, NoWork
    <3>2. ReadRegistry(p) => verb'[p].at = "half_read"
      BY <1>1 DEF ReadRegistry, VerbStates
    <3>3. ReadManifest(p) => verb'[p].at = "read"
      BY <1>1 DEF ReadManifest, VerbStates
    <3> QED BY <3>1, <3>2, <3>3
  <2>6. LockOverlay(p) \/ RenameManifest(p) \/ RenameRegistry(p) \/ LockShared(p) =>
          verb'[p].at \in {"locked", "half_written", "written", "reading"}
    BY <2>1 DEF LockOverlay, RenameManifest, RenameRegistry, LockShared
  <2> QED BY <1>3, <1>5, <2>2, <2>3, <2>4, <2>5, <2>6
      DEF VerbStep, OverlayBusy, ReportWrite, WriteFails, SharedBusy, TellValidate, VerbDies
<1>7. /\ verb[p].at = "read" /\ ~Raced(p)
      /\ verb'[p].reg = verb[p].reg /\ verb'[p].man = verb[p].man
  BY <1>1, <1>5, <1>6 DEF Recheck, Doing, Then, Finishes, NoWork, VerbStates
<1>8. p \in readers \/ ~lockFile
  BY <1>1, <1>7 DEF Raced, LocksInv, Reading
<1> QED BY <1>1, <1>7, <1>8 DEF ReadsInv

(* However many processes write the registry, stop or fail, the pair of    *)
(* files is in order and no update is lost (AcquireLocks, CommitStaged).   *)
THEOREM RegistryStaysSound == RegistrySpec => [](RegistryTypeOK /\ RegistryIsSound)
<1>1. RegistryInit => RegistryInv
  BY RegistryInitInv
<1>2. RegistryInv /\ [RegistryNext]_registryVars => RegistryInv'
  BY RegistryInvKept
<1>3. RegistryInv => RegistryTypeOK /\ RegistryIsSound
  BY RegistryInvImplies
<1> QED BY <1>1, <1>2, <1>3, PTL DEF RegistrySpec

(* validate judges one pair of files, never the registry of one moment by  *)
(* the manifest of another (ReadConsistently).                             *)
THEOREM ValidatesAsOne == RegistrySpec => [][ValidatesOnePair]_registryVars
<1>1. RegistryInit => RegistryInv
  BY RegistryInitInv
<1>2. RegistryInv /\ [RegistryNext]_registryVars => RegistryInv'
  BY RegistryInvKept
<1>3. RegistryInv /\ [RegistryNext]_registryVars => [ValidatesOnePair]_registryVars
  BY ValidatesStep
<1> QED BY <1>1, <1>2, <1>3, PTL DEF RegistrySpec

-----------------------------------------------------------------------------
(* The runtimes' record.                                                   *)
JobStep(p) ==
  \/ \E t \in Targets : BeginInstall(p, t)
  \/ \E t \in Targets, purge \in BOOLEAN : BeginUninstall(p, t, purge)
  \/ Deploy(p) \/ RegisterTarget(p)
  \/ LockToRecord(p) \/ LockToRelease(p) \/ LockToRetire(p) \/ RecordBusy(p)
  \/ RecordTarget(p) \/ RecordTorn(p)
  \/ Unregister(p) \/ UnregisterWithoutBinary(p)
  \/ ReleaseNothing(p) \/ Release(p)
  \/ Assess(p) \/ RemoveBinary(p) \/ KeepBinary(p) \/ DeleteRecord(p)
  \/ LockedStepFails(p) \/ ScriptEnds(p)

LEMMA NextIsJobStep == TargetsNext => \E p \in Scripts : JobStep(p)
BY MayPurgeAssumption DEF TargetsNext, JobStep

LEMMA TargetsInitInv == TargetsInit => TargetsInv
<1> SUFFICES ASSUME TargetsInit PROVE TargetsInv
  OBVIOUS
<1>1. NoJob \in JobStates
  BY DEF NoJob, JobStates
<1>2. JobTypes /\ InstalledIsHeld
  BY <1>1 DEF TargetsInit, JobTypes, NoRecordFile, InstalledIsHeld
<1>3. ASSUME NEW p \in Scripts PROVE JobInv(p)
  BY NoScriptAssumption DEF TargetsInit, JobInv, NoJob, LockedSteps, LeavingSteps
<1> QED BY <1>2, <1>3 DEF TargetsInv

(* What a step does to the record of the script that takes it.             *)
LEMMA JobStateKept ==
  ASSUME JobTypes, NEW p \in Scripts, JobStep(p)
  PROVE  \E v \in JobStates : job' = [job EXCEPT ![p] = v]
<1> DEFINE Becomes(v) == v \in JobStates /\ job' = [job EXCEPT ![p] = v]
<1>0. job \in [Scripts -> JobStates] /\ job[p] \in JobStates
  BY DEF JobTypes
<1>1. CASE JobEnds(p)
  <2>1. NoJob \in JobStates
    BY DEF JobStates, NoJob
  <2> QED BY <1>1, <2>1 DEF JobEnds
<1>2. ASSUME NEW w \in LockedSteps \union LeavingSteps \union {"register", "record"}, JobTo(p, w)
      PROVE  Becomes([job[p] EXCEPT !.at = w])
  BY <1>0, <1>2 DEF JobTo, JobStates
<1>3. ASSUME NEW t \in Targets, NEW purge \in BOOLEAN, NEW first \in {"deploy", "unregister"},
             BeginJob(p, t, purge, first)
      PROVE  Becomes([at |-> first, target |-> t, purge |-> purge, failed |-> FALSE])
  BY <1>0, <1>3 DEF BeginJob, JobStates, LeavingSteps
<1>4. CASE Unregister(p)
  <2>1. PICK r \in Unregistered(job[p].target) :
          job' = [job EXCEPT ![p].at = r[1], ![p].failed = r[3]]
    BY <1>4 DEF Unregister
  <2>2. r[1] \in {"release", "assess"} /\ r[3] \in BOOLEAN
    <3>1. PICK w \in {"release", "assess"}, e \in SUBSET entry, b \in BOOLEAN : r = <<w, e, b>>
      BY <2>1 DEF Unregistered
    <3> QED BY <3>1
  <2>3. [job[p] EXCEPT !.at = r[1], !.failed = r[3]] \in JobStates
    BY <1>0, <2>2 DEF JobStates, LeavingSteps
  <2>4. job' = [job EXCEPT ![p] = [job[p] EXCEPT !.at = r[1], !.failed = r[3]]]
    BY <1>0, <2>1 DEF JobStates
  <2> QED BY <2>3, <2>4
<1> HIDE DEF Becomes
<1>5. ASSUME NEW v, Becomes(v) PROVE \E u \in JobStates : job' = [job EXCEPT ![p] = u]
  BY <1>5 DEF Becomes
<1> USE DEF LockedSteps, LeavingSteps
<1>6. (\E t \in Targets : BeginInstall(p, t)) \/ (\E t \in Targets, purge \in BOOLEAN : BeginUninstall(p, t, purge))
        => \E u \in JobStates : job' = [job EXCEPT ![p] = u]
  BY <1>3, <1>5 DEF BeginInstall, BeginUninstall
<1>7. Deploy(p) \/ RegisterTarget(p) \/ LockToRecord(p) \/ LockToRelease(p) \/ LockToRetire(p)
        => \E u \in JobStates : job' = [job EXCEPT ![p] = u]
  BY <1>2, <1>5 DEF Deploy, RegisterTarget, LockToRecord, LockToRelease, LockToRetire, LockFor
<1>8. RecordBusy(p) \/ RecordTarget(p) \/ RecordTorn(p) \/ KeepBinary(p) \/ DeleteRecord(p)
        \/ LockedStepFails(p) \/ ScriptEnds(p) => \E u \in JobStates : job' = [job EXCEPT ![p] = u]
  BY <1>1, <1>5 DEF RecordBusy, RecordTarget, RecordTorn, KeepBinary, DeleteRecord, LockedStepFails,
                    ScriptEnds
<1>9. UnregisterWithoutBinary(p) \/ ReleaseNothing(p) \/ Release(p) \/ Assess(p) \/ RemoveBinary(p)
        => \E u \in JobStates : job' = [job EXCEPT ![p] = u]
  BY <1>1, <1>2, <1>5 DEF UnregisterWithoutBinary, ReleaseNothing, Release, Assess, RemoveBinary
<1> QED BY <1>4, <1>5, <1>6, <1>7, <1>8, <1>9 DEF JobStep

(* What a script's step can do to what all share: only the holder of the   *)
(* lock writes the record, and tells of a runtime that does not leave.     *)
LEMMA JobEffect ==
  ASSUME JobTypes, NEW p \in Scripts, JobInv(p), JobStep(p)
  PROVE  /\ \/ recordLock' = recordLock
            \/ recordLock = NoScript /\ recordLock' = p
            \/ recordLock = p /\ recordLock' = NoScript
         /\ record' = record \/ recordLock = p
         /\ \/ told' \subseteq told
            \/ /\ recordLock = p /\ ~Leaving(job[p].target)
               /\ told' = told \union {job[p].target}
<1> USE DEF JobAt
<1>1. \/ recordLock' = recordLock
      \/ recordLock = NoScript /\ recordLock' = p
      \/ recordLock = p /\ recordLock' = NoScript
  BY DEF JobStep, BeginInstall, BeginUninstall, BeginJob, Deploy, RegisterTarget, LockToRecord,
         LockToRelease, LockToRetire, LockFor, LockRecordFree, RecordBusy, RecordTarget, RecordTorn,
         Unregister, UnregisterWithoutBinary, ReleaseNothing, Release, Assess, RemoveBinary,
         KeepBinary, DeleteRecord, LockedStepFails, ScriptEnds, JobInv, LockedSteps
<1>2. record' = record \/ recordLock = p
  <2>1. RecordTarget(p) \/ RecordTorn(p) \/ Release(p) \/ DeleteRecord(p) => recordLock = p
    BY DEF RecordTarget, RecordTorn, Release, DeleteRecord, JobInv, LockedSteps
  <2>2. \/ RecordTarget(p) \/ RecordTorn(p) \/ Release(p) \/ DeleteRecord(p)
        \/ record' = record
    BY DEF JobStep, BeginInstall, BeginUninstall, BeginJob, Deploy, RegisterTarget, LockToRecord,
           LockToRelease, LockToRetire, LockFor, RecordBusy, Unregister, UnregisterWithoutBinary,
           ReleaseNothing, Assess, RemoveBinary, KeepBinary, LockedStepFails, ScriptEnds, world
  <2> QED BY <2>1, <2>2
<1>3. \/ told' \subseteq told
      \/ /\ recordLock = p /\ ~Leaving(job[p].target)
         /\ told' = told \union {job[p].target}
  <2>1. RecordTarget(p) =>
          \/ told' = told
          \/ recordLock = p /\ ~Leaving(job[p].target) /\ told' = told \union {job[p].target}
    BY DEF RecordTarget, JobInv, LockedSteps
  <2>2. RecordTarget(p) \/ told' \subseteq told
    BY DEF JobStep, BeginInstall, BeginUninstall, BeginJob, Deploy, RegisterTarget, LockToRecord,
           LockToRelease, LockToRetire, LockFor, RecordBusy, RecordTorn, Unregister,
           UnregisterWithoutBinary, ReleaseNothing, Release, Assess, RemoveBinary, KeepBinary,
           DeleteRecord, LockedStepFails, ScriptEnds
  <2> QED BY <2>1, <2>2
<1> QED BY <1>1, <1>2, <1>3

LEMMA OtherJobsKept ==
  ASSUME JobTypes, NEW p \in Scripts, JobInv(p), JobStep(p), NEW q \in Scripts, q # p, JobInv(q)
  PROVE  JobInv(q)'
<1>1. PICK v \in JobStates : job' = [job EXCEPT ![p] = v]
  BY JobStateKept
<1>2. job'[q] = job[q] /\ p # NoScript /\ q # NoScript
  BY <1>1, NoScriptAssumption DEF JobTypes
<1>3. recordLock' = q <=> recordLock = q
  BY <1>2, JobEffect
<1>4. CASE told' \subseteq told
  BY <1>2, <1>3, <1>4 DEF JobInv
<1>5. CASE recordLock = p /\ ~Leaving(job[p].target) /\ told' = told \union {job[p].target}
  <2>1. job[q].at \notin LockedSteps
    BY <1>2, <1>5 DEF JobInv
  <2>2. job[q].at \in LeavingSteps => ~job[q].purge /\ job[q].target # job[p].target
    BY <1>5 DEF Leaving, LeavingSteps
  <2> QED BY <1>2, <1>3, <1>5, <2>1, <2>2 DEF JobInv, LockedSteps
<1> QED BY <1>4, <1>5, JobEffect

LEMMA JobTypesKept ==
  ASSUME JobTypes, NEW p \in Scripts, JobInv(p), JobStep(p)
  PROVE  JobTypes'
<1>0. /\ job \in [Scripts -> JobStates] /\ job[p].target \in Targets \union {Garbled}
      /\ JobAt(p, "recording") \/ JobAt(p, "register") => job[p].target \in Targets
      /\ record \in [there : BOOLEAN, names : SUBSET (Targets \union {Garbled}), partial : BOOLEAN]
  BY DEF JobTypes, JobStates, JobInv, JobAt
<1>1. job' \in [Scripts -> JobStates]
  <2>1. PICK v \in JobStates : job' = [job EXCEPT ![p] = v]
    BY JobStateKept
  <2> QED BY <1>0, <2>1
<1>2. recordLock' \in Scripts \union {NoScript}
  BY JobEffect DEF JobTypes
<1>3. told' \subseteq Targets
  <2>1. RecordTarget(p) => told' \subseteq Targets
    BY <1>0 DEF RecordTarget, JobTypes
  <2>2. RecordTarget(p) \/ told' \subseteq told
    BY DEF JobStep, BeginInstall, BeginUninstall, BeginJob, Deploy, RegisterTarget, LockToRecord,
           LockToRelease, LockToRetire, LockFor, RecordBusy, RecordTorn, Unregister,
           UnregisterWithoutBinary, ReleaseNothing, Release, Assess, RemoveBinary, KeepBinary,
           DeleteRecord, LockedStepFails, ScriptEnds
  <2> QED BY <2>1, <2>2 DEF JobTypes
<1>4. binary' \in BOOLEAN /\ entry' \subseteq Targets
  <2>1. RegisterTarget(p) => binary' \in BOOLEAN /\ entry' \subseteq Targets
    BY <1>0 DEF RegisterTarget, JobTypes
  <2>2. Unregister(p) => binary' \in BOOLEAN /\ entry' \subseteq Targets
    <3> SUFFICES ASSUME Unregister(p) PROVE binary' = binary /\ entry' \subseteq entry
      BY DEF JobTypes
    <3>1. PICK r \in Unregistered(job[p].target) : entry' = r[2]
      BY DEF Unregister
    <3>2. PICK w \in {"release", "assess"}, e \in SUBSET entry, b \in BOOLEAN : r = <<w, e, b>>
      BY DEF Unregistered
    <3> QED BY <3>1, <3>2 DEF Unregister
  <2>3. RegisterTarget(p) \/ Unregister(p) \/ (binary' \in {binary, TRUE, FALSE} /\ entry' = entry)
    BY DEF JobStep, BeginInstall, BeginUninstall, BeginJob, Deploy, LockToRecord,
           LockToRelease, LockToRetire, LockFor, RecordBusy, RecordTarget, RecordTorn,
           UnregisterWithoutBinary, ReleaseNothing, Release, Assess, RemoveBinary, KeepBinary,
           DeleteRecord, LockedStepFails, ScriptEnds, world
  <2> QED BY <2>1, <2>2, <2>3 DEF JobTypes
<1>5. /\ record' \in [there : BOOLEAN, names : SUBSET (Targets \union {Garbled}), partial : BOOLEAN]
      /\ ~record'.there => record' = NoRecordFile
  <2>1. RecordTarget(p) => (record' = record \/ (record' = Appended(job[p].target)))
    BY DEF RecordTarget
  <2>2. RecordTorn(p) => record' = [record EXCEPT !.there = TRUE, !.partial = TRUE]
    BY DEF RecordTorn
  <2>3. Release(p) => record' = [there |-> TRUE, partial |-> FALSE, names |-> Without(job[p].target)]
                      \/ record' = [there |-> TRUE, partial |-> FALSE, names |-> {}]
    BY DEF Release
  <2>4. DeleteRecord(p) => record' = NoRecordFile
    BY DEF DeleteRecord
  <2>5. RecordTarget(p) \/ RecordTorn(p) \/ Release(p) \/ DeleteRecord(p) \/ record' = record
    BY DEF JobStep, BeginInstall, BeginUninstall, BeginJob, Deploy, RegisterTarget, LockToRecord,
           LockToRelease, LockToRetire, LockFor, RecordBusy, Unregister, UnregisterWithoutBinary,
           ReleaseNothing, Assess, RemoveBinary, KeepBinary, LockedStepFails, ScriptEnds, world
  <2>6. Appended(job[p].target).names \subseteq Targets \union {Garbled}
        /\ Without(job[p].target) \subseteq Targets \union {Garbled}
    BY <1>0 DEF Appended, Without
  <2>7. CASE record' = record
    BY <1>0, <2>7 DEF JobTypes
  <2>8. CASE record' = Appended(job[p].target)
    BY <2>6, <2>8 DEF Appended
  <2>9. CASE record' = [record EXCEPT !.there = TRUE, !.partial = TRUE]
    BY <1>0, <2>9
  <2>10. CASE record' = NoRecordFile
    BY <2>10 DEF NoRecordFile
  <2>11. CASE Release(p)
    <3>1. PICK names \in SUBSET (Targets \union {Garbled}) :
            record' = [there |-> TRUE, partial |-> FALSE, names |-> names]
      BY <2>3, <2>6, <2>11
    <3> QED BY <3>1
  <2>12. \/ record' = record \/ record' = Appended(job[p].target) \/ Release(p)
         \/ record' = [record EXCEPT !.there = TRUE, !.partial = TRUE] \/ record' = NoRecordFile
    BY <2>1, <2>2, <2>4, <2>5
  <2> QED BY ONLY <2>7, <2>8, <2>9, <2>10, <2>11, <2>12
<1> QED BY <1>1, <1>2, <1>3, <1>4, <1>5 DEF JobTypes

(* Who is told to be installed is in the record, or stood in for.          *)
LEMMA InstalledKept ==
  ASSUME JobTypes, InstalledIsHeld, NEW p \in Scripts, JobInv(p), JobStep(p)
  PROVE  InstalledIsHeld'
<1>1. CASE RecordTarget(p)
  <2> DEFINE t == job[p].target
  <2>1. record'.names = record.names \/ record'.names = record.names \union {t}
          \/ record'.names = record.names \union {Garbled}
    BY <1>1 DEF RecordTarget, Appended
  <2>2. t \in record'.names \/ Garbled \in record'.names
    BY <1>1 DEF RecordTarget, Appended
  <2>3. told' \subseteq told \union {t}
    BY <1>1 DEF RecordTarget
  <2> QED BY <2>1, <2>2, <2>3 DEF InstalledIsHeld
<1>2. CASE Release(p)
  <2>1. job[p].target \notin told /\ told' = told
    BY <1>2 DEF Release, JobInv, JobAt, LeavingSteps
  <2>2. record.there => record'.names = record.names \ {job[p].target}
    BY <1>2 DEF Release, Without
  <2>3. ~record.there => record.names = {}
    BY DEF JobTypes, NoRecordFile
  <2>4. Garbled # job[p].target
    BY <1>2, GarbledAssumption DEF Release, JobInv, JobAt
  <2> QED BY <2>1, <2>2, <2>3, <2>4 DEF InstalledIsHeld
<1>3. CASE DeleteRecord(p)
  <2>1. told' = {}
    BY <1>3 DEF DeleteRecord, JobInv, JobAt
  <2> QED BY <2>1 DEF InstalledIsHeld
<1>4. CASE RecordTorn(p)
  <2>1. record'.names = record.names /\ told' = told
    BY <1>4 DEF RecordTorn, JobTypes
  <2> QED BY <2>1 DEF InstalledIsHeld
<1>5. CASE record' = record /\ told' \subseteq told
  BY <1>5 DEF InstalledIsHeld
<1>6. RecordTarget(p) \/ Release(p) \/ DeleteRecord(p) \/ RecordTorn(p)
        \/ (record' = record /\ told' \subseteq told)
  BY DEF JobStep, BeginInstall, BeginUninstall, BeginJob, Deploy, RegisterTarget, LockToRecord,
         LockToRelease, LockToRetire, LockFor, RecordBusy, Unregister, UnregisterWithoutBinary,
         ReleaseNothing, Assess, RemoveBinary, KeepBinary, LockedStepFails, ScriptEnds, world
<1> QED BY <1>1, <1>2, <1>3, <1>4, <1>5, <1>6

LEMMA OwnJobKept ==
  ASSUME JobTypes, InstalledIsHeld, NEW p \in Scripts, JobInv(p), JobStep(p)
  PROVE  JobInv(p)'
<1> USE NoScriptAssumption DEF JobAt, LockedSteps, LeavingSteps
<1>0. /\ job \in [Scripts -> JobStates] /\ job[p] \in JobStates /\ p # NoScript
      /\ (recordLock = p <=> job[p].at \in LockedSteps)
      /\ (job[p].at # "idle" => job[p].target \in Targets)
      /\ (job[p].at \in LeavingSteps => job[p].target \notin told /\ (job[p].purge => told = {}))
      /\ (job[p].at = "removed" => told = {})
  BY DEF JobTypes, JobInv
<1>1. ASSUME NEW t \in Targets, BeginInstall(p, t) PROVE JobInv(p)'
  <2>1. /\ job'[p].at = "deploy" /\ job'[p].target = t /\ recordLock' = recordLock
        /\ job[p].at = "idle"
    BY <1>0, <1>1 DEF BeginInstall, BeginJob
  <2> QED BY <1>0, <2>1 DEF JobInv
<1>2. ASSUME NEW t \in Targets, NEW purge \in BOOLEAN, BeginUninstall(p, t, purge) PROVE JobInv(p)'
  <2>1. /\ job'[p].at = "unregister" /\ job'[p].target = t /\ job'[p].purge = purge
        /\ recordLock' = recordLock /\ job[p].at = "idle"
        /\ told' = IF purge THEN {} ELSE told \ {t}
    BY <1>0, <1>2 DEF BeginUninstall, BeginJob
  <2> QED BY <1>0, <2>1 DEF JobInv
<1>3. ASSUME NEW w, JobTo(p, w)
      PROVE  job'[p].at = w /\ job'[p].target = job[p].target /\ job'[p].purge = job[p].purge
  BY <1>0, <1>3 DEF JobTo, JobStates
<1>4. ASSUME JobEnds(p), recordLock' # p PROVE JobInv(p)'
  <2>1. job'[p].at = "idle"
    BY <1>0, <1>4 DEF JobEnds, NoJob
  <2> QED BY <1>4, <2>1 DEF JobInv
<1>5. CASE Deploy(p) \/ RegisterTarget(p)
  <2>1. /\ job[p].at \in {"deploy", "register"} /\ job'[p].at \in {"register", "record"}
        /\ job'[p].target = job[p].target /\ recordLock' = recordLock
    BY <1>3, <1>5 DEF Deploy, RegisterTarget
  <2> QED BY <1>0, <2>1 DEF JobInv
<1>6. CASE LockToRecord(p) \/ LockToRelease(p) \/ LockToRetire(p)
  <2>1. /\ \/ job[p].at = "record" /\ job'[p].at = "recording"
           \/ job[p].at = "release" /\ job'[p].at = "releasing"
           \/ job[p].at = "retire" /\ job'[p].at = "deciding"
        /\ job'[p].target = job[p].target /\ job'[p].purge = job[p].purge
        /\ recordLock' = p /\ told' = told
    BY <1>3, <1>6 DEF LockToRecord, LockToRelease, LockToRetire, LockFor
  <2> QED BY <1>0, <2>1 DEF JobInv
<1>7. CASE RecordBusy(p) \/ KeepBinary(p) \/ ScriptEnds(p) \/ LockedStepFails(p) \/ RecordTarget(p)
             \/ RecordTorn(p) \/ DeleteRecord(p)
  <2>1. JobEnds(p) /\ recordLock' # p
    BY <1>0, <1>7 DEF RecordBusy, KeepBinary, ScriptEnds, LockedStepFails, RecordTarget, RecordTorn,
                      DeleteRecord
  <2> QED BY <1>4, <2>1
<1>8. CASE Unregister(p)
  <2>1. PICK r \in Unregistered(job[p].target) :
          job' = [job EXCEPT ![p].at = r[1], ![p].failed = r[3]]
    BY <1>8 DEF Unregister
  <2>2. PICK w \in {"release", "assess"}, e \in SUBSET entry, b \in BOOLEAN : r = <<w, e, b>>
    BY <2>1 DEF Unregistered
  <2>3. /\ job'[p].at = w /\ job'[p].target = job[p].target /\ job'[p].purge = job[p].purge
    BY <1>0, <2>1, <2>2 DEF JobStates
  <2>4. job[p].at = "unregister" /\ recordLock' = recordLock /\ told' = told
    BY <1>8 DEF Unregister
  <2> QED BY <1>0, <2>2, <2>3, <2>4 DEF JobInv
<1>9. CASE UnregisterWithoutBinary(p) \/ ReleaseNothing(p)
  <2>1. /\ job[p].at \in {"unregister", "release"} /\ job'[p].at \in {"release", "assess"}
        /\ job'[p].target = job[p].target /\ job'[p].purge = job[p].purge
        /\ recordLock' = recordLock /\ told' = told
    BY <1>3, <1>9 DEF UnregisterWithoutBinary, ReleaseNothing
  <2> QED BY <1>0, <2>1 DEF JobInv
<1>10. CASE Release(p)
  <2>1. /\ job[p].at = "releasing" /\ job'[p].at = "assess"
        /\ job'[p].target = job[p].target /\ job'[p].purge = job[p].purge
        /\ recordLock' = NoScript /\ told' = told
    BY <1>3, <1>10 DEF Release
  <2> QED BY <1>0, <2>1 DEF JobInv
<1>11. CASE Assess(p)
  <2>1. job[p].at = "assess" /\ recordLock' = recordLock /\ told' = told
    BY <1>11 DEF Assess
  <2>2. CASE JobTo(p, "retire")
    BY <1>0, <1>3, <2>1, <2>2 DEF JobInv
  <2>3. CASE JobEnds(p)
    BY <1>0, <1>4, <2>1, <2>3
  <2> QED BY <1>11, <2>2, <2>3 DEF Assess
<1>12. CASE RemoveBinary(p)
  <2>1. /\ job[p].at = "deciding" /\ job'[p].at = "removed"
        /\ job'[p].target = job[p].target /\ job'[p].purge = job[p].purge
        /\ recordLock' = recordLock /\ told' = told
        /\ job[p].purge \/ record.names = {}
    BY <1>3, <1>12 DEF RemoveBinary, Retires, NothingDepends
  <2>2. record.names = {} => told = {}
    BY DEF InstalledIsHeld
  <2> QED BY <1>0, <2>1, <2>2 DEF JobInv
<1> QED BY <1>1, <1>2, <1>5, <1>6, <1>7, <1>8, <1>9, <1>10, <1>11, <1>12 DEF JobStep

LEMMA TargetsInvKept ==
  ASSUME TargetsInv, [TargetsNext]_targetsVars
  PROVE  TargetsInv'
<1>1. CASE UNCHANGED targetsVars
  BY <1>1 DEF targetsVars, TargetsInv, JobTypes, InstalledIsHeld, JobInv
<1>2. ASSUME NEW p \in Scripts, JobStep(p)
      PROVE  TargetsInv'
  <2>1. JobTypes /\ InstalledIsHeld /\ JobInv(p)
    BY DEF TargetsInv
  <2>2. JobTypes' /\ InstalledIsHeld' /\ JobInv(p)'
    BY <1>2, <2>1, JobTypesKept, InstalledKept, OwnJobKept
  <2>3. ASSUME NEW q \in Scripts, q # p PROVE JobInv(q)'
    <3>1. JobInv(q)
      BY DEF TargetsInv
    <3> QED BY <1>2, <2>1, <2>3, <3>1, OtherJobsKept
  <2> QED BY <2>2, <2>3 DEF TargetsInv
<1> QED BY <1>1, <1>2, NextIsJobStep

LEMMA TargetsInvImplies == TargetsInv => TargetsTypeOK /\ InstalledIsHeld
<1> SUFFICES ASSUME TargetsInv PROVE TargetsTypeOK
  BY DEF TargetsInv
<1>1. record.names \subseteq Targets \union {Garbled}
  BY DEF TargetsInv, JobTypes
<1> QED BY <1>1 DEF TargetsInv, JobTypes, JobInv, LockedSteps, TargetsTypeOK

LEMMA KeepsBinaryStep ==
  ASSUME [TargetsNext]_targetsVars
  PROVE  RecordedKeepsBinary
<1> SUFFICES ASSUME binary, ~binary'
             PROVE  \/ record.there /\ record.names = {}
                    \/ \E p \in Scripts : job[p].purge /\ JobAt(p, "deciding")
  BY DEF RecordedKeepsBinary
<1>1. PICK p \in Scripts : JobStep(p)
  BY NextIsJobStep DEF targetsVars
<1>2. RemoveBinary(p)
  BY <1>1 DEF JobStep, BeginInstall, BeginUninstall, BeginJob, Deploy, RegisterTarget, LockToRecord,
     LockToRelease, LockToRetire, LockFor, RecordBusy, RecordTarget, RecordTorn, Unregister,
     UnregisterWithoutBinary, ReleaseNothing, Release, Assess, KeepBinary, DeleteRecord,
     LockedStepFails, ScriptEnds, world
<1> QED BY <1>2 DEF RemoveBinary, Retires, NothingDepends

(* A runtime that was said to be installed stays recorded until it is      *)
(* uninstalled, whichever scripts run, stop or tear the record             *)
(* (Store.Append, Service.Retire).                                         *)
THEOREM InstalledStaysHeld == TargetsSpec => [](TargetsTypeOK /\ InstalledIsHeld)
<1>1. TargetsInit => TargetsInv
  BY TargetsInitInv
<1>2. TargetsInv /\ [TargetsNext]_targetsVars => TargetsInv'
  BY TargetsInvKept
<1>3. TargetsInv => TargetsTypeOK /\ InstalledIsHeld
  BY TargetsInvImplies
<1> QED BY <1>1, <1>2, <1>3, PTL DEF TargetsSpec

(* The binary is only removed when the record names nobody, or for a purge *)
(* (Service.Retire).                                                       *)
THEOREM BinaryIsKept == TargetsSpec => [][RecordedKeepsBinary]_targetsVars
<1>1. [TargetsNext]_targetsVars => [RecordedKeepsBinary]_targetsVars
  BY KeepsBinaryStep
<1> QED BY <1>1, PTL DEF TargetsSpec

-----------------------------------------------------------------------------
(* The registry of skills of a project and what writes it.                 *)

(* Among addresses there is a least one, so the page that is found is one  *)
(* of those looked for.                                                    *)
LEMMA LeastNumber ==
  ASSUME NEW n \in Nat, NEW S \in SUBSET (1..n), S # {}
  PROVE  \E k \in S : \A j \in S : k <= j
<1> DEFINE R == StrictSubsetOrdering(1..n)
           Lower(k) == {j \in S : j < k}
           T == {Lower(k) : k \in S}
<1>1. IsWellFoundedOn(R, FiniteSubsetsOf(1..n))
  BY FS_StrictSubsetOrderingWellFounded
<1>2. IsFiniteSet(1..n) /\ \A k \in S : Lower(k) \in SUBSET (1..n)
  <2>1. IsFiniteSet(1..n)
    BY FS_Interval
  <2>2. \A k \in S : Lower(k) \in SUBSET (1..n)
    OBVIOUS
  <2> QED BY <2>1, <2>2
<1>3. \A k \in S : Lower(k) \in FiniteSubsetsOf(1..n)
  BY <1>2, FS_Subset DEF FiniteSubsetsOf
<1>4. T \subseteq FiniteSubsetsOf(1..n) /\ T # {}
  BY <1>3
<1>5. PICK t \in T : \A u \in T : ~(<<u, t>> \in R)
  <2> HIDE DEF R, T
  <2> QED BY <1>1, <1>4, WFMin
<1>6. PICK k \in S : t = Lower(k)
  OBVIOUS
<1>7. ASSUME NEW j \in S, j < k PROVE FALSE
  <2>1. Lower(j) \subseteq Lower(k) /\ j \in Lower(k) /\ j \notin Lower(j)
    <3>1. j \in Int /\ k \in Int /\ \A i \in S : i \in Int
      OBVIOUS
    <3>2. \A i \in S : i < j => i < k
      BY <1>7, <3>1
    <3>3. ~(j < j)
      BY <3>1
    <3> QED BY <1>7, <3>2, <3>3
  <2>2. Lower(j) \in SUBSET (1..n) /\ Lower(k) \in SUBSET (1..n) /\ Lower(j) # Lower(k)
    BY <1>2, <2>1
  <2>3. <<Lower(j), Lower(k)>> \in R
    BY <2>1, <2>2 DEF StrictSubsetOrdering
  <2> QED BY <1>5, <1>6, <2>3
<1>8. \A j \in S : k <= j
  BY <1>7
<1> QED BY <1>8

(* Numbers are reached one after another.                                  *)
LEMMA OneByOne ==
  ASSUME NEW n \in Nat, NEW S, 0 \in S, \A i \in 0..n : i \in S /\ i < n => i + 1 \in S
  PROVE  \A i \in 0..n : i \in S
<1> DEFINE T == {i \in 1..n : i \notin S}
<1>1. ASSUME T # {} PROVE FALSE
  <2>1. T \in SUBSET (1..n)
    OBVIOUS
  <2>2. PICK m \in T : \A j \in T : m <= j
    <3> HIDE DEF T
    <3> QED BY <1>1, <2>1, LeastNumber
  <2>3. m \in 1..n /\ m \notin S /\ m - 1 \in 0..n /\ m - 1 < n /\ (m - 1) + 1 = m
    OBVIOUS
  <2>4. m - 1 \in S
    <3>1. CASE m - 1 = 0
      BY <3>1
    <3>2. CASE m - 1 # 0
      <4>1. m - 1 \in 1..n /\ ~(m <= m - 1)
        BY <2>3, <3>2
      <4>2. m - 1 \notin T
        BY <2>2, <4>1
      <4> QED BY <4>1, <4>2
    <3> QED BY <3>1, <3>2
  <2> QED BY <2>3, <2>4
<1>2. ASSUME NEW i \in 0..n, i # 0 PROVE i \in S
  BY <1>1, <1>2
<1> QED BY <1>2

(* FlattenSeq joins the pieces one after another.                          *)
Joins(f, s, n) == f[1] = s[1] /\ \A i \in 2..n : f[i] = f[i - 1] \o s[i]

LEMMA JoinsExist ==
  ASSUME NEW n \in Nat \ {0}, NEW s
  PROVE  \E f : f = [i \in 1..n |-> IF i = 1 THEN s[1] ELSE f[i - 1] \o s[i]]
<1> DEFINE Upto(f, m) == /\ f = [i \in 1..n |-> f[i]] /\ f[1] = s[1]
                         /\ \A i \in 2..n : i <= m + 1 => f[i] = f[i - 1] \o s[i]
           S == {m \in 0..n : \E f : Upto(f, m)}
<1>1. 0 \in S
  <2> DEFINE f == [i \in 1..n |-> s[1]]
  <2>1. f = [i \in 1..n |-> f[i]] /\ f[1] = s[1]
    OBVIOUS
  <2>2. ASSUME NEW i \in 2..n, i <= 0 + 1 PROVE FALSE
    BY <2>2
  <2>3. Upto(f, 0)
    BY <2>1, <2>2
  <2> HIDE DEF Upto, f
  <2> QED BY <2>3
<1>2. ASSUME NEW m \in 0..n, m \in S, m < n PROVE m + 1 \in S
  <2>1. PICK f : Upto(f, m)
    BY <1>2
  <2> DEFINE g == [i \in 1..n |-> IF i = m + 2 THEN f[m + 1] \o s[m + 2] ELSE f[i]]
  <2>2. g = [i \in 1..n |-> g[i]] /\ g[1] = s[1]
    BY <2>1
  <2>3. ASSUME NEW i \in 2..n, i <= m + 2 PROVE g[i] = g[i - 1] \o s[i]
    <3>1. i - 1 \in 1..n /\ i \in 1..n /\ i - 1 # m + 2
      BY <2>3
    <3>2. g[i - 1] = f[i - 1]
      BY <3>1
    <3>3. CASE i = m + 2
      <4>1. g[i] = f[m + 1] \o s[m + 2]
        BY <3>1, <3>3
      <4>2. i - 1 = m + 1
        BY <3>3
      <4> HIDE DEF g
      <4> QED BY <3>2, <3>3, <4>1, <4>2
    <3>4. CASE i # m + 2
      <4>1. i <= m + 1
        BY <2>3, <3>4
      <4> QED BY <2>1, <3>1, <3>2, <3>4, <4>1
    <3> QED BY <3>3, <3>4
  <2> HIDE DEF g
  <2>4. Upto(g, m + 1)
    <3>1. \A i \in 2..n : i <= (m + 1) + 1 => g[i] = g[i - 1] \o s[i]
      <4>1. \A i \in 2..n : i <= m + 2 => g[i] = g[i - 1] \o s[i]
        BY <2>3
      <4>2. (m + 1) + 1 = m + 2
        OBVIOUS
      <4> QED BY <4>1, <4>2
    <3> QED BY <2>2, <3>1
  <2> HIDE DEF Upto
  <2> QED BY <1>2, <2>4
<1>3. n \in S
  <2> HIDE DEF S
  <2> QED BY <1>1, <1>2, OneByOne
<1>4. PICK f : Upto(f, n)
  BY <1>3
<1>5. f = [i \in 1..n |-> IF i = 1 THEN s[1] ELSE f[i - 1] \o s[i]]
  <2>1. ASSUME NEW i \in 1..n PROVE f[i] = IF i = 1 THEN s[1] ELSE f[i - 1] \o s[i]
    <3>1. CASE i = 1
      BY <1>4, <3>1
    <3>2. CASE i # 1
      <4>1. i \in 2..n /\ i <= n + 1
        BY <3>2
      <4> QED BY <1>4, <3>2, <4>1
    <3> QED BY <3>1, <3>2
  <2> QED BY <1>4, <2>1
<1> QED BY <1>5

LEMMA FlattenJoins ==
  ASSUME NEW T, NEW n \in Nat \ {0}, NEW s \in [1..n -> Seq(T)]
  PROVE  \E f \in [1..n -> Seq(T)] : Joins(f, s, n) /\ FlattenSeq(s) = f[n]
<1> DEFINE Q(f) == f = [i \in 1..n |-> IF i = 1 THEN s[1] ELSE f[i - 1] \o s[i]]
           f == CHOOSE f : Q(f)
<1>1. Q(f)
  <2>1. \E g : Q(g)
    BY JoinsExist
  <2> HIDE DEF Q
  <2> QED BY <2>1
<1>2. Len(s) = n
  OBVIOUS
<1>3. FlattenSeq(s) = f[n]
  BY <1>2 DEF FlattenSeq
<1> HIDE DEF f
<1>4. f = [i \in 1..n |-> f[i]]
  <2>1. DOMAIN f = 1..n
    BY <1>1
  <2> QED BY <1>1, <2>1
<1>5. f[1] = s[1]
  <2>1. 1 \in 1..n
    OBVIOUS
  <2> QED BY <1>1, <2>1
<1>6. ASSUME NEW i \in 2..n PROVE f[i] = f[i - 1] \o s[i]
  <2>1. i \in 1..n /\ i # 1
    BY <1>6
  <2> QED BY <1>1, <2>1
<1> HIDE DEF Q
<1> DEFINE S == {m \in 0..n : m = 0 \/ f[m] \in Seq(T)}
<1>7. ASSUME NEW m \in 0..n, m \in S, m < n PROVE m + 1 \in S
  <2>1. m + 1 \in 1..n
    BY <1>7
  <2>2. CASE m = 0
    BY <1>5, <2>1, <2>2
  <2>3. CASE m # 0
    <3>1. f[m] \in Seq(T) /\ s[m + 1] \in Seq(T)
      BY <1>7, <2>1, <2>3
    <3>2. m + 1 \in 2..n /\ (m + 1) - 1 = m
      BY <2>1, <2>3
    <3>3. f[m + 1] = f[m] \o s[m + 1]
      BY <1>6, <3>2
    <3>4. f[m + 1] \in Seq(T)
      BY <3>1, <3>3
    <3> QED BY <2>1, <3>4
  <2> QED BY <2>2, <2>3
<1>8. \A m \in 1..n : f[m] \in Seq(T)
  <2>1. 0 \in S
    OBVIOUS
  <2>2. \A m \in 0..n : m \in S
    <3> HIDE DEF S
    <3> QED BY <1>7, <2>1, OneByOne
  <2> QED BY <2>2
<1>9. f \in [1..n -> Seq(T)]
  BY <1>4, <1>8
<1>10. Joins(f, s, n)
  BY <1>5, <1>6 DEF Joins
<1> QED BY <1>3, <1>9, <1>10

LEMMA ConcatPlaces ==
  ASSUME NEW T, NEW a \in Seq(T), NEW b \in Seq(T)
  PROVE  /\ a \o b \in Seq(T) /\ Len(a \o b) = Len(a) + Len(b)
         /\ \A x \in 1..Len(a) : x \in 1..Len(a \o b) /\ (a \o b)[x] = a[x]
         /\ \A x \in 1..Len(b) : Len(a) + x \in 1..Len(a \o b) /\ (a \o b)[Len(a) + x] = b[x]
OBVIOUS

LEMMA GreatestNumber ==
  ASSUME NEW n \in Nat, NEW S \in SUBSET (1..n), S # {}
  PROVE  \E k \in S : \A j \in S : j <= k
<1> DEFINE T == {n + 1 - i : i \in S}
<1>1. T \in SUBSET (1..n) /\ T # {}
  <2>1. \A i \in S : i \in 1..n
    OBVIOUS
  <2>2. \A i \in 1..n : n + 1 - i \in 1..n
    OBVIOUS
  <2> QED BY <2>1, <2>2
<1>2. PICK m \in T : \A j \in T : m <= j
  <2> HIDE DEF T
  <2> QED BY <1>1, LeastNumber
<1>3. PICK k \in S : m = n + 1 - k
  OBVIOUS
<1>4. ASSUME NEW j \in S PROVE j <= k
  <2>1. n + 1 - j \in T /\ j \in 1..n /\ k \in 1..n
    OBVIOUS
  <2>2. m <= n + 1 - j
    BY <1>2, <2>1
  <2> QED BY <1>3, <2>1, <2>2
<1> QED BY <1>4

LEMMA FirstIsLeast ==
  ASSUME NEW n \in Nat, NEW S \in SUBSET (1..n), S # {}
  PROVE  First(S) \in S /\ \A j \in S : First(S) <= j
BY LeastNumber DEF First

LEMMA FinalIsGreatest ==
  ASSUME NEW n \in Nat, NEW S \in SUBSET (1..n), S # {}
  PROVE  Final(S) \in S /\ \A j \in S : j <= Final(S)
BY GreatestNumber DEF Final

(* Where the pieces of a flattened sequence are: piece i after off[i - 1]. *)
Offsets(off, s, n) ==
  /\ off \in [0..n -> Nat] /\ off[0] = 0
  /\ \A i \in 1..n : off[i] = off[i - 1] + Len(s[i])

PlacedBy(off, s, n) ==
  /\ Offsets(off, s, n) /\ Len(FlattenSeq(s)) = off[n]
  /\ \A i \in 1..n : \A k \in 1..Len(s[i]) :
       off[i - 1] + k \in 1..off[n] /\ FlattenSeq(s)[off[i - 1] + k] = s[i][k]
  /\ \A j \in 1..off[n] : \E i \in 1..n : \E k \in 1..Len(s[i]) : j = off[i - 1] + k

LEMMA FlattenPositions ==
  ASSUME NEW T, NEW n \in Nat, NEW s \in [1..n -> Seq(T)]
  PROVE  FlattenSeq(s) \in Seq(T) /\ \E off : PlacedBy(off, s, n)
<1>1. CASE n = 0
  <2>1. s = <<>> /\ Len(s) = 0
    BY <1>1
  <2>2. FlattenSeq(s) = <<>>
    BY <2>1 DEF FlattenSeq
  <2> DEFINE off == [i \in 0..0 |-> 0]
  <2>3. Offsets(off, s, n)
    BY <1>1 DEF Offsets
  <2>4. off[n] = 0
    BY <1>1
  <2> HIDE DEF off
  <2>5. \A i \in 1..n : FALSE
    BY <1>1
  <2>6. \A i \in 1..off[n] : FALSE
    BY <2>4
  <2>7. FlattenSeq(s) \in Seq(T) /\ Len(FlattenSeq(s)) = off[n]
    BY <2>2, <2>4
  <2> QED BY <2>3, <2>5, <2>6, <2>7 DEF PlacedBy
<1>2. CASE n # 0
  <2>1. PICK f \in [1..n -> Seq(T)] : Joins(f, s, n) /\ FlattenSeq(s) = f[n]
    BY <1>2, FlattenJoins
  <2> DEFINE off == [i \in 0..n |-> IF i = 0 THEN 0 ELSE Len(f[i])]
  <2>2. \A i \in 1..n : s[i] \in Seq(T) /\ f[i] \in Seq(T) /\ off[i] = Len(f[i])
    BY <2>1
  <2>3. off \in [0..n -> Nat] /\ off[0] = 0
    BY <2>2
  <2>4. ASSUME NEW i \in 1..n PROVE off[i] = off[i - 1] + Len(s[i])
    <3>1. CASE i = 1
      BY <2>1, <2>2, <3>1 DEF Joins
    <3>2. CASE i # 1
      <4>1. i \in 2..n /\ i - 1 \in 1..n
        BY <3>2
      <4>2. f[i] = f[i - 1] \o s[i]
        BY <2>1, <4>1 DEF Joins
      <4>3. off[i] = Len(f[i]) /\ off[i - 1] = Len(f[i - 1]) /\ f[i - 1] \in Seq(T) /\ s[i] \in Seq(T)
        BY <2>2, <4>1
      <4> HIDE DEF off
      <4> QED BY <4>2, <4>3, ConcatPlaces
    <3> QED BY <3>1, <3>2
  <2> DEFINE Placed(m) ==
        /\ \A i \in 1..m : \A k \in 1..Len(s[i]) :
             off[i - 1] + k \in 1..off[m] /\ f[m][off[i - 1] + k] = s[i][k]
        /\ \A j \in 1..off[m] : \E i \in 1..m : \E k \in 1..Len(s[i]) : j = off[i - 1] + k
      S == {m \in 0..n : m = 0 \/ Placed(m)}
  <2> HIDE DEF off
  <2>5. Placed(1)
    <3>1. off[1] = Len(s[1]) /\ f[1] = s[1] /\ s[1] \in Seq(T)
      BY <1>2, <2>1, <2>2, <2>3, <2>4 DEF Joins
    <3>2. off[0] = 0 /\ \A i \in 1..1 : i = 1 /\ i - 1 = 0
      BY <2>3
    <3>3. \A k \in 1..Len(s[1]) : 0 + k = k /\ k \in 1..off[1]
      BY <3>1
    <3>4. 1 \in 1..1 /\ 1 - 1 = 0 /\ \A j \in 1..off[1] : j \in 1..Len(s[1])
      BY <3>1
    <3> QED BY <3>1, <3>2, <3>3, <3>4
  <2>6. ASSUME NEW m \in 1..n, Placed(m), m < n PROVE Placed(m + 1)
    <3>1. m + 1 \in 2..n /\ m + 1 \in 1..n /\ (m + 1) - 1 = m
      BY <2>6
    <3>2. /\ f[m + 1] = f[m] \o s[m + 1] /\ f[m] \in Seq(T) /\ s[m + 1] \in Seq(T)
          /\ off[m + 1] = off[m] + Len(s[m + 1]) /\ off[m] = Len(f[m]) /\ off[m] \in Nat
      <4>1. f[m + 1] = f[(m + 1) - 1] \o s[m + 1]
        BY <2>1, <3>1 DEF Joins
      <4>2. off[m + 1] = off[(m + 1) - 1] + Len(s[m + 1])
        BY <2>4, <3>1
      <4> QED BY <2>2, <3>1, <4>1, <4>2
    <3>5. /\ \A x \in 1..Len(f[m]) :
               x \in 1..Len(f[m] \o s[m + 1]) /\ (f[m] \o s[m + 1])[x] = f[m][x]
          /\ \A x \in 1..Len(s[m + 1]) :
               /\ Len(f[m]) + x \in 1..Len(f[m] \o s[m + 1])
               /\ (f[m] \o s[m + 1])[Len(f[m]) + x] = s[m + 1][x]
      <4>1. PICK a \in Seq(T), b \in Seq(T) : a = f[m] /\ b = s[m + 1]
        BY <3>2
      <4>2. /\ \A x \in 1..Len(a) : x \in 1..Len(a \o b) /\ (a \o b)[x] = a[x]
            /\ \A x \in 1..Len(b) :
                 Len(a) + x \in 1..Len(a \o b) /\ (a \o b)[Len(a) + x] = b[x]
        BY ConcatPlaces
      <4> QED BY <4>1, <4>2
    <3>6. f[m + 1] = f[m] \o s[m + 1] /\ off[m] = Len(f[m])
      BY <3>2
    <3>3. ASSUME NEW i \in 1..(m + 1), NEW k \in 1..Len(s[i])
          PROVE  off[i - 1] + k \in 1..off[m + 1] /\ f[m + 1][off[i - 1] + k] = s[i][k]
      <4>1. CASE i = m + 1
        <5>1. off[i - 1] = off[m] /\ k \in 1..Len(s[m + 1])
          BY <3>1, <4>1
        <5>2. off[m] + k \in 1..Len(f[m + 1]) /\ f[m + 1][off[m] + k] = s[m + 1][k]
          BY <3>5, <3>6, <5>1
        <5>3. Len(f[m + 1]) = off[m + 1]
          BY <2>2, <3>1
        <5> QED BY <4>1, <5>1, <5>2, <5>3
      <4>2. CASE i # m + 1
        <5>1. i \in 1..m
          BY <4>2
        <5>2. off[i - 1] + k \in 1..off[m] /\ f[m][off[i - 1] + k] = s[i][k]
          BY <2>6, <5>1
        <5>3. off[i - 1] + k \in 1..Len(f[m])
          BY <3>2, <5>2
        <5>4. /\ off[i - 1] + k \in 1..Len(f[m + 1])
              /\ f[m + 1][off[i - 1] + k] = f[m][off[i - 1] + k]
          BY <3>5, <3>6, <5>3
        <5>5. Len(f[m + 1]) = off[m + 1]
          BY <2>2, <3>1
        <5> QED BY <5>2, <5>4, <5>5
      <4> QED BY <4>1, <4>2
    <3>4. ASSUME NEW j \in 1..off[m + 1]
          PROVE  \E i \in 1..(m + 1) : \E k \in 1..Len(s[i]) : j = off[i - 1] + k
      <4>1. CASE j <= off[m]
        <5>1. j \in 1..off[m]
          BY <3>2, <4>1
        <5>2. PICK i \in 1..m : \E k \in 1..Len(s[i]) : j = off[i - 1] + k
          BY <2>6, <5>1
        <5>3. i \in 1..(m + 1)
          OBVIOUS
        <5> QED BY <5>2, <5>3
      <4>2. CASE ~(j <= off[m])
        <5>1. j - off[m] \in 1..Len(s[m + 1]) /\ j = off[m] + (j - off[m])
          BY <3>2, <4>2
        <5>2. m + 1 \in 1..(m + 1)
          OBVIOUS
        <5> QED BY <3>1, <5>1, <5>2
      <4> QED BY <4>1, <4>2
    <3> QED BY <3>3, <3>4
  <2> HIDE DEF Placed
  <2>7. Placed(n)
    <3>1. 0 \in S
      OBVIOUS
    <3>2. ASSUME NEW m \in 0..n, m \in S, m < n PROVE m + 1 \in S
      <4>1. CASE m = 0
        BY <2>5, <3>2, <4>1
      <4>2. CASE m # 0
        <5>1. m \in 1..n /\ Placed(m)
          BY <3>2, <4>2
        <5> QED BY <2>6, <3>2, <5>1
      <4> QED BY <4>1, <4>2
    <3>3. \A m \in 0..n : m \in S
      <4> HIDE DEF S
      <4> QED BY <3>1, <3>2, OneByOne
    <3>4. n \in S
      BY <3>3
    <3> QED BY <1>2, <3>4
  <2>8. Offsets(off, s, n)
    BY <2>3, <2>4 DEF Offsets
  <2>9. FlattenSeq(s) \in Seq(T) /\ Len(FlattenSeq(s)) = off[n]
    BY <1>2, <2>1, <2>2
  <2> QED BY <2>1, <2>7, <2>8, <2>9 DEF Placed, PlacedBy
<1> QED BY <1>1, <1>2

(* A piece more at the end.                                                *)
LEMMA FlattenOneMore ==
  ASSUME NEW T, NEW n \in Nat, NEW s \in [1..(n + 1) -> Seq(T)],
         NEW r \in [1..n -> Seq(T)], \A i \in 1..n : r[i] = s[i]
  PROVE  FlattenSeq(s) = FlattenSeq(r) \o s[n + 1]
<1>1. PICK f \in [1..(n + 1) -> Seq(T)] : Joins(f, s, n + 1) /\ FlattenSeq(s) = f[n + 1]
  <2>1. n + 1 \in Nat \ {0}
    OBVIOUS
  <2> QED BY <2>1, FlattenJoins
<1>2. n + 1 \in 1..(n + 1) /\ s[n + 1] \in Seq(T)
  OBVIOUS
<1>3. CASE n = 0
  <2>1. r = <<>> /\ Len(r) = 0
    BY <1>3
  <2>2. FlattenSeq(r) = <<>>
    BY <2>1 DEF FlattenSeq
  <2>3. f[n + 1] = s[n + 1]
    BY <1>1, <1>3 DEF Joins
  <2> QED BY <1>1, <1>2, <2>2, <2>3
<1>4. CASE n # 0
  <2>1. PICK g \in [1..n -> Seq(T)] : Joins(g, r, n) /\ FlattenSeq(r) = g[n]
    BY <1>4, FlattenJoins
  <2> DEFINE S == {m \in 0..n : m = 0 \/ f[m] = g[m]}
  <2>2. 0 \in S
    OBVIOUS
  <2>3. ASSUME NEW m \in 0..n, m \in S, m < n PROVE m + 1 \in S
    <3>1. m + 1 \in 1..n
      BY <2>3
    <3>2. CASE m = 0
      <4>1. f[1] = s[1] /\ g[1] = r[1] /\ r[1] = s[1]
        BY <1>1, <2>1, <3>1, <3>2 DEF Joins
      <4> QED BY <3>1, <3>2, <4>1
    <3>3. CASE m # 0
      <4>1. m + 1 \in 2..n /\ m + 1 \in 2..(n + 1) /\ (m + 1) - 1 = m
        BY <3>1, <3>3
      <4>2. f[m + 1] = f[m] \o s[m + 1] /\ g[m + 1] = g[m] \o r[m + 1]
        <5>1. f[m + 1] = f[(m + 1) - 1] \o s[m + 1]
          BY <1>1, <4>1 DEF Joins
        <5>2. g[m + 1] = g[(m + 1) - 1] \o r[m + 1]
          BY <2>1, <4>1 DEF Joins
        <5> QED BY <4>1, <5>1, <5>2
      <4>3. f[m] = g[m] /\ r[m + 1] = s[m + 1]
        BY <2>3, <3>1, <3>3
      <4>4. f[m + 1] = g[m + 1]
        BY <4>2, <4>3
      <4> QED BY <3>1, <4>4
    <3> QED BY <3>2, <3>3
  <2>4. f[n] = g[n]
    <3>1. \A m \in 0..n : m \in S
      <4> HIDE DEF S
      <4> QED BY <2>2, <2>3, OneByOne
    <3>2. n \in S
      BY <3>1
    <3> QED BY <1>4, <3>2
  <2>5. f[n + 1] = f[n] \o s[n + 1]
    <3>1. n + 1 \in 2..(n + 1) /\ (n + 1) - 1 = n
      BY <1>4
    <3>2. f[n + 1] = f[(n + 1) - 1] \o s[n + 1]
      BY <1>1, <3>1 DEF Joins
    <3> QED BY <3>1, <3>2
  <2> QED BY <1>1, <2>1, <2>4, <2>5
<1> QED BY <1>3, <1>4

(* The lines a registry may have, and what is so of those of one contract: *)
(* its block is whole, and it has one row at most.                         *)
PlainKinds == {"skills", "protocol", "shared", "table", "note", "executor"}
Marks == {"row", "begin", "scoped", "end"}
RegistryLines == PlainKinds \X {NoContract} \X {0} \union Marks \X Contracts \X Nat

LineIs(lines, i, k, c) == i \in DOMAIN lines /\ lines[i][1] = k /\ lines[i][2] = c
TidyFor(lines, c) ==
  /\ \A i \in DOMAIN lines :
       LineIs(lines, i, "begin", c)
         => LineIs(lines, i + 1, "scoped", c) /\ LineIs(lines, i + 2, "end", c)
  /\ \A i \in DOMAIN lines : LineIs(lines, i, "scoped", c) => LineIs(lines, i - 1, "begin", c)
  /\ \A i \in DOMAIN lines : LineIs(lines, i, "end", c) => LineIs(lines, i - 2, "begin", c)
  /\ \A i, j \in DOMAIN lines :
       /\ LineIs(lines, i, "row", c) \/ LineIs(lines, i, "scoped", c)
       /\ LineIs(lines, j, "row", c) \/ LineIs(lines, j, "scoped", c)
       => i = j
Tidy(lines) == lines \in Seq(RegistryLines) /\ \A c \in Contracts : TidyFor(lines, c)

(* A line tells its kind, its contract and its text.                       *)
LEMMA LineParts ==
  ASSUME NEW line \in RegistryLines
  PROVE  /\ line = <<line[1], line[2], line[3]>>
         /\ line[1] \in PlainKinds \union Marks
         /\ line[1] \in Marks => line[2] \in Contracts /\ line[3] \in Nat
         /\ line[1] \notin Marks => line[2] = NoContract
BY DEF RegistryLines, PlainKinds, Marks

LEMMA LinesOfTidy ==
  ASSUME NEW lines, Tidy(lines)
  PROVE  /\ lines \in Seq(RegistryLines) /\ Len(lines) \in Nat /\ DOMAIN lines = 1..Len(lines)
         /\ \A i \in DOMAIN lines : lines[i] \in RegistryLines
BY DEF Tidy

(* The three lines of a block, one after another.                          *)
HoldsAt(lines, i, c, text) ==
  /\ i \in DOMAIN lines /\ i + 1 \in DOMAIN lines /\ i + 2 \in DOMAIN lines
  /\ lines[i] = <<"begin", c, 0>>
  /\ lines[i + 1] = <<"scoped", c, text>>
  /\ lines[i + 2] = <<"end", c, 0>>

LEMMA HoldsIsHoldsAt ==
  ASSUME NEW lines \in Seq(RegistryLines), NEW c, NEW text
  PROVE  Holds(lines, c, text) <=> \E i \in DOMAIN lines : HoldsAt(lines, i, c, text)
<1>1. /\ Len(lines) \in Nat /\ DOMAIN lines = 1..Len(lines)
      /\ \A i \in DOMAIN lines : lines[i] \in RegistryLines
  OBVIOUS
<1>2. ASSUME NEW i \in 1..Len(lines) - 2
      PROVE  SubSeq(lines, i, i + 2) = Block(c, text) <=> HoldsAt(lines, i, c, text)
  <2>1. i \in DOMAIN lines /\ i + 1 \in DOMAIN lines /\ i + 2 \in DOMAIN lines
    BY <1>1
  <2> DEFINE s == SubSeq(lines, i, i + 2)
  <2>2. /\ s = <<s[1], s[2], s[3]>>
        /\ s[1] = lines[i] /\ s[2] = lines[i + 1] /\ s[3] = lines[i + 2]
    <3>1. s \in Seq(RegistryLines) /\ Len(s) = 3 /\ \A k \in 1..3 : s[k] = lines[i + k - 1]
      BY <1>1, <2>1
    <3>2. s = [k \in 1..3 |-> s[k]]
      BY <3>1
    <3>3. s[1] = lines[i + 1 - 1] /\ s[2] = lines[i + 2 - 1] /\ s[3] = lines[i + 3 - 1]
      BY <3>1
    <3>4. i + 1 - 1 = i /\ i + 2 - 1 = i + 1 /\ i + 3 - 1 = i + 2
      BY <1>2
    <3> HIDE DEF s
    <3> QED BY <3>1, <3>2, <3>3, <3>4
  <2> HIDE DEF s
  <2>3. s = Block(c, text) <=> /\ s[1] = <<"begin", c, 0>> /\ s[2] = <<"scoped", c, text>>
                               /\ s[3] = <<"end", c, 0>>
    BY <2>2 DEF Block
  <2> QED BY <2>1, <2>2, <2>3 DEF HoldsAt, s
<1>3. \A i \in DOMAIN lines : i + 2 \in DOMAIN lines <=> i \in 1..Len(lines) - 2
  BY <1>1
<1>4. \A i \in 1..Len(lines) - 2 : i \in DOMAIN lines
  BY <1>1
<1> QED BY <1>2, <1>3, <1>4 DEF Holds, HoldsAt

(* What moves the marks of a contract together keeps its block.            *)
Carries(lines, out, pos, c) ==
  /\ \A i \in DOMAIN lines : lines[i][2] = c /\ lines[i][1] \in Marks =>
       /\ pos[i] \in DOMAIN out /\ out[pos[i]] = lines[i]
       /\ lines[i][1] \in {"begin", "scoped"} => pos[i + 1] = pos[i] + 1
  /\ \A j \in DOMAIN out : out[j][2] = c /\ out[j][1] \in Marks =>
       \E i \in DOMAIN lines : /\ lines[i][2] = c /\ lines[i][1] \in Marks
                               /\ pos[i] = j

LEMMA CarriedIsTidy ==
  ASSUME NEW lines \in Seq(RegistryLines), NEW out \in Seq(RegistryLines),
         NEW c \in Contracts, NEW pos, TidyFor(lines, c), Carries(lines, out, pos, c)
  PROVE  /\ TidyFor(out, c)
         /\ \A text : Holds(lines, c, text) => Holds(out, c, text)
<1> DEFINE D == DOMAIN lines
           Of(i) == lines[i][2] = c /\ lines[i][1] \in Marks
<1>1. /\ \A i \in D : i \in Nat /\ (i - 1) + 1 = i /\ (i - 2) + 1 = i - 1 /\ (i + 1) + 1 = i + 2
      /\ \A j \in DOMAIN out : j \in Nat
  OBVIOUS
<1>2. /\ \A i \in D : Of(i) =>
           /\ pos[i] \in DOMAIN out /\ out[pos[i]] = lines[i]
           /\ lines[i][1] \in {"begin", "scoped"} => pos[i + 1] = pos[i] + 1
      /\ \A j \in DOMAIN out : out[j][2] = c /\ out[j][1] \in Marks =>
           \E i \in D : Of(i) /\ pos[i] = j
  BY DEF Carries
<1>3. ASSUME NEW i \in D, LineIs(lines, i, "begin", c)
      PROVE  /\ i + 1 \in D /\ i + 2 \in D /\ pos[i] \in DOMAIN out
             /\ out[pos[i] + 1] = lines[i + 1] /\ pos[i] + 1 \in DOMAIN out
             /\ out[pos[i] + 2] = lines[i + 2] /\ pos[i] + 2 \in DOMAIN out
             /\ pos[i + 1] = pos[i] + 1 /\ pos[i + 2] = pos[i] + 2
  <2>1. LineIs(lines, i + 1, "scoped", c) /\ LineIs(lines, i + 2, "end", c)
    BY <1>3 DEF TidyFor
  <2>2. Of(i) /\ Of(i + 1) /\ Of(i + 2) /\ i + 1 \in D /\ i + 2 \in D
    BY <1>3, <2>1 DEF LineIs, Marks
  <2>3. pos[i + 1] = pos[i] + 1 /\ pos[(i + 1) + 1] = pos[i + 1] + 1
    BY <1>2, <1>3, <2>1, <2>2 DEF LineIs
  <2>4. pos[i] \in Nat /\ pos[i + 2] = pos[i] + 2
    <3>1. pos[i] \in DOMAIN out /\ (i + 1) + 1 = i + 2
      BY <1>1, <1>2, <2>2
    <3>2. pos[i] \in Nat
      BY <1>1, <3>1
    <3>3. pos[i + 2] = (pos[i] + 1) + 1
      BY <2>3, <3>1
    <3> QED BY <3>2, <3>3
  <2>5. /\ pos[i] \in DOMAIN out /\ pos[i + 1] \in DOMAIN out /\ pos[i + 2] \in DOMAIN out
        /\ out[pos[i + 1]] = lines[i + 1] /\ out[pos[i + 2]] = lines[i + 2]
    BY <1>2, <2>2
  <2> HIDE DEF D, Of
  <2> QED BY <2>2, <2>3, <2>4, <2>5
<1>4. \A j \in DOMAIN out : \A k \in Marks :
        LineIs(out, j, k, c) => \E i \in D : LineIs(lines, i, k, c) /\ Of(i) /\ pos[i] = j
  <2> SUFFICES ASSUME NEW j \in DOMAIN out, NEW k \in Marks, LineIs(out, j, k, c)
               PROVE  \E i \in D : LineIs(lines, i, k, c) /\ Of(i) /\ pos[i] = j
    OBVIOUS
  <2>1. PICK i \in D : Of(i) /\ pos[i] = j
    BY <1>2 DEF LineIs
  <2>2. lines[i] = out[j]
    BY <1>2, <2>1
  <2> QED BY <2>1, <2>2 DEF LineIs
<1>5. {"row", "begin", "scoped", "end"} \subseteq Marks
  BY DEF Marks
<1>6. ASSUME NEW j \in DOMAIN out, LineIs(out, j, "begin", c)
      PROVE  LineIs(out, j + 1, "scoped", c) /\ LineIs(out, j + 2, "end", c)
  <2>1. PICK i \in D : LineIs(lines, i, "begin", c) /\ pos[i] = j
    BY <1>4, <1>5, <1>6
  <2>2. LineIs(lines, i + 1, "scoped", c) /\ LineIs(lines, i + 2, "end", c)
    BY <2>1 DEF TidyFor
  <2> QED BY <1>3, <2>1, <2>2 DEF LineIs
<1>7. ASSUME NEW j \in DOMAIN out, LineIs(out, j, "scoped", c)
      PROVE  LineIs(out, j - 1, "begin", c)
  <2>1. PICK i \in D : LineIs(lines, i, "scoped", c) /\ pos[i] = j
    BY <1>4, <1>5, <1>7
  <2>2. LineIs(lines, i - 1, "begin", c) /\ i - 1 \in D /\ (i - 1) + 1 = i
    BY <1>1, <2>1 DEF TidyFor, LineIs
  <2>3. pos[i] = pos[i - 1] + 1 /\ pos[i - 1] \in DOMAIN out
    BY <1>3, <2>2
  <2>4. pos[i - 1] = j - 1
    BY <1>1, <2>1, <2>3
  <2>5. out[pos[i - 1]] = lines[i - 1]
    BY <1>2, <1>5, <2>2 DEF LineIs
  <2> QED BY <2>2, <2>3, <2>4, <2>5 DEF LineIs
<1>8. ASSUME NEW j \in DOMAIN out, LineIs(out, j, "end", c)
      PROVE  LineIs(out, j - 2, "begin", c)
  <2>1. PICK i \in D : LineIs(lines, i, "end", c) /\ pos[i] = j
    BY <1>4, <1>5, <1>8
  <2>2. LineIs(lines, i - 2, "begin", c) /\ i - 2 \in D /\ (i - 2) + 2 = i
    BY <1>1, <2>1 DEF TidyFor, LineIs
  <2>3. pos[i] = pos[i - 2] + 2 /\ pos[i - 2] \in DOMAIN out
    BY <1>3, <2>2
  <2>4. pos[i - 2] = j - 2
    BY <1>1, <2>1, <2>3
  <2>5. out[pos[i - 2]] = lines[i - 2]
    BY <1>2, <1>5, <2>2 DEF LineIs
  <2> QED BY <2>2, <2>3, <2>4, <2>5 DEF LineIs
<1>9. ASSUME NEW j \in DOMAIN out, NEW l \in DOMAIN out,
             LineIs(out, j, "row", c) \/ LineIs(out, j, "scoped", c),
             LineIs(out, l, "row", c) \/ LineIs(out, l, "scoped", c)
      PROVE  j = l
  <2>1. PICK i \in D : (LineIs(lines, i, "row", c) \/ LineIs(lines, i, "scoped", c)) /\ pos[i] = j
    BY <1>4, <1>5, <1>9
  <2>2. PICK m \in D : (LineIs(lines, m, "row", c) \/ LineIs(lines, m, "scoped", c)) /\ pos[m] = l
    BY <1>4, <1>5, <1>9
  <2>3. i = m
    BY <2>1, <2>2 DEF TidyFor
  <2> QED BY <2>1, <2>2, <2>3
<1>10. ASSUME NEW text, Holds(lines, c, text) PROVE Holds(out, c, text)
  <2>1. PICK i \in D : HoldsAt(lines, i, c, text)
    BY <1>10, HoldsIsHoldsAt
  <2>2. LineIs(lines, i, "begin", c)
    BY <2>1 DEF HoldsAt, LineIs
  <2>3. out[pos[i]] = lines[i]
    BY <1>2, <1>5, <2>2 DEF LineIs
  <2>4. HoldsAt(out, pos[i], c, text)
    BY <1>3, <2>1, <2>2, <2>3 DEF HoldsAt
  <2>5. pos[i] \in DOMAIN out
    BY <1>3, <2>2
  <2> QED BY <2>4, <2>5, HoldsIsHoldsAt
<1> QED BY <1>6, <1>7, <1>8, <1>9, <1>10 DEF TidyFor

(* What a run leaves alone, line after line.                               *)
OfOthers(line, task) ==
  IF task.verb = "repair" THEN line[1] \notin OfRepair ELSE line[2] # task.contract
Kept(line, task) == IF OfOthers(line, task) THEN <<line>> ELSE <<>>

LEMMA RestIsFlat ==
  ASSUME NEW lines \in Seq(RegistryLines), NEW task
  PROVE  /\ Rest(lines, task) = FlattenSeq([i \in 1..Len(lines) |-> Kept(lines[i], task)])
         /\ [i \in 1..Len(lines) |-> Kept(lines[i], task)] \in [1..Len(lines) -> Seq(RegistryLines)]
         /\ Rest(lines, task) \in Seq(RegistryLines)
<1>1. DOMAIN lines = 1..Len(lines) /\ Len(lines) \in Nat
  OBVIOUS
<1>2. Rest(lines, task) = FlattenSeq([i \in 1..Len(lines) |-> Kept(lines[i], task)])
  BY <1>1 DEF Rest, Kept, OfOthers
<1>3. [i \in 1..Len(lines) |-> Kept(lines[i], task)] \in [1..Len(lines) -> Seq(RegistryLines)]
  <2>1. \A i \in 1..Len(lines) : lines[i] \in RegistryLines
    OBVIOUS
  <2>2. \A i \in 1..Len(lines) : Kept(lines[i], task) \in Seq(RegistryLines)
    BY <2>1 DEF Kept
  <2> QED BY <2>2
<1>4. FlattenSeq([i \in 1..Len(lines) |-> Kept(lines[i], task)]) \in Seq(RegistryLines)
  <2> DEFINE s == [i \in 1..Len(lines) |-> Kept(lines[i], task)]
  <2> HIDE DEF s
  <2>1. s \in [1..Len(lines) -> Seq(RegistryLines)]
    BY <1>3 DEF s
  <2>2. FlattenSeq(s) \in Seq(RegistryLines)
    BY <1>1, <2>1, FlattenPositions
  <2> QED BY <2>2 DEF s
<1> QED BY <1>2, <1>3, <1>4

LEMMA RestOfNone == ASSUME NEW task PROVE Rest(<<>>, task) = <<>>
<1>1. Rest(<<>>, task) = FlattenSeq([i \in 1..Len(<<>>) |-> Kept(<<>>[i], task)])
  <2>1. <<>> \in Seq(RegistryLines)
    OBVIOUS
  <2> QED BY <2>1, RestIsFlat
<1> DEFINE s == [i \in 1..Len(<<>>) |-> Kept(<<>>[i], task)]
<1>2. s = <<>> /\ Len(s) = 0
  OBVIOUS
<1> HIDE DEF s
<1>3. FlattenSeq(s) = <<>>
  BY <1>2 DEF FlattenSeq
<1> QED BY <1>1, <1>3 DEF s

LEMMA RestOneMore ==
  ASSUME NEW lines \in Seq(RegistryLines), NEW line \in RegistryLines, NEW task
  PROVE  Rest(Append(lines, line), task) = Rest(lines, task) \o Kept(line, task)
<1> DEFINE n == Len(lines)
           more == Append(lines, line)
           r == [i \in 1..n |-> Kept(lines[i], task)]
           s == [i \in 1..(n + 1) |-> Kept(more[i], task)]
<1>1. /\ n \in Nat /\ more \in Seq(RegistryLines) /\ Len(more) = n + 1
      /\ more[n + 1] = line /\ \A i \in 1..n : more[i] = lines[i]
  OBVIOUS
<1>2. Rest(more, task) = FlattenSeq(s) /\ s \in [1..(n + 1) -> Seq(RegistryLines)]
  <2> HIDE DEF more
  <2> QED BY <1>1, RestIsFlat
<1>3. Rest(lines, task) = FlattenSeq(r) /\ r \in [1..n -> Seq(RegistryLines)]
  BY RestIsFlat
<1>4. \A i \in 1..n : r[i] = s[i]
  BY <1>1
<1>5. s[n + 1] = Kept(line, task)
  BY <1>1
<1> HIDE DEF more, r, s, n
<1>6. FlattenSeq(s) = FlattenSeq(r) \o s[n + 1]
  BY <1>1, <1>2, <1>3, <1>4, FlattenOneMore
<1> QED BY <1>2, <1>3, <1>5, <1>6 DEF more

(* The first k lines, and one more.                                        *)
LEMMA FirstOnes ==
  ASSUME NEW T, NEW s \in Seq(T)
  PROVE  /\ SubSeq(s, 1, 0) = <<>> /\ SubSeq(s, 1, Len(s)) = s
         /\ \A k \in 0..Len(s) :
              /\ SubSeq(s, 1, k) \in Seq(T)
              /\ k < Len(s) => /\ s[k + 1] \in T
                               /\ SubSeq(s, 1, k + 1) = Append(SubSeq(s, 1, k), s[k + 1])
<1>1. SubSeq(s, 1, 0) = <<>> /\ SubSeq(s, 1, Len(s)) = s
  OBVIOUS
<1>2. ASSUME NEW k \in 0..Len(s) PROVE SubSeq(s, 1, k) \in Seq(T)
  OBVIOUS
<1>3. ASSUME NEW k \in 0..Len(s), k < Len(s)
      PROVE  s[k + 1] \in T /\ SubSeq(s, 1, k + 1) = Append(SubSeq(s, 1, k), s[k + 1])
  <2> DEFINE x == SubSeq(s, 1, k + 1)
             y == Append(SubSeq(s, 1, k), s[k + 1])
  <2>1. s[k + 1] \in T /\ k + 1 \in 1..Len(s)
    BY <1>3
  <2>2. x \in Seq(T) /\ Len(x) = k + 1 /\ \A i \in 1..(k + 1) : x[i] = s[i]
    BY <2>1
  <2>3. SubSeq(s, 1, k) \in Seq(T) /\ Len(SubSeq(s, 1, k)) = k
        /\ \A i \in 1..k : SubSeq(s, 1, k)[i] = s[i]
    BY <2>1
  <2>4. y \in Seq(T) /\ Len(y) = k + 1 /\ \A i \in 1..(k + 1) : y[i] = s[i]
    <3> DEFINE z == SubSeq(s, 1, k)
    <3> HIDE DEF z
    <3>1. z \in Seq(T) /\ Len(z) = k /\ \A i \in 1..k : z[i] = s[i]
      BY <2>3 DEF z
    <3>2. Append(z, s[k + 1]) \in Seq(T) /\ Len(Append(z, s[k + 1])) = k + 1
          /\ \A i \in 1..(k + 1) : Append(z, s[k + 1])[i] = s[i]
      BY <2>1, <3>1
    <3> QED BY <3>2 DEF z
  <2> HIDE DEF x, y
  <2>5. x = y
    BY <2>2, <2>4
  <2> QED BY <2>1, <2>5 DEF x, y
<1> QED BY <1>1, <1>2, <1>3

LEMMA ConcatOneMore ==
  ASSUME NEW T, NEW a \in Seq(T), NEW b \in Seq(T), NEW t \in T
  PROVE  a \o Append(b, t) = Append(a \o b, t) /\ a \o Append(b, t) = (a \o b) \o <<t>>
<1>1. a \o Append(b, t) \in Seq(T) /\ Append(a \o b, t) \in Seq(T) /\ (a \o b) \o <<t>> \in Seq(T)
  OBVIOUS
<1>2. /\ Len(a \o Append(b, t)) = Len(a) + Len(b) + 1
      /\ Len(Append(a \o b, t)) = Len(a) + Len(b) + 1
      /\ Len((a \o b) \o <<t>>) = Len(a) + Len(b) + 1
  OBVIOUS
<1>3. \A i \in 1..(Len(a) + Len(b) + 1) :
        (a \o Append(b, t))[i] = Append(a \o b, t)[i] /\ (a \o Append(b, t))[i] = ((a \o b) \o <<t>>)[i]
  OBVIOUS
<1> QED BY <1>1, <1>2, <1>3

LEMMA ConcatAssociates ==
  ASSUME NEW T, NEW a \in Seq(T), NEW b \in Seq(T), NEW c \in Seq(T)
  PROVE  (a \o b) \o c = a \o (b \o c)
<1>1. (a \o b) \o c \in Seq(T) /\ a \o (b \o c) \in Seq(T)
  OBVIOUS
<1>2. /\ Len((a \o b) \o c) = Len(a) + Len(b) + Len(c)
      /\ Len(a \o (b \o c)) = Len(a) + Len(b) + Len(c)
  OBVIOUS
<1>3. \A i \in 1..(Len(a) + Len(b) + Len(c)) : ((a \o b) \o c)[i] = (a \o (b \o c))[i]
  OBVIOUS
<1> QED BY <1>1, <1>2, <1>3

LEMMA RestConcat ==
  ASSUME NEW a \in Seq(RegistryLines), NEW b \in Seq(RegistryLines), NEW task
  PROVE  Rest(a \o b, task) = Rest(a, task) \o Rest(b, task)
<1> DEFINE n == Len(b)
           B(k) == SubSeq(b, 1, k)
           S == {k \in 0..n : Rest(a \o B(k), task) = Rest(a, task) \o Rest(B(k), task)}
<1>1. n \in Nat /\ Rest(a, task) \in Seq(RegistryLines)
  <2>1. Rest(a, task) \in Seq(RegistryLines)
    BY RestIsFlat
  <2> QED BY <2>1
<1>2. 0 \in S
  <2>1. B(0) = <<>> /\ a \o <<>> = a /\ Rest(a, task) \o <<>> = Rest(a, task)
    BY <1>1
  <2>2. Rest(a \o B(0), task) = Rest(a, task) \o Rest(B(0), task)
    BY <2>1, RestOfNone
  <2>3. 0 \in 0..n
    BY <1>1
  <2> HIDE DEF B
  <2> QED BY <2>2, <2>3
<1>3. ASSUME NEW k \in 0..n, k \in S, k < n PROVE k + 1 \in S
  <2>1. PICK t \in RegistryLines, c \in Seq(RegistryLines) :
          t = b[k + 1] /\ c = B(k) /\ B(k + 1) = Append(c, t)
    <3>1. /\ SubSeq(b, 1, k) \in Seq(RegistryLines) /\ b[k + 1] \in RegistryLines
          /\ SubSeq(b, 1, k + 1) = Append(SubSeq(b, 1, k), b[k + 1])
      BY <1>3, FirstOnes
    <3> QED BY <3>1
  <2>2. a \o c \in Seq(RegistryLines) /\ Rest(c, task) \in Seq(RegistryLines)
        /\ Kept(t, task) \in Seq(RegistryLines)
    <3>1. Rest(c, task) \in Seq(RegistryLines)
      BY RestIsFlat
    <3>2. a \o c \in Seq(RegistryLines)
      OBVIOUS
    <3>3. Kept(t, task) \in Seq(RegistryLines)
      BY DEF Kept
    <3> QED BY <3>1, <3>2, <3>3
  <2>3. Rest(a \o Append(c, t), task) = Rest(a \o c, task) \o Kept(t, task)
    <3>1. a \o Append(c, t) = Append(a \o c, t)
      BY ConcatOneMore
    <3>2. PICK d \in Seq(RegistryLines) : d = a \o c
      BY <2>2
    <3>3. Rest(Append(d, t), task) = Rest(d, task) \o Kept(t, task)
      BY RestOneMore
    <3> QED BY <3>1, <3>2, <3>3
  <2>4. Rest(a \o c, task) = Rest(a, task) \o Rest(c, task)
    BY <1>3, <2>1
  <2>5. (Rest(a, task) \o Rest(c, task)) \o Kept(t, task) = Rest(a, task) \o (Rest(c, task) \o Kept(t, task))
    BY <1>1, <2>2, ConcatAssociates
  <2>6. Rest(Append(c, t), task) = Rest(c, task) \o Kept(t, task)
    BY <2>1, RestOneMore
  <2>7. Rest(a \o B(k + 1), task) = Rest(a, task) \o Rest(B(k + 1), task)
    BY <2>1, <2>3, <2>4, <2>5, <2>6
  <2>8. k + 1 \in 0..n
    BY <1>1, <1>3
  <2> HIDE DEF B
  <2> QED BY <2>7, <2>8
<1>4. \A k \in 0..n : k \in S
  <2> HIDE DEF S, n
  <2> QED BY <1>1, <1>2, <1>3, OneByOne
<1>5. n \in S /\ B(n) = b
  BY <1>1, <1>4, FirstOnes
<1> HIDE DEF B
<1> QED BY <1>5

LEMMA RestOfOwnLines ==
  ASSUME NEW b \in Seq(RegistryLines), NEW task, \A i \in DOMAIN b : ~OfOthers(b[i], task)
  PROVE  Rest(b, task) = <<>>
<1> DEFINE n == Len(b)
           B(k) == SubSeq(b, 1, k)
           S == {k \in 0..n : Rest(B(k), task) = <<>>}
<1>1. n \in Nat
  OBVIOUS
<1>2. 0 \in S
  <2>1. B(0) = <<>> /\ 0 \in 0..n
    BY <1>1
  <2> HIDE DEF B, n
  <2> QED BY <2>1, RestOfNone
<1>3. ASSUME NEW k \in 0..n, k \in S, k < n PROVE k + 1 \in S
  <2>1. PICK t \in RegistryLines, c \in Seq(RegistryLines) :
          t = b[k + 1] /\ c = B(k) /\ B(k + 1) = Append(c, t)
    <3>1. /\ SubSeq(b, 1, k) \in Seq(RegistryLines) /\ b[k + 1] \in RegistryLines
          /\ SubSeq(b, 1, k + 1) = Append(SubSeq(b, 1, k), b[k + 1])
      BY <1>3, FirstOnes
    <3> QED BY <3>1
  <2>2. k + 1 \in DOMAIN b /\ k + 1 \in 0..n
    BY <1>1, <1>3
  <2>3. Kept(t, task) = <<>>
    BY <2>1, <2>2 DEF Kept
  <2>4. Rest(Append(c, t), task) = Rest(c, task) \o Kept(t, task)
    BY <2>1, RestOneMore
  <2>5. Rest(c, task) = <<>>
    BY <1>3, <2>1
  <2> HIDE DEF B
  <2>7. <<>> \o <<>> = <<>>
    OBVIOUS
  <2>8. Rest(Append(c, t), task) = <<>>
    BY <2>3, <2>4, <2>5, <2>7
  <2>6. Rest(B(k + 1), task) = <<>>
    BY <2>1, <2>8
  <2> QED BY <2>2, <2>6
<1>4. \A k \in 0..n : k \in S
  <2> HIDE DEF S, n
  <2> QED BY <1>1, <1>2, <1>3, OneByOne
<1>5. n \in S /\ B(n) = b
  BY <1>1, <1>4, FirstOnes
<1> HIDE DEF B
<1> QED BY <1>5

(* A block in place of the lines a + 1 to b, which are all there are of its*)
(* contract, between lines of which none is the begin of a cut block.      *)
Spliced(lines, a, b, c, text) ==
  SubSeq(lines, 1, a) \o Block(c, text) \o SubSeq(lines, b + 1, Len(lines))
CutAt(lines, x) == x \in DOMAIN lines => lines[x][1] \notin {"begin", "scoped"}
Cuts(lines, a, b) ==
  lines \in Seq(RegistryLines) /\ a \in 0..Len(lines) /\ b \in a..Len(lines)
OwnLines(lines, a, b, c) ==
  /\ a \in 0..Len(lines) /\ b \in a..Len(lines)
  /\ \A i \in DOMAIN lines : lines[i][2] = c <=> i \in (a + 1)..b
  /\ CutAt(lines, a) /\ CutAt(lines, b)

LEMMA BlockLines ==
  ASSUME NEW c \in Contracts, NEW text \in Nat
  PROVE  /\ Block(c, text) \in Seq(RegistryLines) /\ Len(Block(c, text)) = 3
         /\ Block(c, text)[1] = <<"begin", c, 0>> /\ Block(c, text)[2] = <<"scoped", c, text>>
         /\ Block(c, text)[3] = <<"end", c, 0>>
<1>1. /\ <<"begin", c, 0>> \in RegistryLines /\ <<"scoped", c, text>> \in RegistryLines
      /\ <<"end", c, 0>> \in RegistryLines
  BY DEF RegistryLines, Marks
<1> QED BY <1>1 DEF Block

ThreeParts(s, a, b, x, y, z) ==
  /\ x = SubSeq(s, 1, a) /\ y = SubSeq(s, a + 1, b) /\ z = SubSeq(s, b + 1, Len(s))
  /\ x \in Seq(RegistryLines) /\ Len(x) = a /\ y \in Seq(RegistryLines) /\ Len(y) = b - a
  /\ z \in Seq(RegistryLines) /\ Len(z) = Len(s) - b
  /\ \A i \in 1..a : x[i] = s[i]
  /\ \A i \in 1..(b - a) : y[i] = s[a + i]
  /\ \A i \in 1..(Len(s) - b) : z[i] = s[b + i]
  /\ s = (x \o y) \o z

LEMMA Parts ==
  ASSUME NEW s, NEW a, NEW b, Cuts(s, a, b)
  PROVE  \E x, y, z : ThreeParts(s, a, b, x, y, z)
<1> DEFINE T == RegistryLines
<1>0. s \in Seq(T) /\ a \in 0..Len(s) /\ b \in a..Len(s)
  BY DEF Cuts
<1> HIDE DEF T
<1>1. /\ SubSeq(s, 1, a) \in Seq(T) /\ Len(SubSeq(s, 1, a)) = a
      /\ \A i \in 1..a : SubSeq(s, 1, a)[i] = s[i]
  BY <1>0
<1>2. /\ SubSeq(s, a + 1, b) \in Seq(T) /\ Len(SubSeq(s, a + 1, b)) = b - a
      /\ \A i \in 1..(b - a) : SubSeq(s, a + 1, b)[i] = s[a + i]
  BY <1>0
<1>3. /\ SubSeq(s, b + 1, Len(s)) \in Seq(T) /\ Len(SubSeq(s, b + 1, Len(s))) = Len(s) - b
      /\ \A i \in 1..(Len(s) - b) : SubSeq(s, b + 1, Len(s))[i] = s[b + i]
  BY <1>0
<1>4. PICK x, y, z : x = SubSeq(s, 1, a) /\ y = SubSeq(s, a + 1, b) /\ z = SubSeq(s, b + 1, Len(s))
  OBVIOUS
<1>5. /\ x \in Seq(T) /\ Len(x) = a /\ y \in Seq(T) /\ Len(y) = b - a
      /\ z \in Seq(T) /\ Len(z) = Len(s) - b
      /\ \A i \in 1..a : x[i] = s[i]
      /\ \A i \in 1..(b - a) : y[i] = s[a + i]
      /\ \A i \in 1..(Len(s) - b) : z[i] = s[b + i]
  BY <1>1, <1>2, <1>3, <1>4
<1>7. a \in Nat /\ b \in Nat /\ Len(s) \in Nat /\ a <= b /\ b <= Len(s)
  BY <1>0
<1>8. /\ x \o y \in Seq(T) /\ Len(x \o y) = a + (b - a)
      /\ \A i \in 1..a : (x \o y)[i] = x[i]
      /\ \A i \in 1..(b - a) : (x \o y)[a + i] = y[i]
  <2>1. /\ x \o y \in Seq(T) /\ Len(x \o y) = Len(x) + Len(y)
        /\ \A i \in 1..Len(x) : (x \o y)[i] = x[i]
        /\ \A i \in 1..Len(y) : (x \o y)[Len(x) + i] = y[i]
    <3>1. x \in Seq(T) /\ y \in Seq(T)
      BY <1>5
    <3> QED BY <3>1
  <2> QED BY <1>5, <2>1
<1>9. PICK w \in Seq(T) : w = x \o y
  BY <1>8
<1>10. /\ w \o z \in Seq(T) /\ Len(w \o z) = b + (Len(s) - b)
       /\ \A i \in 1..b : (w \o z)[i] = w[i]
       /\ \A i \in 1..(Len(s) - b) : (w \o z)[b + i] = z[i]
  <2>1. /\ w \o z \in Seq(T) /\ Len(w \o z) = Len(w) + Len(z)
        /\ \A i \in 1..Len(w) : (w \o z)[i] = w[i]
        /\ \A i \in 1..Len(z) : (w \o z)[Len(w) + i] = z[i]
    <3>1. z \in Seq(T)
      BY <1>5
    <3> QED BY <3>1
  <2>2. Len(w) = b
    BY <1>7, <1>8, <1>9
  <2> QED BY <1>5, <2>1, <2>2
<1>6. s = (x \o y) \o z
  <2>1. Len(w \o z) = Len(s)
    BY <1>7, <1>10
  <2>2. ASSUME NEW i \in 1..Len(s) PROVE (w \o z)[i] = s[i]
    <3>1. CASE i \in 1..a
      <4>1. i \in 1..b
        BY <1>7, <3>1
      <4> QED BY <1>5, <1>8, <1>9, <1>10, <3>1, <4>1
    <3>2. CASE i \in (a + 1)..b
      <4>1. i \in 1..b /\ i - a \in 1..(b - a) /\ a + (i - a) = i
        BY <1>7, <3>2
      <4>2. w[a + (i - a)] = y[i - a] /\ y[i - a] = s[a + (i - a)]
        BY <1>5, <1>8, <1>9, <4>1
      <4> QED BY <1>10, <4>1, <4>2
    <3>3. CASE i \in (b + 1)..Len(s)
      <4>1. i - b \in 1..(Len(s) - b) /\ b + (i - b) = i
        BY <1>7, <3>3
      <4>2. (w \o z)[b + (i - b)] = z[i - b] /\ z[i - b] = s[b + (i - b)]
        BY <1>5, <1>10, <4>1
      <4> QED BY <4>1, <4>2
    <3>4. i \in 1..a \/ i \in (a + 1)..b \/ i \in (b + 1)..Len(s)
      BY <1>7
    <3> QED BY <3>1, <3>2, <3>3, <3>4
  <2>3. \A i \in 1..Len(s) : (w \o z)[i] = s[i]
    BY <2>2
  <2>4. PICK v \in Seq(T) : v = w \o z
    BY <1>10
  <2>5. v = s
    <3>1. Len(v) = Len(s) /\ \A i \in 1..Len(s) : v[i] = s[i]
      BY <2>1, <2>3, <2>4
    <3> QED BY <1>0, <3>1
  <2> QED BY <1>9, <2>4, <2>5
<1> QED BY <1>4, <1>5, <1>6 DEF T, ThreeParts

LEMMA SplicedPlaces ==
  ASSUME NEW lines, NEW a, NEW b, Cuts(lines, a, b), NEW c \in Contracts, NEW text \in Nat, NEW out, out = Spliced(lines, a, b, c, text)
  PROVE  /\ out \in Seq(RegistryLines) /\ Len(out) = a + 3 + (Len(lines) - b)
         /\ \A i \in 1..a : out[i] = lines[i]
         /\ out[a + 1] = <<"begin", c, 0>> /\ out[a + 2] = <<"scoped", c, text>>
         /\ out[a + 3] = <<"end", c, 0>>
         /\ \A i \in (b + 1)..Len(lines) : out[i - b + a + 3] = lines[i]
<1> USE DEF Cuts
<1>14. lines \in Seq(RegistryLines) /\ a \in 0..Len(lines) /\ b \in a..Len(lines)
  BY DEF Cuts
<1>0. PICK x, u, z : ThreeParts(lines, a, b, x, u, z)
  BY Parts
<1>1. PICK y : y = Block(c, text)
  OBVIOUS
<1>2. /\ x \in Seq(RegistryLines) /\ Len(x) = a /\ \A i \in 1..a : x[i] = lines[i]
      /\ z \in Seq(RegistryLines) /\ Len(z) = Len(lines) - b
      /\ \A i \in 1..(Len(lines) - b) : z[i] = lines[b + i]
  BY <1>0 DEF ThreeParts
<1>3. /\ y \in Seq(RegistryLines) /\ Len(y) = 3 /\ y[1] = <<"begin", c, 0>>
      /\ y[2] = <<"scoped", c, text>> /\ y[3] = <<"end", c, 0>>
  BY <1>1, BlockLines
<1>4. out = (x \o y) \o z
  BY <1>0, <1>1 DEF Spliced, ThreeParts
<1>13. a \in Nat /\ b \in Nat /\ Len(lines) \in Nat /\ a <= b /\ b <= Len(lines)
  BY <1>14
<1>5. /\ x \o y \in Seq(RegistryLines) /\ Len(x \o y) = a + 3
      /\ \A i \in 1..a : (x \o y)[i] = x[i]
      /\ (x \o y)[a + 1] = y[1] /\ (x \o y)[a + 2] = y[2] /\ (x \o y)[a + 3] = y[3]
  <2>1. /\ x \o y \in Seq(RegistryLines) /\ Len(x \o y) = Len(x) + Len(y)
        /\ \A i \in 1..Len(x) : (x \o y)[i] = x[i]
        /\ \A i \in 1..Len(y) : (x \o y)[Len(x) + i] = y[i]
    <3>1. x \in Seq(RegistryLines) /\ y \in Seq(RegistryLines)
      BY <1>2, <1>3
    <3> QED BY <3>1
  <2>2. 1 \in 1..3 /\ 2 \in 1..3 /\ 3 \in 1..3
    OBVIOUS
  <2> QED BY <1>2, <1>3, <2>1, <2>2
<1>6. PICK w \in Seq(RegistryLines) : w = x \o y
  BY <1>5
<1>7. /\ out \in Seq(RegistryLines) /\ Len(out) = a + 3 + (Len(lines) - b)
      /\ \A i \in 1..(a + 3) : out[i] = w[i]
      /\ \A i \in 1..(Len(lines) - b) : out[a + 3 + i] = z[i]
  <2>1. /\ w \o z \in Seq(RegistryLines) /\ Len(w \o z) = Len(w) + Len(z)
        /\ \A i \in 1..Len(w) : (w \o z)[i] = w[i]
        /\ \A i \in 1..Len(z) : (w \o z)[Len(w) + i] = z[i]
    <3>1. z \in Seq(RegistryLines)
      BY <1>2
    <3> QED BY <3>1
  <2>2. out = w \o z /\ Len(w) = a + 3
    BY <1>4, <1>5, <1>6
  <2> QED BY <1>2, <2>1, <2>2
<1>8. \A i \in 1..a : i \in 1..(a + 3)
  OBVIOUS
<1>9. a + 1 \in 1..(a + 3) /\ a + 2 \in 1..(a + 3) /\ a + 3 \in 1..(a + 3)
  OBVIOUS
<1>10. ASSUME NEW i \in (b + 1)..Len(lines) PROVE out[i - b + a + 3] = lines[i]
  <2>1. i - b \in 1..(Len(lines) - b) /\ i - b + a + 3 = a + 3 + (i - b) /\ b + (i - b) = i
    BY <1>13
  <2>2. out[a + 3 + (i - b)] = z[i - b] /\ z[i - b] = lines[b + (i - b)]
    BY <1>2, <1>7, <2>1
  <2> QED BY <2>1, <2>2
<1>11. \A i \in 1..a : out[i] = lines[i]
  BY <1>2, <1>5, <1>6, <1>7, <1>8
<1>12. out[a + 1] = y[1] /\ out[a + 2] = y[2] /\ out[a + 3] = y[3]
  <2>1. w[a + 1] = y[1] /\ w[a + 2] = y[2] /\ w[a + 3] = y[3]
    BY <1>5, <1>6
  <2>2. out[a + 1] = w[a + 1] /\ out[a + 2] = w[a + 2] /\ out[a + 3] = w[a + 3]
    BY <1>7, <1>9
  <2> QED BY <2>1, <2>2
<1> QED BY <1>3, <1>7, <1>10, <1>11, <1>12

LEMMA SplicedIsTidy ==
  ASSUME NEW lines, Tidy(lines), NEW c \in Contracts, NEW a, NEW b, OwnLines(lines, a, b, c),
         NEW text \in Nat, NEW out, out = Spliced(lines, a, b, c, text)
  PROVE  /\ Tidy(out) /\ Holds(out, c, text)
         /\ \A d \in Contracts : \A t : d # c /\ Holds(lines, d, t) => Holds(out, d, t)
<1> DEFINE n == Len(lines)
<1>1. /\ lines \in Seq(RegistryLines) /\ n \in Nat /\ DOMAIN lines = 1..n
      /\ a \in 0..n /\ b \in a..n /\ a \in Nat /\ b \in Nat /\ a <= b
  BY DEF Tidy, OwnLines
<1>2. /\ out \in Seq(RegistryLines) /\ Len(out) = a + 3 + (n - b)
      /\ \A i \in 1..a : out[i] = lines[i]
      /\ out[a + 1] = <<"begin", c, 0>> /\ out[a + 2] = <<"scoped", c, text>>
      /\ out[a + 3] = <<"end", c, 0>>
      /\ \A i \in (b + 1)..n : out[i - b + a + 3] = lines[i]
  <2>1. a \in 0..Len(lines) /\ b \in a..Len(lines)
    BY <1>1
  <2>2. Cuts(lines, a, b)
    BY <1>1, <2>1 DEF Cuts
  <2> HIDE DEF n
  <2>3. /\ out \in Seq(RegistryLines) /\ Len(out) = a + 3 + (Len(lines) - b)
        /\ \A i \in 1..a : out[i] = lines[i]
        /\ out[a + 1] = <<"begin", c, 0>> /\ out[a + 2] = <<"scoped", c, text>>
        /\ out[a + 3] = <<"end", c, 0>>
        /\ \A i \in (b + 1)..Len(lines) : out[i - b + a + 3] = lines[i]
    BY <2>2, SplicedPlaces
  <2> QED BY <2>3 DEF n
<1>3. DOMAIN out = 1..(a + 3 + (n - b))
  BY <1>2
<1> HIDE DEF n
<1>4. /\ a + 1 \in DOMAIN out /\ a + 2 \in DOMAIN out /\ a + 3 \in DOMAIN out
      /\ (a + 1) + 1 = a + 2 /\ (a + 1) + 2 = a + 3 /\ (a + 2) - 1 = a + 1 /\ (a + 3) - 2 = a + 1
  BY <1>1, <1>3
<1>5. ASSUME NEW j \in DOMAIN out
      PROVE  \/ j \in 1..a /\ out[j] = lines[j]
             \/ j = a + 1 \/ j = a + 2 \/ j = a + 3
             \/ \E i \in (b + 1)..n : j = i - b + a + 3 /\ out[j] = lines[i]
  <2>1. CASE j \in 1..a
    BY <1>2, <2>1
  <2>2. CASE j > a + 3
    <3>1. j - 3 - a + b \in (b + 1)..n /\ (j - 3 - a + b) - b + a + 3 = j
      BY <1>1, <1>3, <2>2
    <3> QED BY <1>2, <3>1
  <2> QED BY <1>1, <1>3, <2>1, <2>2
<1>6. \A i \in 1..n : lines[i][2] = c <=> i \in (a + 1)..b
  BY <1>1 DEF OwnLines
<1>7. \A j \in DOMAIN out : out[j][2] = c => j = a + 1 \/ j = a + 2 \/ j = a + 3
  <2> SUFFICES ASSUME NEW j \in DOMAIN out, out[j][2] = c
               PROVE  j = a + 1 \/ j = a + 2 \/ j = a + 3
    OBVIOUS
  <2>1. ASSUME j \in 1..a, out[j] = lines[j] PROVE FALSE
    <3>1. j \in 1..n /\ j \notin (a + 1)..b
      BY <1>1, <2>1
    <3> QED BY <1>6, <2>1, <3>1
  <2>2. ASSUME NEW i \in (b + 1)..n, out[j] = lines[i] PROVE FALSE
    <3>1. i \in 1..n /\ i \notin (a + 1)..b
      BY <1>1
    <3> QED BY <1>6, <2>2, <3>1
  <2> QED BY <1>5, <2>1, <2>2
<1>8. HoldsAt(out, a + 1, c, text)
  BY <1>2, <1>4 DEF HoldsAt
<1>9. Holds(out, c, text)
  BY <1>2, <1>4, <1>8, HoldsIsHoldsAt
<1>10. TidyFor(out, c)
  <2>1. /\ \A k : LineIs(out, a + 1, k, c) <=> k = "begin"
        /\ \A k : LineIs(out, a + 2, k, c) <=> k = "scoped"
        /\ \A k : LineIs(out, a + 3, k, c) <=> k = "end"
    BY <1>2, <1>4 DEF LineIs
  <2>2. \A j \in DOMAIN out : LineIs(out, j, "begin", c) => j = a + 1
    BY <1>7, <2>1 DEF LineIs
  <2>3. \A j \in DOMAIN out : LineIs(out, j, "scoped", c) => j = a + 2
    BY <1>7, <2>1 DEF LineIs
  <2>4. \A j \in DOMAIN out : LineIs(out, j, "end", c) => j = a + 3
    BY <1>7, <2>1 DEF LineIs
  <2>5. \A j \in DOMAIN out : ~LineIs(out, j, "row", c)
    BY <1>7, <2>1 DEF LineIs
  <2> QED BY <1>4, <2>1, <2>2, <2>3, <2>4, <2>5 DEF TidyFor
<1>11. ASSUME NEW d \in Contracts, d # c
       PROVE  /\ TidyFor(out, d)
              /\ \A t : Holds(lines, d, t) => Holds(out, d, t)
  <2> DEFINE pos == [i \in 1..n |-> IF i <= a THEN i ELSE i - b + a + 3]
  <2>1. TidyFor(lines, d)
    BY DEF Tidy
  <2>2. ASSUME NEW i \in 1..n, lines[i][2] = d PROVE i <= a \/ i > b
    BY <1>1, <1>6, <1>11, <2>2
  <2>3. ASSUME NEW i \in DOMAIN lines, lines[i][2] = d, lines[i][1] \in Marks
        PROVE  /\ pos[i] \in DOMAIN out /\ out[pos[i]] = lines[i]
               /\ lines[i][1] \in {"begin", "scoped"} => pos[i + 1] = pos[i] + 1
    <3>1. i \in 1..n
      BY <1>1
    <3>2. pos[i] \in DOMAIN out /\ out[pos[i]] = lines[i]
      <4>1. CASE i <= a
        BY <1>1, <1>2, <1>3, <3>1, <4>1
      <4>2. CASE ~(i <= a)
        <5>1. i \in (b + 1)..n /\ pos[i] = i - b + a + 3
          BY <1>1, <2>2, <2>3, <3>1, <4>2
        <5>2. i - b + a + 3 \in DOMAIN out
          BY <1>1, <1>3, <5>1
        <5> QED BY <1>2, <5>1, <5>2
      <4> QED BY <4>1, <4>2
    <3>3. ASSUME lines[i][1] \in {"begin", "scoped"} PROVE pos[i + 1] = pos[i] + 1
      <4>1. i # a /\ i # b
        BY <3>1, <3>3 DEF OwnLines, CutAt
      <4>2. i + 1 \in DOMAIN lines
        <5>1. CASE lines[i][1] = "begin"
          BY <2>1, <2>3, <5>1 DEF TidyFor, LineIs
        <5>2. CASE lines[i][1] = "scoped"
          <6>1. LineIs(lines, i - 1, "begin", d)
            BY <2>1, <2>3, <5>2 DEF TidyFor, LineIs
          <6>2. LineIs(lines, (i - 1) + 2, "end", d)
            BY <2>1, <6>1 DEF TidyFor, LineIs
          <6>3. (i - 1) + 2 = i + 1
            BY <3>1
          <6> QED BY <6>2, <6>3 DEF LineIs
        <5> QED BY <3>3, <5>1, <5>2
      <4>3. i + 1 \in 1..n
        BY <1>1, <4>2
      <4>4. (i <= a /\ i + 1 <= a) \/ (~(i <= a) /\ ~(i + 1 <= a))
        BY <1>1, <3>1, <4>1
      <4> QED BY <1>1, <3>1, <4>3, <4>4
    <3> QED BY <3>2, <3>3
  <2>4. ASSUME NEW j \in DOMAIN out, out[j][2] = d, out[j][1] \in Marks
        PROVE  \E i \in DOMAIN lines : /\ lines[i][2] = d /\ lines[i][1] \in Marks
                                       /\ pos[i] = j
    <3>1. j # a + 1 /\ j # a + 2 /\ j # a + 3
      BY <1>2, <1>11, <2>4
    <3>2. CASE j \in 1..a /\ out[j] = lines[j]
      <4>1. j \in 1..n /\ j <= a
        BY <1>1, <3>2
      <4> QED BY <1>1, <2>4, <3>2, <4>1
    <3>3. ASSUME NEW i \in (b + 1)..n, j = i - b + a + 3, out[j] = lines[i]
          PROVE  \E k \in DOMAIN lines : /\ lines[k][2] = d /\ lines[k][1] \in Marks
                                         /\ pos[k] = j
      <4>1. i \in 1..n /\ ~(i <= a)
        BY <1>1
      <4>2. pos[i] = j
        BY <3>3, <4>1
      <4> QED BY <1>1, <2>4, <3>3, <4>1, <4>2
    <3> QED BY <1>5, <3>1, <3>2, <3>3
  <2>5. Carries(lines, out, pos, d)
    <3> HIDE DEF pos
    <3> QED BY <2>3, <2>4 DEF Carries
  <2> HIDE DEF pos
  <2> QED BY <1>1, <1>2, <2>1, <2>5, CarriedIsTidy
<1>12. Tidy(out)
  BY <1>2, <1>10, <1>11 DEF Tidy
<1> QED BY <1>9, <1>11, <1>12

LEMMA SplicedKeepsTheRest ==
  ASSUME NEW lines, Tidy(lines), NEW c \in Contracts, NEW a, NEW b, OwnLines(lines, a, b, c),
         NEW text \in Nat, NEW task, task.verb # "repair", task.contract = c
  PROVE  Rest(Spliced(lines, a, b, c, text), task) = Rest(lines, task)
<1>1. lines \in Seq(RegistryLines) /\ a \in 0..Len(lines) /\ b \in a..Len(lines)
  BY DEF Tidy, OwnLines
<1>11. Cuts(lines, a, b)
  BY <1>1 DEF Cuts
<1>2. PICK x, y, z : ThreeParts(lines, a, b, x, y, z)
  BY <1>11, Parts
<1>3. /\ x \in Seq(RegistryLines) /\ y \in Seq(RegistryLines) /\ z \in Seq(RegistryLines)
      /\ Len(y) = b - a /\ \A i \in 1..(b - a) : y[i] = lines[a + i]
      /\ lines = (x \o y) \o z
  BY <1>2 DEF ThreeParts
<1>4. Rest(y, task) = <<>>
  <2>1. ASSUME NEW i \in DOMAIN y PROVE ~OfOthers(y[i], task)
    <3>1. i \in 1..(b - a) /\ a + i \in (a + 1)..b /\ a + i \in DOMAIN lines
      BY <1>1, <1>3
    <3>2. lines[a + i][2] = c
      BY <3>1 DEF OwnLines
    <3> QED BY <1>3, <3>1, <3>2 DEF OfOthers
  <2> QED BY <1>3, <2>1, RestOfOwnLines
<1>5. PICK w \in Seq(RegistryLines) : w = Block(c, text)
  BY BlockLines
<1>6. Rest(w, task) = <<>>
  <2>1. ASSUME NEW i \in DOMAIN w PROVE ~OfOthers(w[i], task)
    <3>1. i \in 1..3 /\ w[1][2] = c /\ w[2][2] = c /\ w[3][2] = c
      BY <1>5, BlockLines
    <3>2. i = 1 \/ i = 2 \/ i = 3
      BY <3>1
    <3> QED BY <3>1, <3>2 DEF OfOthers
  <2> QED BY <2>1, RestOfOwnLines
<1>7. ASSUME NEW m \in Seq(RegistryLines), Rest(m, task) = <<>>
      PROVE  Rest((x \o m) \o z, task) = Rest(x, task) \o Rest(z, task)
  <2>6. x \in Seq(RegistryLines) /\ z \in Seq(RegistryLines)
    BY <1>3
  <2>1. PICK v \in Seq(RegistryLines) : v = x \o m
    <3>1. x \o m \in Seq(RegistryLines)
      BY <2>6
    <3> QED BY <3>1
  <2>2. Rest(v \o z, task) = Rest(v, task) \o Rest(z, task)
    BY <1>3, RestConcat
  <2>3. Rest(v, task) = Rest(x, task) \o Rest(m, task)
    BY <2>1, <2>6, RestConcat
  <2>4. Rest(x, task) \in Seq(RegistryLines)
    BY <1>3, RestIsFlat
  <2>5. Rest(x, task) \o <<>> = Rest(x, task)
    BY <2>4
  <2> QED BY <1>7, <2>1, <2>2, <2>3, <2>5
<1>8. Rest(lines, task) = Rest(x, task) \o Rest(z, task)
  BY <1>3, <1>4, <1>7
<1>9. Rest((x \o w) \o z, task) = Rest(x, task) \o Rest(z, task)
  BY <1>6, <1>7
<1>10. Spliced(lines, a, b, c, text) = (x \o w) \o z
  BY <1>2, <1>5 DEF Spliced, ThreeParts
<1> QED BY <1>8, <1>9, <1>10

(* Where the lines of a contract are, in a tidy registry.                  *)
LEMMA MarksOf ==
  ASSUME NEW lines, Tidy(lines), NEW c \in Contracts, NEW i \in DOMAIN lines, lines[i][2] = c
  PROVE  \/ LineIs(lines, i, "begin", c) \/ LineIs(lines, i, "scoped", c)
         \/ LineIs(lines, i, "end", c) \/ LineIs(lines, i, "row", c)
<1>1. lines[i] \in RegistryLines
  BY LinesOfTidy
<1>2. lines[i][1] \in Marks
  BY <1>1, LineParts, NoContractAssumption
<1> QED BY <1>2 DEF Marks, LineIs

LEMMA LineKinds ==
  ASSUME NEW lines, Tidy(lines), NEW i \in DOMAIN lines, lines[i][1] \in Marks
  PROVE  lines[i][2] \in Contracts /\ LineIs(lines, i, lines[i][1], lines[i][2])
<1>1. lines[i] \in RegistryLines
  BY LinesOfTidy
<1> QED BY <1>1, LineParts DEF LineIs

(* A line that opens a block has two more lines of the block after it.     *)
LEMMA BlockGoesOn ==
  ASSUME NEW lines, Tidy(lines), NEW i \in DOMAIN lines
  PROVE  /\ lines[i][1] = "begin"
              => /\ i + 1 \in DOMAIN lines /\ lines[i + 1][1] = "scoped"
                 /\ i + 2 \in DOMAIN lines /\ lines[i + 2][1] = "end"
         /\ lines[i][1] = "scoped" => i + 1 \in DOMAIN lines /\ lines[i + 1][1] = "end"
<1>1. ASSUME lines[i][1] = "begin"
      PROVE  /\ i + 1 \in DOMAIN lines /\ lines[i + 1][1] = "scoped"
             /\ i + 2 \in DOMAIN lines /\ lines[i + 2][1] = "end"
  <2>1. PICK d \in Contracts : LineIs(lines, i, "begin", d)
    BY <1>1, LineKinds DEF Marks
  <2>2. LineIs(lines, i + 1, "scoped", d) /\ LineIs(lines, i + 2, "end", d)
    BY <2>1 DEF Tidy, TidyFor
  <2> QED BY <2>2 DEF LineIs
<1>2. ASSUME lines[i][1] = "scoped"
      PROVE  i + 1 \in DOMAIN lines /\ lines[i + 1][1] = "end"
  <2>1. PICK d \in Contracts : LineIs(lines, i, "scoped", d)
    BY <1>2, LineKinds DEF Marks
  <2>2. LineIs(lines, i - 1, "begin", d)
    BY <2>1 DEF Tidy, TidyFor
  <2>3. LineIs(lines, (i - 1) + 2, "end", d)
    BY <2>2 DEF Tidy, TidyFor, LineIs
  <2>4. (i - 1) + 2 = i + 1
    BY LinesOfTidy
  <2> QED BY <2>3, <2>4 DEF LineIs
<1> QED BY <1>1, <1>2

(* A row is never in a block.                                              *)
LEMMA RowsAreUnscoped ==
  ASSUME NEW lines, Tidy(lines), NEW i \in DOMAIN lines, lines[i][1] = "row"
  PROVE  ~InBlock(lines, i)
<1> DEFINE markers == {j \in 1 .. i : lines[j][1] \in {"begin", "end"}}
<1>1. i \in Nat /\ DOMAIN lines = 1..Len(lines) /\ Len(lines) \in Nat
  BY LinesOfTidy
<1>2. ASSUME markers # {}, lines[Final(markers)][1] = "begin" PROVE FALSE
  <2>1. markers \in SUBSET (1..i)
    OBVIOUS
  <2> HIDE DEF markers
  <2>2. PICK m \in markers : m = Final(markers) /\ \A j \in markers : j <= m
    BY <1>1, <1>2, <2>1, FinalIsGreatest
  <2> USE DEF markers
  <2>3. m \in 1..i /\ m \in DOMAIN lines /\ lines[m][1] = "begin"
    BY <1>1, <1>2, <2>2
  <2>4. /\ m + 1 \in DOMAIN lines /\ lines[m + 1][1] = "scoped"
        /\ m + 2 \in DOMAIN lines /\ lines[m + 2][1] = "end"
    BY <2>3, BlockGoesOn
  <2>5. i # m /\ i # m + 1 /\ i # m + 2
    BY <2>3, <2>4
  <2>6. m + 2 \in markers
    BY <1>1, <2>3, <2>4, <2>5
  <2>7. m + 2 <= m
    BY <2>2, <2>6
  <2> QED BY <1>1, <2>3, <2>7
<1> QED BY <1>2 DEF InBlock

(* The block of a contract, when it has one.                               *)
LEMMA OneBlock ==
  ASSUME NEW lines, Tidy(lines), NEW c \in Contracts, NEW i, LineIs(lines, i, "begin", c)
  PROVE  /\ i \in Nat /\ i - 1 \in 0..Len(lines) /\ i + 2 \in 1..Len(lines)
         /\ Indices(lines, "begin", c) = {i} /\ Indices(lines, "end", c) = {i + 2}
         /\ OwnLines(lines, i - 1, i + 2, c)
<1>1. DOMAIN lines = 1..Len(lines) /\ Len(lines) \in Nat /\ i \in DOMAIN lines
  BY LinesOfTidy DEF LineIs
<1>2. TidyFor(lines, c)
  BY DEF Tidy
<1>3. LineIs(lines, i + 1, "scoped", c) /\ LineIs(lines, i + 2, "end", c)
  BY <1>1, <1>2 DEF TidyFor
<1>4. i + 1 \in DOMAIN lines /\ i + 2 \in DOMAIN lines
  BY <1>3 DEF LineIs
<1>5. ASSUME NEW j \in DOMAIN lines, LineIs(lines, j, "begin", c) PROVE j = i
  <2>1. LineIs(lines, j + 1, "scoped", c) /\ j + 1 \in DOMAIN lines
    BY <1>2, <1>5 DEF TidyFor, LineIs
  <2>2. j + 1 = i + 1
    BY <1>2, <1>3, <1>4, <2>1 DEF TidyFor
  <2> QED BY <1>1, <2>2
<1>6. ASSUME NEW j \in DOMAIN lines, LineIs(lines, j, "scoped", c) PROVE j = i + 1
  BY <1>2, <1>3, <1>4, <1>6 DEF TidyFor
<1>7. ASSUME NEW j \in DOMAIN lines, LineIs(lines, j, "end", c) PROVE j = i + 2
  <2>1. LineIs(lines, j - 2, "begin", c)
    BY <1>2, <1>7 DEF TidyFor
  <2>2. j - 2 \in DOMAIN lines
    BY <2>1 DEF LineIs
  <2>3. j - 2 = i
    BY <1>5, <2>1, <2>2
  <2> QED BY <1>1, <2>3
<1>8. ASSUME NEW j \in DOMAIN lines, LineIs(lines, j, "row", c) PROVE FALSE
  <2>1. j = i + 1
    BY <1>2, <1>3, <1>4, <1>8 DEF TidyFor
  <2> QED BY <1>3, <1>8, <2>1 DEF LineIs
<1>9. Indices(lines, "begin", c) = {i} /\ Indices(lines, "end", c) = {i + 2}
  BY <1>1, <1>3, <1>4, <1>5, <1>7 DEF Indices, LineIs
<1>10. i \in Nat /\ i - 1 \in 0..Len(lines) /\ i + 2 \in 1..Len(lines) /\ i + 2 \in (i - 1)..Len(lines)
  BY <1>1, <1>4
<1>11. \A j \in DOMAIN lines : lines[j][2] = c <=> j \in (i - 1 + 1)..(i + 2)
  <2>1. ASSUME NEW j \in DOMAIN lines, lines[j][2] = c PROVE j \in (i - 1 + 1)..(i + 2)
    <3>1. j = i \/ j = i + 1 \/ j = i + 2
      BY <1>5, <1>6, <1>7, <1>8, <2>1, MarksOf
    <3> QED BY <1>1, <3>1
  <2>2. ASSUME NEW j \in DOMAIN lines, j \in (i - 1 + 1)..(i + 2) PROVE lines[j][2] = c
    <3>1. j = i \/ j = i + 1 \/ j = i + 2
      BY <1>1, <2>2
    <3> QED BY <1>3, <3>1 DEF LineIs
  <2> QED BY <2>1, <2>2
<1>12. CutAt(lines, i - 1)
  <2>1. ASSUME i - 1 \in DOMAIN lines, lines[i - 1][1] \in {"begin", "scoped"} PROVE FALSE
    <3>1. (i - 1) + 1 = i
      BY <1>1
    <3>2. lines[(i - 1) + 1][1] \in {"scoped", "end"}
      BY <2>1, BlockGoesOn
    <3> QED BY <3>1, <3>2 DEF LineIs
  <2> QED BY <2>1 DEF CutAt
<1>13. CutAt(lines, i + 2)
  BY <1>3 DEF CutAt, LineIs
<1> QED BY <1>9, <1>10, <1>11, <1>12, <1>13 DEF OwnLines

(* The row of a contract, when it has one and no block.                    *)
LEMMA OneRow ==
  ASSUME NEW lines, Tidy(lines), NEW c \in Contracts, NEW i, LineIs(lines, i, "row", c),
         Indices(lines, "begin", c) = {}
  PROVE  /\ i \in Nat /\ i - 1 \in 0..Len(lines) /\ i \in 1..Len(lines)
         /\ UnscopedRows(lines, c) = {i}
         /\ OwnLines(lines, i - 1, i, c)
<1>1. DOMAIN lines = 1..Len(lines) /\ Len(lines) \in Nat /\ i \in DOMAIN lines
  BY LinesOfTidy DEF LineIs
<1>2. TidyFor(lines, c)
  BY DEF Tidy
<1>3. \A j : ~LineIs(lines, j, "begin", c)
  BY DEF Indices, LineIs
<1>4. \A j \in DOMAIN lines : ~LineIs(lines, j, "scoped", c) /\ ~LineIs(lines, j, "end", c)
  BY <1>2, <1>3 DEF TidyFor
<1>5. \A j \in DOMAIN lines : LineIs(lines, j, "row", c) => j = i
  BY <1>1, <1>2 DEF TidyFor
<1>6. UnscopedRows(lines, c) = {i}
  <2>1. Indices(lines, "row", c) = {i}
    BY <1>1, <1>5 DEF Indices, LineIs
  <2>2. ~InBlock(lines, i)
    BY <1>1, RowsAreUnscoped DEF LineIs
  <2> QED BY <2>1, <2>2 DEF UnscopedRows
<1>7. i \in Nat /\ i - 1 \in 0..Len(lines) /\ i \in 1..Len(lines) /\ i \in (i - 1)..Len(lines)
  BY <1>1
<1>8. \A j \in DOMAIN lines : lines[j][2] = c <=> j \in (i - 1 + 1)..i
  <2>1. ASSUME NEW j \in DOMAIN lines, lines[j][2] = c PROVE j \in (i - 1 + 1)..i
    <3>1. j = i
      BY <1>3, <1>4, <1>5, <2>1, MarksOf
    <3> QED BY <1>1, <3>1
  <2>2. ASSUME NEW j \in DOMAIN lines, j \in (i - 1 + 1)..i PROVE lines[j][2] = c
    <3>1. j = i
      BY <1>1, <2>2
    <3> QED BY <3>1 DEF LineIs
  <2> QED BY <2>1, <2>2
<1>9. CutAt(lines, i - 1)
  <2>1. ASSUME i - 1 \in DOMAIN lines, lines[i - 1][1] \in {"begin", "scoped"} PROVE FALSE
    <3>1. (i - 1) + 1 = i
      BY <1>1
    <3>2. lines[(i - 1) + 1][1] \in {"scoped", "end"}
      BY <2>1, BlockGoesOn
    <3> QED BY <3>1, <3>2 DEF LineIs
  <2> QED BY <2>1 DEF CutAt
<1>10. CutAt(lines, i)
  BY DEF CutAt, LineIs
<1> QED BY <1>6, <1>7, <1>8, <1>9, <1>10 DEF OwnLines

(* No line of the contract: a new block may go where no block is cut.      *)
LEMMA NoLines ==
  ASSUME NEW lines, Tidy(lines), NEW c \in Contracts, Indices(lines, "begin", c) = {},
         UnscopedRows(lines, c) = {}, NEW e \in 0..Len(lines), CutAt(lines, e)
  PROVE  OwnLines(lines, e, e, c)
<1>1. DOMAIN lines = 1..Len(lines) /\ Len(lines) \in Nat
  BY LinesOfTidy
<1>2. TidyFor(lines, c)
  BY DEF Tidy
<1>3. \A j : ~LineIs(lines, j, "begin", c)
  BY DEF Indices, LineIs
<1>4. \A j \in DOMAIN lines : ~LineIs(lines, j, "scoped", c) /\ ~LineIs(lines, j, "end", c)
  BY <1>2, <1>3 DEF TidyFor
<1>5. \A j \in DOMAIN lines : ~LineIs(lines, j, "row", c)
  BY RowsAreUnscoped DEF UnscopedRows, Indices, LineIs
<1>6. \A j \in DOMAIN lines : lines[j][2] # c
  BY <1>3, <1>4, <1>5, MarksOf
<1>7. \A j \in DOMAIN lines : j \notin (e + 1)..e
  BY <1>1
<1>8. e \in e..Len(lines)
  BY <1>1
<1> QED BY <1>6, <1>7, <1>8 DEF OwnLines

(* The row that gives way to a block, wherever it is.                      *)
LEMMA RowGivesWay ==
  ASSUME NEW lines, Tidy(lines), NEW c \in Contracts, NEW text \in Nat, NEW i,
         LineIs(lines, i, "row", c), Indices(lines, "begin", c) = {}
  PROVE  ReplaceUnscopedRow(lines, c, text) = Spliced(lines, i - 1, i, c, text)
<1> DEFINE T == RegistryLines
           n == Len(lines)
           s == [k \in 1..n |-> IF k = i THEN Block(c, text) ELSE <<lines[k]>>]
<1>1. /\ lines \in Seq(T) /\ n \in Nat /\ DOMAIN lines = 1..n /\ \A k \in 1..n : lines[k] \in T
      /\ UnscopedRows(lines, c) = {i} /\ i \in 1..n /\ i - 1 \in 0..n
      /\ OwnLines(lines, i - 1, i, c)
  BY LinesOfTidy, OneRow
<1>2. ReplaceUnscopedRow(lines, c, text) = FlattenSeq(s)
  BY <1>1 DEF ReplaceUnscopedRow
<1>3. s \in [1..n -> Seq(T)] /\ Len(s[i]) = 3 /\ \A k \in 1..n : k # i => Len(s[k]) = 1 /\ s[k][1] = lines[k]
  <2>1. Block(c, text) \in Seq(T) /\ Len(Block(c, text)) = 3
    BY BlockLines
  <2>2. \A k \in 1..n : <<lines[k]>> \in Seq(T) /\ Len(<<lines[k]>>) = 1 /\ <<lines[k]>>[1] = lines[k]
    BY <1>1
  <2> QED BY <1>1, <2>1, <2>2
<1>4. s[i] = Block(c, text)
  BY <1>1
<1> HIDE DEF s, T
<1>5. PICK out : out = FlattenSeq(s)
  OBVIOUS
<1>6. PICK off : /\ Offsets(off, s, n) /\ Len(out) = off[n] /\ out \in Seq(T)
                 /\ \A k \in 1..n : \A x \in 1..Len(s[k]) :
                      out[off[k - 1] + x] = s[k][x]
  <2>1. n \in Nat /\ s \in [1..n -> Seq(T)]
    BY <1>1, <1>3
  <2> HIDE DEF n
  <2>2. FlattenSeq(s) \in Seq(T)
    BY <2>1, FlattenPositions
  <2>3. PICK off : PlacedBy(off, s, n)
    BY <2>1, FlattenPositions
  <2> QED BY <1>5, <2>2, <2>3 DEF PlacedBy
<1>7. \A m \in 0..n : off[m] = IF m < i THEN m ELSE m + 2
  <2> DEFINE S == {m \in 0..n : off[m] = IF m < i THEN m ELSE m + 2}
  <2>1. 0 \in S
    BY <1>1, <1>6 DEF Offsets
  <2>2. ASSUME NEW m \in 0..n, m \in S, m < n PROVE m + 1 \in S
    <3>1. m + 1 \in 1..n /\ (m + 1) - 1 = m /\ m + 1 \in 0..n
      BY <1>1, <2>2
    <3>2. off[m + 1] = off[m] + Len(s[m + 1])
      <4>1. off[m + 1] = off[(m + 1) - 1] + Len(s[m + 1])
        BY <1>6, <3>1 DEF Offsets
      <4> QED BY <3>1, <4>1
    <3>3. Len(s[m + 1]) = IF m + 1 = i THEN 3 ELSE 1
      BY <1>3, <3>1
    <3>4. off[m] = IF m < i THEN m ELSE m + 2
      BY <2>2
    <3>5. off[m + 1] = IF m + 1 < i THEN m + 1 ELSE (m + 1) + 2
      BY <1>1, <3>1, <3>2, <3>3, <3>4
    <3> QED BY <3>1, <3>5
  <2>3. \A m \in 0..n : m \in S
    <3> HIDE DEF S, n
    <3> QED BY <1>1, <2>1, <2>2, OneByOne
  <2> QED BY <2>3
<1>8. PICK o : o = Spliced(lines, i - 1, i, c, text)
  OBVIOUS
<1>9. /\ o \in Seq(T) /\ Len(o) = (i - 1) + 3 + (n - i)
      /\ \A k \in 1..(i - 1) : o[k] = lines[k]
      /\ o[(i - 1) + 1] = <<"begin", c, 0>> /\ o[(i - 1) + 2] = <<"scoped", c, text>>
      /\ o[(i - 1) + 3] = <<"end", c, 0>>
      /\ \A k \in (i + 1)..n : o[k - i + (i - 1) + 3] = lines[k]
  <2>1. Cuts(lines, i - 1, i)
    BY <1>1 DEF Cuts, T, OwnLines
  <2> QED BY <1>8, <2>1, SplicedPlaces DEF T
<1>10. Len(out) = n + 2 /\ Len(o) = n + 2
  <2>1. n \in 0..n /\ ~(n < i)
    BY <1>1
  <2>2. off[n] = n + 2
    BY <1>7, <2>1
  <2>3. (i - 1) + 3 + (n - i) = n + 2
    BY <1>1
  <2> HIDE DEF n
  <2> QED BY <1>6, <1>9, <2>2, <2>3
<1>11. ASSUME NEW k \in 1..n, k # i
       PROVE  out[IF k < i THEN k ELSE k + 2] = lines[k]
  <2>1. 1 \in 1..Len(s[k]) /\ s[k][1] = lines[k]
    BY <1>3, <1>11
  <2>2. out[off[k - 1] + 1] = lines[k]
    BY <1>6, <2>1
  <2>3. k - 1 \in 0..n /\ off[k - 1] = IF k - 1 < i THEN k - 1 ELSE (k - 1) + 2
    BY <1>1, <1>7
  <2>4. off[k - 1] + 1 = IF k < i THEN k ELSE k + 2
    BY <1>1, <1>11, <2>3
  <2> QED BY <2>2, <2>4
<1>12. out[i] = <<"begin", c, 0>> /\ out[i + 1] = <<"scoped", c, text>> /\ out[i + 2] = <<"end", c, 0>>
  <2>1. \A x \in 1..3 : out[off[i - 1] + x] = s[i][x]
    BY <1>1, <1>3, <1>6
  <2>2. off[i - 1] = i - 1
    BY <1>1, <1>7
  <2>3. 1 \in 1..3 /\ 2 \in 1..3 /\ 3 \in 1..3 /\ (i - 1) + 1 = i /\ (i - 1) + 2 = i + 1 /\ (i - 1) + 3 = i + 2
    BY <1>1
  <2>4. out[(i - 1) + 1] = s[i][1] /\ out[(i - 1) + 2] = s[i][2] /\ out[(i - 1) + 3] = s[i][3]
    BY <2>1, <2>2, <2>3
  <2> QED BY <1>4, <2>3, <2>4, BlockLines
<1>13. ASSUME NEW j \in 1..(n + 2) PROVE out[j] = o[j]
  <2>1. CASE j < i
    <3>1. j \in 1..n /\ j # i /\ j \in 1..(i - 1)
      BY <1>1, <2>1
    <3> QED BY <1>9, <1>11, <2>1, <3>1
  <2>2. CASE j \in {i, i + 1, i + 2}
    <3>1. (i - 1) + 1 = i /\ (i - 1) + 2 = i + 1 /\ (i - 1) + 3 = i + 2
      BY <1>1
    <3> QED BY <1>9, <1>12, <2>2, <3>1
  <2>3. CASE j > i + 2
    <3>1. PICK k \in 1..n : k = j - 2 /\ k \in (i + 1)..n /\ ~(k < i) /\ k # i
      BY <1>1, <2>3
    <3>2. k + 2 = j /\ k - i + (i - 1) + 3 = j
      BY <1>1, <3>1
    <3>3. out[k + 2] = lines[k]
      BY <1>11, <3>1
    <3>4. o[k - i + (i - 1) + 3] = lines[k]
      BY <1>9, <3>1
    <3> QED BY <3>2, <3>3, <3>4
  <2> QED BY <1>1, <2>1, <2>2, <2>3
<1>14. out = o
  <2>1. out \in Seq(T) /\ o \in Seq(T) /\ Len(out) = Len(o)
    BY <1>6, <1>9, <1>10
  <2>2. \A j \in 1..Len(out) : out[j] = o[j]
    BY <1>10, <1>13
  <2> QED BY <2>1, <2>2
<1> QED BY <1>2, <1>5, <1>8, <1>14

(* A propagation puts one block in place of all the contract had.          *)
LEMMA PropagatedIsSpliced ==
  ASSUME NEW lines, Tidy(lines), NEW c \in Contracts, NEW text \in Nat
  PROVE  \/ Holds(lines, c, text) /\ Propagated(lines, c, text) = lines
         \/ \E a, b : /\ OwnLines(lines, a, b, c)
                      /\ Propagated(lines, c, text) = Spliced(lines, a, b, c, text)
<1>1. /\ lines \in Seq(RegistryLines) /\ Len(lines) \in Nat /\ DOMAIN lines = 1..Len(lines)
  BY LinesOfTidy
<1>2. CASE Holds(lines, c, text)
  BY <1>2 DEF Propagated
<1>3. CASE ~Holds(lines, c, text) /\ Indices(lines, "begin", c) # {}
  <2>1. PICK i : LineIs(lines, i, "begin", c)
    BY <1>3 DEF Indices, LineIs
  <2>2. /\ i \in Nat /\ i - 1 \in 0..Len(lines) /\ i + 2 \in 1..Len(lines)
        /\ Indices(lines, "begin", c) = {i} /\ Indices(lines, "end", c) = {i + 2}
        /\ OwnLines(lines, i - 1, i + 2, c)
    BY <2>1, OneBlock
  <2>3. First({i}) = i /\ First({i + 2}) = i + 2
    BY <2>2 DEF First
  <2>4. ~(i + 2 < i)
    BY <2>2
  <2>5. ReplaceBlock(lines, c, text) = Spliced(lines, i - 1, i + 2, c, text)
    BY <2>2, <2>3, <2>4 DEF ReplaceBlock, Spliced
  <2>6. Propagated(lines, c, text) = ReplaceBlock(lines, c, text)
    BY <1>3 DEF Propagated
  <2> QED BY <2>2, <2>5, <2>6
<1>4. CASE /\ ~Holds(lines, c, text) /\ Indices(lines, "begin", c) = {}
           /\ UnscopedRows(lines, c) # {}
  <2>1. PICK i : LineIs(lines, i, "row", c)
    BY <1>4 DEF UnscopedRows, Indices, LineIs
  <2>2. OwnLines(lines, i - 1, i, c)
    BY <1>4, <2>1, OneRow
  <2>3. ReplaceUnscopedRow(lines, c, text) = Spliced(lines, i - 1, i, c, text)
    BY <1>4, <2>1, RowGivesWay
  <2>4. Propagated(lines, c, text) = ReplaceUnscopedRow(lines, c, text)
    BY <1>4 DEF Propagated
  <2> QED BY <2>2, <2>3, <2>4
<1>5. CASE /\ ~Holds(lines, c, text) /\ Indices(lines, "begin", c) = {}
           /\ UnscopedRows(lines, c) = {}
  <2> DEFINE ends == SharedTableEnds(lines)
  <2>1. Propagated(lines, c, text) = AppendToSharedContracts(lines, c, text)
    BY <1>5 DEF Propagated
  <2>2. CASE ends = {}
    <3>1. AppendToSharedContracts(lines, c, text) = lines \o Block(c, text)
      BY <2>2 DEF AppendToSharedContracts
    <3>2. CutAt(lines, Len(lines)) /\ Len(lines) \in 0..Len(lines)
      <4>1. ASSUME Len(lines) \in DOMAIN lines, lines[Len(lines)][1] \in {"begin", "scoped"}
            PROVE  FALSE
        <5>1. Len(lines) + 1 \in DOMAIN lines
          BY <4>1, BlockGoesOn
        <5> QED BY <1>1, <5>1
      <4> QED BY <1>1, <4>1 DEF CutAt
    <3>3. OwnLines(lines, Len(lines), Len(lines), c)
      BY <1>5, <3>2, NoLines
    <3>4. Spliced(lines, Len(lines), Len(lines), c, text) = lines \o Block(c, text)
      <4>1. SubSeq(lines, 1, Len(lines)) = lines
        BY <1>1, FirstOnes
      <4>2. SubSeq(lines, Len(lines) + 1, Len(lines)) = <<>>
        BY <1>1
      <4>3. PICK w \in Seq(RegistryLines) : w = lines \o Block(c, text)
        <5>1. PICK b \in Seq(RegistryLines) : b = Block(c, text)
          BY BlockLines
        <5>2. lines \in Seq(RegistryLines)
          BY <1>1
        <5>3. lines \o b \in Seq(RegistryLines)
          BY <5>2
        <5> QED BY <5>1, <5>3
      <4>4. w \o <<>> = w
        BY <4>3
      <4>5. (lines \o Block(c, text)) \o <<>> = lines \o Block(c, text)
        BY <4>3, <4>4
      <4> QED BY <4>1, <4>2, <4>5 DEF Spliced
    <3> QED BY <2>1, <3>1, <3>3, <3>4
  <2>3. CASE ends # {}
    <3>1. ends \in SUBSET (1..Len(lines))
      BY <1>1 DEF SharedTableEnds
    <3>2. PICK e : e = Final(ends)
      OBVIOUS
    <3>3. e \in ends
      <4> HIDE DEF ends
      <4> QED BY <1>1, <2>3, <3>1, <3>2, FinalIsGreatest
    <3>4. e \in DOMAIN lines /\ lines[e][1] \in {"end", "row", "table"}
      BY <3>3 DEF SharedTableEnds
    <3>5. CutAt(lines, e) /\ e \in 0..Len(lines)
      BY <1>1, <3>4 DEF CutAt
    <3>6. OwnLines(lines, e, e, c)
      BY <1>5, <3>5, NoLines
    <3>7. AppendToSharedContracts(lines, c, text) = Spliced(lines, e, e, c, text)
      BY <2>3, <3>2 DEF AppendToSharedContracts, Spliced
    <3> QED BY <2>1, <3>6, <3>7
  <2> QED BY <2>2, <2>3
<1> QED BY <1>2, <1>3, <1>4, <1>5

(* What a propagation leaves: the contract's block, and all that was there *)
(* of the others.                                                          *)
LEMMA PropagatedEffect ==
  ASSUME NEW lines, Tidy(lines), NEW c \in Contracts, NEW text \in Nat,
         NEW out, out = Propagated(lines, c, text)
  PROVE  /\ Tidy(out) /\ Holds(out, c, text)
         /\ \A d \in Contracts : \A t : d # c /\ Holds(lines, d, t) => Holds(out, d, t)
         /\ \A task : task.verb # "repair" /\ task.contract = c => Rest(out, task) = Rest(lines, task)
<1>1. CASE Holds(lines, c, text) /\ out = lines
  BY <1>1
<1>2. ASSUME NEW a, NEW b, OwnLines(lines, a, b, c), out = Spliced(lines, a, b, c, text)
      PROVE  /\ Tidy(out) /\ Holds(out, c, text)
             /\ \A d \in Contracts : \A t : d # c /\ Holds(lines, d, t) => Holds(out, d, t)
             /\ \A task : task.verb # "repair" /\ task.contract = c => Rest(out, task) = Rest(lines, task)
  <2>1. /\ Tidy(out) /\ Holds(out, c, text)
        /\ \A d \in Contracts : \A t : d # c /\ Holds(lines, d, t) => Holds(out, d, t)
    BY <1>2, SplicedIsTidy
  <2>2. ASSUME NEW task, task.verb # "repair", task.contract = c
        PROVE  Rest(out, task) = Rest(lines, task)
    BY <1>2, <2>2, SplicedKeepsTheRest
  <2> QED BY <2>1, <2>2
<1> QED BY <1>1, <1>2, PropagatedIsSpliced

(* What a repair makes of one line.                                        *)
RepairedLine(line, installed) ==
  LET rows == IF installed THEN <<Line("executor")>> ELSE <<>>
  IN  IF line[1] \in OfRepair THEN <<>>
      ELSE IF line[1] = "skills" THEN <<Line("note"), line>>
      ELSE IF line[1] = "protocol" THEN rows \o <<line>>
      ELSE <<line>>

LEMMA RestOfOne ==
  ASSUME NEW line \in RegistryLines, NEW task
  PROVE  <<line>> \in Seq(RegistryLines) /\ Rest(<<line>>, task) = Kept(line, task)
<1>1. <<>> \in Seq(RegistryLines) /\ Append(<<>>, line) = <<line>>
  OBVIOUS
<1>2. Rest(Append(<<>>, line), task) = Rest(<<>>, task) \o Kept(line, task)
  BY <1>1, RestOneMore
<1>3. <<>> \o Kept(line, task) = Kept(line, task)
  BY DEF Kept
<1>4. <<line>> \in Seq(RegistryLines)
  OBVIOUS
<1>5. Rest(Append(<<>>, line), task) = Kept(line, task)
  BY <1>2, <1>3, RestOfNone
<1> QED BY <1>1, <1>4, <1>5

LEMMA RepairedLineIs ==
  ASSUME NEW line \in RegistryLines, NEW installed, NEW piece, piece = RepairedLine(line, installed)
  PROVE  /\ piece \in Seq(RegistryLines)
         /\ line[1] \in Marks => piece = <<line>>
         /\ line[1] \notin Marks => \A k \in 1..Len(piece) : piece[k][1] \notin Marks
         /\ \A task : task.verb = "repair" => Rest(piece, task) = Kept(line, task)
<1>1. Line("note") \in RegistryLines /\ Line("executor") \in RegistryLines
  BY DEF Line, RegistryLines, PlainKinds
<1>2. /\ Line("note")[1] = "note" /\ Line("executor")[1] = "executor"
      /\ "note" \notin Marks /\ "executor" \notin Marks /\ "skills" \notin Marks
      /\ "protocol" \notin Marks
  BY DEF Line, Marks
<1>3. \A task : task.verb = "repair" =>
        /\ Kept(Line("note"), task) = <<>> /\ Kept(Line("executor"), task) = <<>>
        /\ line[1] \in OfRepair => Kept(line, task) = <<>>
  BY <1>2 DEF Kept, OfOthers, OfRepair
<1>4. CASE line[1] \in OfRepair
  <2>1. piece = <<>> /\ Len(piece) = 0
    BY <1>4 DEF RepairedLine
  <2>2. line[1] \notin Marks
    BY <1>4 DEF OfRepair, Marks
  <2> QED BY <1>3, <1>4, <2>1, <2>2, RestOfNone
<1>5. CASE line[1] = "skills"
  <2>1. piece = <<Line("note"), line>> /\ Len(piece) = 2 /\ piece[1] = Line("note") /\ piece[2] = line
    BY <1>5 DEF RepairedLine, OfRepair
  <2>2. piece = Append(<<Line("note")>>, line)
    BY <2>1
  <2>3. ASSUME NEW task, task.verb = "repair" PROVE Rest(piece, task) = Kept(line, task)
    <3>1. <<Line("note")>> \in Seq(RegistryLines) /\ Rest(<<Line("note")>>, task) = <<>>
      BY <1>1, <1>3, <2>3, RestOfOne
    <3>2. Rest(piece, task) = <<>> \o Kept(line, task)
      BY <2>2, <3>1, RestOneMore
    <3> QED BY <3>2 DEF Kept
  <2>4. piece \in Seq(RegistryLines)
    BY <1>1, <2>1
  <2>5. \A k \in 1..2 : k = 1 \/ k = 2
    OBVIOUS
  <2> QED BY <1>2, <1>5, <2>1, <2>3, <2>4, <2>5
<1>6. CASE line[1] = "protocol" /\ installed
  <2>1. /\ piece = <<Line("executor")>> \o <<line>>
        /\ line[1] \notin OfRepair
    BY <1>6 DEF RepairedLine, OfRepair
  <2>2. piece = Append(<<Line("executor")>>, line)
    BY <2>1
  <2>6. /\ piece \in Seq(RegistryLines) /\ Len(piece) = 2
        /\ piece[1] = Line("executor") /\ piece[2] = line
    <3>1. PICK a \in Seq(RegistryLines) : a = <<Line("executor")>> /\ Len(a) = 1 /\ a[1] = Line("executor")
      <4>1. PICK e \in RegistryLines : e = Line("executor")
        BY <1>1
      <4>2. <<e>> \in Seq(RegistryLines) /\ Len(<<e>>) = 1 /\ <<e>>[1] = e
        OBVIOUS
      <4> QED BY <4>1, <4>2
    <3>2. Append(a, line) \in Seq(RegistryLines) /\ Len(Append(a, line)) = 2
      BY <3>1
    <3>3. Append(a, line)[1] = a[1] /\ Append(a, line)[2] = line
      BY <3>1
    <3> QED BY <2>2, <3>1, <3>2, <3>3
  <2>3. ASSUME NEW task, task.verb = "repair" PROVE Rest(piece, task) = Kept(line, task)
    <3>1. <<Line("executor")>> \in Seq(RegistryLines) /\ Rest(<<Line("executor")>>, task) = <<>>
      BY <1>1, <1>3, <2>3, RestOfOne
    <3>2. Rest(piece, task) = <<>> \o Kept(line, task)
      BY <2>2, <3>1, RestOneMore
    <3> QED BY <3>2 DEF Kept
  <2>4. piece \in Seq(RegistryLines)
    BY <1>1, <2>6
  <2>5. \A k \in 1..2 : k = 1 \/ k = 2
    OBVIOUS
  <2> QED BY <1>2, <1>6, <2>6, <2>3, <2>4, <2>5
<1>7. CASE ~(line[1] \in OfRepair) /\ line[1] # "skills" /\ ~(line[1] = "protocol" /\ installed)
  <2>1. piece = <<line>>
    <3>1. <<>> \o <<line>> = <<line>>
      OBVIOUS
    <3> QED BY <1>7, <3>1 DEF RepairedLine
  <2>2. Len(piece) = 1 /\ piece[1] = line
    BY <2>1
  <2> QED BY <2>1, <2>2, RestOfOne
<1> QED BY <1>4, <1>5, <1>6, <1>7

(* What a repair leaves: every row and block that was there, and all the   *)
(* lines that are not its own, in their order.                             *)
LEMMA RepairedEffect ==
  ASSUME NEW lines, Tidy(lines), NEW installed, NEW out, out = Repaired(lines, installed)
  PROVE  /\ Tidy(out)
         /\ \A d \in Contracts : \A t : Holds(lines, d, t) => Holds(out, d, t)
         /\ \A task : task.verb = "repair" => Rest(out, task) = Rest(lines, task)
<1> DEFINE T == RegistryLines
           n == Len(lines)
           s == [i \in 1..n |-> RepairedLine(lines[i], installed)]
<1>1. lines \in Seq(T) /\ n \in Nat /\ DOMAIN lines = 1..n /\ \A i \in 1..n : lines[i] \in T
  BY LinesOfTidy
<1>2. out = FlattenSeq(s)
  BY <1>1 DEF Repaired, RepairedLine
<1>3. \A i \in 1..n :
        /\ s[i] \in Seq(T)
        /\ lines[i][1] \in Marks => s[i] = <<lines[i]>>
        /\ lines[i][1] \notin Marks => \A k \in 1..Len(s[i]) : s[i][k][1] \notin Marks
        /\ \A task : task.verb = "repair" => Rest(s[i], task) = Kept(lines[i], task)
  BY <1>1, RepairedLineIs
<1>4. s \in [1..n -> Seq(T)]
  BY <1>3
<1> HIDE DEF s, T, n
<1>5. PICK off : PlacedBy(off, s, n)
  BY <1>1, <1>4, FlattenPositions
<1>6. out \in Seq(T) /\ Len(out) = off[n] /\ DOMAIN out = 1..off[n]
  <2>1. FlattenSeq(s) \in Seq(T)
    BY <1>1, <1>4, FlattenPositions
  <2> QED BY <1>2, <1>5, <2>1 DEF PlacedBy
<1>7. /\ \A i \in 1..n : off[i] = off[i - 1] + Len(s[i])
      /\ \A i \in 0..n : off[i] \in Nat
  BY <1>5 DEF PlacedBy, Offsets
<1>8. /\ \A i \in 1..n : \A k \in 1..Len(s[i]) :
           off[i - 1] + k \in DOMAIN out /\ out[off[i - 1] + k] = s[i][k]
      /\ \A j \in DOMAIN out : \E i \in 1..n : \E k \in 1..Len(s[i]) : j = off[i - 1] + k
  BY <1>2, <1>5, <1>6 DEF PlacedBy
<1>9. ASSUME NEW i \in 1..n, lines[i][1] \in Marks
      PROVE  /\ off[i - 1] + 1 \in DOMAIN out /\ out[off[i - 1] + 1] = lines[i]
             /\ off[i] = off[i - 1] + 1
  <2>1. s[i] = <<lines[i]>>
    BY <1>3, <1>9
  <2>2. Len(s[i]) = 1 /\ s[i][1] = lines[i] /\ 1 \in 1..Len(s[i])
    BY <2>1
  <2> QED BY <1>7, <1>8, <2>2
<1>10. ASSUME NEW c \in Contracts
       PROVE  TidyFor(out, c) /\ \A t : Holds(lines, c, t) => Holds(out, c, t)
  <2> DEFINE pos == [i \in 1..(n + 1) |-> off[i - 1] + 1]
  <2>1. \A i \in 1..n : /\ pos[i] = off[i - 1] + 1 /\ i + 1 \in 1..(n + 1)
                        /\ (i + 1) - 1 = i /\ pos[i + 1] = off[i] + 1
    <3> SUFFICES ASSUME NEW i \in 1..n
                 PROVE  /\ pos[i] = off[i - 1] + 1 /\ i + 1 \in 1..(n + 1)
                        /\ (i + 1) - 1 = i /\ pos[i + 1] = off[i] + 1
      OBVIOUS
    <3>1. i \in 1..(n + 1) /\ i + 1 \in 1..(n + 1) /\ (i + 1) - 1 = i
      BY <1>1
    <3>2. pos[i + 1] = off[(i + 1) - 1] + 1
      BY <3>1
    <3> QED BY <3>1, <3>2
  <2> HIDE DEF pos
  <2>2. ASSUME NEW i \in DOMAIN lines, lines[i][2] = c, lines[i][1] \in Marks
        PROVE  /\ pos[i] \in DOMAIN out /\ out[pos[i]] = lines[i]
               /\ lines[i][1] \in {"begin", "scoped"} => pos[i + 1] = pos[i] + 1
    BY <1>1, <1>9, <2>1, <2>2
  <2>3. ASSUME NEW j \in DOMAIN out, out[j][2] = c, out[j][1] \in Marks
        PROVE  \E i \in DOMAIN lines : /\ lines[i][2] = c /\ lines[i][1] \in Marks
                                       /\ pos[i] = j
    <3>1. PICK i \in 1..n : \E k \in 1..Len(s[i]) : j = off[i - 1] + k
      BY <1>8
    <3>2. PICK k \in 1..Len(s[i]) : j = off[i - 1] + k
      BY <3>1
    <3>3. out[j] = s[i][k]
      BY <1>8, <3>2
    <3>4. lines[i][1] \in Marks
      BY <1>3, <2>3, <3>3
    <3>5. s[i] = <<lines[i]>>
      BY <1>3, <3>4
    <3>6. k = 1 /\ s[i][k] = lines[i]
      BY <3>5
    <3> QED BY <1>1, <2>1, <2>3, <3>2, <3>3, <3>4, <3>6
  <2>4. Carries(lines, out, pos, c)
    BY <2>2, <2>3 DEF Carries
  <2>5. TidyFor(lines, c) /\ lines \in Seq(RegistryLines) /\ out \in Seq(RegistryLines)
    BY <1>6 DEF Tidy, T
  <2> QED BY <2>4, <2>5, CarriedIsTidy
<1>11. Tidy(out)
  BY <1>6, <1>10 DEF Tidy, T
<1>12. ASSUME NEW task, task.verb = "repair" PROVE Rest(out, task) = Rest(lines, task)
  <2> DEFINE upto(m) == [i \in 1..m |-> s[i]]
             S == {m \in 0..n : Rest(FlattenSeq(upto(m)), task) = Rest(SubSeq(lines, 1, m), task)}
  <2>1. 0 \in S
    <3>1. upto(0) = <<>> /\ Len(upto(0)) = 0
      OBVIOUS
    <3>2. FlattenSeq(upto(0)) = <<>>
      BY <3>1 DEF FlattenSeq
    <3>3. SubSeq(lines, 1, 0) = <<>>
      BY <1>1, FirstOnes
    <3>4. 0 \in 0..n
      BY <1>1
    <3>5. Rest(FlattenSeq(upto(0)), task) = Rest(SubSeq(lines, 1, 0), task)
      <4> HIDE DEF upto
      <4> QED BY <3>2, <3>3
    <3> HIDE DEF upto
    <3> QED BY <3>4, <3>5
  <2>2. ASSUME NEW m \in 0..n, m \in S, m < n PROVE m + 1 \in S
    <3>1. m + 1 \in 1..n /\ m + 1 \in 0..n /\ m \in Nat
      BY <1>1, <2>2
    <3>2. PICK r \in [1..m -> Seq(T)] : r = upto(m) /\ \A i \in 1..m : r[i] = s[i]
      <4>1. \A i \in 1..m : i \in 1..n
        BY <1>1
      <4>2. \A i \in 1..m : s[i] \in Seq(T)
        BY <1>4, <4>1
      <4>3. upto(m) \in [1..m -> Seq(T)] /\ \A i \in 1..m : upto(m)[i] = s[i]
        BY <4>2
      <4> HIDE DEF upto
      <4> QED BY <4>3
    <3>3. PICK u \in [1..(m + 1) -> Seq(T)] : u = upto(m + 1) /\ \A i \in 1..(m + 1) : u[i] = s[i]
      <4>1. \A i \in 1..(m + 1) : i \in 1..n
        BY <1>1, <2>2
      <4>2. \A i \in 1..(m + 1) : s[i] \in Seq(T)
        BY <1>4, <4>1
      <4>3. upto(m + 1) \in [1..(m + 1) -> Seq(T)] /\ \A i \in 1..(m + 1) : upto(m + 1)[i] = s[i]
        BY <4>2
      <4> HIDE DEF upto
      <4> QED BY <4>3
    <3>4. \A i \in 1..m : r[i] = u[i]
      BY <3>1, <3>2, <3>3
    <3>5. FlattenSeq(u) = FlattenSeq(r) \o u[m + 1]
      BY <3>1, <3>4, FlattenOneMore
    <3>6. u[m + 1] = s[m + 1]
      BY <3>1, <3>3
    <3>7. FlattenSeq(r) \in Seq(RegistryLines) /\ s[m + 1] \in Seq(RegistryLines)
      <4>1. FlattenSeq(r) \in Seq(T)
        BY <3>1, FlattenPositions
      <4> QED BY <1>3, <3>1, <4>1 DEF T
    <3>8. Rest(FlattenSeq(u), task) = Rest(FlattenSeq(r), task) \o Kept(lines[m + 1], task)
      <4>1. Rest(FlattenSeq(r) \o s[m + 1], task) = Rest(FlattenSeq(r), task) \o Rest(s[m + 1], task)
        BY <3>7, RestConcat
      <4>2. Rest(s[m + 1], task) = Kept(lines[m + 1], task)
        BY <1>3, <1>12, <3>1
      <4> QED BY <3>5, <3>6, <4>1, <4>2
    <3>9. /\ SubSeq(lines, 1, m) \in Seq(RegistryLines) /\ lines[m + 1] \in RegistryLines
          /\ SubSeq(lines, 1, m + 1) = Append(SubSeq(lines, 1, m), lines[m + 1])
      BY <1>1, <2>2, FirstOnes DEF T, n
    <3>10. Rest(SubSeq(lines, 1, m + 1), task) = Rest(SubSeq(lines, 1, m), task) \o Kept(lines[m + 1], task)
      BY <3>9, RestOneMore
    <3> QED BY <2>2, <3>1, <3>2, <3>3, <3>8, <3>10
  <2>3. \A m \in 0..n : m \in S
    <3> HIDE DEF S
    <3> QED BY <1>1, <2>1, <2>2, OneByOne
  <2>4. n \in 0..n /\ upto(n) = s
    BY <1>1, <1>4
  <2>5. SubSeq(lines, 1, n) = lines
    BY <1>1, FirstOnes DEF n
  <2>6. n \in S
    BY <2>3, <2>4
  <2>7. Rest(FlattenSeq(upto(n)), task) = Rest(SubSeq(lines, 1, n), task)
    BY <2>6
  <2> HIDE DEF upto, S
  <2> QED BY <1>2, <2>4, <2>5, <2>7
<1> QED BY <1>10, <1>11, <1>12

(* What a registry is before any run wrote it.                             *)
LEMMA PlainIsTidy ==
  ASSUME NEW lines \in Seq(RegistryLines),
         \A i \in DOMAIN lines : lines[i][1] \notin {"begin", "scoped", "end"},
         \A i, j \in DOMAIN lines : lines[i][1] = "row" /\ lines[j][1] = "row" => i = j
  PROVE  Tidy(lines)
BY DEF Tidy, TidyFor, LineIs

LEMMA KindsOfLine ==
  /\ \A k \in PlainKinds : Line(k) \in RegistryLines /\ Line(k)[1] = k
  /\ \A c \in Contracts : Row(c) \in RegistryLines /\ Row(c)[1] = "row"
BY DEF Line, Row, RegistryLines, PlainKinds, Marks

LEMMA FirstTwo ==
  ASSUME NEW lines \in Seq(RegistryLines), Len(lines) >= 2, NEW s, s = SubSeq(lines, 1, 2)
  PROVE  s \in Seq(RegistryLines) /\ Len(s) = 2 /\ s[1] = lines[1] /\ s[2] = lines[2]
<1>1. Len(lines) \in Nat
  OBVIOUS
<1>2. Cuts(lines, 2, 2)
  BY <1>1 DEF Cuts
<1>3. PICK x, y, z : ThreeParts(lines, 2, 2, x, y, z)
  BY <1>2, Parts
<1>4. 1 \in 1..2 /\ 2 \in 1..2
  OBVIOUS
<1> QED BY <1>3, <1>4 DEF ThreeParts

LEMMA GeneratedIsTidy ==
  ASSUME NEW lines \in Generated
  PROVE  Tidy(lines) /\ Tidy(SubSeq(lines, 1, 2)) /\ lines # <<>>
<1> DEFINE k(x) == Line(x)
<1>0. /\ {"skills", "protocol", "shared", "table"} \subseteq PlainKinds
      /\ \A x \in {"skills", "protocol", "shared", "table"} :
           k(x) \in RegistryLines /\ k(x)[1] = x /\ x \notin {"begin", "scoped", "end", "row"}
  BY KindsOfLine DEF PlainKinds
<1> HIDE DEF k
<1>1. CASE lines = <<k("skills"), k("protocol")>>
  <2>1. /\ lines \in Seq(RegistryLines) /\ Len(lines) = 2 /\ lines # <<>>
        /\ lines[1] = k("skills") /\ lines[2] = k("protocol")
    BY <1>0, <1>1
  <2>2. \A i \in DOMAIN lines : lines[i][1] \notin {"begin", "scoped", "end", "row"}
    BY <1>0, <2>1
  <2>3. Tidy(lines)
    BY <2>1, <2>2, PlainIsTidy
  <2>4. SubSeq(lines, 1, 2) = lines
    BY <2>1, FirstOnes
  <2> QED BY <2>1, <2>3, <2>4
<1>2. CASE lines = <<k("skills"), k("protocol"), k("shared"), k("table")>>
  <2>1. /\ lines \in Seq(RegistryLines) /\ Len(lines) = 4 /\ lines # <<>>
        /\ lines[1] = k("skills") /\ lines[2] = k("protocol")
        /\ lines[3] = k("shared") /\ lines[4] = k("table")
    BY <1>0, <1>2
  <2>2. \A i \in DOMAIN lines : lines[i][1] \notin {"begin", "scoped", "end", "row"}
    <3>1. \A i \in DOMAIN lines : i = 1 \/ i = 2 \/ i = 3 \/ i = 4
      BY <2>1
    <3> QED BY <1>0, <2>1, <3>1
  <2>3. Tidy(lines)
    BY <2>1, <2>2, PlainIsTidy
  <2>4. PICK s : s = SubSeq(lines, 1, 2)
    OBVIOUS
  <2>5. s \in Seq(RegistryLines) /\ Len(s) = 2 /\ s[1] = k("skills") /\ s[2] = k("protocol")
    <3>1. Len(lines) >= 2
      BY <2>1
    <3> QED BY <2>1, <2>4, <3>1, FirstTwo
  <2>6. \A i \in DOMAIN s : s[i][1] \notin {"begin", "scoped", "end", "row"}
    BY <1>0, <2>5
  <2>7. Tidy(s)
    BY <2>5, <2>6, PlainIsTidy
  <2> QED BY <2>1, <2>3, <2>4, <2>7
<1>3. ASSUME NEW c \in Contracts,
             lines = <<k("shared"), k("table"), Row(c), k("skills"), k("protocol")>>
      PROVE  Tidy(lines) /\ Tidy(SubSeq(lines, 1, 2)) /\ lines # <<>>
  <2>1. /\ lines \in Seq(RegistryLines) /\ Len(lines) = 5 /\ lines # <<>>
        /\ lines[1] = k("shared") /\ lines[2] = k("table") /\ lines[3] = Row(c)
        /\ lines[4] = k("skills") /\ lines[5] = k("protocol")
    BY <1>0, <1>3, KindsOfLine
  <2>2. /\ \A i \in DOMAIN lines : lines[i][1] \notin {"begin", "scoped", "end"}
        /\ \A i \in DOMAIN lines : lines[i][1] = "row" => i = 3
    <3>1. \A i \in DOMAIN lines : i = 1 \/ i = 2 \/ i = 3 \/ i = 4 \/ i = 5
      BY <2>1
    <3>2. Row(c)[1] = "row"
      BY KindsOfLine
    <3> QED BY <1>0, <2>1, <3>1, <3>2
  <2>3. Tidy(lines)
    BY <2>1, <2>2, PlainIsTidy
  <2>4. PICK s : s = SubSeq(lines, 1, 2)
    OBVIOUS
  <2>5. s \in Seq(RegistryLines) /\ Len(s) = 2 /\ s[1] = k("shared") /\ s[2] = k("table")
    <3>1. Len(lines) >= 2
      BY <2>1
    <3> QED BY <2>1, <2>4, <3>1, FirstTwo
  <2>6. \A i \in DOMAIN s : s[i][1] \notin {"begin", "scoped", "end", "row"}
    BY <1>0, <2>5
  <2>7. Tidy(s)
    BY <2>5, <2>6, PlainIsTidy
  <2> QED BY <2>1, <2>3, <2>4, <2>7
<1> QED BY <1>1, <1>2, <1>3 DEF Generated, FreshRegistry, k

LEMMA FreshIsGenerated == FreshRegistry \in Generated
BY DEF Generated

LEMMA NothingIsTidy == Tidy(<<>>)
<1>1. <<>> \in Seq(RegistryLines) /\ DOMAIN <<>> = {}
  OBVIOUS
<1> QED BY <1>1 DEF Tidy, TidyFor, LineIs

LEMMA OlderIsTidy == ASSUME NEW lines \in Older PROVE Tidy(lines)
<1>1. PICK c \in Contracts, d \in Contracts :
        lines = Propagated(Propagated(FreshRegistry, c, 0), d, 0)
  BY DEF Older
<1>2. Tidy(FreshRegistry) /\ 0 \in Nat
  BY FreshIsGenerated, GeneratedIsTidy
<1>3. PICK x : x = Propagated(FreshRegistry, c, 0)
  OBVIOUS
<1>4. Tidy(x)
  BY <1>2, <1>3, PropagatedEffect
<1> QED BY <1>1, <1>2, <1>3, <1>4, PropagatedEffect

(* A tidy registry has at most one row of a contract, scoped or not.       *)
LEMMA TidyHasOneRow ==
  ASSUME NEW lines, Tidy(lines), NEW c \in Contracts
  PROVE  Cardinality({i \in DOMAIN lines : lines[i][1] \in {"row", "scoped"} /\ lines[i][2] = c}) <= 1
<1> DEFINE S == {i \in DOMAIN lines : lines[i][1] \in {"row", "scoped"} /\ lines[i][2] = c}
<1>1. ASSUME NEW i \in S, NEW j \in S PROVE i = j
  BY DEF Tidy, TidyFor, LineIs
<1>2. CASE S = {}
  BY <1>2, FS_EmptySet
<1>3. CASE S # {}
  <2>1. PICK i \in S : S = {i}
    BY <1>1, <1>3
  <2>2. Cardinality({i}) = 1
    BY FS_Singleton
  <2>3. Cardinality(S) = 1
    <3> HIDE DEF S
    <3> QED BY <2>1, <2>2
  <2> QED BY <2>3
<1> QED BY <1>2, <1>3

-----------------------------------------------------------------------------
(* The invariant of the runs and the refresh.                              *)
RunPhases == {"idle", "waiting", "contract", "registry", "writing", "checking"}
RunStates ==
  [at : RunPhases, job : Jobs, text : Nat, out : Seq(RegistryLines), attempt : 0 .. MaxAttempts,
   saw : SUBSET {"absent", "empty", "write"}, raced : {"no", "now", "earlier"}]
Blames == {"lost", "unverified", "inconsistent"}

(* A run that will write has every block another run vouched for, and of   *)
(* what it leaves alone all that is there.                                 *)
WritesWell(p) ==
  /\ Tidy(active[p].out)
  /\ \A c \in Contracts : settled[c] > 0 /\ (IsPropagation(p) => c # active[p].job.contract)
       => Holds(active[p].out, c, settled[c])
  /\ active[p].raced # "now" /\ skillRegistry.there
       => Rest(active[p].out, active[p].job) = Rest(Lines, active[p].job)

(* What a run saw is so still, when no refresh came in between.            *)
SawRight(p) ==
  /\ "absent" \in active[p].saw => ~skillRegistry.there
  /\ "empty" \in active[p].saw => skillRegistry.there /\ Lines = <<>>
  /\ "write" \notin active[p].saw
  /\ active[p].at \in {"writing", "checking"} /\ IsPropagation(p) => active[p].saw = {}
  /\ active[p].at = "checking" => Stayed(p)

RunOK(p) ==
  /\ (registryLock = p) <=> active[p].at \notin {"idle", "waiting"}
  /\ active[p].at \in {"idle", "waiting"} => active[p].saw = {}
  /\ active[p].at \in {"contract", "checking"} => IsPropagation(p)
  /\ active[p].at = "writing" => WritesWell(p)
  /\ active[p].at \in {"writing", "checking"} /\ IsPropagation(p)
       => Holds(active[p].out, active[p].job.contract, active[p].text)
  /\ active[p].raced = "no" => SawRight(p)
  /\ answer[p] \in Blames => active[p].raced # "no"

ContractTypes ==
  /\ skillRegistry \in [there : BOOLEAN, lines : Seq(RegistryLines)]
  /\ contractText \in [Contracts -> 1 .. MaxContractEdits + 1]
  /\ registryLock \in Runs \cup {NoHolder}
  /\ active \in [Runs -> RunStates]
  /\ answer \in [Runs -> Answers]
  /\ refresh \in [at : {"idle", "gone", "cut", "part"}, fresh : Generated \cup {<<>>}, linked : BOOLEAN]
  /\ settled \in [Contracts -> Nat]
RegistryIsTidy ==
  /\ Tidy(Lines) /\ (skillRegistry.there \/ Lines = <<>>)
  /\ refresh.at # "idle" => refresh.fresh \in Generated
ContractInv ==
  ContractTypes /\ RegistryIsTidy /\ SettledIsHeld /\ \A p \in Runs : RunOK(p)

(* What one run becomes, field by field.                                   *)
RunBecomes(p, phase, task, text, out, attempt, saw, raced) ==
  active' = [active EXCEPT ![p] = [at |-> phase, job |-> task, text |-> text, out |-> out,
                                   attempt |-> attempt, saw |-> saw, raced |-> raced]]

RunParts(phase, task, text, out, attempt, saw, raced) ==
  /\ phase \in RunPhases /\ task \in Jobs /\ text \in Nat /\ out \in Seq(RegistryLines)
  /\ attempt \in 0 .. MaxAttempts /\ saw \in SUBSET {"absent", "empty", "write"}
  /\ raced \in {"no", "now", "earlier"}
RunBecame(p, phase, task, text, out, attempt, saw, raced) ==
  /\ active' \in [Runs -> RunStates]
  /\ active'[p].at = phase /\ active'[p].job = task /\ active'[p].text = text
  /\ active'[p].out = out /\ active'[p].attempt = attempt /\ active'[p].saw = saw
  /\ active'[p].raced = raced
  /\ \A q \in Runs : q # p => active'[q] = active[q]

LEMMA BecomesParts ==
  ASSUME active \in [Runs -> RunStates], NEW p \in Runs, NEW phase, NEW task, NEW text, NEW out,
         NEW attempt, NEW saw, NEW raced, RunParts(phase, task, text, out, attempt, saw, raced),
         RunBecomes(p, phase, task, text, out, attempt, saw, raced)
  PROVE  RunBecame(p, phase, task, text, out, attempt, saw, raced)
<1>1. PICK r : r = [at |-> phase, job |-> task, text |-> text, out |-> out,
                    attempt |-> attempt, saw |-> saw, raced |-> raced]
  OBVIOUS
<1>2. r \in RunStates
  BY <1>1 DEF RunStates, RunParts
<1>3. /\ r.at = phase /\ r.job = task /\ r.text = text /\ r.out = out /\ r.attempt = attempt
      /\ r.saw = saw /\ r.raced = raced
  BY <1>1
<1>4. active' = [active EXCEPT ![p] = r]
  BY <1>1 DEF RunBecomes
<1> HIDE <1>1
<1> QED BY <1>2, <1>3, <1>4 DEF RunBecame

LEMMA RunFields ==
  ASSUME active \in [Runs -> RunStates], NEW p \in Runs
  PROVE  /\ active[p] = [at |-> active[p].at, job |-> active[p].job, text |-> active[p].text,
                         out |-> active[p].out, attempt |-> active[p].attempt,
                         saw |-> active[p].saw, raced |-> active[p].raced]
         /\ active[p].at \in RunPhases /\ active[p].job \in Jobs /\ active[p].text \in Nat
         /\ active[p].out \in Seq(RegistryLines) /\ active[p].attempt \in 0 .. MaxAttempts
         /\ active[p].saw \in SUBSET {"absent", "empty", "write"}
         /\ active[p].raced \in {"no", "now", "earlier"}
<1>1. PICK r \in RunStates : r = active[p]
  OBVIOUS
<1>2. /\ r = [at |-> r.at, job |-> r.job, text |-> r.text, out |-> r.out, attempt |-> r.attempt,
              saw |-> r.saw, raced |-> r.raced]
      /\ r.at \in RunPhases /\ r.job \in Jobs /\ r.text \in Nat
      /\ r.out \in Seq(RegistryLines) /\ r.attempt \in 0 .. MaxAttempts
      /\ r.saw \in SUBSET {"absent", "empty", "write"}
      /\ r.raced \in {"no", "now", "earlier"}
  BY DEF RunStates
<1> QED BY <1>1, <1>2

LEMMA IdleJob ==
  /\ Idle.job \in Jobs /\ Idle.job.verb = "repair"
  /\ Idle = [at |-> "idle", job |-> Idle.job, text |-> 0, out |-> <<>>, attempt |-> 0,
             saw |-> {}, raced |-> "no"]
BY DEF Idle, Jobs

LEMMA EndsBecomes ==
  ASSUME NEW p, NEW said, RunEnds(p, said)
  PROVE  RunBecomes(p, "idle", Idle.job, 0, <<>>, 0, {}, active[p].raced)
<1>1. [Idle EXCEPT !.raced = active[p].raced]
        = [at |-> "idle", job |-> Idle.job, text |-> 0, out |-> <<>>,
           attempt |-> 0, saw |-> {}, raced |-> active[p].raced]
  <2>1. PICK r : r = Idle /\ r = [at |-> "idle", job |-> Idle.job, text |-> 0, out |-> <<>>,
                        attempt |-> 0, saw |-> {}, raced |-> "no"]
    BY IdleJob
  <2>2. PICK g : g = [r EXCEPT !.raced = active[p].raced]
    OBVIOUS
  <2>3. DOMAIN g = {"at", "job", "text", "out", "attempt", "saw", "raced"}
    BY <2>1, <2>2
  <2>4. /\ g.at = "idle" /\ g.job = Idle.job /\ g.text = 0 /\ g.out = <<>>
        /\ g.attempt = 0 /\ g.saw = {} /\ g.raced = active[p].raced
    BY <2>1, <2>2
  <2>5. g = [f \in {"at", "job", "text", "out", "attempt", "saw", "raced"} |-> g[f]]
    BY <2>2, <2>3
  <2>6. g = [at |-> "idle", job |-> Idle.job, text |-> 0, out |-> <<>>,
               attempt |-> 0, saw |-> {}, raced |-> active[p].raced]
    BY <2>3, <2>4, <2>5
  <2> QED BY <2>1, <2>2, <2>6
<1> QED BY <1>1 DEF RunEnds, RunBecomes

LEMMA CommandsBecomes ==
  ASSUME NEW p, NEW task, Commands(p, task)
  PROVE  RunBecomes(p, "waiting", task, 0, <<>>, 0, {}, "no")
<1>1. [Idle EXCEPT !.at = "waiting", !.job = task]
        = [at |-> "waiting", job |-> task, text |-> 0, out |-> <<>>,
           attempt |-> 0, saw |-> {}, raced |-> "no"]
  <2>1. PICK r : r = Idle /\ r = [at |-> "idle", job |-> Idle.job, text |-> 0, out |-> <<>>,
                        attempt |-> 0, saw |-> {}, raced |-> "no"]
    BY IdleJob
  <2>2. PICK g : g = [r EXCEPT !.at = "waiting", !.job = task]
    OBVIOUS
  <2>3. DOMAIN g = {"at", "job", "text", "out", "attempt", "saw", "raced"}
    BY <2>1, <2>2
  <2>4. /\ g.at = "waiting" /\ g.job = task /\ g.text = 0 /\ g.out = <<>>
        /\ g.attempt = 0 /\ g.saw = {} /\ g.raced = "no"
    BY <2>1, <2>2
  <2>5. g = [f \in {"at", "job", "text", "out", "attempt", "saw", "raced"} |-> g[f]]
    BY <2>2, <2>3
  <2>6. g = [at |-> "waiting", job |-> task, text |-> 0, out |-> <<>>,
               attempt |-> 0, saw |-> {}, raced |-> "no"]
    BY <2>3, <2>4, <2>5
  <2> QED BY <2>1, <2>2, <2>6
<1> QED BY <1>1 DEF Commands, RunBecomes

LEMMA TakesBecomes ==
  ASSUME active \in [Runs -> RunStates], NEW p \in Runs, TakesLock(p)
  PROVE  \E phase \in {"contract", "registry"} :
           RunBecomes(p, phase, active[p].job, active[p].text, active[p].out, 1, active[p].saw, active[p].raced)
<1>1. PICK phase \in {"contract", "registry"} :
        active' = [active EXCEPT ![p].at = phase, ![p].attempt = 1]
  BY DEF TakesLock
<1>2. [active[p] EXCEPT !.at = phase, !.attempt = 1]
        = [at |-> phase, job |-> active[p].job, text |-> active[p].text, out |-> active[p].out,
           attempt |-> 1, saw |-> active[p].saw, raced |-> active[p].raced]
  <2>1. PICK r : r = active[p] /\ r = [at |-> active[p].at, job |-> active[p].job, text |-> active[p].text, out |-> active[p].out,
                        attempt |-> active[p].attempt, saw |-> active[p].saw, raced |-> active[p].raced]
    BY RunFields
  <2>2. PICK g : g = [r EXCEPT !.at = phase, !.attempt = 1]
    OBVIOUS
  <2>3. DOMAIN g = {"at", "job", "text", "out", "attempt", "saw", "raced"}
    BY <2>1, <2>2
  <2>4. /\ g.at = phase /\ g.job = active[p].job /\ g.text = active[p].text /\ g.out = active[p].out
        /\ g.attempt = 1 /\ g.saw = active[p].saw /\ g.raced = active[p].raced
    BY <2>1, <2>2
  <2>5. g = [f \in {"at", "job", "text", "out", "attempt", "saw", "raced"} |-> g[f]]
    BY <2>2, <2>3
  <2>6. g = [at |-> phase, job |-> active[p].job, text |-> active[p].text, out |-> active[p].out,
               attempt |-> 1, saw |-> active[p].saw, raced |-> active[p].raced]
    BY <2>3, <2>4, <2>5
  <2> QED BY <2>1, <2>2, <2>6
<1> QED BY <1>1, <1>2 DEF RunBecomes

LEMMA ReadsContractBecomes ==
  ASSUME active \in [Runs -> RunStates], NEW p \in Runs,
         NEW text, active' = [active EXCEPT ![p].at = "registry", ![p].text = text]
  PROVE  RunBecomes(p, "registry", active[p].job, text, active[p].out, active[p].attempt,
                 active[p].saw, active[p].raced)
<1>1. [active[p] EXCEPT !.at = "registry", !.text = text]
        = [at |-> "registry", job |-> active[p].job, text |-> text, out |-> active[p].out,
           attempt |-> active[p].attempt, saw |-> active[p].saw, raced |-> active[p].raced]
  <2>1. PICK r : r = active[p] /\ r = [at |-> active[p].at, job |-> active[p].job, text |-> active[p].text, out |-> active[p].out,
                        attempt |-> active[p].attempt, saw |-> active[p].saw, raced |-> active[p].raced]
    BY RunFields
  <2>2. PICK g : g = [r EXCEPT !.at = "registry", !.text = text]
    OBVIOUS
  <2>3. DOMAIN g = {"at", "job", "text", "out", "attempt", "saw", "raced"}
    BY <2>1, <2>2
  <2>4. /\ g.at = "registry" /\ g.job = active[p].job /\ g.text = text /\ g.out = active[p].out
        /\ g.attempt = active[p].attempt /\ g.saw = active[p].saw /\ g.raced = active[p].raced
    BY <2>1, <2>2
  <2>5. g = [f \in {"at", "job", "text", "out", "attempt", "saw", "raced"} |-> g[f]]
    BY <2>2, <2>3
  <2>6. g = [at |-> "registry", job |-> active[p].job, text |-> text, out |-> active[p].out,
               attempt |-> active[p].attempt, saw |-> active[p].saw, raced |-> active[p].raced]
    BY <2>3, <2>4, <2>5
  <2> QED BY <2>1, <2>2, <2>6
<1> QED BY <1>1 DEF RunBecomes

LEMMA RetriesBecomes ==
  ASSUME active \in [Runs -> RunStates], NEW p \in Runs, NEW found, Retries(p, found)
  PROVE  RunBecomes(p, "contract", active[p].job, active[p].text, active[p].out, active[p].attempt + 1,
                 active[p].saw \cup {found}, active[p].raced)
<1>1. PICK k, s : k = active[p].attempt + 1 /\ s = active[p].saw \cup {found}
  OBVIOUS
<1>2. active' = [active EXCEPT ![p].at = "contract", ![p].attempt = k, ![p].saw = s]
  BY <1>1 DEF Retries
<1>3. [active[p] EXCEPT !.at = "contract", !.attempt = k, !.saw = s]
        = [at |-> "contract", job |-> active[p].job, text |-> active[p].text, out |-> active[p].out,
           attempt |-> k, saw |-> s, raced |-> active[p].raced]
  <2>1. PICK r : r = active[p] /\ r = [at |-> active[p].at, job |-> active[p].job, text |-> active[p].text, out |-> active[p].out,
                        attempt |-> active[p].attempt, saw |-> active[p].saw, raced |-> active[p].raced]
    BY RunFields
  <2>2. PICK g : g = [r EXCEPT !.at = "contract", !.attempt = k, !.saw = s]
    OBVIOUS
  <2>3. DOMAIN g = {"at", "job", "text", "out", "attempt", "saw", "raced"}
    BY <2>1, <2>2
  <2>4. /\ g.at = "contract" /\ g.job = active[p].job /\ g.text = active[p].text /\ g.out = active[p].out
        /\ g.attempt = k /\ g.saw = s /\ g.raced = active[p].raced
    BY <2>1, <2>2
  <2>5. g = [f \in {"at", "job", "text", "out", "attempt", "saw", "raced"} |-> g[f]]
    BY <2>2, <2>3
  <2>6. g = [at |-> "contract", job |-> active[p].job, text |-> active[p].text, out |-> active[p].out,
               attempt |-> k, saw |-> s, raced |-> active[p].raced]
    BY <2>3, <2>4, <2>5
  <2> QED BY <2>1, <2>2, <2>6
<1> QED BY <1>1, <1>2, <1>3 DEF RunBecomes

LEMMA WillWriteBecomes ==
  ASSUME active \in [Runs -> RunStates], NEW p \in Runs, NEW lines, WillWrite(p, lines)
  PROVE  \E raced \in {"no", "earlier"} :
           /\ RunBecomes(p, "writing", active[p].job, active[p].text, lines, active[p].attempt,
                      active[p].saw, raced)
           /\ raced = "no" => active[p].raced = "no"
<1>1. PICK raced : raced = IF active[p].raced = "now" THEN "earlier" ELSE active[p].raced
  OBVIOUS
<1>2. active' = [active EXCEPT ![p].at = "writing", ![p].out = lines, ![p].raced = raced]
  BY <1>1 DEF WillWrite
<1>3. [active[p] EXCEPT !.at = "writing", !.out = lines, !.raced = raced]
        = [at |-> "writing", job |-> active[p].job, text |-> active[p].text, out |-> lines,
           attempt |-> active[p].attempt, saw |-> active[p].saw, raced |-> raced]
  <2>1. PICK r : r = active[p] /\ r = [at |-> active[p].at, job |-> active[p].job, text |-> active[p].text, out |-> active[p].out,
                        attempt |-> active[p].attempt, saw |-> active[p].saw, raced |-> active[p].raced]
    BY RunFields
  <2>2. PICK g : g = [r EXCEPT !.at = "writing", !.out = lines, !.raced = raced]
    OBVIOUS
  <2>3. DOMAIN g = {"at", "job", "text", "out", "attempt", "saw", "raced"}
    BY <2>1, <2>2
  <2>4. /\ g.at = "writing" /\ g.job = active[p].job /\ g.text = active[p].text /\ g.out = lines
        /\ g.attempt = active[p].attempt /\ g.saw = active[p].saw /\ g.raced = raced
    BY <2>1, <2>2
  <2>5. g = [f \in {"at", "job", "text", "out", "attempt", "saw", "raced"} |-> g[f]]
    BY <2>2, <2>3
  <2>6. g = [at |-> "writing", job |-> active[p].job, text |-> active[p].text, out |-> lines,
               attempt |-> active[p].attempt, saw |-> active[p].saw, raced |-> raced]
    BY <2>3, <2>4, <2>5
  <2> QED BY <2>1, <2>2, <2>6
<1>4. raced \in {"no", "earlier"} /\ (raced = "no" => active[p].raced = "no")
  BY <1>1, RunFields
<1> QED BY <1>2, <1>3, <1>4 DEF RunBecomes

LEMMA ChecksBecomes ==
  ASSUME active \in [Runs -> RunStates], NEW p \in Runs,
         active' = [active EXCEPT ![p].at = "checking"]
  PROVE  RunBecomes(p, "checking", active[p].job, active[p].text, active[p].out, active[p].attempt,
                 active[p].saw, active[p].raced)
<1>1. [active[p] EXCEPT !.at = "checking"]
        = [at |-> "checking", job |-> active[p].job, text |-> active[p].text, out |-> active[p].out,
           attempt |-> active[p].attempt, saw |-> active[p].saw, raced |-> active[p].raced]
  <2>1. PICK r : r = active[p] /\ r = [at |-> active[p].at, job |-> active[p].job, text |-> active[p].text, out |-> active[p].out,
                        attempt |-> active[p].attempt, saw |-> active[p].saw, raced |-> active[p].raced]
    BY RunFields
  <2>2. PICK g : g = [r EXCEPT !.at = "checking"]
    OBVIOUS
  <2>3. DOMAIN g = {"at", "job", "text", "out", "attempt", "saw", "raced"}
    BY <2>1, <2>2
  <2>4. /\ g.at = "checking" /\ g.job = active[p].job /\ g.text = active[p].text /\ g.out = active[p].out
        /\ g.attempt = active[p].attempt /\ g.saw = active[p].saw /\ g.raced = active[p].raced
    BY <2>1, <2>2
  <2>5. g = [f \in {"at", "job", "text", "out", "attempt", "saw", "raced"} |-> g[f]]
    BY <2>2, <2>3
  <2>6. g = [at |-> "checking", job |-> active[p].job, text |-> active[p].text, out |-> active[p].out,
               attempt |-> active[p].attempt, saw |-> active[p].saw, raced |-> active[p].raced]
    BY <2>3, <2>4, <2>5
  <2> QED BY <2>1, <2>2, <2>6
<1> QED BY <1>1 DEF RunBecomes

(* The runs that do not act: one acts on the registry only with the lock,  *)
(* and then no other has read or written anything.                         *)
LEMMA OneRunActs ==
  ASSUME NEW p \in Runs, active' \in [Runs -> RunStates], \A q \in Runs : RunOK(q), RunOK(p)',
         \A q \in Runs : q # p => /\ active'[q] = active[q] /\ answer'[q] = answer[q]
                                  /\ (registryLock' = q) <=> (registryLock = q),
         registryLock = p \/ (skillRegistry' = skillRegistry /\ settled' = settled)
  PROVE  \A q \in Runs : RunOK(q)'
<1> SUFFICES ASSUME NEW q \in Runs, q # p PROVE RunOK(q)'
  OBVIOUS
<1>1. /\ active'[q] = active[q] /\ answer'[q] = answer[q]
      /\ (registryLock' = q) <=> (registryLock = q)
      /\ RunOK(q)
  OBVIOUS
<1>2. CASE registryLock = p
  <2>1. active[q].at \in {"idle", "waiting"} /\ active[q].saw = {}
    BY <1>1, <1>2 DEF RunOK
  <2> QED BY <1>1, <2>1 DEF RunOK, SawRight
<1>3. CASE skillRegistry' = skillRegistry /\ settled' = settled
  <2>1. WritesWell(q) => WritesWell(q)'
    BY <1>1, <1>3 DEF WritesWell, IsPropagation, Lines
  <2>2. SawRight(q) => SawRight(q)'
    BY <1>1, <1>3 DEF SawRight, Lines, Stayed, IsPropagation
  <2> QED BY <1>1, <2>1, <2>2 DEF RunOK, IsPropagation
<1> QED BY <1>2, <1>3

(* A command that ends.                                                    *)
LEMMA RunEndsOK ==
  ASSUME ContractTypes, NEW p \in Runs, NEW said \in Answers, RunEnds(p, said),
         said \in Blames => active[p].raced # "no"
  PROVE  /\ active' \in [Runs -> RunStates] /\ answer' \in [Runs -> Answers]
         /\ registryLock' \in Runs \cup {NoHolder}
         /\ RunOK(p)'
         /\ \A q \in Runs : q # p => /\ active'[q] = active[q] /\ answer'[q] = answer[q]
                                     /\ (registryLock' = q) <=> (registryLock = q)
<1>1. active \in [Runs -> RunStates] /\ active[p].raced \in {"no", "now", "earlier"}
  BY RunFields DEF ContractTypes
<1>2. "idle" \in RunPhases /\ 0 \in 0 .. MaxAttempts /\ <<>> \in Seq(RegistryLines) /\ 0 \in Nat
  BY MaxAttemptsAssumption DEF RunPhases
<1>3. /\ active' \in [Runs -> RunStates]
      /\ active'[p].at = "idle" /\ active'[p].saw = {} /\ active'[p].raced = active[p].raced
      /\ \A q \in Runs : q # p => active'[q] = active[q]
  <2>1. RunBecomes(p, "idle", Idle.job, 0, <<>>, 0, {}, active[p].raced)
    BY EndsBecomes
  <2>2. RunParts("idle", Idle.job, 0, <<>>, 0, {}, active[p].raced)
    BY <1>1, <1>2, IdleJob DEF RunParts
  <2>3. RunBecame(p, "idle", Idle.job, 0, <<>>, 0, {}, active[p].raced)
    BY <1>1, <2>1, <2>2, BecomesParts
  <2> QED BY <2>3 DEF RunBecame
<1>4. /\ answer' \in [Runs -> Answers] /\ answer'[p] = said
      /\ \A q \in Runs : q # p => answer'[q] = answer[q]
  BY DEF RunEnds, ContractTypes
<1>5. /\ registryLock' \in Runs \cup {NoHolder} /\ registryLock' # p
      /\ \A q \in Runs : q # p => ((registryLock' = q) <=> (registryLock = q))
  BY NoHolderAssumption DEF RunEnds, ContractTypes
<1>6. RunOK(p)'
  BY <1>3, <1>4, <1>5 DEF RunOK, SawRight
<1> QED BY <1>3, <1>4, <1>5, <1>6

(* What follows for the whole invariant when one run acts.                 *)
LEMMA RunActsInv ==
  ASSUME ContractInv, NEW p \in Runs, active' \in [Runs -> RunStates], answer' \in [Runs -> Answers],
         registryLock' \in Runs \cup {NoHolder}, RunOK(p)',
         \A q \in Runs : q # p => /\ active'[q] = active[q] /\ answer'[q] = answer[q]
                                  /\ (registryLock' = q) <=> (registryLock = q),
         UNCHANGED <<skillRegistry, contractText, refresh, settled>>
  PROVE  ContractInv'
<1>1. \A q \in Runs : RunOK(q)'
  <2>1. \A q \in Runs : RunOK(q)
    BY DEF ContractInv
  <2> QED BY <2>1, OneRunActs
<1>2. ContractTypes'
  BY DEF ContractInv, ContractTypes
<1>3. RegistryIsTidy' /\ SettledIsHeld'
  BY DEF ContractInv, RegistryIsTidy, SettledIsHeld, Lines
<1> QED BY <1>1, <1>2, <1>3 DEF ContractInv

LEMMA EndsInv ==
  ASSUME ContractInv, NEW p \in Runs, NEW said \in Answers, RunEnds(p, said),
         said \in Blames => active[p].raced # "no",
         UNCHANGED <<skillRegistry, contractText, refresh, settled>>
  PROVE  ContractInv'
<1>1. ContractTypes
  BY DEF ContractInv
<1> QED BY <1>1, RunEndsOK, RunActsInv

LEMMA KnownAnswers ==
  /\ {"none", "busy", "refused", "failed", "repaired", "unchanged", "written", "absent", "empty",
      "inconsistent", "lost", "unverified"} \subseteq Answers
  /\ \A said \in {"none", "busy", "refused", "failed", "repaired", "unchanged", "written", "absent", "empty"} :
       said \notin Blames
BY DEF Answers, Blames

LEMMA CommandsInv ==
  ASSUME ContractInv, NEW p \in Runs, NEW task \in Jobs, Commands(p, task) PROVE ContractInv'
<1>1. ContractTypes /\ RunOK(p) /\ active[p].at = "idle"
  BY DEF ContractInv, Commands, Does
<1>2. "waiting" \in RunPhases /\ 0 \in 0 .. MaxAttempts /\ <<>> \in Seq(RegistryLines) /\ 0 \in Nat
  BY MaxAttemptsAssumption DEF RunPhases
<1>3. /\ active' \in [Runs -> RunStates]
      /\ active'[p].at = "waiting" /\ active'[p].saw = {} /\ active'[p].raced = "no"
      /\ \A q \in Runs : q # p => active'[q] = active[q]
  <2>1. RunBecomes(p, "waiting", task, 0, <<>>, 0, {}, "no")
    BY CommandsBecomes
  <2>2. active \in [Runs -> RunStates]
    BY <1>1 DEF ContractTypes
  <2>3. RunParts("waiting", task, 0, <<>>, 0, {}, "no")
    BY <1>2 DEF RunParts
  <2>4. RunBecame(p, "waiting", task, 0, <<>>, 0, {}, "no")
    BY <2>1, <2>2, <2>3, BecomesParts
  <2> QED BY <2>4 DEF RunBecame
<1>4. /\ answer' \in [Runs -> Answers] /\ answer'[p] = "none"
      /\ \A q \in Runs : q # p => answer'[q] = answer[q]
  BY <1>1, KnownAnswers DEF Commands, ContractTypes
<1>5. registryLock' = registryLock /\ registryLock # p
  BY <1>1 DEF Commands, RunOK
<1>6. RunOK(p)'
  BY <1>3, <1>4, <1>5, KnownAnswers DEF RunOK, SawRight
<1>7. UNCHANGED <<skillRegistry, contractText, refresh, settled>>
  BY DEF Commands
<1> QED BY <1>1, <1>3, <1>4, <1>5, <1>6, <1>7, RunActsInv DEF ContractTypes

LEMMA TakesLockInv ==
  ASSUME ContractInv, NEW p \in Runs, TakesLock(p) PROVE ContractInv'
<1>1. ContractTypes /\ RunOK(p) /\ active[p].at = "waiting" /\ active \in [Runs -> RunStates]
  BY DEF ContractInv, TakesLock, Does, ContractTypes
<1>2. "contract" \in RunPhases /\ "registry" \in RunPhases /\ 1 \in 0 .. MaxAttempts
  BY MaxAttemptsAssumption DEF RunPhases
<1>3. PICK phase \in {"contract", "registry"} :
        RunBecomes(p, phase, active[p].job, active[p].text, active[p].out, 1, active[p].saw, active[p].raced)
  BY <1>1, TakesBecomes
<1>4. /\ active' \in [Runs -> RunStates]
      /\ active'[p].at = phase /\ active'[p].saw = active[p].saw /\ active'[p].raced = active[p].raced
      /\ active'[p].job = active[p].job
      /\ \A q \in Runs : q # p => active'[q] = active[q]
  <2>1. RunParts(phase, active[p].job, active[p].text, active[p].out, 1, active[p].saw, active[p].raced)
    BY <1>1, <1>2, RunFields DEF RunParts
  <2>2. RunBecame(p, phase, active[p].job, active[p].text, active[p].out, 1, active[p].saw, active[p].raced)
    BY <1>1, <1>3, <2>1, BecomesParts
  <2> QED BY <2>2 DEF RunBecame
<1>5. phase = "contract" => IsPropagation(p)'
  <2>1. CASE IsPropagation(p)
    BY <1>4, <2>1 DEF IsPropagation
  <2>2. CASE ~IsPropagation(p)
    <3>1. active' = [active EXCEPT ![p].at = "registry", ![p].attempt = 1]
      BY <2>2 DEF TakesLock
    <3>2. active'[p].at = "registry"
      BY <1>1, <3>1, RunFields
    <3> QED BY <1>4, <3>2
  <2> QED BY <2>1, <2>2
<1>6. /\ registryLock' = p /\ registryLock = NoHolder /\ answer' = answer
      /\ UNCHANGED <<skillRegistry, contractText, refresh, settled>>
  BY DEF TakesLock
<1>7. RunOK(p)'
  BY <1>1, <1>4, <1>5, <1>6 DEF RunOK, SawRight
<1>8. \A q \in Runs : q # p => ((registryLock' = q) <=> (registryLock = q))
  BY <1>6, NoHolderAssumption
<1> QED BY <1>1, <1>4, <1>6, <1>7, <1>8, RunActsInv DEF ContractTypes

LEMMA ReadsContractInv ==
  ASSUME ContractInv, NEW p \in Runs, ReadsContract(p) PROVE ContractInv'
<1>1. /\ ContractTypes /\ RunOK(p) /\ active[p].at = "contract" /\ active \in [Runs -> RunStates]
      /\ UNCHANGED <<skillRegistry, contractText, refresh, settled>>
  BY DEF ContractInv, ReadsContract, Does, ContractTypes
<1>2. CASE RunEnds(p, "refused")
  BY <1>1, <1>2, KnownAnswers, EndsInv
<1>3. ASSUME NEW text, text = contractText[active[p].job.contract],
             active' = [active EXCEPT ![p].at = "registry", ![p].text = text],
             UNCHANGED <<answer, registryLock>>
      PROVE  ContractInv'
  <2>1. active[p].job.contract \in Contracts
    BY <1>1, RunFields DEF RunOK, IsPropagation, Jobs
  <2>2. text \in Nat
    BY <1>1, <1>3, <2>1 DEF ContractTypes
  <2>3. "registry" \in RunPhases
    BY DEF RunPhases
  <2>4. RunBecomes(p, "registry", active[p].job, text, active[p].out, active[p].attempt,
                active[p].saw, active[p].raced)
    BY <1>1, <1>3, ReadsContractBecomes
  <2>5. /\ active' \in [Runs -> RunStates]
        /\ active'[p].at = "registry" /\ active'[p].saw = active[p].saw
        /\ active'[p].raced = active[p].raced
        /\ \A q \in Runs : q # p => active'[q] = active[q]
    <3>1. RunParts("registry", active[p].job, text, active[p].out, active[p].attempt,
                   active[p].saw, active[p].raced)
      BY <1>1, <2>2, <2>3, RunFields DEF RunParts
    <3>2. RunBecame(p, "registry", active[p].job, text, active[p].out, active[p].attempt,
                 active[p].saw, active[p].raced)
      BY <1>1, <2>4, <3>1, BecomesParts
    <3> QED BY <3>2 DEF RunBecame
  <2>6. RunOK(p)'
    BY <1>1, <1>3, <2>5 DEF RunOK, SawRight, Lines
  <2> QED BY <1>1, <1>3, <2>5, <2>6, RunActsInv DEF ContractTypes
<1> QED BY <1>2, <1>3 DEF ReadsContract

LEMMA HolderActsInv ==
  ASSUME ContractInv, NEW p \in Runs, registryLock = p, RunOK(p)',
         active' \in [Runs -> RunStates], answer' \in [Runs -> Answers],
         registryLock' \in Runs \cup {NoHolder},
         skillRegistry' \in [there : BOOLEAN, lines : Seq(RegistryLines)],
         refresh' \in [at : {"idle", "gone", "cut", "part"}, fresh : Generated \cup {<<>>}, linked : BOOLEAN],
         settled' \in [Contracts -> Nat],
         \A q \in Runs : q # p => /\ active'[q] = active[q] /\ answer'[q] = answer[q]
                                  /\ (registryLock' = q) <=> (registryLock = q),
         RegistryIsTidy', SettledIsHeld', contractText' = contractText
  PROVE  ContractInv'
<1>1. \A q \in Runs : RunOK(q)'
  <2>1. \A q \in Runs : RunOK(q)
    BY DEF ContractInv
  <2> QED BY <2>1, OneRunActs
<1>2. ContractTypes'
  BY DEF ContractInv, ContractTypes
<1> QED BY <1>1, <1>2 DEF ContractInv

(* A run that has decided what the registry should be.                     *)
LEMMA WillWriteInv ==
  ASSUME ContractInv, NEW p \in Runs, active[p].at = "registry", NEW lines, WillWrite(p, lines),
         Tidy(lines),
         \A c \in Contracts : settled[c] > 0 /\ (IsPropagation(p) => c # active[p].job.contract)
           => Holds(lines, c, settled[c]),
         skillRegistry.there => Rest(lines, active[p].job) = Rest(Lines, active[p].job),
         IsPropagation(p) => /\ Holds(lines, active[p].job.contract, active[p].text)
                             /\ skillRegistry.there /\ Lines # <<>>,
         UNCHANGED <<skillRegistry, contractText, refresh, settled>>
  PROVE  ContractInv'
<1>1. /\ ContractTypes /\ RunOK(p) /\ active \in [Runs -> RunStates]
  BY DEF ContractInv, ContractTypes
<1>2. PICK raced \in {"no", "earlier"} :
        /\ RunBecomes(p, "writing", active[p].job, active[p].text, lines, active[p].attempt,
                   active[p].saw, raced)
        /\ raced = "no" => active[p].raced = "no"
  BY <1>1, WillWriteBecomes
<1>3. RunBecame(p, "writing", active[p].job, active[p].text, lines, active[p].attempt,
             active[p].saw, raced)
  <2>1. RunParts("writing", active[p].job, active[p].text, lines, active[p].attempt,
                 active[p].saw, raced)
    BY <1>1, <1>2, RunFields DEF RunParts, RunPhases, Tidy
  <2> QED BY <1>1, <1>2, <2>1, BecomesParts
<1>4. /\ active' \in [Runs -> RunStates]
      /\ active'[p].at = "writing" /\ active'[p].job = active[p].job
      /\ active'[p].text = active[p].text /\ active'[p].out = lines
      /\ active'[p].saw = active[p].saw /\ active'[p].raced = raced
      /\ \A q \in Runs : q # p => active'[q] = active[q]
  BY <1>3 DEF RunBecame
<1>5. UNCHANGED <<answer, registryLock>>
  BY DEF WillWrite
<1>6. WritesWell(p)'
  BY <1>4 DEF WritesWell, IsPropagation, Lines
<1>7. raced = "no" => SawRight(p)'
  <2> SUFFICES ASSUME raced = "no" PROVE SawRight(p)'
    OBVIOUS
  <2>1. SawRight(p)
    BY <1>1, <1>2 DEF RunOK
  <2>2. IsPropagation(p) => active[p].saw = {}
    BY <1>1, <2>1, RunFields DEF SawRight
  <2> QED BY <1>4, <2>1, <2>2 DEF SawRight, Lines, IsPropagation
<1>8. RunOK(p)'
  BY <1>1, <1>4, <1>5, <1>6, <1>7, <1>2 DEF RunOK, IsPropagation
<1> QED BY <1>1, <1>4, <1>5, <1>8, RunActsInv DEF ContractTypes

(* A pass that is no answer.                                               *)
LEMMA RetriesInv ==
  ASSUME ContractInv, NEW p \in Runs, active[p].at \in {"registry", "checking"}, IsPropagation(p),
         ~LastAttempt(p), NEW found \in {"absent", "empty", "write"},
         Retries(p, found), UNCHANGED <<answer, registryLock>>,
         active[p].raced = "no" => /\ found = "absent" => ~skillRegistry.there
                                   /\ found = "empty" => skillRegistry.there /\ Lines = <<>>
                                   /\ found # "write",
         UNCHANGED <<skillRegistry, contractText, refresh, settled>>
  PROVE  ContractInv'
<1>1. /\ ContractTypes /\ RunOK(p) /\ active \in [Runs -> RunStates]
  BY DEF ContractInv, ContractTypes
<1>2. RunBecomes(p, "contract", active[p].job, active[p].text, active[p].out, active[p].attempt + 1,
              active[p].saw \cup {found}, active[p].raced)
  BY <1>1, RetriesBecomes
<1>3. RunParts("contract", active[p].job, active[p].text, active[p].out, active[p].attempt + 1,
               active[p].saw \cup {found}, active[p].raced)
  <2>1. active[p].attempt \in 0 .. MaxAttempts /\ active[p].attempt # MaxAttempts
    BY <1>1, RunFields DEF LastAttempt
  <2>2. active[p].attempt + 1 \in 0 .. MaxAttempts
    BY <2>1, MaxAttemptsAssumption
  <2>3. active[p].saw \cup {found} \in SUBSET {"absent", "empty", "write"}
    BY <1>1, RunFields
  <2>4. "contract" \in RunPhases
    BY DEF RunPhases
  <2> QED BY <1>1, <2>2, <2>3, <2>4, RunFields DEF RunParts
<1>4. RunBecame(p, "contract", active[p].job, active[p].text, active[p].out, active[p].attempt + 1,
             active[p].saw \cup {found}, active[p].raced)
  BY <1>1, <1>2, <1>3, BecomesParts
<1>5. /\ active' \in [Runs -> RunStates]
      /\ active'[p].at = "contract" /\ active'[p].job = active[p].job
      /\ active'[p].saw = active[p].saw \cup {found} /\ active'[p].raced = active[p].raced
      /\ \A q \in Runs : q # p => active'[q] = active[q]
  BY <1>4 DEF RunBecame
<1>6. active[p].raced = "no" => SawRight(p)'
  BY <1>1, <1>5 DEF RunOK, SawRight, Lines
<1>7. RunOK(p)'
  BY <1>1, <1>5, <1>6 DEF RunOK, IsPropagation
<1> QED BY <1>1, <1>5, <1>7, RunActsInv DEF ContractTypes

LEMMA EmptyHandedInv ==
  ASSUME ContractInv, NEW p \in Runs, active[p].at = "registry", IsPropagation(p),
         NEW found \in {"absent", "empty"}, PassesEmptyHanded(p, found),
         found = "absent" => ~skillRegistry.there,
         found = "empty" => skillRegistry.there /\ Lines = <<>>,
         UNCHANGED <<skillRegistry, contractText, refresh, settled>>
  PROVE  ContractInv'
<1>1. /\ ContractTypes /\ RunOK(p) /\ active \in [Runs -> RunStates]
  BY DEF ContractInv, ContractTypes
<1>2. CASE LastAttempt(p)
  <2>1. PICK said : said = IF active[p].saw \ {found} # {} THEN "inconsistent" ELSE found
    OBVIOUS
  <2>2. RunEnds(p, said)
    BY <1>2, <2>1 DEF PassesEmptyHanded, Concludes
  <2>3. said \in Blames => active[p].raced # "no"
    <3> SUFFICES ASSUME said \in Blames, active[p].raced = "no" PROVE FALSE
      OBVIOUS
    <3>1. PICK x \in active[p].saw : x # found
      BY <2>1, KnownAnswers
    <3>2. x \in {"absent", "empty", "write"}
      BY <1>1, RunFields
    <3>3. SawRight(p)
      BY <1>1 DEF RunOK
    <3> QED BY <3>1, <3>2, <3>3 DEF SawRight
  <2>4. said \in Answers
    BY <2>1, KnownAnswers
  <2> QED BY <2>2, <2>3, <2>4, EndsInv
<1>3. CASE ~LastAttempt(p)
  <2>1. Retries(p, found) /\ UNCHANGED <<answer, registryLock>>
    BY <1>3 DEF PassesEmptyHanded
  <2> QED BY <1>3, <2>1, RetriesInv
<1> QED BY <1>2, <1>3

LEMMA ReadsToPropagateInv ==
  ASSUME ContractInv, NEW p \in Runs, ReadsToPropagate(p) PROVE ContractInv'
<1>1. /\ ContractTypes /\ RunOK(p) /\ active \in [Runs -> RunStates] /\ RegistryIsTidy /\ SettledIsHeld
      /\ active[p].at = "registry" /\ IsPropagation(p)
      /\ UNCHANGED <<skillRegistry, contractText, refresh>>
  BY DEF ContractInv, ReadsToPropagate, Does, ContractTypes
<1>2. PICK c, out : c = active[p].job.contract /\ out = Propagated(Lines, c, active[p].text)
  OBVIOUS
<1>3. c \in Contracts /\ active[p].text \in Nat /\ active[p].job.verb # "repair"
  BY <1>1, <1>2, RunFields DEF IsPropagation, Jobs
<1>4. Tidy(Lines)
  BY <1>1 DEF RegistryIsTidy
<1>5. /\ Tidy(out) /\ Holds(out, c, active[p].text)
      /\ \A d \in Contracts : \A t : d # c /\ Holds(Lines, d, t) => Holds(out, d, t)
      /\ Rest(out, active[p].job) = Rest(Lines, active[p].job)
  BY <1>2, <1>3, <1>4, PropagatedEffect
<1>6. CASE ~skillRegistry.there
  <2>1. settled' = settled
    BY <1>6 DEF ReadsToPropagate
  <2>2. CASE active[p].job.required
    <3>1. RunEnds(p, "refused")
      BY <1>6, <2>2 DEF ReadsToPropagate
    <3> QED BY <1>1, <2>1, <3>1, KnownAnswers, EndsInv
  <2>3. CASE ~active[p].job.required
    <3>1. PassesEmptyHanded(p, "absent")
      BY <1>6, <2>3 DEF ReadsToPropagate
    <3> QED BY <1>1, <1>6, <2>1, <3>1, EmptyHandedInv
  <2> QED BY <2>2, <2>3
<1>7. CASE skillRegistry.there /\ Lines = <<>>
  <2>1. settled' = settled
    BY <1>7 DEF ReadsToPropagate
  <2>2. PassesEmptyHanded(p, "empty")
    BY <1>7 DEF ReadsToPropagate
  <2> QED BY <1>1, <1>7, <2>1, <2>2, EmptyHandedInv
<1>8. CASE skillRegistry.there /\ Lines # <<>> /\ out = Lines
  <2>1. settled' = [settled EXCEPT ![c] = active[p].text] /\ RunEnds(p, "unchanged")
    BY <1>2, <1>8 DEF ReadsToPropagate
  <2>2. registryLock = p
    BY <1>1 DEF RunOK
  <2>3. settled \in [Contracts -> Nat] /\ refresh \in [at : {"idle", "gone", "cut", "part"}, fresh : Generated \cup {<<>>}, linked : BOOLEAN]
        /\ skillRegistry \in [there : BOOLEAN, lines : Seq(RegistryLines)]
    BY <1>1 DEF ContractTypes
  <2>4. /\ settled' \in [Contracts -> Nat] /\ settled'[c] = active[p].text
        /\ \A d \in Contracts : d # c => settled'[d] = settled[d]
    BY <1>3, <2>1, <2>3
  <2>5. SettledIsHeld'
    BY <1>1, <1>3, <1>5, <1>8, <2>4 DEF SettledIsHeld, Lines
  <2>6. RegistryIsTidy'
    BY <1>1 DEF RegistryIsTidy, Lines
  <2>7. /\ active' \in [Runs -> RunStates] /\ answer' \in [Runs -> Answers]
        /\ registryLock' \in Runs \cup {NoHolder} /\ RunOK(p)'
        /\ \A q \in Runs : q # p => /\ active'[q] = active[q] /\ answer'[q] = answer[q]
                                    /\ (registryLock' = q) <=> (registryLock = q)
    BY <1>1, <2>1, KnownAnswers, RunEndsOK
  <2>8. /\ skillRegistry' \in [there : BOOLEAN, lines : Seq(RegistryLines)]
        /\ refresh' \in [at : {"idle", "gone", "cut", "part"}, fresh : Generated \cup {<<>>}, linked : BOOLEAN]
        /\ contractText' = contractText
    BY <1>1, <2>3
  <2> QED BY <2>2, <2>4, <2>5, <2>6, <2>7, <2>8, HolderActsInv
<1>9. CASE skillRegistry.there /\ Lines # <<>> /\ out # Lines
  <2>1. settled' = settled /\ WillWrite(p, out)
    BY <1>2, <1>9 DEF ReadsToPropagate
  <2>2. \A d \in Contracts : settled[d] > 0 /\ (IsPropagation(p) => d # active[p].job.contract)
          => Holds(out, d, settled[d])
    BY <1>1, <1>2, <1>5 DEF SettledIsHeld
  <2>3. UNCHANGED <<skillRegistry, contractText, refresh, settled>>
    BY <1>1, <2>1
  <2> QED BY <1>1, <1>2, <1>5, <1>9, <2>1, <2>2, <2>3, WillWriteInv
<1> QED BY <1>6, <1>7, <1>8, <1>9

LEMMA ReadsToRepairInv ==
  ASSUME ContractInv, NEW p \in Runs, ReadsToRepair(p) PROVE ContractInv'
<1>1. /\ ContractTypes /\ RunOK(p) /\ RegistryIsTidy /\ SettledIsHeld
      /\ active \in [Runs -> RunStates]
      /\ active[p].at = "registry" /\ ~IsPropagation(p)
      /\ UNCHANGED <<skillRegistry, contractText, refresh, settled>>
  BY DEF ContractInv, ReadsToRepair, Does, ContractTypes
<1>2. PICK lines : lines = IF skillRegistry.there THEN Lines ELSE FreshRegistry
  OBVIOUS
<1>3. Tidy(lines)
  BY <1>1, <1>2, FreshIsGenerated, GeneratedIsTidy DEF RegistryIsTidy
<1>4. CASE RunEnds(p, "refused")
  BY <1>1, <1>4, KnownAnswers, EndsInv
<1>5. ASSUME NEW installed \in BOOLEAN, NEW out, out = Repaired(lines, installed), WillWrite(p, out)
      PROVE  ContractInv'
  <2>1. active[p].job.verb = "repair"
    BY <1>1, RunFields DEF IsPropagation, Jobs
  <2>2. /\ Tidy(out)
        /\ \A d \in Contracts : \A t : Holds(lines, d, t) => Holds(out, d, t)
        /\ Rest(out, active[p].job) = Rest(lines, active[p].job)
    BY <1>3, <1>5, <2>1, RepairedEffect
  <2>3. \A d \in Contracts : settled[d] > 0 => Holds(out, d, settled[d])
    <3> SUFFICES ASSUME NEW d \in Contracts, settled[d] > 0 PROVE Holds(out, d, settled[d])
      OBVIOUS
    <3>1. skillRegistry.there /\ Holds(Lines, d, settled[d])
      BY <1>1 DEF SettledIsHeld
    <3> QED BY <1>2, <2>2, <3>1
  <2> QED BY <1>1, <1>2, <1>5, <2>2, <2>3, WillWriteInv
<1>6. RunEnds(p, "refused") \/ \E installed \in BOOLEAN : WillWrite(p, Repaired(lines, installed))
  BY <1>2 DEF ReadsToRepair
<1> QED BY <1>4, <1>5, <1>6

LEMMA WritesBackInv ==
  ASSUME ContractInv, NEW p \in Runs, WritesBack(p) PROVE ContractInv'
<1>1. /\ ContractTypes /\ RunOK(p) /\ RegistryIsTidy /\ SettledIsHeld
      /\ active \in [Runs -> RunStates] /\ settled \in [Contracts -> Nat]
      /\ active[p].at = "writing" /\ registryLock = p /\ WritesWell(p)
      /\ contractText' = contractText
  BY DEF ContractInv, WritesBack, Does, ContractTypes, RunOK
<1>2. /\ skillRegistry' \in [there : BOOLEAN, lines : Seq(RegistryLines)]
      /\ Lines' = active[p].out /\ skillRegistry'.there
  BY <1>1 DEF WritesBack, There, Lines, WritesWell, Tidy
<1>3. /\ refresh' \in [at : {"idle", "gone", "cut", "part"}, fresh : Generated \cup {<<>>}, linked : BOOLEAN]
      /\ refresh'.at = refresh.at /\ refresh'.fresh = refresh.fresh
  BY <1>1 DEF WritesBack, ContractTypes
<1>4. RegistryIsTidy'
  BY <1>1, <1>2, <1>3 DEF RegistryIsTidy, WritesWell
<1>5. CASE IsPropagation(p)
  <2>1. PICK c : c = active[p].job.contract
    OBVIOUS
  <2>2. c \in Contracts
    BY <1>1, <1>5, <2>1, RunFields DEF IsPropagation, Jobs
  <2>3. /\ active' = [active EXCEPT ![p].at = "checking"]
        /\ settled' = [settled EXCEPT ![c] = 0]
        /\ UNCHANGED <<answer, registryLock>>
    BY <1>5, <2>1 DEF WritesBack
  <2>4. /\ settled' \in [Contracts -> Nat] /\ settled'[c] = 0
        /\ \A d \in Contracts : d # c => settled'[d] = settled[d]
    BY <1>1, <2>2, <2>3
  <2>5. SettledIsHeld'
    <3> SUFFICES ASSUME NEW d \in Contracts, settled'[d] > 0
                 PROVE  skillRegistry'.there /\ Holds(Lines', d, settled'[d])
      BY DEF SettledIsHeld
    <3>1. d # c /\ settled'[d] = settled[d]
      BY <2>4
    <3>2. Holds(active[p].out, d, settled[d])
      BY <1>1, <2>1, <3>1 DEF WritesWell
    <3> QED BY <1>2, <3>1, <3>2
  <2>6. RunBecame(p, "checking", active[p].job, active[p].text, active[p].out, active[p].attempt,
               active[p].saw, active[p].raced)
    <3>1. RunBecomes(p, "checking", active[p].job, active[p].text, active[p].out, active[p].attempt,
                  active[p].saw, active[p].raced)
      BY <1>1, <2>3, ChecksBecomes
    <3>2. RunParts("checking", active[p].job, active[p].text, active[p].out, active[p].attempt,
                   active[p].saw, active[p].raced)
      BY <1>1, RunFields DEF RunParts, RunPhases
    <3> QED BY <1>1, <3>1, <3>2, BecomesParts
  <2>7. /\ active' \in [Runs -> RunStates]
        /\ active'[p].at = "checking" /\ active'[p].job = active[p].job
        /\ active'[p].text = active[p].text /\ active'[p].out = active[p].out
        /\ active'[p].saw = active[p].saw /\ active'[p].raced = active[p].raced
        /\ \A q \in Runs : q # p => active'[q] = active[q]
    BY <2>6 DEF RunBecame
  <2>8. active[p].raced = "no" => SawRight(p)'
    <3> SUFFICES ASSUME active[p].raced = "no" PROVE SawRight(p)'
      OBVIOUS
    <3>1. SawRight(p) /\ skillRegistry' = There(active[p].out)
      BY <1>1 DEF RunOK, WritesBack
    <3>2. Stayed(p)'
      BY <2>7, <3>1 DEF Stayed
    <3>3. active[p].saw = {}
      BY <1>1, <1>5, <3>1 DEF SawRight
    <3> QED BY <2>7, <3>1, <3>2, <3>3 DEF SawRight
  <2>9. RunOK(p)'
    BY <1>1, <1>5, <2>3, <2>7, <2>8 DEF RunOK, IsPropagation
  <2>10. answer' \in [Runs -> Answers] /\ registryLock' \in Runs \cup {NoHolder}
    BY <1>1, <2>3 DEF ContractTypes
  <2> QED BY <1>1, <1>2, <1>3, <1>4, <2>3, <2>4, <2>5, <2>7, <2>9, <2>10, HolderActsInv
<1>6. CASE ~IsPropagation(p)
  <2>1. RunEnds(p, "repaired") /\ settled' = settled
    BY <1>6 DEF WritesBack
  <2>2. SettledIsHeld'
    <3> SUFFICES ASSUME NEW d \in Contracts, settled'[d] > 0
                 PROVE  skillRegistry'.there /\ Holds(Lines', d, settled'[d])
      BY DEF SettledIsHeld
    <3>1. Holds(active[p].out, d, settled[d])
      BY <1>1, <1>6, <2>1 DEF WritesWell
    <3> QED BY <1>2, <2>1, <3>1
  <2>3. /\ active' \in [Runs -> RunStates] /\ answer' \in [Runs -> Answers]
        /\ registryLock' \in Runs \cup {NoHolder} /\ RunOK(p)'
        /\ \A q \in Runs : q # p => /\ active'[q] = active[q] /\ answer'[q] = answer[q]
                                    /\ (registryLock' = q) <=> (registryLock = q)
    BY <1>1, <2>1, KnownAnswers, RunEndsOK
  <2> QED BY <1>1, <1>2, <1>3, <1>4, <2>1, <2>2, <2>3, HolderActsInv
<1> QED BY <1>5, <1>6

LEMMA ChecksWriteInv ==
  ASSUME ContractInv, NEW p \in Runs, ChecksWrite(p) PROVE ContractInv'
<1>1. /\ ContractTypes /\ RunOK(p) /\ RegistryIsTidy /\ SettledIsHeld
      /\ active \in [Runs -> RunStates] /\ settled \in [Contracts -> Nat]
      /\ active[p].at = "checking" /\ registryLock = p /\ IsPropagation(p)
      /\ UNCHANGED <<skillRegistry, contractText, refresh>>
  BY DEF ContractInv, ChecksWrite, Does, ContractTypes, RunOK
<1>2. active[p].raced = "no" => Stayed(p)
  BY <1>1 DEF RunOK, SawRight
<1>3. CASE Stayed(p)
  <2>1. PICK c : c = active[p].job.contract
    OBVIOUS
  <2>2. c \in Contracts /\ active[p].text \in Nat
    BY <1>1, <2>1, RunFields DEF IsPropagation, Jobs
  <2>3. RunEnds(p, "written") /\ settled' = [settled EXCEPT ![c] = active[p].text]
    BY <1>3, <2>1 DEF ChecksWrite
  <2>4. /\ settled' \in [Contracts -> Nat] /\ settled'[c] = active[p].text
        /\ \A d \in Contracts : d # c => settled'[d] = settled[d]
    BY <1>1, <2>2, <2>3
  <2>5. skillRegistry.there /\ Lines = active[p].out
    BY <1>3 DEF Stayed, There, Lines
  <2>6. Holds(Lines, c, active[p].text)
    BY <1>1, <2>1, <2>5 DEF RunOK
  <2>7. SettledIsHeld'
    BY <1>1, <2>2, <2>4, <2>5, <2>6 DEF SettledIsHeld, Lines
  <2>8. RegistryIsTidy'
    BY <1>1 DEF RegistryIsTidy, Lines
  <2>9. /\ active' \in [Runs -> RunStates] /\ answer' \in [Runs -> Answers]
        /\ registryLock' \in Runs \cup {NoHolder} /\ RunOK(p)'
        /\ \A q \in Runs : q # p => /\ active'[q] = active[q] /\ answer'[q] = answer[q]
                                    /\ (registryLock' = q) <=> (registryLock = q)
    BY <1>1, <2>3, KnownAnswers, RunEndsOK
  <2>10. /\ skillRegistry' \in [there : BOOLEAN, lines : Seq(RegistryLines)]
         /\ refresh' \in [at : {"idle", "gone", "cut", "part"}, fresh : Generated \cup {<<>>}, linked : BOOLEAN]
         /\ contractText' = contractText
    BY <1>1 DEF ContractTypes
  <2> QED BY <1>1, <2>4, <2>7, <2>8, <2>9, <2>10, HolderActsInv
<1>4. CASE ~Stayed(p) /\ LastAttempt(p)
  <2>1. PICK said \in {"lost", "unverified"} : RunEnds(p, said)
    BY <1>4 DEF ChecksWrite
  <2>2. settled' = settled /\ active[p].raced # "no" /\ said \in Answers
    BY <1>2, <1>4, KnownAnswers DEF ChecksWrite
  <2> QED BY <1>1, <2>1, <2>2, EndsInv
<1>5. CASE ~Stayed(p) /\ ~LastAttempt(p)
  <2>1. Retries(p, "write") /\ UNCHANGED <<answer, registryLock>> /\ settled' = settled
    BY <1>5 DEF ChecksWrite
  <2>2. active[p].raced # "no"
    BY <1>2, <1>5
  <2> QED BY <1>1, <1>5, <2>1, <2>2, RetriesInv
<1> QED BY <1>3, <1>4, <1>5

LEMMA RunStepInv ==
  ASSUME ContractInv, NEW p \in Runs, RunStep(p) \/ RunKilled(p) PROVE ContractInv'
<1>1. CASE GivesUp(p)
  BY <1>1, KnownAnswers, EndsInv DEF GivesUp
<1>2. CASE CannotWrite(p)
  BY <1>2, KnownAnswers, EndsInv DEF CannotWrite
<1>3. CASE RunKilled(p)
  BY <1>3, KnownAnswers, EndsInv DEF RunKilled
<1> QED BY <1>1, <1>2, <1>3, TakesLockInv, ReadsContractInv, ReadsToPropagateInv, ReadsToRepairInv,
           WritesBackInv, ChecksWriteInv DEF RunStep

(* The refresh takes nothing from a run that was not vouched for: what any *)
(* run vouched for is forgotten, and every run under way knows of it.      *)
LEMMA RefreshSetsInv ==
  ASSUME ContractInv, NEW lines, NEW there \in BOOLEAN,
         RefreshSets([there |-> there, lines |-> lines]), Tidy(lines), there \/ lines = <<>>,
         refresh' \in [at : {"idle", "gone", "cut", "part"}, fresh : Generated \cup {<<>>}, linked : BOOLEAN],
         refresh'.at # "idle" => refresh'.fresh \in Generated,
         UNCHANGED <<contractText, registryLock, answer>>
  PROVE  ContractInv'
<1>1. ContractTypes /\ active \in [Runs -> RunStates]
  BY DEF ContractInv, ContractTypes
<1>2. /\ skillRegistry' \in [there : BOOLEAN, lines : Seq(RegistryLines)]
      /\ skillRegistry'.there = there /\ Lines' = lines
      /\ settled' \in [Contracts -> Nat] /\ \A c \in Contracts : settled'[c] = 0
  BY DEF RefreshSets, Tidy, Lines
<1>3. ASSUME NEW p \in Runs
      PROVE  /\ active'[p] \in RunStates
             /\ active'[p].at = active[p].at /\ active'[p].job = active[p].job
             /\ active'[p].text = active[p].text /\ active'[p].out = active[p].out
             /\ active'[p].saw = active[p].saw
             /\ active'[p].raced = IF active[p].at = "idle" THEN active[p].raced ELSE "now"
  <2>1. CASE active[p].at = "idle"
    <3>1. active'[p] = active[p]
      BY <2>1 DEF RefreshSets, Does
    <3> QED BY <1>1, <2>1, <3>1
  <2>2. CASE active[p].at # "idle"
    <3>1. active'[p] = [active[p] EXCEPT !.raced = "now"]
      BY <2>2 DEF RefreshSets, Does
    <3>2. PICK r \in RunStates : r = active[p]
      BY <1>1
    <3>3. PICK g : g = [r EXCEPT !.raced = "now"]
      OBVIOUS
    <3>4. /\ g \in RunStates /\ g.at = r.at /\ g.job = r.job /\ g.text = r.text /\ g.out = r.out
          /\ g.saw = r.saw /\ g.raced = "now"
      BY <3>3 DEF RunStates
    <3> QED BY <2>2, <3>1, <3>2, <3>3, <3>4
  <2> QED BY <2>1, <2>2
<1>4. active' \in [Runs -> RunStates]
  <2>1. PICK g : g = active'
    OBVIOUS
  <2>2. g = [p \in Runs |-> g[p]]
    BY <2>1 DEF RefreshSets
  <2>3. \A p \in Runs : g[p] \in RunStates
    BY <1>3, <2>1
  <2>4. g \in [Runs -> RunStates]
    BY <2>2, <2>3
  <2> QED BY <2>1, <2>4
<1>5. ASSUME NEW p \in Runs PROVE RunOK(p)'
  <2>1. RunOK(p)
    BY DEF ContractInv
  <2>2. WritesWell(p) /\ active[p].at = "writing" => WritesWell(p)'
    BY <1>2, <1>3 DEF WritesWell
  <2>3. active'[p].raced = "no" => SawRight(p)'
    BY <1>3, <2>1 DEF RunOK, SawRight
  <2> QED BY <1>3, <2>1, <2>2, <2>3 DEF RunOK, IsPropagation
<1>6. RegistryIsTidy'
  BY <1>2 DEF RegistryIsTidy
<1>7. SettledIsHeld'
  BY <1>2 DEF SettledIsHeld
<1>8. ContractTypes'
  BY <1>1, <1>2, <1>4 DEF ContractTypes
<1> QED BY <1>5, <1>6, <1>7, <1>8 DEF ContractInv

LEMMA RefreshAlone ==
  ASSUME ContractInv,
         refresh' \in [at : {"idle", "gone", "cut", "part"}, fresh : Generated \cup {<<>>}, linked : BOOLEAN],
         refresh'.at # "idle" => refresh'.fresh \in Generated,
         UNCHANGED <<skillRegistry, settled, active, contractText, registryLock, answer>>
  PROVE  ContractInv'
<1>1. \A p \in Runs : RunOK(p)'
  BY DEF ContractInv, RunOK, WritesWell, SawRight, Stayed, IsPropagation, Lines
<1> QED BY <1>1 DEF ContractInv, ContractTypes, RegistryIsTidy, SettledIsHeld, Lines

LEMMA RefreshBeginsInv == ASSUME ContractInv, RefreshBegins PROVE ContractInv'
<1>1. PICK fresh \in Generated :
        \/ RefreshSets(There(fresh)) /\ UNCHANGED refresh
        \/ RefreshSets(NotThere) /\ refresh' = [at |-> "gone", fresh |-> fresh, linked |-> FALSE]
        \/ RefreshSets(There(<<>>)) /\ refresh' = [at |-> "cut", fresh |-> fresh, linked |-> TRUE]
  BY DEF RefreshBegins
<1>2. UNCHANGED <<contractText, registryLock, answer>> /\ refresh.at = "idle"
  BY DEF RefreshBegins
<1>3. Tidy(fresh) /\ Tidy(<<>>)
  BY GeneratedIsTidy, NothingIsTidy
<1>4. CASE RefreshSets(There(fresh)) /\ UNCHANGED refresh
  <2>1. RefreshSets([there |-> TRUE, lines |-> fresh])
    BY <1>4 DEF There
  <2>2. /\ refresh' \in [at : {"idle", "gone", "cut", "part"}, fresh : Generated \cup {<<>>}, linked : BOOLEAN]
        /\ refresh'.at = "idle"
    BY <1>2, <1>4 DEF ContractInv, ContractTypes
  <2> QED BY <1>2, <1>3, <2>1, <2>2, RefreshSetsInv
<1>5. CASE RefreshSets(NotThere) /\ refresh' = [at |-> "gone", fresh |-> fresh, linked |-> FALSE]
  <2>1. RefreshSets([there |-> FALSE, lines |-> <<>>])
    BY <1>5 DEF NotThere
  <2>2. /\ refresh' \in [at : {"idle", "gone", "cut", "part"}, fresh : Generated \cup {<<>>}, linked : BOOLEAN]
        /\ refresh'.fresh \in Generated
    BY <1>5
  <2> QED BY <1>2, <1>3, <2>1, <2>2, RefreshSetsInv
<1>6. CASE RefreshSets(There(<<>>)) /\ refresh' = [at |-> "cut", fresh |-> fresh, linked |-> TRUE]
  <2>1. RefreshSets([there |-> TRUE, lines |-> <<>>])
    BY <1>6 DEF There
  <2>2. /\ refresh' \in [at : {"idle", "gone", "cut", "part"}, fresh : Generated \cup {<<>>}, linked : BOOLEAN]
        /\ refresh'.fresh \in Generated
    BY <1>6
  <2> QED BY <1>2, <1>3, <2>1, <2>2, RefreshSetsInv
<1> QED BY <1>1, <1>4, <1>5, <1>6

LEMMA RefreshGoesOnInv == ASSUME ContractInv, RefreshGoesOn PROVE ContractInv'
<1>1. /\ UNCHANGED <<contractText, registryLock, answer>>
      /\ refresh \in [at : {"idle", "gone", "cut", "part"}, fresh : Generated \cup {<<>>}, linked : BOOLEAN]
      /\ refresh.at # "idle" => refresh.fresh \in Generated
  BY DEF RefreshGoesOn, ContractInv, ContractTypes, RegistryIsTidy
<1>2. PICK where \in {"part", "idle"} : refresh' = [refresh EXCEPT !.at = where] /\ refresh.at # "idle"
  BY DEF RefreshGoesOn
<1>3. /\ refresh' \in [at : {"idle", "gone", "cut", "part"}, fresh : Generated \cup {<<>>}, linked : BOOLEAN]
      /\ refresh'.fresh \in Generated
  BY <1>1, <1>2
<1>4. Tidy(refresh.fresh) /\ Tidy(SubSeq(refresh.fresh, 1, 2))
  BY <1>1, <1>2, GeneratedIsTidy
<1>5. CASE RefreshSets(There(refresh.fresh))
  <2>1. RefreshSets([there |-> TRUE, lines |-> refresh.fresh])
    BY <1>5 DEF There
  <2> QED BY <1>1, <1>3, <1>4, <2>1, RefreshSetsInv
<1>6. CASE RefreshSets(There(SubSeq(refresh.fresh, 1, 2)))
  <2>1. PICK s : s = SubSeq(refresh.fresh, 1, 2)
    OBVIOUS
  <2>2. RefreshSets([there |-> TRUE, lines |-> s])
    BY <1>6, <2>1 DEF There
  <2> QED BY <1>1, <1>3, <1>4, <2>1, <2>2, RefreshSetsInv
<1>7. CASE UNCHANGED <<skillRegistry, settled, active>>
  BY <1>1, <1>3, <1>7, RefreshAlone
<1> QED BY <1>5, <1>6, <1>7 DEF RefreshGoesOn

LEMMA ContractNextInv == ASSUME ContractInv, ContractNext \/ UNCHANGED contractVars PROVE ContractInv'
<1>1. CASE RefreshDies
  <2>1. /\ refresh' \in [at : {"idle", "gone", "cut", "part"}, fresh : Generated \cup {<<>>}, linked : BOOLEAN]
        /\ refresh'.at = "idle"
    BY <1>1 DEF RefreshDies, ContractInv, ContractTypes
  <2> QED BY <1>1, <2>1, RefreshAlone DEF RefreshDies
<1>2. ASSUME NEW c \in Contracts, ContractEdited(c) PROVE ContractInv'
  <2>1. UNCHANGED <<skillRegistry, registryLock, active, answer, refresh, settled>>
    BY <1>2 DEF ContractEdited
  <2>2. contractText' \in [Contracts -> 1 .. MaxContractEdits + 1]
    <3>1. contractText \in [Contracts -> 1 .. MaxContractEdits + 1]
      BY DEF ContractInv, ContractTypes
    <3>2. contractText[c] + 1 \in 1 .. MaxContractEdits + 1
      BY <1>2, <3>1, MaxContractEditsAssumption DEF ContractEdited
    <3> QED BY <1>2, <3>1, <3>2 DEF ContractEdited
  <2>3. \A p \in Runs : RunOK(p)'
    BY <2>1 DEF ContractInv, RunOK, WritesWell, SawRight, Stayed, IsPropagation, Lines
  <2> QED BY <2>1, <2>2, <2>3 DEF ContractInv, ContractTypes, RegistryIsTidy, SettledIsHeld, Lines
<1>3. CASE UNCHANGED contractVars
  <2>1. \A p \in Runs : RunOK(p)'
    BY <1>3 DEF ContractInv, RunOK, WritesWell, SawRight, Stayed, IsPropagation, Lines, contractVars
  <2> QED BY <1>3, <2>1 DEF ContractInv, ContractTypes, RegistryIsTidy, SettledIsHeld, Lines, contractVars
<1> QED BY <1>1, <1>2, <1>3, RunStepInv, CommandsInv, RefreshBeginsInv, RefreshGoesOnInv DEF ContractNext

LEMMA ContractInitInv == ASSUME ~MayBeDamaged, ContractInit PROVE ContractInv
<1>1. PICK lines \in Generated \cup Older : skillRegistry \in {NotThere, There(lines)}
  BY DEF ContractInit
<1>2. Tidy(lines) /\ Tidy(<<>>)
  BY <1>1, GeneratedIsTidy, OlderIsTidy, NothingIsTidy
<1>3. /\ skillRegistry \in [there : BOOLEAN, lines : Seq(RegistryLines)]
      /\ Tidy(Lines) /\ (skillRegistry.there \/ Lines = <<>>)
  <2>1. CASE skillRegistry = NotThere
    BY <1>2, <2>1 DEF NotThere, Lines, Tidy
  <2>2. CASE skillRegistry = There(lines)
    BY <1>2, <2>2 DEF There, Lines, Tidy
  <2> QED BY <1>1, <2>1, <2>2
<1>4. active \in [Runs -> RunStates] /\ \A p \in Runs : active[p] = Idle
  <2>1. Idle \in RunStates
    <3>1. PICK r : /\ r = Idle
                   /\ r = [at |-> "idle", job |-> Idle.job, text |-> 0, out |-> <<>>, attempt |-> 0,
                           saw |-> {}, raced |-> "no"]
      BY IdleJob
    <3>2. "idle" \in RunPhases /\ 0 \in 0 .. MaxAttempts /\ <<>> \in Seq(RegistryLines)
          /\ Idle.job \in Jobs /\ 0 \in Nat /\ {} \in SUBSET {"absent", "empty", "write"}
          /\ "no" \in {"no", "now", "earlier"}
      BY MaxAttemptsAssumption, IdleJob DEF RunPhases
    <3> QED BY <3>1, <3>2 DEF RunStates
  <2> QED BY <2>1 DEF ContractInit
<1>5. ContractTypes
  <2>1. contractText \in [Contracts -> 1 .. MaxContractEdits + 1]
    BY MaxContractEditsAssumption DEF ContractInit
  <2>2. answer \in [Runs -> Answers] /\ settled \in [Contracts -> Nat]
    BY KnownAnswers DEF ContractInit
  <2>3. refresh \in [at : {"idle", "gone", "cut", "part"}, fresh : Generated \cup {<<>>}, linked : BOOLEAN]
    BY DEF ContractInit
  <2>4. registryLock \in Runs \cup {NoHolder}
    BY DEF ContractInit
  <2> QED BY <1>3, <1>4, <2>1, <2>2, <2>3, <2>4 DEF ContractTypes
<1>6. RegistryIsTidy /\ SettledIsHeld
  BY <1>3 DEF RegistryIsTidy, SettledIsHeld, ContractInit
<1>7. \A p \in Runs : RunOK(p)
  <2> SUFFICES ASSUME NEW p \in Runs PROVE RunOK(p)
    OBVIOUS
  <2>1. active[p].at = "idle" /\ active[p].saw = {}
    BY <1>4 DEF Idle
  <2>2. registryLock # p /\ answer[p] = "none"
    BY NoHolderAssumption DEF ContractInit
  <2> QED BY <2>1, <2>2, KnownAnswers DEF RunOK, SawRight
<1> QED BY <1>5, <1>6, <1>7 DEF ContractInv

LEMMA ContractInvImplies == ASSUME ContractInv PROVE ContractTypeOK /\ ContractsAreSound
<1>1. AtMostOneScope
  BY TidyHasOneRow DEF ContractInv, RegistryIsTidy, AtMostOneScope
<1>2. BlamesOnlyARefresh
  BY DEF ContractInv, RunOK, BlamesOnlyARefresh, Blames
<1>3. \A p \in Runs : active[p].attempt \in 0 .. MaxAttempts
  BY RunFields DEF ContractInv, ContractTypes
<1>4. ContractTypeOK
  BY <1>3 DEF ContractInv, ContractTypes, RegistryIsTidy, RunOK, ContractTypeOK
<1> QED BY <1>1, <1>2, <1>4 DEF ContractInv, ContractsAreSound

(* A step that writes the registry is of the run that held the lock, or of *)
(* the refresh, which no run's phase changes with.                         *)
LEMMA KeepsTheRestStep == ASSUME ContractInv, ContractNext \/ UNCHANGED contractVars PROVE KeepsTheRest
<1> SUFFICES ASSUME NEW p \in Runs, active[p].at = "writing", active'[p].at # "writing",
                    skillRegistry' # skillRegistry, skillRegistry.there, active[p].raced # "now"
             PROVE  Rest(skillRegistry'.lines, active[p].job) = Rest(Lines, active[p].job)
  BY DEF KeepsTheRest, Does
<1>1. RunOK(p) /\ WritesWell(p) /\ registryLock = p
  BY DEF ContractInv, RunOK
<1>2. CASE WritesBack(p)
  <2>1. skillRegistry'.lines = active[p].out
    BY <1>2 DEF WritesBack, There
  <2> QED BY <1>1, <2>1 DEF WritesWell
<1>3. ASSUME NEW q \in Runs, q # p, WritesBack(q) PROVE FALSE
  <2>1. registryLock = q
    BY <1>3 DEF ContractInv, RunOK, WritesBack, Does
  <2> QED BY <1>1, <1>3, <2>1
<1>4. ASSUME NEW fresh, RefreshSets(fresh) PROVE FALSE
  <2>1. active'[p] = [active[p] EXCEPT !.raced = "now"]
    BY <1>4 DEF RefreshSets, Does
  <2>2. PICK r \in RunStates : r = active[p]
    BY DEF ContractInv, ContractTypes
  <2>3. PICK g : g = [r EXCEPT !.raced = "now"]
    OBVIOUS
  <2>4. g.at = r.at
    BY <2>3 DEF RunStates
  <2> QED BY <2>1, <2>2, <2>3, <2>4
<1>5. CASE UNCHANGED contractVars
  BY <1>5 DEF contractVars
<1>6. ASSUME NEW q \in Runs, RunStep(q) \/ RunKilled(q) \/ \E task \in Jobs : Commands(q, task)
      PROVE  WritesBack(q)
  BY <1>6 DEF RunStep, RunKilled, Commands, TakesLock, GivesUp, ReadsContract, ReadsToPropagate,
     ReadsToRepair, CannotWrite, ChecksWrite
<1>7. CASE RefreshBegins
  BY <1>4, <1>7 DEF RefreshBegins
<1>8. CASE RefreshGoesOn
  BY <1>4, <1>8 DEF RefreshGoesOn
<1>9. ~RefreshDies /\ \A c \in Contracts : ~ContractEdited(c)
  BY DEF RefreshDies, ContractEdited
<1> QED BY <1>2, <1>3, <1>5, <1>6, <1>7, <1>8, <1>9 DEF ContractNext

(* Whatever is generated, repaired or propagated in whatever order, what a  *)
(* run vouched for stays, no contract gets a second row, and a foreign      *)
(* writer is blamed only when there was one: for any runs, contracts and    *)
(* bounds, when no registry starts damaged.                                 *)
THEOREM ContractsStaySound ==
  ASSUME ~MayBeDamaged
  PROVE  ContractSpec => [](ContractTypeOK /\ ContractsAreSound)
<1>1. ContractInit => ContractInv
  BY ContractInitInv
<1>2. ContractInv /\ [ContractNext]_contractVars => ContractInv'
  BY ContractNextInv
<1>3. ContractInv => ContractTypeOK /\ ContractsAreSound
  BY ContractInvImplies
<1> QED BY <1>1, <1>2, <1>3, PTL DEF ContractSpec

(* A propagation or a repair changes its own lines of the registry and no  *)
(* other line, unless a refresh wrote the registry after it was read.      *)
THEOREM OthersLinesStay ==
  ASSUME ~MayBeDamaged
  PROVE  ContractSpec => [][KeepsTheRest]_contractVars
<1>1. ContractInit => ContractInv
  BY ContractInitInv
<1>2. ContractInv /\ [ContractNext]_contractVars => ContractInv' /\ KeepsTheRest
  BY ContractNextInv, KeepsTheRestStep
<1> QED BY <1>1, <1>2, PTL DEF ContractSpec

-----------------------------------------------------------------------------
(* A skill of a project: what a plan is, that it is carried out or undone, *)
(* and that it leaves what a person wrote.                                 *)

(* A list of writes: each of a set once, no two of one file.               *)
Listing(list, set) ==
  /\ list \in Seq(set)
  /\ \A x \in set : \E i \in 1 .. Len(list) : list[i] = x
  /\ \A i, j \in 1 .. Len(list) : list[i].file = list[j].file => i = j

LEMMA SeqOfSet ==
  ASSUME NEW S, IsFiniteSet(S)
  PROVE  /\ SetToSeq(S) \in Seq(S)
         /\ \A x \in S : \E i \in 1 .. Len(SetToSeq(S)) : SetToSeq(S)[i] = x
         /\ \A i, j \in 1 .. Len(SetToSeq(S)) : SetToSeq(S)[i] = SetToSeq(S)[j] => i = j
<1> DEFINE n == Cardinality(S)
           f == SetToSeq(S)
<1>1. n \in Nat /\ ExistsBijection(1 .. n, S)
  BY FS_CardinalityType
<1>2. \E g \in [1 .. n -> S] : IsInjective(g)
  BY <1>1 DEF ExistsBijection, Bijection, Injection
<1>3. f \in [1 .. n -> S] /\ IsInjective(f)
  BY <1>2 DEF SetToSeq
<1>4. f \in Injection(1 .. n, S)
  BY <1>3 DEF Injection
<1>5. IsFiniteSet(1 .. n) /\ Cardinality(1 .. n) = n
  BY <1>1, FS_Interval
<1>6. f \in Surjection(1 .. n, S)
  BY <1>4, <1>5, FS_Injection
<1>7. f \in Seq(S) /\ Len(f) = n
  BY <1>1, <1>3
<1>8. \A x \in S : \E i \in 1 .. n : f[i] = x
  BY <1>6 DEF Surjection
<1>9. \A i, j \in 1 .. n : f[i] = f[j] => i = j
  BY <1>3 DEF IsInjective
<1> HIDE DEF f, n
<1>10. /\ f \in Seq(S)
       /\ \A x \in S : \E i \in 1 .. Len(f) : f[i] = x
       /\ \A i, j \in 1 .. Len(f) : f[i] = f[j] => i = j
  BY <1>7, <1>8, <1>9
<1> QED BY <1>10 DEF f

LEMMA ListingOfSet ==
  ASSUME NEW S, IsFiniteSet(S), \A x, y \in S : x.file = y.file => x = y
  PROVE  Listing(SetToSeq(S), S)
<1> DEFINE f == SetToSeq(S)
<1>1. /\ f \in Seq(S)
      /\ \A x \in S : \E i \in 1 .. Len(f) : f[i] = x
      /\ \A i, j \in 1 .. Len(f) : f[i] = f[j] => i = j
  BY SeqOfSet
<1> HIDE DEF f
<1>2. \A i \in 1 .. Len(f) : f[i] \in S
  BY <1>1
<1>3. \A i, j \in 1 .. Len(f) : f[i].file = f[j].file => i = j
  BY <1>1, <1>2
<1>4. Listing(f, S)
  BY <1>1, <1>3 DEF Listing
<1> QED BY <1>4 DEF f

LEMMA ListingJoined ==
  ASSUME NEW S, NEW T, NEW s, NEW t, Listing(s, S), Listing(t, T),
         \A x \in S, y \in T : x.file # y.file
  PROVE  Listing(s \o t, S \union T)
<1>1. s \in Seq(S \union T) /\ t \in Seq(S \union T)
  BY DEF Listing
<1> DEFINE u == s \o t
<1>2. /\ u \in Seq(S \union T) /\ Len(u) = Len(s) + Len(t)
      /\ \A i \in 1 .. Len(s) : u[i] = s[i]
      /\ \A i \in 1 .. Len(t) : u[Len(s) + i] = t[i]
      /\ \A i \in 1 .. Len(u) : i > Len(s) => u[i] = t[i - Len(s)]
  BY <1>1
<1>3. Len(s) \in Nat /\ Len(t) \in Nat
  BY <1>1
<1> HIDE DEF u
<1>4. \A i \in 1 .. Len(s) : s[i] \in S
  BY DEF Listing
<1>5. \A i \in 1 .. Len(t) : t[i] \in T
  BY DEF Listing
<1>6. ASSUME NEW x \in S \union T PROVE \E i \in 1 .. Len(u) : u[i] = x
  <2>1. CASE x \in S
    <3>1. PICK i \in 1 .. Len(s) : s[i] = x
      BY <2>1 DEF Listing
    <3> QED BY <3>1, <1>2, <1>3
  <2>2. CASE x \in T
    <3>1. PICK i \in 1 .. Len(t) : t[i] = x
      BY <2>2 DEF Listing
    <3>2. Len(s) + i \in 1 .. Len(u) /\ u[Len(s) + i] = x
      BY <3>1, <1>2, <1>3
    <3> QED BY <3>2
  <2> QED BY <2>1, <2>2
<1>7. ASSUME NEW i \in 1 .. Len(u), NEW j \in 1 .. Len(u), u[i].file = u[j].file
      PROVE  i = j
  <2>1. CASE i <= Len(s) /\ j <= Len(s)
    <3>1. i \in 1 .. Len(s) /\ j \in 1 .. Len(s)
      BY <2>1, <1>2, <1>3
    <3>2. s[i].file = s[j].file
      BY <3>1, <1>7, <1>2
    <3> QED BY <3>1, <3>2 DEF Listing
  <2>2. CASE i > Len(s) /\ j > Len(s)
    <3>1. i - Len(s) \in 1 .. Len(t) /\ j - Len(s) \in 1 .. Len(t)
      BY <2>2, <1>2, <1>3
    <3>2. t[i - Len(s)].file = t[j - Len(s)].file
      BY <2>2, <1>7, <1>2
    <3>3. i - Len(s) = j - Len(s)
      BY <3>1, <3>2 DEF Listing
    <3> QED BY <3>3, <1>3
  <2>3. CASE i <= Len(s) /\ j > Len(s)
    <3>1. i \in 1 .. Len(s) /\ j - Len(s) \in 1 .. Len(t)
      BY <2>3, <1>2, <1>3
    <3>2. u[i] \in S /\ u[j] \in T
      BY <3>1, <2>3, <1>2, <1>4, <1>5
    <3> QED BY <3>2, <1>7
  <2>4. CASE i > Len(s) /\ j <= Len(s)
    <3>1. j \in 1 .. Len(s) /\ i - Len(s) \in 1 .. Len(t)
      BY <2>4, <1>2, <1>3
    <3>2. u[j] \in S /\ u[i] \in T
      BY <3>1, <2>4, <1>2, <1>4, <1>5
    <3> QED BY <3>2, <1>7
  <2> QED BY <2>1, <2>2, <2>3, <2>4, <1>3
<1>8. Listing(u, S \union T)
  BY <1>2, <1>6, <1>7 DEF Listing
<1> QED BY <1>8 DEF u

LEMMA ListingOne ==
  ASSUME NEW x
  PROVE  Listing(<<x>>, {x})
BY DEF Listing

LEMMA ListingNone == Listing(<<>>, {})
BY DEF Listing

(* The lock, when it is written at all, is the last of a list.             *)
LockLast(list) == \A i \in 1 .. Len(list) : list[i].file = LockFile => i = Len(list)

LEMMA JoinedLockLast ==
  ASSUME NEW S, NEW s, NEW x, Listing(s, S), \A y \in S : y.file # LockFile
  PROVE  LockLast(s) /\ LockLast(s \o <<x>>) /\ LockLast(Append(s, x))
<1>1. s \in Seq(S) /\ \A i \in 1 .. Len(s) : s[i] \in S
  BY DEF Listing
<1>2. s \in Seq(S \union {x}) /\ <<x>> \in Seq(S \union {x})
  BY <1>1
<1>3. Append(s, x) = s \o <<x>>
  BY <1>2
<1> DEFINE u == s \o <<x>>
<1>4. Len(u) = Len(s) + 1 /\ \A i \in 1 .. Len(s) : u[i] = s[i]
  BY <1>2
<1>5. Len(s) \in Nat
  BY <1>1
<1> HIDE DEF u
<1>6. LockLast(u)
  BY <1>1, <1>4, <1>5 DEF LockLast
<1> QED BY <1>1, <1>3, <1>6 DEF u, LockLast

FileBytes == {Absent, Persons} \union Drafts \union Versions
AllBytes == FileBytes \union Entries
Writes == [file : Files, bytes : AllBytes, backup : AllBytes]

TreeTypes(t) ==
  /\ t \in [Files -> AllBytes]
  /\ \A f \in SkillFiles : t[f] \in FileBytes
  /\ t[LockFile] \in {Absent} \union Entries

(* A file that is there lies in a directory that is there.                 *)
TreeTidy(t, dirs, spoiled) ==
  /\ TreeTypes(t)
  /\ dirs \in SUBSET Dirs /\ spoiled \in SUBSET dirs
  /\ \A f \in SkillFiles : t[f] # Absent => DirOf(f) \in dirs

(* A write of a plan: it can be undone, and replaces nothing of a person.  *)
WriteOK(w, t) ==
  /\ w \in Writes
  /\ w.backup = t[w.file]
  /\ w.file \in SkillFiles => w.bytes \in FileBytes \ {Persons} /\ w.backup # Persons
  /\ w.file = LockFile => w.bytes \in Entries

(* What a file is once a list of writes is carried out.                    *)
ThenIs(list, t, f) ==
  IF \E i \in 1 .. Len(list) : list[i].file = f
    THEN list[CHOOSE i \in 1 .. Len(list) : list[i].file = f].bytes
    ELSE t[f]

(* What an entry of the lock names a file.                                 *)
NamedBy(b, f) == (IF b = Absent THEN NoEntry ELSE b).bytes[f[2]]

(* The plan makes of the files what the lock it leaves says of them.       *)
Whole(list, t, whose) ==
  \A f \in SkillFiles :
    \/ NamedBy(t[LockFile], f) # Absent
    \/ NamedBy(ThenIs(list, t, LockFile), f) # Absent
    => \/ ThenIs(list, t, f) = NamedBy(ThenIs(list, t, LockFile), f)
       \/ whose = "adopt" /\ ThenIs(list, t, f) = Absent

PlanOK(list, t, whose) ==
  /\ list \in Seq(Writes)
  /\ \A i \in 1 .. Len(list) : WriteOK(list[i], t)
  /\ \A i, j \in 1 .. Len(list) : list[i].file = list[j].file => i = j
  /\ LockLast(list)
  /\ Whole(list, t, whose)

LEMMA LockIsApart ==
  /\ LockFile \notin SkillFiles
  /\ Files = SkillFiles \union {LockFile}
  /\ \A f \in SkillFiles : f[1] \in Dirs /\ f[2] \in Names /\ f = <<f[1], f[2]>>
  /\ \A d \in Dirs, n \in Names : <<d, n>> \in SkillFiles /\ <<d, n>>[1] = d /\ <<d, n>>[2] = n
BY DEF LockFile, SkillFiles, Files, Names

LEMMA EntryFields ==
  /\ \A e \in Entries :
       /\ e # Absent
       /\ e.bytes \in [Names -> {Absent} \union Drafts \union Versions]
       /\ e.by = "register" => e.bytes["extra"] = Absent
       /\ e.by = "nobody" => e = NoEntry
  /\ NoEntry \in Entries /\ \A n \in Names : NoEntry.bytes[n] = Absent
  /\ \A d \in Drafts : /\ ByRegister(d) \in Entries
                       /\ ByRegister(d).bytes["SKILL.md"] = d
                       /\ ByRegister(d).bytes["extra"] = Absent
  /\ \A v \in Versions : /\ ByInstall(v) \in Entries
                         /\ \A n \in Names : ByInstall(v).bytes[n] = Source(v)[n]
<1>1. \A v \in Versions : Source(v) \in [Names -> {Absent} \union Versions]
  BY DEF Source
<1>2. Nothing \in [Names -> {Absent}]
  BY DEF Nothing
<1>3. \A d \in Drafts : [n \in Names |-> IF n = "SKILL.md" THEN d ELSE Absent] \in [Names -> {Absent} \union Drafts]
  OBVIOUS
<1> DEFINE Fields(e) ==
      /\ e # Absent
      /\ e.bytes \in [Names -> {Absent} \union Drafts \union Versions]
      /\ e.by = "register" => e.bytes["extra"] = Absent
      /\ e.by = "nobody" => e = NoEntry
<1>4. ASSUME NEW e \in Entries
      PROVE  Fields(e)
  <2>1. e # Absent
    BY AbsentAssumption
  <2>2. CASE e = NoEntry
    BY <2>1, <2>2, <1>2 DEF NoEntry, Entry
  <2>3. ASSUME NEW d \in Drafts, e = ByRegister(d)
        PROVE  Fields(e)
    <3>1. e.by = "register" /\ e.bytes = [n \in Names |-> IF n = "SKILL.md" THEN d ELSE Absent]
      BY <2>3 DEF ByRegister, Entry
    <3> QED BY <3>1, <1>3, <2>1 DEF Names
  <2>4. ASSUME NEW v \in Versions, e = ByInstall(v)
        PROVE  Fields(e)
    <3>1. e.by = "install" /\ e.bytes = Source(v)
      BY <2>4 DEF ByInstall, Entry
    <3> QED BY <3>1, <1>1, <2>1
  <2> QED BY <2>2, <2>3, <2>4 DEF Entries
<1>5. NoEntry \in Entries /\ \A n \in Names : NoEntry.bytes[n] = Absent
  BY DEF Entries, NoEntry, Entry, Nothing
<1>6. \A d \in Drafts : /\ ByRegister(d) \in Entries
                       /\ ByRegister(d).bytes["SKILL.md"] = d
                       /\ ByRegister(d).bytes["extra"] = Absent
  BY DEF Entries, ByRegister, Entry, Names
<1>7. \A v \in Versions : /\ ByInstall(v) \in Entries
                         /\ \A n \in Names : ByInstall(v).bytes[n] = Source(v)[n]
  BY DEF Entries, ByInstall, Entry
<1> QED BY <1>4, <1>5, <1>6, <1>7

LEMMA ThenWritten ==
  ASSUME NEW S, NEW list, NEW t, NEW x \in S, Listing(list, S)
  PROVE  ThenIs(list, t, x.file) = x.bytes
<1>1. PICK i \in 1 .. Len(list) : list[i] = x
  BY DEF Listing
<1>2. \A j \in 1 .. Len(list) : list[j].file = x.file => j = i
  BY <1>1 DEF Listing
<1>3. (CHOOSE j \in 1 .. Len(list) : list[j].file = x.file) = i
  BY <1>1, <1>2
<1>4. \E j \in 1 .. Len(list) : list[j].file = x.file
  BY <1>1
<1>5. ThenIs(list, t, x.file) = list[i].bytes
  BY <1>3, <1>4, Zenon DEF ThenIs
<1> QED BY <1>1, <1>5

LEMMA ThenLeft ==
  ASSUME NEW S, NEW list, NEW t, NEW f, Listing(list, S), \A x \in S : x.file # f
  PROVE  ThenIs(list, t, f) = t[f]
<1>1. \A i \in 1 .. Len(list) : list[i] \in S
  BY DEF Listing
<1>2. ~ \E i \in 1 .. Len(list) : list[i].file = f
  BY <1>1
<1> QED BY <1>2, Zenon DEF ThenIs

LEMMA PlanParts ==
  ASSUME NEW S, NEW list, NEW t, NEW whose, Listing(list, S), LockLast(list),
         \A x \in S : WriteOK(x, t), Whole(list, t, whose)
  PROVE  PlanOK(list, t, whose)
<1>1. list \in Seq(S) /\ \A i \in 1 .. Len(list) : list[i] \in S
  BY DEF Listing
<1>2. \A x \in S : x \in Writes
  BY DEF WriteOK
<1>3. list \in Seq(Writes)
  BY <1>1, <1>2
<1> QED BY <1>1, <1>3 DEF PlanOK, Listing

LEMMA WriteFields ==
  ASSUME NEW f, NEW b
  PROVE  /\ Write(f, b).file = f /\ Write(f, b).bytes = b /\ Write(f, b).backup = tree[f]
         /\ Write(f, b) = [file |-> f, bytes |-> b, backup |-> tree[f]]
BY DEF Write

LEMMA SkillFilesFinite == IsFiniteSet(SkillFiles)
<1>1. IsFiniteSet({"SKILL.md"}) /\ IsFiniteSet({"extra"})
  BY FS_Singleton
<1>2. Names = {"SKILL.md"} \union {"extra"}
  BY DEF Names
<1>3. IsFiniteSet(Names)
  BY <1>1, <1>2, FS_Union
<1> QED BY <1>3, DirsAssumption, FS_Product DEF SkillFiles

LEMMA ListingOfWrites ==
  ASSUME NEW F \in SUBSET SkillFiles, NEW g
  PROVE  Listing(SetToSeq({Write(f, g[f]) : f \in F}), {Write(f, g[f]) : f \in F})
<1> DEFINE S == {Write(f, g[f]) : f \in F}
           h == [f \in F |-> Write(f, g[f])]
<1>1. IsFiniteSet(F)
  BY SkillFilesFinite, FS_Subset
<1>2. h \in Surjection(F, S)
  BY DEF Surjection
<1>3. IsFiniteSet(S)
  BY <1>1, <1>2, FS_Surjection
<1>4. ASSUME NEW x \in S, NEW y \in S, x.file = y.file
      PROVE  x = y
  <2>1. PICK f \in F : x = Write(f, g[f])
    OBVIOUS
  <2>2. PICK e \in F : y = Write(e, g[e])
    OBVIOUS
  <2>3. f = e
    BY <2>1, <2>2, <1>4, WriteFields
  <2> QED BY <2>1, <2>2, <2>3
<1> HIDE DEF S
<1>5. Listing(SetToSeq(S), S)
  BY <1>3, <1>4, ListingOfSet
<1> QED BY <1>5 DEF S

LEMMA ListingOfTexts ==
  ASSUME NEW b
  PROVE  Listing(Texts(b), {Write(SkillMd(d), b) : d \in Dirs})
<1> DEFINE S == {Write(SkillMd(d), b) : d \in Dirs}
           s == DirsInOrder
<1>1. /\ s \in Seq(Dirs)
      /\ \A x \in Dirs : \E i \in 1 .. Len(s) : s[i] = x
      /\ \A i, j \in 1 .. Len(s) : s[i] = s[j] => i = j
  BY SeqOfSet, DirsAssumption DEF DirsInOrder
<1>2. Texts(b) = [i \in 1 .. Len(s) |-> Write(SkillMd(s[i]), b)]
  <2>1. DOMAIN s = 1 .. Len(s)
    BY <1>1
  <2> QED BY <2>1 DEF Texts
<1> HIDE DEF s
<1> DEFINE u == [i \in 1 .. Len(s) |-> Write(SkillMd(s[i]), b)]
<1>3. \A i \in 1 .. Len(s) : s[i] \in Dirs
  BY <1>1
<1>4. u \in [1 .. Len(s) -> S]
  BY <1>3
<1>5. \A x \in S : \E i \in 1 .. Len(s) : u[i] = x
  BY <1>1
<1>6. ASSUME NEW i \in 1 .. Len(s), NEW j \in 1 .. Len(s), u[i].file = u[j].file
      PROVE  i = j
  <2>1. SkillMd(s[i]) = SkillMd(s[j])
    BY <1>6, WriteFields
  <2>2. s[i] = s[j]
    BY <2>1 DEF SkillMd
  <2> QED BY <2>2, <1>1
<1>7. Len(s) \in Nat
  BY <1>1
<1> HIDE DEF S, u
<1>8. u \in Seq(S) /\ Len(u) = Len(s)
  BY <1>4, <1>7
<1>9. Listing(u, S)
  BY <1>5, <1>6, <1>8 DEF Listing
<1> QED BY <1>2, <1>9 DEF S, u

LEMMA NamedByLocked ==
  /\ TreeTidy(tree, made, litter) => Locked \in Entries
  /\ \A f : NamedBy(tree[LockFile], f) = Recorded(f)
  /\ \A e \in Entries : \A f : NamedBy(e, f) = e.bytes[f[2]]
BY EntryFields DEF TreeTidy, TreeTypes, Locked, NamedBy, Recorded

LEMMA TreeKinds ==
  ASSUME TreeTidy(tree, made, litter)
  PROVE  /\ \A f \in Files : tree[f] \in AllBytes
         /\ \A f \in SkillFiles : tree[f] \in FileBytes /\ Recorded(f) \in FileBytes /\ Recorded(f) # Persons
         /\ Absent \in FileBytes /\ Absent # Persons
         /\ \A d \in Drafts : d # Persons /\ d \in FileBytes
         /\ \A v \in Versions : v # Persons /\ v \in FileBytes
         /\ \A v \in Versions, n \in Names : Source(v)[n] \in FileBytes /\ Source(v)[n] # Persons
<1>1. \A f \in Files : tree[f] \in AllBytes
  BY DEF TreeTidy, TreeTypes
<1>2. Absent \in FileBytes /\ Absent # Persons
  BY AbsentAssumption DEF FileBytes
<1>3. \A d \in Drafts : d # Persons /\ d \in FileBytes
  BY PersonsAssumption DEF FileBytes
<1>4. \A v \in Versions : v # Persons /\ v \in FileBytes
  BY DEF FileBytes, Versions, Persons
<1>5. \A v \in Versions, n \in Names : Source(v)[n] \in FileBytes /\ Source(v)[n] # Persons
  BY <1>2, <1>4 DEF Source
<1>6. \A f \in SkillFiles : Recorded(f) \in {Absent} \union Drafts \union Versions
  <2>1. Locked \in Entries
    BY NamedByLocked
  <2> QED BY <2>1, EntryFields, LockIsApart DEF Recorded
<1>7. \A f \in SkillFiles : tree[f] \in FileBytes
  BY DEF TreeTidy, TreeTypes
<1> QED BY <1>1, <1>2, <1>3, <1>4, <1>5, <1>6, <1>7

LEMMA WriteOfPlan ==
  ASSUME TreeTidy(tree, made, litter), NEW f \in SkillFiles, NEW b \in FileBytes \ {Persons},
         tree[f] # Persons
  PROVE  WriteOK(Write(f, b), tree)
<1>1. f \in Files /\ f # LockFile /\ b \in AllBytes
  BY LockIsApart DEF AllBytes
<1>2. tree[f] \in AllBytes
  BY <1>1, TreeKinds
<1>3. Write(f, b) \in Writes
  BY <1>1, <1>2, WriteFields DEF Writes
<1> QED BY <1>1, <1>3, WriteFields DEF WriteOK

LEMMA LockWriteOfPlan ==
  ASSUME TreeTidy(tree, made, litter), NEW e \in Entries
  PROVE  WriteOK(LockWrite(e), tree) /\ LockWrite(e).file = LockFile /\ LockWrite(e).bytes = e
<1>1. LockFile \in Files /\ LockFile \notin SkillFiles /\ e \in AllBytes
  BY LockIsApart DEF AllBytes
<1>2. tree[LockFile] \in AllBytes
  BY <1>1, TreeKinds
<1>3. Write(LockFile, e) \in Writes
  BY <1>1, <1>2, WriteFields DEF Writes
<1> QED BY <1>1, <1>3, WriteFields DEF WriteOK, LockWrite

(* The plans of register, revise and retire.                               *)
LEMMA TextPlan ==
  ASSUME TreeTidy(tree, made, litter), NEW whose, NEW b \in FileBytes \ {Persons}, NEW e \in Entries,
         \A d \in Dirs : tree[SkillMd(d)] # Persons,
         e.bytes["SKILL.md"] = b, e.bytes["extra"] = Absent,
         \A f \in SkillFiles : f[2] = "extra" => Recorded(f) = Absent
  PROVE  PlanOK(Append(Texts(b), LockWrite(e)), tree, whose)
<1> DEFINE S == {Write(SkillMd(d), b) : d \in Dirs}
           T == S \union {LockWrite(e)}
           list == Append(Texts(b), LockWrite(e))
<1>1. Listing(Texts(b), S) /\ Listing(<<LockWrite(e)>>, {LockWrite(e)})
  BY ListingOfTexts, ListingOne
<1>2. \A d \in Dirs : SkillMd(d) \in SkillFiles /\ SkillMd(d) # LockFile
  <2>1. \A d \in Dirs : SkillMd(d) \in SkillFiles
    BY LockIsApart DEF SkillMd, Names
  <2> QED BY <2>1, LockIsApart
<1>3. \A x \in S : x.file # LockFile
  BY <1>2, WriteFields
<1>4. LockWrite(e).file = LockFile /\ LockWrite(e).bytes = e /\ WriteOK(LockWrite(e), tree)
  BY LockWriteOfPlan
<1>5. list = Texts(b) \o <<LockWrite(e)>>
  <2>1. Texts(b) \in Seq(S \union {LockWrite(e)})
    BY <1>1 DEF Listing
  <2> QED BY <2>1
<1>6. Listing(list, T)
  BY <1>1, <1>3, <1>4, <1>5, ListingJoined
<1>7. LockLast(list)
  BY <1>1, <1>3, JoinedLockLast
<1>8. \A x \in T : WriteOK(x, tree)
  BY <1>2, <1>4, WriteOfPlan
<1>9. ThenIs(list, tree, LockFile) = e
  BY <1>4, <1>6, ThenWritten
<1>10. ASSUME NEW f \in SkillFiles,
              Recorded(f) # Absent \/ e.bytes[f[2]] # Absent
       PROVE  ThenIs(list, tree, f) = e.bytes[f[2]]
  <2>1. f[2] = "SKILL.md" /\ f[1] \in Dirs
    BY <1>10, LockIsApart DEF Names
  <2>2. f = SkillMd(f[1])
    BY <2>1, LockIsApart DEF SkillMd
  <2>3. Write(f, b) \in T
    BY <2>1, <2>2
  <2>4. ThenIs(list, tree, Write(f, b).file) = Write(f, b).bytes
    BY <2>3, <1>6, ThenWritten
  <2> QED BY <2>1, <2>4, WriteFields
<1> HIDE DEF list, T
<1>11. Whole(list, tree, whose)
  BY <1>9, <1>10, NamedByLocked DEF Whole
<1>12. PlanOK(list, tree, whose)
  BY <1>6, <1>7, <1>8, <1>11, PlanParts
<1> QED BY <1>12 DEF list

LEMMA RegisterPlanOK ==
  ASSUME TreeTidy(tree, made, litter), NEW d \in Drafts, MayRegister \/ AgentOwned, NEW whose
  PROVE  PlanOK(RegisterPlan(d), tree, whose)
<1>1. Locked \in Entries /\ \A f \in SkillFiles : Recorded(f) # Persons
  BY NamedByLocked, TreeKinds
<1>2. \A c \in Dirs : SkillMd(c) \in SkillFiles
  BY LockIsApart DEF SkillMd, Names
<1>3. \A c \in Dirs : tree[SkillMd(c)] # Persons
  <2>1. CASE MayRegister
    BY <2>1, <1>2, TreeKinds DEF MayRegister, TreeTidy
  <2>2. CASE AgentOwned
    BY <2>2, <1>1, <1>2 DEF AgentOwned, Owned
  <2> QED BY <2>1, <2>2
<1>4. \A f \in SkillFiles : f[2] = "extra" => Recorded(f) = Absent
  <2>1. CASE MayRegister
    BY <2>1, EntryFields DEF MayRegister, Recorded, Names
  <2>2. CASE AgentOwned
    BY <2>2, <1>1, EntryFields DEF AgentOwned, Recorded
  <2> QED BY <2>1, <2>2
<1>5. d \in FileBytes \ {Persons}
  BY TreeKinds
<1>6. ByRegister(d) \in Entries /\ ByRegister(d).bytes["SKILL.md"] = d /\ ByRegister(d).bytes["extra"] = Absent
  BY EntryFields
<1>8. PlanOK(Append(Texts(d), LockWrite(ByRegister(d))), tree, whose)
  BY <1>3, <1>4, <1>5, <1>6, TextPlan
<1> QED BY <1>8 DEF RegisterPlan

LEMMA RetirePlanOK ==
  ASSUME TreeTidy(tree, made, litter), AgentOwned
  PROVE  PlanOK(RetirePlan, tree, "retire")
<1>1. Locked \in Entries /\ \A f \in SkillFiles : Recorded(f) # Persons
  BY NamedByLocked, TreeKinds
<1>2. \A c \in Dirs : SkillMd(c) \in SkillFiles
  BY LockIsApart DEF SkillMd, Names
<1>3. \A c \in Dirs : tree[SkillMd(c)] # Persons
  BY <1>1, <1>2 DEF AgentOwned, Owned
<1>4. \A f \in SkillFiles : f[2] = "extra" => Recorded(f) = Absent
  BY <1>1, EntryFields DEF AgentOwned, Recorded
<1>5. Absent \in FileBytes \ {Persons}
  BY TreeKinds
<1>7. NoEntry \in Entries /\ NoEntry.bytes["SKILL.md"] = Absent /\ NoEntry.bytes["extra"] = Absent
  BY EntryFields DEF Names
<1>9. PlanOK(Append(Texts(Absent), LockWrite(NoEntry)), tree, "retire")
  BY <1>3, <1>4, <1>5, <1>7, TextPlan
<1> QED BY <1>9 DEF RetirePlan

(* That of adopt writes the lock alone.                                    *)
LEMMA AdoptPlanOK ==
  ASSUME TreeTidy(tree, made, litter), NEW v \in Versions, MayAdopt(v)
  PROVE  PlanOK(AdoptPlan(v), tree, "adopt")
<1> DEFINE e == ByInstall(v)
           list == <<LockWrite(e)>>
<1>1. e \in Entries /\ \A n \in Names : e.bytes[n] = Source(v)[n]
  BY EntryFields
<1> HIDE DEF e
<1>2. WriteOK(LockWrite(e), tree) /\ LockWrite(e).file = LockFile /\ LockWrite(e).bytes = e
  BY <1>1, LockWriteOfPlan
<1>3. Listing(list, {LockWrite(e)})
  BY ListingOne
<1>4. LockLast(list)
  BY DEF LockLast
<1>5. ThenIs(list, tree, LockFile) = e
  BY <1>2, <1>3, ThenWritten
<1>6. \A f \in SkillFiles : ThenIs(list, tree, f) = tree[f]
  BY <1>2, <1>3, ThenLeft, LockIsApart
<1>7. \A f \in SkillFiles : tree[f] = Source(v)[f[2]] \/ tree[f] = Absent
  BY DEF MayAdopt, TreeTidy
<1>8. \A f \in SkillFiles : NamedBy(e, f) = Source(v)[f[2]]
  BY <1>1, NamedByLocked, LockIsApart
<1>9. Whole(list, tree, "adopt")
  BY <1>5, <1>6, <1>7, <1>8 DEF Whole
<1>10. PlanOK(list, tree, "adopt")
  BY <1>2, <1>3, <1>4, <1>9, PlanParts
<1> QED BY <1>10 DEF e, AdoptPlan

LEMMA InstallPlanOK ==
  ASSUME TreeTidy(tree, made, litter), NEW v \in Versions, MayInstall(v)
  PROVE  PlanOK(InstallPlan(v), tree, "install")
<1> DEFINE A == {Write(f, Source(v)[f[2]]) : f \in Changed(v)}
           B == {Write(f, Absent) : f \in Dropped(v)}
           e == ByInstall(v)
           s == SetToSeq(A) \o SetToSeq(B)
           T == A \union B
<1>1. e \in Entries /\ \A n \in Names : e.bytes[n] = Source(v)[n]
  BY EntryFields
<1>2. WriteOK(LockWrite(e), tree) /\ LockWrite(e).file = LockFile /\ LockWrite(e).bytes = e
  BY <1>1, LockWriteOfPlan
<1>3. Changed(v) \in SUBSET SkillFiles /\ Dropped(v) \in SUBSET SkillFiles
  BY DEF Changed, Dropped
<1>4. Listing(SetToSeq(A), A)
  <2> DEFINE g == [f \in SkillFiles |-> Source(v)[f[2]]]
  <2>1. A = {Write(f, g[f]) : f \in Changed(v)}
    BY <1>3
  <2> HIDE DEF g, A
  <2> QED BY <2>1, <1>3, ListingOfWrites
<1>5. Listing(SetToSeq(B), B)
  <2> DEFINE g == [f \in SkillFiles |-> Absent]
  <2>1. B = {Write(f, g[f]) : f \in Dropped(v)}
    BY <1>3
  <2> HIDE DEF g, B
  <2> QED BY <2>1, <1>3, ListingOfWrites
<1>6. Changed(v) \intersect Dropped(v) = {}
  BY DEF Changed, Dropped
<1>7. \A x \in A, y \in B : x.file # y.file
  BY <1>6, WriteFields
<1>8. Listing(s, T)
  BY <1>4, <1>5, <1>7, ListingJoined
<1>9. \A f \in Changed(v) \union Dropped(v) : tree[f] # Persons
  <2>1. CASE /\ Locked.by = "install"
             /\ \A f \in SkillFiles : Recorded(f) # Absent => Untampered(f)
             /\ \A f \in SkillFiles : Clear(f, v)
    BY <2>1, TreeKinds, <1>3 DEF Untampered, Clear, Changed, Dropped
  <2>2. CASE Locked = NoEntry /\ made = {}
    BY <2>2, <1>3, TreeKinds DEF TreeTidy
  <2> QED BY <2>1, <2>2 DEF MayInstall
<1>10. \A x \in T : WriteOK(x, tree) /\ x.file \in SkillFiles
  <2>1. ASSUME NEW f \in Changed(v) PROVE WriteOK(Write(f, Source(v)[f[2]]), tree)
    BY <1>3, <1>9, WriteOfPlan, TreeKinds, LockIsApart
  <2>2. ASSUME NEW f \in Dropped(v) PROVE WriteOK(Write(f, Absent), tree)
    BY <1>3, <1>9, WriteOfPlan, TreeKinds
  <2> QED BY <2>1, <2>2, <1>3, WriteFields
<1>11. \A x \in T : x.file # LockFile
  BY <1>10, LockIsApart
<1>12. ASSUME NEW f \in SkillFiles, NEW list, NEW S, Listing(list, S), S \in {T, T \union {LockWrite(e)}},
              Recorded(f) # Absent \/ Source(v)[f[2]] # Absent
       PROVE  ThenIs(list, tree, f) = Source(v)[f[2]]
  <2>1. CASE f \in Changed(v)
    <3>1. Write(f, Source(v)[f[2]]) \in S
      BY <2>1, <1>12
    <3>2. ThenIs(list, tree, Write(f, Source(v)[f[2]]).file) = Write(f, Source(v)[f[2]]).bytes
      BY <3>1, <1>12, ThenWritten
    <3> QED BY <3>2, WriteFields
  <2>2. CASE f \in Dropped(v)
    <3>1. Write(f, Absent) \in S
      BY <2>2, <1>12
    <3>2. ThenIs(list, tree, Write(f, Absent).file) = Write(f, Absent).bytes
      BY <3>1, <1>12, ThenWritten
    <3> QED BY <2>2, <3>2, WriteFields DEF Dropped
  <2>3. CASE f \notin Changed(v) \union Dropped(v)
    <3>1. \A x \in S : x.file # f
      BY <2>3, <1>2, <1>12, WriteFields, LockIsApart
    <3>2. ThenIs(list, tree, f) = tree[f]
      BY <3>1, <1>12, ThenLeft
    <3> QED BY <2>3, <3>2, <1>12 DEF Changed, Dropped
  <2> QED BY <2>1, <2>2, <2>3
<1>13. \A f \in SkillFiles : NamedBy(e, f) = Source(v)[f[2]]
  BY <1>1, NamedByLocked, LockIsApart
<1>14. LockLast(s) /\ LockLast(s \o <<LockWrite(e)>>)
  BY <1>8, <1>11, JoinedLockLast
<1> DEFINE full == s \o <<LockWrite(e)>>
           U == T \union {LockWrite(e)}
<1>15. Listing(full, U)
  <2>1. Listing(<<LockWrite(e)>>, {LockWrite(e)})
    BY ListingOne
  <2> QED BY <2>1, <1>2, <1>8, <1>11, ListingJoined
<1> HIDE DEF T, s
<1>16. CASE Locked = ByInstall(v)
  <2>1. InstallPlan(v) = s
    <3>1. s \in Seq(T)
      BY <1>8 DEF Listing
    <3>2. s \o <<>> = s
      BY <3>1
    <3> QED BY <3>2, <1>16 DEF InstallPlan, s
  <2>2. ThenIs(s, tree, LockFile) = tree[LockFile]
    BY <1>8, <1>11, ThenLeft
  <2>3. \A f \in SkillFiles : NamedBy(tree[LockFile], f) = Source(v)[f[2]] /\ Recorded(f) = Source(v)[f[2]]
    BY <1>1, <1>16, NamedByLocked, LockIsApart DEF Recorded
  <2>4. Whole(s, tree, "install")
    BY <2>2, <2>3, <1>8, <1>12, NamedByLocked DEF Whole
  <2> QED BY <2>1, <2>4, <1>8, <1>10, <1>14, PlanParts
<1>17. CASE Locked # ByInstall(v)
  <2>1. InstallPlan(v) = full
    BY <1>17 DEF InstallPlan, s
  <2>2. ThenIs(full, tree, LockFile) = e
    BY <1>2, <1>15, ThenWritten
  <2>3. Whole(full, tree, "install")
    BY <2>2, <1>13, <1>15, <1>12, NamedByLocked DEF Whole
  <2>4. \A x \in U : WriteOK(x, tree)
    BY <1>2, <1>10
  <2> HIDE DEF full, U
  <2> QED BY <2>1, <2>3, <2>4, <1>14, <1>15, PlanParts DEF full
<1> QED BY <1>16, <1>17

LEMMA UninstallPlanOK ==
  ASSUME TreeTidy(tree, made, litter), MayUninstall
  PROVE  PlanOK(UninstallPlan, tree, "uninstall")
<1> DEFINE F == {g \in SkillFiles : Recorded(g) # Absent /\ tree[g] # Absent}
           B == {Write(f, Absent) : f \in F}
           e == NoEntry
           list == SetToSeq(B) \o <<LockWrite(e)>>
           T == B \union {LockWrite(e)}
<1>1. e \in Entries /\ \A n \in Names : e.bytes[n] = Absent
  BY EntryFields
<1>2. WriteOK(LockWrite(e), tree) /\ LockWrite(e).file = LockFile /\ LockWrite(e).bytes = e
  BY <1>1, LockWriteOfPlan
<1>3. F \in SUBSET SkillFiles
  OBVIOUS
<1>4. Listing(SetToSeq(B), B)
  <2> DEFINE g == [f \in SkillFiles |-> Absent]
  <2>1. B = {Write(f, g[f]) : f \in F}
    OBVIOUS
  <2> HIDE DEF g, B, F
  <2> QED BY <2>1, <1>3, ListingOfWrites
<1>5. \A f \in F : tree[f] # Persons
  BY TreeKinds DEF MayUninstall, Untampered
<1>6. \A x \in B : WriteOK(x, tree) /\ x.file \in SkillFiles
  BY <1>5, WriteOfPlan, TreeKinds, WriteFields
<1>7. \A x \in B : x.file # LockFile
  BY <1>6, LockIsApart
<1>8. Listing(list, T) /\ LockLast(list)
  <2>1. Listing(<<LockWrite(e)>>, {LockWrite(e)})
    BY ListingOne
  <2> QED BY <2>1, <1>2, <1>4, <1>7, ListingJoined, JoinedLockLast
<1>9. \A x \in T : WriteOK(x, tree)
  BY <1>2, <1>6
<1>10. ThenIs(list, tree, LockFile) = e
  <2>1. LockWrite(e) \in T
    OBVIOUS
  <2> HIDE DEF T, list
  <2>2. ThenIs(list, tree, LockWrite(e).file) = LockWrite(e).bytes
    BY <2>1, <1>8, ThenWritten
  <2> QED BY <2>2, <1>2
<1>11. \A f \in SkillFiles : NamedBy(e, f) = Absent
  BY <1>1, NamedByLocked, LockIsApart
<1>12. ASSUME NEW f \in SkillFiles, Recorded(f) # Absent
       PROVE  ThenIs(list, tree, f) = Absent
  <2>1. CASE f \in F
    <3>1. Write(f, Absent) \in T
      BY <2>1
    <3>2. ThenIs(list, tree, Write(f, Absent).file) = Write(f, Absent).bytes
      BY <3>1, <1>8, ThenWritten
    <3> QED BY <3>2, WriteFields
  <2>2. CASE f \notin F
    <3>1. \A x \in T : x.file # f
      BY <2>2, <1>2, WriteFields, LockIsApart
    <3>2. ThenIs(list, tree, f) = tree[f]
      BY <3>1, <1>8, ThenLeft
    <3> QED BY <2>2, <3>2, <1>12
  <2> QED BY <2>1, <2>2
<1> HIDE DEF T, list
<1>13. Whole(list, tree, "uninstall")
  BY <1>10, <1>11, <1>12, NamedByLocked DEF Whole
<1>14. PlanOK(list, tree, "uninstall")
  BY <1>8, <1>9, <1>13, PlanParts
<1> QED BY <1>14 DEF UninstallPlan, list

SkillPhases ==
  {"idle", "planned", "staging", "committing", "done", "undoing", "failed", "incomplete"}
SkillVerbs == {"none", "register", "revise", "retire", "install", "adopt", "uninstall"}
SkillRuns ==
  [at : SkillPhases, kind : SkillVerbs, order : Seq(Writes), next : Nat, staged : SUBSET Nat,
   attempted : SUBSET Nat, undo : Seq(Nat), bad : BOOLEAN, created : SUBSET Dirs]

SkillTypes ==
  /\ TreeTidy(tree, made, litter)
  /\ before \in [tree : [Files -> AllBytes], made : SUBSET Dirs, litter : SUBSET Dirs]
  /\ TreeTidy(before.tree, before.made, before.litter)
  /\ run \in SkillRuns
  /\ persons \subseteq SkillFiles /\ touched \subseteq SkillFiles

(* How far a verb is with its plan.                                        *)
Positions == 1 .. Len(run.order)

RunProgress ==
  /\ run.at = "idle" => run.order = <<>>
  /\ run.at # "idle" => PlanOK(run.order, before.tree, run.kind)
  /\ run.next \in 1 .. Len(run.order) + 1
  /\ run.attempted \subseteq Positions /\ run.staged \subseteq Positions
  /\ run.at \in {"planned", "staging"} => run.attempted = {}
  /\ run.at = "planned" => run.next = 1
  /\ run.at = "committing" =>
       run.attempted = 1 .. run.next - 1 /\ run.staged \intersect run.attempted = {}
  /\ run.at = "done" => run.attempted = Positions
  /\ run.at \in {"done", "failed", "incomplete"} => run.staged = {}
  /\ run.at = "failed" => ~run.bad /\ run.undo = <<>>
  /\ \A k \in 1 .. Len(run.undo) : run.undo[k] \in Positions

(* Where a file is staged there is a directory.                            *)
SkillReady ==
  /\ \A i \in run.staged : DirMadeFor(i) \subseteq made
  /\ run.at = "staging" => \A i \in 1 .. run.next - 1 : ~Deletes(i) => DirMadeFor(i) \subseteq made
  /\ run.at = "committing" => \A i \in Positions : ~Deletes(i) => DirMadeFor(i) \subseteq made

(* The files nobody touched are as they were, but for those written.       *)
FilesFollow ==
  /\ run.at \in {"planned", "staging", "committing", "done"} =>
       /\ \A i \in run.attempted : FileAt(i) \notin touched => tree[FileAt(i)] = run.order[i].bytes
       /\ \A f \in Files \ touched :
            (\A i \in run.attempted : FileAt(i) # f) => tree[f] = before.tree[f]
  /\ run.at \in {"undoing", "failed"} /\ ~run.bad =>
       \A f \in Files \ touched :
         (\A k \in 1 .. Len(run.undo) : FileAt(run.undo[k]) # f) => tree[f] = before.tree[f]

DirsFollow ==
  /\ run.at # "idle" => litter = before.litter
  /\ run.at \in {"planned", "staging", "committing", "undoing"} =>
       /\ before.made \subseteq made /\ run.created \subseteq made
       /\ run.created \intersect before.made = {}
       /\ \A d \in made : InDir(d) \intersect touched = {} => d \in before.made \union run.created
  /\ run.at = "failed" =>
       \A d \in Dirs : InDir(d) \intersect touched = {} => (d \in made <=> d \in before.made)

(* A person's file is in no plan.                                          *)
PersonsApart ==
  \A f \in persons : tree[f] = Persons /\ \A i \in Positions : FileAt(i) # f

SkillsInv ==
  SkillTypes /\ RunProgress /\ SkillReady /\ FilesFollow /\ DirsFollow /\ PersonsApart

(* What a step makes of the verb that runs, field by field.                *)
BecomesRun(phase, next, ready, reached, back, spoilt, new) ==
  /\ run' \in SkillRuns
  /\ run'.at = phase /\ run'.kind = run.kind /\ run'.order = run.order /\ run'.next = next
  /\ run'.staged = ready /\ run'.attempted = reached /\ run'.undo = back /\ run'.bad = spoilt
  /\ run'.created = new

LEMMA SkillRunFields ==
  ASSUME run \in SkillRuns, NEW n \in Nat, NEW S \in SUBSET Nat, NEW A \in SUBSET Nat,
         NEW D \in SUBSET Dirs, NEW u \in Seq(Nat), NEW phase \in SkillPhases
  PROVE  /\ run' = [run EXCEPT !.next = n, !.created = D, !.staged = S]
              => BecomesRun(run.at, n, S, run.attempted, run.undo, run.bad, D)
         /\ run' = [run EXCEPT !.next = n, !.attempted = A, !.staged = S]
              => BecomesRun(run.at, n, S, A, run.undo, run.bad, run.created)
         /\ run' = [run EXCEPT !.at = phase, !.attempted = A, !.undo = u]
              => BecomesRun(phase, run.next, run.staged, A, u, run.bad, run.created)
         /\ run' = [run EXCEPT !.undo = u]
              => BecomesRun(run.at, run.next, run.staged, run.attempted, u, run.bad, run.created)
         /\ run' = [run EXCEPT !.undo = u, !.bad = TRUE]
              => BecomesRun(run.at, run.next, run.staged, run.attempted, u, TRUE, run.created)
         /\ run' = [run EXCEPT !.at = phase, !.staged = {}]
              => BecomesRun(phase, run.next, {}, run.attempted, run.undo, run.bad, run.created)
         /\ run' = [run EXCEPT !.at = phase]
              => BecomesRun(phase, run.next, run.staged, run.attempted, run.undo, run.bad, run.created)
         /\ run' = [run EXCEPT !.at = phase, !.next = n]
              => BecomesRun(phase, n, run.staged, run.attempted, run.undo, run.bad, run.created)
BY DEF BecomesRun, SkillRuns

LEMMA SkillRunTyped ==
  ASSUME run \in SkillRuns
  PROVE  /\ run.at \in SkillPhases /\ run.order \in Seq(Writes) /\ run.next \in Nat
         /\ run.staged \in SUBSET Nat /\ run.attempted \in SUBSET Nat /\ run.undo \in Seq(Nat)
         /\ run.bad \in BOOLEAN /\ run.created \in SUBSET Dirs /\ Len(run.order) \in Nat
         /\ Indexes = Positions /\ Positions \subseteq Nat
<1>1. /\ run.at \in SkillPhases /\ run.order \in Seq(Writes) /\ run.next \in Nat
      /\ run.staged \in SUBSET Nat /\ run.attempted \in SUBSET Nat /\ run.undo \in Seq(Nat)
      /\ run.bad \in BOOLEAN /\ run.created \in SUBSET Dirs
  BY DEF SkillRuns
<1>2. Len(run.order) \in Nat /\ DOMAIN run.order = 1 .. Len(run.order)
  BY <1>1
<1>3. Indexes = Positions /\ Positions \subseteq Nat
  BY <1>2 DEF Indexes, Positions
<1> QED BY <1>1, <1>2, <1>3

LEMMA IdleRun ==
  /\ NoRun \in SkillRuns
  /\ NoRun.at = "idle" /\ NoRun.order = <<>> /\ NoRun.next = 1 /\ NoRun.staged = {}
  /\ NoRun.attempted = {} /\ NoRun.undo = <<>>
<1>1. <<>> \in Seq(Writes) /\ <<>> \in Seq(Nat) /\ "none" \in SkillVerbs
  BY DEF SkillVerbs
<1> QED BY <1>1 DEF NoRun, SkillRuns, SkillPhases

LEMMA PlannedRun ==
  ASSUME NEW whose \in SkillVerbs, NEW list \in Seq(Writes),
         run' = [NoRun EXCEPT !.at = "planned", !.kind = whose, !.order = list]
  PROVE  /\ run' \in SkillRuns
         /\ run'.at = "planned" /\ run'.kind = whose /\ run'.order = list /\ run'.next = 1
         /\ run'.staged = {} /\ run'.attempted = {} /\ run'.undo = <<>> /\ run'.created = {}
<1>1. <<>> \in Seq(Nat)
  OBVIOUS
<1> QED BY <1>1 DEF NoRun, SkillRuns, SkillPhases

LEMMA SkillsInitInv == SkillsInit => SkillsInv
<1> SUFFICES ASSUME SkillsInit PROVE SkillsInv
  OBVIOUS
<1>1. Absent \in FileBytes /\ Absent \in AllBytes
  BY DEF FileBytes, AllBytes
<1>2. TreeTidy(tree, made, litter)
  BY <1>1, LockIsApart DEF SkillsInit, TreeTidy, TreeTypes
<1>3. before = [tree |-> tree, made |-> {}, litter |-> {}] /\ made = {} /\ litter = {}
  BY DEF SkillsInit
<1>4. tree \in [Files -> AllBytes]
  BY <1>2 DEF TreeTidy, TreeTypes
<1>5. /\ before \in [tree : [Files -> AllBytes], made : SUBSET Dirs, litter : SUBSET Dirs]
      /\ before.tree = tree /\ before.made = made /\ before.litter = litter
  BY <1>3, <1>4
<1>6. run = NoRun /\ persons = {} /\ touched = {}
  BY DEF SkillsInit
<1>7. SkillTypes
  BY <1>2, <1>5, <1>6, IdleRun DEF SkillTypes
<1>8. Len(<<>>) = 0 /\ 1 .. 0 = {}
  OBVIOUS
<1>9. RunProgress /\ SkillReady /\ FilesFollow /\ DirsFollow /\ PersonsApart
  BY <1>6, <1>8, IdleRun DEF RunProgress, SkillReady, FilesFollow, DirsFollow, PersonsApart, Positions
<1> QED BY <1>7, <1>9 DEF SkillsInv

(* Every verb begins with a plan that holds.                               *)
LEMMA PlanKept ==
  ASSUME SkillsInv, NEW whose \in SkillVerbs, NEW list, PlanOK(list, tree, whose), Plan(whose, list)
  PROVE  SkillsInv'
<1>1. TreeTidy(tree, made, litter) /\ run \in SkillRuns
  BY DEF SkillsInv, SkillTypes
<1>2. list \in Seq(Writes)
  BY DEF PlanOK
<1>3. /\ run' \in SkillRuns
      /\ run'.at = "planned" /\ run'.kind = whose /\ run'.order = list /\ run'.next = 1
      /\ run'.staged = {} /\ run'.attempted = {} /\ run'.undo = <<>> /\ run'.created = {}
  BY <1>2, PlannedRun DEF Plan
<1>4. UNCHANGED <<tree, made, litter>> /\ touched' = {} /\ persons' = {f \in SkillFiles : tree[f] = Persons}
  BY DEF Plan, files
<1>5. tree \in [Files -> AllBytes] /\ made \in SUBSET Dirs /\ litter \in SUBSET Dirs
  BY <1>1 DEF TreeTidy, TreeTypes
<1>6. /\ before' \in [tree : [Files -> AllBytes], made : SUBSET Dirs, litter : SUBSET Dirs]
      /\ before'.tree = tree /\ before'.made = made /\ before'.litter = litter
  BY <1>5 DEF Plan
<1>7. SkillTypes'
  BY <1>1, <1>3, <1>4, <1>6 DEF SkillTypes, TreeTidy, TreeTypes
<1>8. Len(<<>>) = 0 /\ 1 .. 0 = {} /\ Len(list) \in Nat
  BY <1>2
<1>9. RunProgress'
  BY <1>3, <1>6, <1>8 DEF RunProgress, Positions
<1>10. SkillReady' /\ FilesFollow'
  BY <1>3, <1>4, <1>6 DEF SkillReady, FilesFollow
<1>11. DirsFollow'
  BY <1>3, <1>4, <1>6 DEF DirsFollow
<1>12. ASSUME NEW f \in SkillFiles, tree[f] = Persons, NEW i \in 1 .. Len(list)
       PROVE  list[i].file # f
  BY <1>12 DEF PlanOK, WriteOK
<1>13. PersonsApart'
  BY <1>3, <1>4, <1>12 DEF PersonsApart, Positions, FileAt
<1> QED BY <1>7, <1>9, <1>10, <1>11, <1>13 DEF SkillsInv

LEMMA PlansKept ==
  ASSUME SkillsInv,
         \/ \E d \in Drafts : ProjectRegister(d) \/ ProjectRevise(d)
         \/ ProjectRetire \/ Uninstall
         \/ \E v \in Versions : Install(v) \/ Adopt(v)
  PROVE  SkillsInv'
<1>1. TreeTidy(tree, made, litter)
  BY DEF SkillsInv, SkillTypes
<1>2. ASSUME NEW d \in Drafts, ProjectRegister(d) PROVE SkillsInv'
  BY <1>1, <1>2, RegisterPlanOK, PlanKept DEF ProjectRegister, SkillVerbs
<1>3. ASSUME NEW d \in Drafts, ProjectRevise(d) PROVE SkillsInv'
  BY <1>1, <1>3, RegisterPlanOK, PlanKept DEF ProjectRevise, SkillVerbs
<1>4. CASE ProjectRetire
  BY <1>1, <1>4, RetirePlanOK, PlanKept DEF ProjectRetire, SkillVerbs
<1>5. CASE Uninstall
  BY <1>1, <1>5, UninstallPlanOK, PlanKept DEF Uninstall, SkillVerbs
<1>6. ASSUME NEW v \in Versions, Install(v) PROVE SkillsInv'
  BY <1>1, <1>6, InstallPlanOK, PlanKept DEF Install, SkillVerbs
<1>7. ASSUME NEW v \in Versions, Adopt(v) PROVE SkillsInv'
  BY <1>1, <1>7, AdoptPlanOK, PlanKept DEF Adopt, SkillVerbs
<1> QED BY <1>2, <1>3, <1>4, <1>5, <1>6, <1>7

LEMMA SkillRunEnds ==
  ASSUME SkillsInv, run' = NoRun, UNCHANGED <<tree, made, before, persons, touched>>,
         litter' \in SUBSET made
  PROVE  SkillsInv'
<1>1. Len(<<>>) = 0 /\ 1 .. 0 = {}
  OBVIOUS
<1>2. SkillTypes'
  BY IdleRun DEF SkillsInv, SkillTypes, TreeTidy, TreeTypes
<1>3. RunProgress' /\ SkillReady' /\ FilesFollow' /\ DirsFollow'
  BY <1>1, IdleRun DEF RunProgress, SkillReady, FilesFollow, DirsFollow, Positions
<1>4. PersonsApart'
  BY <1>1, IdleRun DEF SkillsInv, PersonsApart, Positions
<1> QED BY <1>2, <1>3, <1>4 DEF SkillsInv

LEMMA StagedDirs ==
  ASSUME SkillsInv
  PROVE  UNION {DirMadeFor(i) : i \in run.staged} \subseteq made
BY DEF SkillsInv, SkillReady

LEMMA EndsKept ==
  ASSUME SkillsInv, Answer \/ Killed
  PROVE  SkillsInv'
<1>1. litter \in SUBSET made
  BY DEF SkillsInv, SkillTypes, TreeTidy
<1>2. CASE Answer
  BY <1>1, <1>2, SkillRunEnds DEF Answer, files, ghosts
<1>3. CASE Killed
  BY <1>1, <1>3, StagedDirs, SkillRunEnds DEF Killed, ghosts
<1> QED BY <1>2, <1>3

LEMMA LookAgainKept ==
  ASSUME SkillsInv, LookAgain
  PROVE  SkillsInv'
<1>1. run \in SkillRuns /\ TreeTidy(tree, made, litter) /\ RunProgress /\ PersonsApart
  BY DEF SkillsInv, SkillTypes
<1>2. litter \in SUBSET made
  BY <1>1 DEF TreeTidy
<1>3. UNCHANGED <<tree, made, litter, before, touched>> /\ run.at = "planned"
  BY DEF LookAgain, files, Running
<1>4. CASE ~ \A i \in Indexes : AsPlanned(run.order[i])
  BY <1>2, <1>3, <1>4, SkillRunEnds DEF LookAgain
<1>5. CASE \A i \in Indexes : AsPlanned(run.order[i])
  <2>1. run' = [run EXCEPT !.at = "staging"]
    BY <1>5 DEF LookAgain
  <2>2. persons' = persons \union {f \in SkillFiles : tree[f] = Persons /\ before.tree[f] = Absent}
    BY <1>5 DEF LookAgain
  <2>3. "staging" \in SkillPhases
    BY DEF SkillPhases
  <2>4. BecomesRun("staging", run.next, run.staged, run.attempted, run.undo, run.bad, run.created)
    BY <1>1, <2>1, <2>3, SkillRunFields, SkillRunTyped
  <2>5. SkillTypes'
    BY <1>3, <2>2, <2>4 DEF SkillsInv, SkillTypes, TreeTidy, TreeTypes, BecomesRun
  <2>6. RunProgress'
    BY <1>1, <1>3, <2>4 DEF RunProgress, Positions, BecomesRun
  <2>7. run.next = 1 /\ 1 .. 1 - 1 = {}
    BY <1>1, <1>3 DEF RunProgress
  <2>8. SkillReady'
    BY <1>3, <2>4, <2>7 DEF SkillsInv, SkillReady, BecomesRun, DirMadeFor, FileAt
  <2>9. FilesFollow'
    BY <1>3, <2>4 DEF SkillsInv, FilesFollow, BecomesRun, FileAt
  <2>10. DirsFollow'
    BY <1>3, <2>4 DEF SkillsInv, DirsFollow, BecomesRun
  <2>11. ASSUME NEW f \in SkillFiles, tree[f] = Persons, before.tree[f] = Absent, NEW i \in Positions
         PROVE  FileAt(i) # f
    <3>1. AsPlanned(run.order[i])
      BY <1>1, <1>5, SkillRunTyped
    <3>2. WriteOK(run.order[i], before.tree)
      BY <1>1, <1>3 DEF RunProgress, PlanOK, Positions
    <3>3. Absent # Persons
      BY <1>1, TreeKinds
    <3> QED BY <2>11, <3>1, <3>2, <3>3 DEF AsPlanned, WriteOK, FileAt
  <2>12. PersonsApart'
    BY <1>1, <1>3, <2>2, <2>4, <2>11 DEF PersonsApart, BecomesRun, Positions, FileAt
  <2> QED BY <2>5, <2>6, <2>8, <2>9, <2>10, <2>12 DEF SkillsInv
<1> QED BY <1>4, <1>5

LEMMA StartCommitKept ==
  ASSUME SkillsInv, StartCommit
  PROVE  SkillsInv'
<1>1. run \in SkillRuns /\ RunProgress
  BY DEF SkillsInv, SkillTypes
<1>2. UNCHANGED <<tree, made, litter, before, persons, touched>> /\ run.at = "staging"
  BY DEF StartCommit, files, ghosts, Running
<1>3. "committing" \in SkillPhases /\ 1 \in Nat /\ 1 .. 1 - 1 = {}
  BY DEF SkillPhases
<1>4. BecomesRun("committing", 1, run.staged, run.attempted, run.undo, run.bad, run.created)
  BY <1>1, <1>3, SkillRunFields, SkillRunTyped DEF StartCommit
<1>5. run.next = Len(run.order) + 1
  BY <1>1, SkillRunTyped DEF StartCommit, RunProgress, Positions
<1>6. SkillTypes'
  BY <1>2, <1>4 DEF SkillsInv, SkillTypes, TreeTidy, TreeTypes, BecomesRun
<1>7. run.attempted = {} /\ Len(run.order) \in Nat
  BY <1>1, <1>2, SkillRunTyped DEF RunProgress
<1>8. RunProgress'
  BY <1>1, <1>2, <1>3, <1>4, <1>7 DEF RunProgress, Positions, BecomesRun
<1>9. 1 .. run.next - 1 = 1 .. Len(run.order)
  BY <1>5, <1>7
<1>10. SkillReady'
  BY <1>2, <1>4, <1>9 DEF SkillsInv, SkillReady, BecomesRun, DirMadeFor, FileAt, Deletes, Positions
<1>11. FilesFollow'
  BY <1>2, <1>4 DEF SkillsInv, FilesFollow, BecomesRun, FileAt
<1>12. DirsFollow' /\ PersonsApart'
  BY <1>2, <1>4 DEF SkillsInv, DirsFollow, BecomesRun, PersonsApart, Positions, FileAt
<1> QED BY <1>6, <1>8, <1>10, <1>11, <1>12 DEF SkillsInv

LEMMA StageOneKept ==
  ASSUME SkillsInv, StageOne
  PROVE  SkillsInv'
<1> DEFINE i == run.next
           needed == IF Deletes(i) THEN {} ELSE DirMadeFor(i)
           ready == IF Deletes(i) THEN run.staged ELSE run.staged \union {i}
           new == run.created \union (needed \ made)
<1>1. run \in SkillRuns /\ RunProgress /\ TreeTidy(tree, made, litter)
  BY DEF SkillsInv, SkillTypes
<1>2. UNCHANGED <<tree, litter, before, persons, touched>> /\ run.at = "staging" /\ i \in Positions
  BY <1>1, SkillRunTyped DEF StageOne, ghosts, Running
<1>3. made' = made \union needed
  BY DEF StageOne
<1>4. run' = [run EXCEPT !.next = i + 1, !.created = new, !.staged = ready]
  BY DEF StageOne
<1>5. PlanOK(run.order, before.tree, run.kind) /\ WriteOK(run.order[i], before.tree)
  BY <1>1, <1>2 DEF RunProgress, PlanOK, Positions
<1>6. needed \in SUBSET Dirs
  <2>1. FileAt(i) # LockFile => DirOf(FileAt(i)) \in Dirs
    BY <1>5, LockIsApart DEF WriteOK, Writes, FileAt, DirOf
  <2> QED BY <2>1 DEF DirMadeFor
<1>7. i + 1 \in Nat /\ new \in SUBSET Dirs /\ ready \in SUBSET Nat /\ Len(run.order) \in Nat /\ i \in Nat
  BY <1>1, <1>2, <1>6, SkillRunTyped
<1>8. ready \subseteq run.staged \union {i}
  OBVIOUS
<1>9. \A j \in ready : DirMadeFor(j) \subseteq made \union needed
  BY DEF SkillsInv, SkillReady
<1>10. \A j \in 1 .. i : ~Deletes(j) => DirMadeFor(j) \subseteq made \union needed
  BY <1>2, <1>7 DEF SkillsInv, SkillReady
<1>11. new \subseteq made \union needed
  BY <1>2 DEF SkillsInv, DirsFollow
<1>12. new \intersect before.made = {}
  BY <1>2 DEF SkillsInv, DirsFollow
<1>13. \A d \in made \union needed : InDir(d) \intersect touched = {} => d \in before.made \union new
  BY <1>2 DEF SkillsInv, DirsFollow
<1> HIDE DEF needed, ready, new
<1>14. BecomesRun(run.at, i + 1, ready, run.attempted, run.undo, run.bad, new)
  BY <1>1, <1>4, <1>7, SkillRunFields, SkillRunTyped
<1>15. TreeTidy(tree, made, litter)'
  BY <1>1, <1>2, <1>3, <1>6 DEF TreeTidy, TreeTypes
<1>16. SkillTypes'
  BY <1>2, <1>14, <1>15 DEF SkillsInv, SkillTypes, BecomesRun
<1>17. RunProgress'
  BY <1>1, <1>2, <1>7, <1>8, <1>14 DEF RunProgress, Positions, BecomesRun
<1>18. (i + 1) - 1 = i
  BY <1>7
<1>19. SkillReady'
  BY <1>2, <1>3, <1>9, <1>10, <1>14, <1>18 DEF SkillReady, BecomesRun, DirMadeFor, FileAt, Deletes, Positions
<1>20. FilesFollow'
  BY <1>2, <1>14 DEF SkillsInv, FilesFollow, BecomesRun, FileAt
<1>21. DirsFollow'
  BY <1>2, <1>3, <1>11, <1>12, <1>13, <1>14 DEF SkillsInv, DirsFollow, BecomesRun
<1>22. PersonsApart'
  BY <1>2, <1>14 DEF SkillsInv, PersonsApart, BecomesRun, Positions, FileAt
<1> QED BY <1>16, <1>17, <1>19, <1>20, <1>21, <1>22 DEF SkillsInv

LEMMA TreePut ==
  ASSUME TreeTidy(tree, made, litter), NEW f \in Files, NEW b,
         f \in SkillFiles => b \in FileBytes, f = LockFile => b \in {Absent} \union Entries,
         f \in SkillFiles /\ b # Absent => DirOf(f) \in made',
         made \subseteq made', made' \subseteq Dirs, litter' = litter,
         tree' = [tree EXCEPT ![f] = b]
  PROVE  TreeTidy(tree, made, litter)' /\ tree'[f] = b /\ \A g \in Files : g # f => tree'[g] = tree[g]
<1>1. tree \in [Files -> AllBytes]
  BY DEF TreeTidy, TreeTypes
<1>2. b \in AllBytes
  BY LockIsApart DEF AllBytes, FileBytes
<1>3. tree' \in [Files -> AllBytes] /\ tree'[f] = b /\ \A g \in Files : g # f => tree'[g] = tree[g]
  BY <1>1, <1>2
<1>4. \A g \in SkillFiles : tree'[g] \in FileBytes
  BY <1>3, LockIsApart DEF TreeTidy, TreeTypes
<1>5. tree'[LockFile] \in {Absent} \union Entries
  BY <1>3, LockIsApart DEF TreeTidy, TreeTypes
<1>6. \A g \in SkillFiles : tree'[g] # Absent => DirOf(g) \in made'
  BY <1>3, LockIsApart DEF TreeTidy
<1>7. made' \in SUBSET Dirs /\ litter' \in SUBSET made'
  BY DEF TreeTidy
<1> QED BY <1>3, <1>4, <1>5, <1>6, <1>7 DEF TreeTidy, TreeTypes

(* What the order of a verb on its way says of a write of it.              *)
LEMMA WriteAt ==
  ASSUME SkillsInv, run.at # "idle", NEW i \in Positions
  PROVE  /\ WriteOK(run.order[i], before.tree)
         /\ FileAt(i) \in Files
         /\ FileAt(i) \in SkillFiles => run.order[i].bytes \in FileBytes /\ run.order[i].backup \in FileBytes
         /\ FileAt(i) = LockFile => /\ run.order[i].bytes \in {Absent} \union Entries
                                    /\ run.order[i].backup \in {Absent} \union Entries
         /\ run.order[i].backup = before.tree[FileAt(i)]
         /\ FileAt(i) \in SkillFiles /\ run.order[i].backup # Absent => DirOf(FileAt(i)) \in before.made
         /\ FileAt(i) \in SkillFiles => DirMadeFor(i) = {DirOf(FileAt(i))}
         /\ \A j \in Positions : FileAt(i) = FileAt(j) => i = j
<1>1. PlanOK(run.order, before.tree, run.kind) /\ TreeTidy(before.tree, before.made, before.litter)
  BY DEF SkillsInv, SkillTypes, RunProgress
<1>2. WriteOK(run.order[i], before.tree) /\ \A j \in Positions : FileAt(i) = FileAt(j) => i = j
  BY <1>1 DEF PlanOK, Positions, FileAt
<1>3. FileAt(i) \in Files /\ run.order[i].backup = before.tree[FileAt(i)]
  BY <1>2 DEF WriteOK, Writes, FileAt
<1>4. FileAt(i) \in SkillFiles => FileAt(i) # LockFile
  BY LockIsApart
<1> QED BY <1>1, <1>2, <1>3, <1>4 DEF WriteOK, FileAt, TreeTidy, TreeTypes, DirMadeFor

LEMMA LandedTree ==
  ASSUME SkillsInv, run.at = "committing", NEW i \in Positions, Land(i),
         UNCHANGED <<made, litter>>
  PROVE  /\ TreeTidy(tree, made, litter)'
         /\ tree'[FileAt(i)] = run.order[i].bytes
         /\ \A g \in Files : g # FileAt(i) => tree'[g] = tree[g]
<1> DEFINE f == FileAt(i)
           b == run.order[i].bytes
<1>1. TreeTidy(tree, made, litter) /\ tree' = [tree EXCEPT ![f] = b]
  BY DEF SkillsInv, SkillTypes, Land
<1>2. made' = made /\ made \subseteq Dirs
  BY <1>1 DEF TreeTidy
<1>3. b # Absent => DirMadeFor(i) \subseteq made
  BY DEF SkillsInv, SkillReady, Deletes
<1>4. /\ f \in Files /\ (f \in SkillFiles => b \in FileBytes)
      /\ (f = LockFile => b \in {Absent} \union Entries)
      /\ (f \in SkillFiles => DirMadeFor(i) = {DirOf(f)})
  BY WriteAt
<1> HIDE DEF f, b
<1>5. f \in SkillFiles /\ b # Absent => DirOf(f) \in made'
  BY <1>2, <1>3, <1>4
<1>6. TreeTidy(tree, made, litter)' /\ tree'[f] = b /\ \A g \in Files : g # f => tree'[g] = tree[g]
  BY <1>1, <1>2, <1>4, <1>5, TreePut
<1> QED BY <1>6 DEF f, b

LEMMA CommitOneKept ==
  ASSUME SkillsInv, CommitOne
  PROVE  SkillsInv'
<1> DEFINE i == run.next
           reached == run.attempted \union {i}
           ready == run.staged \ {i}
<1>1. run \in SkillRuns /\ RunProgress
  BY DEF SkillsInv, SkillTypes
<1>2. /\ UNCHANGED <<made, litter, before, persons, touched>> /\ run.at = "committing"
      /\ i \in Positions /\ Land(i)
  BY <1>1, SkillRunTyped DEF CommitOne, ghosts, Running
<1>3. run' = [run EXCEPT !.next = i + 1, !.attempted = reached, !.staged = ready]
  BY DEF CommitOne
<1>4. Len(run.order) \in Nat /\ i \in 1 .. Len(run.order) /\ i + 1 \in Nat
  BY <1>1, <1>2, SkillRunTyped DEF Positions
<1>5. reached \in SUBSET Nat /\ ready \in SUBSET Nat
  BY <1>1, <1>4, SkillRunTyped
<1>6. run.attempted = 1 .. i - 1 /\ run.staged \intersect run.attempted = {}
  BY <1>1, <1>2 DEF RunProgress
<1>7. reached = 1 .. (i + 1) - 1 /\ ready \intersect reached = {}
  BY <1>4, <1>6
<1>8. reached \subseteq Positions /\ ready \subseteq Positions /\ ready \subseteq run.staged
  BY <1>1, <1>2 DEF RunProgress
<1>9. \A j \in reached : j \in run.attempted \/ j = i
  OBVIOUS
<1>10. run.attempted \subseteq reached /\ i \in reached
  OBVIOUS
<1> HIDE DEF reached, ready
<1>11. BecomesRun("committing", i + 1, ready, reached, run.undo, run.bad, run.created)
  BY <1>1, <1>2, <1>3, <1>4, <1>5, SkillRunFields, SkillRunTyped
<1>12. /\ TreeTidy(tree, made, litter)'
       /\ tree'[FileAt(i)] = run.order[i].bytes
       /\ \A g \in Files : g # FileAt(i) => tree'[g] = tree[g]
  BY <1>2, LandedTree
<1>13. SkillTypes'
  BY <1>2, <1>11, <1>12 DEF SkillsInv, SkillTypes, BecomesRun
<1>14. i + 1 \in 1 .. Len(run.order) + 1
  BY <1>4
<1>15. RunProgress'
  BY <1>1, <1>2, <1>7, <1>8, <1>11, <1>14 DEF RunProgress, Positions, BecomesRun
<1>16. SkillReady'
  BY <1>2, <1>8, <1>11 DEF SkillsInv, SkillReady, BecomesRun, DirMadeFor, FileAt, Deletes, Positions
<1>17. ASSUME NEW j \in reached, FileAt(j) \notin touched
       PROVE  tree'[FileAt(j)] = run.order[j].bytes
  <2>1. CASE j = i
    BY <2>1, <1>12
  <2>2. CASE j # i
    <3>1. j \in run.attempted /\ FileAt(j) # FileAt(i) /\ FileAt(j) \in Files
      BY <1>2, <1>8, <1>9, <2>2, WriteAt
    <3> QED BY <3>1, <1>2, <1>12, <1>17 DEF SkillsInv, FilesFollow
  <2> QED BY <2>1, <2>2
<1>18. ASSUME NEW f \in Files \ touched, \A j \in reached : FileAt(j) # f
       PROVE  tree'[f] = before.tree[f]
  BY <1>2, <1>10, <1>12, <1>18 DEF SkillsInv, FilesFollow
<1>19. FilesFollow'
  BY <1>2, <1>11, <1>17, <1>18 DEF FilesFollow, BecomesRun, FileAt
<1>20. DirsFollow'
  BY <1>2, <1>11 DEF SkillsInv, DirsFollow, BecomesRun
<1>21. \A f \in persons : f \in Files
  BY LockIsApart DEF SkillsInv, SkillTypes
<1>22. PersonsApart'
  BY <1>2, <1>11, <1>12, <1>21 DEF SkillsInv, PersonsApart, BecomesRun, Positions, FileAt
<1> QED BY <1>13, <1>15, <1>16, <1>19, <1>20, <1>22 DEF SkillsInv

(* The directories that are left hold every file there is.                 *)
LEMMA EmptyDirsGo ==
  ASSUME TreeTidy(tree, made, litter), NEW D \in SUBSET made, \A d \in D : Empty(d),
         made' = made \ D, UNCHANGED <<tree, litter>>
  PROVE  TreeTidy(tree, made, litter)'
<1>1. \A f \in SkillFiles : f \in InDir(DirOf(f))
  BY DEF InDir, DirOf
<1>2. \A f \in SkillFiles : tree[f] # Absent => DirOf(f) \notin D
  BY <1>1 DEF Empty
<1>3. \A d \in litter : d \notin D
  BY DEF Empty
<1> QED BY <1>2, <1>3 DEF TreeTidy, TreeTypes

LEMMA FinishKept ==
  ASSUME SkillsInv, Finish
  PROVE  SkillsInv'
<1>1. run \in SkillRuns /\ RunProgress /\ TreeTidy(tree, made, litter)
  BY DEF SkillsInv, SkillTypes
<1>2. UNCHANGED <<tree, litter, before, persons, touched>> /\ run.at = "committing"
  BY DEF Finish, ghosts, Running
<1>3. "done" \in SkillPhases
  BY DEF SkillPhases
<1>4. BecomesRun("done", run.next, run.staged, run.attempted, run.undo, run.bad, run.created)
  BY <1>1, <1>3, SkillRunFields, SkillRunTyped DEF Finish
<1>5. run.next = Len(run.order) + 1 /\ Len(run.order) \in Nat
  BY <1>1, SkillRunTyped DEF Finish, RunProgress, Positions
<1>6. run.attempted = Positions
  BY <1>1, <1>2, <1>5 DEF RunProgress, Positions
<1>7. run.staged = {}
  BY <1>1, <1>2, <1>6 DEF RunProgress
<1>8. TreeTidy(tree, made, litter)'
  <2> DEFINE D == IF run.kind = "uninstall" THEN {d \in made : Empty(d)} ELSE {}
  <2>1. D \in SUBSET made /\ \A d \in D : Empty(d)
    OBVIOUS
  <2>2. made' = made \ D
    BY DEF Finish
  <2> HIDE DEF D
  <2> QED BY <1>1, <1>2, <2>1, <2>2, EmptyDirsGo
<1>9. SkillTypes'
  BY <1>2, <1>4, <1>8 DEF SkillsInv, SkillTypes, BecomesRun
<1>10. RunProgress'
  BY <1>1, <1>2, <1>4, <1>6, <1>7 DEF RunProgress, Positions, BecomesRun
<1>11. SkillReady'
  BY <1>4, <1>7 DEF SkillReady, BecomesRun
<1>12. FilesFollow'
  BY <1>2, <1>4 DEF SkillsInv, FilesFollow, BecomesRun, FileAt
<1>13. DirsFollow'
  BY <1>2, <1>4 DEF SkillsInv, DirsFollow, BecomesRun
<1>14. PersonsApart'
  BY <1>2, <1>4 DEF SkillsInv, PersonsApart, BecomesRun, Positions, FileAt
<1> QED BY <1>9, <1>10, <1>11, <1>12, <1>13, <1>14 DEF SkillsInv

(* Undoing goes over every write a verb has reached.                       *)
GoesOver(list, n) ==
  /\ list \in Seq(Nat)
  /\ \A k \in 1 .. Len(list) : list[k] \in 1 .. n
  /\ \A i \in 1 .. n : \E k \in 1 .. Len(list) : list[k] = i

LEMMA BackGoesOver ==
  ASSUME NEW n \in Nat
  PROVE  GoesOver(Back(n), n) /\ Back(n) \in Seq(1 .. n)
<1> DEFINE u == Back(n)
<1>1. u = [i \in 1 .. n |-> n + 1 - i]
  BY DEF Back
<1>2. \A i \in 1 .. n : n + 1 - i \in 1 .. n
  OBVIOUS
<1>3. u \in [1 .. n -> 1 .. n] /\ \A i \in 1 .. n : u[i] = n + 1 - i
  BY <1>1, <1>2
<1> HIDE DEF u
<1>4. u \in Seq(1 .. n) /\ Len(u) = n /\ u \in Seq(Nat)
  BY <1>3
<1>5. \A i \in 1 .. n : \E k \in 1 .. n : u[k] = i
  <2>1. ASSUME NEW i \in 1 .. n PROVE u[n + 1 - i] = i
    BY <1>3, <1>2
  <2> QED BY <2>1, <1>2
<1>6. \A k \in 1 .. n : u[k] \in 1 .. n
  BY <1>3
<1> QED BY <1>4, <1>5, <1>6 DEF u, GoesOver

LEMMA UndoGoesOver ==
  ASSUME run \in SkillRuns, NEW n \in 0 .. Len(run.order)
  PROVE  GoesOver(UndoOrder(1 .. n), n)
<1>1. n \in Nat /\ Cardinality(1 .. n) = n
  BY SkillRunTyped, FS_Interval
<1>2. CASE ~(run.kind = "retire" /\ n \in Indexes /\ FileAt(n) = LockFile)
  BY <1>1, <1>2, BackGoesOver DEF UndoOrder
<1>3. CASE run.kind = "retire" /\ n \in Indexes /\ FileAt(n) = LockFile
  <2>1. n >= 1 /\ n - 1 \in Nat
    BY <1>1, <1>3, SkillRunTyped DEF Positions
  <2> DEFINE u == Back(n - 1)
             w == Append(u, n)
  <2>2. GoesOver(u, n - 1)
    BY <2>1, BackGoesOver
  <2> HIDE DEF u
  <2>3. u \in Seq(Nat) /\ n \in Nat
    BY <1>1, <2>2 DEF GoesOver
  <2>4. /\ w \in Seq(Nat) /\ Len(w) = Len(u) + 1 /\ w[Len(u) + 1] = n /\ Len(u) \in Nat
        /\ \A k \in 1 .. Len(u) : w[k] = u[k]
    BY <2>3
  <2> HIDE DEF w
  <2>5. ASSUME NEW k \in 1 .. Len(w) PROVE w[k] \in 1 .. n
    <3>1. CASE k = Len(u) + 1
      BY <3>1, <2>1, <2>4, <1>1
    <3>2. CASE k # Len(u) + 1
      <4>1. k \in 1 .. Len(u)
        BY <3>2, <2>4
      <4>2. u[k] \in 1 .. n - 1
        BY <4>1, <2>2 DEF GoesOver
      <4> QED BY <4>1, <4>2, <2>4, <2>1, <1>1
    <3> QED BY <3>1, <3>2
  <2>6. ASSUME NEW i \in 1 .. n PROVE \E k \in 1 .. Len(w) : w[k] = i
    <3>1. CASE i = n
      <4>1. Len(u) + 1 \in 1 .. Len(w)
        BY <2>4
      <4> QED BY <3>1, <4>1, <2>4
    <3>2. CASE i # n
      <4>1. i \in 1 .. n - 1
        BY <3>2, <1>1
      <4>2. PICK k \in 1 .. Len(u) : u[k] = i
        BY <4>1, <2>2 DEF GoesOver
      <4> QED BY <4>2, <2>4
    <3> QED BY <3>1, <3>2
  <2>7. GoesOver(w, n)
    BY <2>4, <2>5, <2>6 DEF GoesOver
  <2> QED BY <1>1, <1>3, <2>7 DEF UndoOrder, u, w
<1> QED BY <1>2, <1>3

(* A verb that begins to undo, with the files as far as it had come.       *)
LEMMA UndoBegins ==
  ASSUME SkillsInv, run.at \in {"staging", "committing"}, NEW n \in 0 .. Len(run.order), Undo(1 .. n),
         UNCHANGED <<made, litter, before, persons, touched>>,
         TreeTidy(tree, made, litter)',
         \A f \in Files \ touched : (\A i \in 1 .. n : FileAt(i) # f) => tree'[f] = before.tree[f],
         \A f \in persons : tree'[f] = tree[f]
  PROVE  SkillsInv'
<1>1. run \in SkillRuns /\ RunProgress
  BY DEF SkillsInv, SkillTypes
<1> DEFINE u == UndoOrder(1 .. n)
<1>2. GoesOver(u, n)
  BY <1>1, UndoGoesOver
<1>3. run' = [run EXCEPT !.at = "undoing", !.attempted = 1 .. n, !.undo = u]
  BY DEF Undo
<1> HIDE DEF u
<1>4. u \in Seq(Nat) /\ "undoing" \in SkillPhases
  BY <1>2 DEF GoesOver, SkillPhases
<1>5. Len(run.order) \in Nat /\ 1 .. n \in SUBSET Nat /\ 1 .. n \subseteq Positions
  BY <1>1, SkillRunTyped DEF Positions
<1>6. BecomesRun("undoing", run.next, run.staged, 1 .. n, u, run.bad, run.created)
  BY <1>1, <1>3, <1>4, <1>5, SkillRunFields, SkillRunTyped
<1>7. SkillTypes'
  BY <1>6 DEF SkillsInv, SkillTypes, BecomesRun
<1>8. \A k \in 1 .. Len(u) : u[k] \in Positions
  BY <1>2, <1>5 DEF GoesOver
<1>9. RunProgress'
  BY <1>1, <1>5, <1>6, <1>8 DEF RunProgress, Positions, BecomesRun
<1>10. SkillReady'
  BY <1>6 DEF SkillsInv, SkillReady, BecomesRun, DirMadeFor, FileAt
<1>11. ASSUME NEW f \in Files \ touched, \A k \in 1 .. Len(u) : FileAt(u[k]) # f
       PROVE  tree'[f] = before.tree[f]
  <2>1. \A i \in 1 .. n : FileAt(i) # f
    BY <1>2, <1>11 DEF GoesOver
  <2> QED BY <2>1
<1>12. FilesFollow'
  BY <1>6, <1>11 DEF FilesFollow, BecomesRun, FileAt
<1>13. DirsFollow'
  BY <1>6 DEF SkillsInv, DirsFollow, BecomesRun
<1>14. PersonsApart'
  BY <1>6 DEF SkillsInv, PersonsApart, BecomesRun, Positions, FileAt
<1> QED BY <1>7, <1>9, <1>10, <1>12, <1>13, <1>14 DEF SkillsInv

LEMMA StageFailsKept ==
  ASSUME SkillsInv, StageFails
  PROVE  SkillsInv'
<1>1. run \in SkillRuns /\ RunProgress /\ TreeTidy(tree, made, litter)
  BY DEF SkillsInv, SkillTypes
<1>2. /\ UNCHANGED <<tree, made, litter, before, persons, touched>> /\ run.at = "staging"
      /\ Undo({})
  BY DEF StageFails, files, ghosts, Running
<1>3. 1 .. 0 = {} /\ 0 \in 0 .. Len(run.order)
  BY <1>1, SkillRunTyped
<1>4. run.attempted = {}
  BY <1>1, <1>2 DEF RunProgress
<1>5. \A f \in Files \ touched : tree'[f] = before.tree[f]
  BY <1>2, <1>4 DEF SkillsInv, FilesFollow
<1>6. TreeTidy(tree, made, litter)'
  BY <1>1, <1>2 DEF TreeTidy, TreeTypes
<1>7. Undo(1 .. 0)
  BY <1>2, <1>3
<1> QED BY <1>2, <1>3, <1>5, <1>6, <1>7, UndoBegins

LEMMA CommitFailsKept ==
  ASSUME SkillsInv, CommitFails
  PROVE  SkillsInv'
<1> DEFINE i == run.next
<1>1. run \in SkillRuns /\ RunProgress /\ TreeTidy(tree, made, litter)
  BY DEF SkillsInv, SkillTypes
<1>2. /\ UNCHANGED <<made, litter, before, persons, touched>> /\ run.at = "committing"
      /\ i \in Positions /\ Undo(run.attempted \union {i}) /\ (Land(i) \/ UNCHANGED tree)
  BY <1>1, SkillRunTyped DEF CommitFails, Reached, ghosts, Running
<1>3. Len(run.order) \in Nat /\ i \in 1 .. Len(run.order) /\ i \in 0 .. Len(run.order)
  BY <1>1, <1>2, SkillRunTyped DEF Positions
<1>4. run.attempted = 1 .. i - 1
  BY <1>1, <1>2 DEF RunProgress
<1>5. run.attempted \union {i} = 1 .. i
  BY <1>3, <1>4
<1>6. TreeTidy(tree, made, litter)' /\ \A g \in Files : g # FileAt(i) => tree'[g] = tree[g]
  <2>1. CASE Land(i)
    BY <1>2, <2>1, LandedTree
  <2>2. CASE UNCHANGED tree
    BY <1>1, <1>2, <2>2 DEF TreeTidy, TreeTypes
  <2> QED BY <1>2, <2>1, <2>2
<1>7. ASSUME NEW f \in Files \ touched, \A j \in 1 .. i : FileAt(j) # f
      PROVE  tree'[f] = before.tree[f]
  <2>1. FileAt(i) # f
    BY <1>3, <1>7
  <2>2. \A j \in run.attempted : FileAt(j) # f
    BY <1>5, <1>7
  <2> QED BY <2>1, <2>2, <1>2, <1>6 DEF SkillsInv, FilesFollow
<1>8. \A f \in persons : tree'[f] = tree[f]
  <2>1. \A f \in persons : f \in Files /\ FileAt(i) # f
    BY <1>2, LockIsApart DEF SkillsInv, SkillTypes, PersonsApart
  <2> QED BY <2>1, <1>6
<1>9. Undo(1 .. i)
  BY <1>2, <1>5
<1> HIDE DEF i
<1> QED BY <1>2, <1>3, <1>6, <1>7, <1>8, <1>9, UndoBegins

LEMMA UndoOneKept ==
  ASSUME SkillsInv, UndoOne
  PROVE  SkillsInv'
<1> DEFINE i == Head(run.undo)
           u == Tail(run.undo)
           f == FileAt(i)
           b == run.order[i].backup
<1>1. run \in SkillRuns /\ RunProgress /\ TreeTidy(tree, made, litter)
  BY DEF SkillsInv, SkillTypes
<1>2. UNCHANGED <<made, litter, before, persons, touched>> /\ run.at = "undoing" /\ run.undo # <<>>
  BY DEF UndoOne, ghosts, Running
<1>3. run.undo \in Seq(Nat)
  BY <1>1, SkillRunTyped
<1>4. /\ u \in Seq(Nat) /\ Len(run.undo) = Len(u) + 1 /\ Len(u) \in Nat /\ run.undo[1] = i
      /\ \A k \in 1 .. Len(u) : u[k] = run.undo[k + 1]
  BY <1>2, <1>3
<1>5. \/ tree' = [tree EXCEPT ![f] = b] /\ run' = [run EXCEPT !.undo = u]
      \/ UNCHANGED tree /\ run' = [run EXCEPT !.undo = u, !.bad = TRUE]
  BY DEF UndoOne, FileAt
<1>6. i \in Positions
  BY <1>1, <1>4 DEF RunProgress
<1>7. /\ f \in Files /\ (f \in SkillFiles => b \in FileBytes)
      /\ (f = LockFile => b \in {Absent} \union Entries) /\ b = before.tree[f]
      /\ (f \in SkillFiles /\ b # Absent => DirOf(f) \in before.made)
  BY <1>2, <1>6, WriteAt
<1>8. \A k \in 1 .. Len(u) : u[k] \in Positions
  BY <1>1, <1>4 DEF RunProgress
<1>9. before.made \subseteq made /\ made' = made /\ made \subseteq Dirs
  BY <1>1, <1>2 DEF SkillsInv, DirsFollow, TreeTidy
<1>10. \A g \in persons : g \in Files /\ f # g
  BY <1>6, LockIsApart DEF SkillsInv, SkillTypes, PersonsApart
<1>11. \A g \in Files : g # f /\ (\A k \in 1 .. Len(u) : FileAt(u[k]) # g)
         => \A k \in 1 .. Len(run.undo) : FileAt(run.undo[k]) # g
  <2>1. ASSUME NEW k \in 1 .. Len(run.undo) PROVE run.undo[k] = i \/ \E m \in 1 .. Len(u) : run.undo[k] = u[m]
    <3>1. CASE k = 1
      BY <3>1, <1>4
    <3>2. CASE k # 1
      <4>1. k - 1 \in 1 .. Len(u) /\ (k - 1) + 1 = k
        BY <3>2, <1>4
      <4> QED BY <4>1, <1>4
    <3> QED BY <3>1, <3>2
  <2> QED BY <2>1
<1>12. f \in SkillFiles /\ b # Absent => DirOf(f) \in made'
  BY <1>7, <1>9
<1> HIDE DEF u, f, b
<1>13. \E spoilt \in BOOLEAN : BecomesRun("undoing", run.next, run.staged, run.attempted, u, spoilt, run.created)
          /\ (~spoilt => tree' = [tree EXCEPT ![f] = b] /\ ~run.bad)
  <2>1. CASE tree' = [tree EXCEPT ![f] = b] /\ run' = [run EXCEPT !.undo = u]
    <3>1. BecomesRun(run.at, run.next, run.staged, run.attempted, u, run.bad, run.created)
      BY <1>1, <1>4, <2>1, SkillRunFields, SkillRunTyped
    <3> QED BY <3>1, <1>1, <1>2, <2>1, SkillRunTyped
  <2>2. CASE UNCHANGED tree /\ run' = [run EXCEPT !.undo = u, !.bad = TRUE]
    <3>1. BecomesRun(run.at, run.next, run.staged, run.attempted, u, TRUE, run.created)
      BY <1>1, <1>4, <2>2, SkillRunFields, SkillRunTyped
    <3> QED BY <3>1, <1>2
  <2> QED BY <1>5, <2>1, <2>2
<1>14. PICK spoilt \in BOOLEAN : BecomesRun("undoing", run.next, run.staged, run.attempted, u, spoilt, run.created)
          /\ (~spoilt => tree' = [tree EXCEPT ![f] = b] /\ ~run.bad)
  BY <1>13
<1>15. /\ TreeTidy(tree, made, litter)' /\ (\A g \in Files : g # f => tree'[g] = tree[g])
       /\ (tree' = [tree EXCEPT ![f] = b] => tree'[f] = b)
  <2>1. CASE tree' = [tree EXCEPT ![f] = b]
    BY <1>1, <1>2, <1>7, <1>9, <1>12, <2>1, TreePut
  <2>2. CASE UNCHANGED tree
    <3>1. TreeTidy(tree, made, litter)' /\ \A g \in Files : tree'[g] = tree[g]
      BY <1>1, <1>2, <2>2 DEF TreeTidy, TreeTypes
    <3>2. CASE tree' = [tree EXCEPT ![f] = b]
      BY <1>1, <1>2, <1>7, <1>9, <1>12, <3>2, TreePut
    <3> QED BY <3>1, <3>2
  <2> QED BY <1>5, <2>1, <2>2
<1>16. SkillTypes'
  BY <1>2, <1>14, <1>15 DEF SkillsInv, SkillTypes, BecomesRun
<1>17. RunProgress'
  BY <1>1, <1>2, <1>8, <1>14 DEF RunProgress, Positions, BecomesRun
<1>18. SkillReady'
  BY <1>2, <1>14 DEF SkillsInv, SkillReady, BecomesRun, DirMadeFor, FileAt
<1>19. ASSUME NEW g \in Files \ touched, \A k \in 1 .. Len(u) : FileAt(u[k]) # g, ~spoilt
       PROVE  tree'[g] = before.tree[g]
  <2>1. CASE g = f
    BY <2>1, <1>7, <1>14, <1>15, <1>19
  <2>2. CASE g # f
    <3>1. \A k \in 1 .. Len(run.undo) : FileAt(run.undo[k]) # g
      BY <1>11, <1>19, <2>2
    <3> QED BY <3>1, <1>2, <1>14, <1>15, <1>19, <2>2 DEF SkillsInv, FilesFollow
  <2> QED BY <2>1, <2>2
<1>20. FilesFollow'
  BY <1>2, <1>14, <1>19 DEF FilesFollow, BecomesRun, FileAt
<1>21. DirsFollow'
  BY <1>2, <1>14 DEF SkillsInv, DirsFollow, BecomesRun
<1>22. PersonsApart'
  BY <1>2, <1>10, <1>14, <1>15 DEF SkillsInv, PersonsApart, BecomesRun, Positions, FileAt
<1> QED BY <1>16, <1>17, <1>18, <1>20, <1>21, <1>22 DEF SkillsInv

LEMMA CleanUpKept ==
  ASSUME SkillsInv, CleanUp
  PROVE  SkillsInv'
<1> DEFINE phase == IF run.bad THEN "incomplete" ELSE "failed"
<1>1. run \in SkillRuns /\ RunProgress /\ TreeTidy(tree, made, litter)
  BY DEF SkillsInv, SkillTypes
<1>2. /\ UNCHANGED <<tree, litter, before, persons, touched>> /\ run.at = "undoing" /\ run.undo = <<>>
      /\ made' = made \ Leftover
  BY DEF CleanUp, ghosts, Running
<1>3. phase \in SkillPhases
  BY DEF SkillPhases
<1>4. BecomesRun(phase, run.next, {}, run.attempted, run.undo, run.bad, run.created)
  <2>1. run' = [run EXCEPT !.at = phase, !.staged = {}]
    BY DEF CleanUp
  <2> HIDE DEF phase
  <2> QED BY <1>1, <1>3, <2>1, SkillRunFields, SkillRunTyped
<1>5. run.created \subseteq made /\ before.made \subseteq made /\ run.created \intersect before.made = {}
  BY <1>2 DEF SkillsInv, DirsFollow
<1>6. TreeTidy(tree, made, litter)'
  <2>1. Leftover \in SUBSET made /\ \A d \in Leftover : Empty(d)
    BY <1>5 DEF Leftover
  <2> QED BY <1>1, <1>2, <2>1, EmptyDirsGo
<1>7. SkillTypes'
  BY <1>2, <1>4, <1>6 DEF SkillsInv, SkillTypes, BecomesRun
<1>8. RunProgress'
  BY <1>1, <1>2, <1>4 DEF RunProgress, Positions, BecomesRun
<1>9. SkillReady'
  BY <1>2, <1>4 DEF SkillReady, BecomesRun
<1>10. FilesFollow'
  BY <1>2, <1>4 DEF SkillsInv, FilesFollow, BecomesRun, FileAt
<1>11. ASSUME ~run.bad, NEW d \in Dirs, InDir(d) \intersect touched = {}
       PROVE  d \in made' <=> d \in before.made
  <2>1. Len(run.undo) = 0
    BY <1>2
  <2>2. \A f \in InDir(d) : f \in SkillFiles /\ DirOf(f) = d /\ f \in Files \ touched
    BY <1>11, LockIsApart DEF InDir, DirOf
  <2>3. \A f \in InDir(d) : tree[f] = before.tree[f]
    BY <1>2, <1>11, <2>1, <2>2 DEF SkillsInv, FilesFollow
  <2>4. CASE d \in before.made
    BY <2>4, <1>2, <1>5 DEF Leftover
  <2>5. CASE d \notin before.made /\ d \in made
    <3>1. d \in run.created
      BY <1>2, <1>11, <2>5 DEF SkillsInv, DirsFollow
    <3>2. \A f \in InDir(d) : before.tree[f] = Absent
      BY <2>2, <2>5 DEF SkillsInv, SkillTypes, TreeTidy
    <3>3. d \notin litter
      BY <1>2, <2>5 DEF SkillsInv, SkillTypes, TreeTidy, DirsFollow
    <3>4. d \in Leftover
      BY <2>3, <3>1, <3>2, <3>3 DEF Leftover, Empty
    <3> QED BY <3>4, <1>2, <2>5
  <2>6. CASE d \notin made /\ d \notin before.made
    BY <2>6, <1>2
  <2> QED BY <2>4, <2>5, <2>6
<1>12. DirsFollow'
  BY <1>2, <1>4, <1>11 DEF SkillsInv, DirsFollow, BecomesRun
<1>13. PersonsApart'
  BY <1>2, <1>4 DEF SkillsInv, PersonsApart, BecomesRun, Positions, FileAt
<1> QED BY <1>7, <1>8, <1>9, <1>10, <1>12, <1>13 DEF SkillsInv

LEMMA PersonEdits ==
  ASSUME SkillsInv, NEW f \in SkillFiles, NEW b \in {Absent, Persons},
         tree' = [tree EXCEPT ![f] = b], Touches({f}), litter' = litter,
         b # Absent => made' = made \union {DirOf(f)}, b = Absent => made' = made
  PROVE  SkillsInv'
<1>1. run \in SkillRuns /\ RunProgress /\ TreeTidy(tree, made, litter)
  BY DEF SkillsInv, SkillTypes
<1>2. UNCHANGED <<run, before>> /\ touched' = touched \union {f} /\ persons' = persons \ {f}
  BY DEF Touches
<1>3. /\ f \in Files /\ f # LockFile /\ b \in FileBytes /\ DirOf(f) \in Dirs
  BY LockIsApart DEF FileBytes, DirOf
<1>4. /\ made \subseteq made' /\ made' \subseteq made \union {DirOf(f)} /\ made' \subseteq Dirs
      /\ b # Absent => DirOf(f) \in made'
  BY <1>1, <1>3 DEF TreeTidy
<1>5. TreeTidy(tree, made, litter)' /\ \A g \in Files : g # f => tree'[g] = tree[g]
  BY <1>1, <1>3, <1>4, TreePut
<1>6. SkillTypes'
  BY <1>2, <1>5 DEF SkillsInv, SkillTypes
<1>7. RunProgress'
  BY <1>1, <1>2 DEF RunProgress, Positions
<1>8. SkillReady'
  BY <1>2, <1>4 DEF SkillsInv, SkillReady, DirMadeFor, FileAt, Deletes, Positions
<1>9. ASSUME NEW i \in run.attempted, FileAt(i) \notin touched', run.at # "idle"
      PROVE  tree'[FileAt(i)] = tree[FileAt(i)] /\ FileAt(i) \notin touched
  <2>1. i \in Positions
    BY <1>1 DEF RunProgress
  <2>2. FileAt(i) \in Files
    BY <1>9, <2>1, WriteAt
  <2> QED BY <1>2, <1>5, <1>9, <2>2
<1>10. \A g \in Files \ touched' : tree'[g] = tree[g] /\ g \in Files \ touched
  BY <1>2, <1>5
<1>11. FilesFollow'
  BY <1>2, <1>9, <1>10 DEF SkillsInv, FilesFollow, FileAt
<1>12. \A d \in Dirs : InDir(d) \intersect touched' = {} =>
          InDir(d) \intersect touched = {} /\ (d \in made' <=> d \in made)
  <2>1. f \in InDir(DirOf(f))
    BY DEF InDir, DirOf
  <2> QED BY <2>1, <1>2, <1>4
<1>13. DirsFollow'
  BY <1>2, <1>4, <1>12 DEF SkillsInv, DirsFollow
<1>14. PersonsApart'
  <2>1. \A g \in persons : g \in Files
    BY LockIsApart DEF SkillsInv, SkillTypes
  <2> QED BY <2>1, <1>2, <1>5 DEF SkillsInv, PersonsApart, Positions, FileAt
<1> QED BY <1>6, <1>7, <1>8, <1>11, <1>13, <1>14 DEF SkillsInv

LEMMA DirRemoved ==
  ASSUME SkillsInv, NEW d \in Dirs, PersonRemovesDir(d)
  PROVE  SkillsInv'
<1>1. run \in SkillRuns /\ RunProgress /\ TreeTidy(tree, made, litter)
  BY DEF SkillsInv, SkillTypes
<1>2. /\ UNCHANGED <<run, before>> /\ touched' = touched \union InDir(d) /\ persons' = persons \ InDir(d)
      /\ run.at = "idle" /\ made' = made \ {d} /\ litter' = litter \ {d}
      /\ tree' = [f \in Files |-> IF f \in InDir(d) THEN Absent ELSE tree[f]]
  BY DEF PersonRemovesDir, Touches, Running
<1>3. /\ InDir(d) \subseteq SkillFiles /\ LockFile \notin InDir(d)
      /\ \A f \in SkillFiles : f \notin InDir(d) => DirOf(f) # d
  BY LockIsApart DEF InDir, DirOf
<1>4. Absent \in FileBytes /\ Absent \in AllBytes
  BY DEF FileBytes, AllBytes
<1>5. TreeTypes(tree)'
  BY <1>1, <1>2, <1>3, <1>4, LockIsApart DEF TreeTidy, TreeTypes
<1>6. \A f \in SkillFiles : tree'[f] # Absent => DirOf(f) \in made'
  BY <1>1, <1>2, <1>3, LockIsApart DEF TreeTidy
<1>7. made' \in SUBSET Dirs /\ litter' \in SUBSET made'
  BY <1>1, <1>2 DEF TreeTidy
<1>8. TreeTidy(tree, made, litter)'
  BY <1>5, <1>6, <1>7 DEF TreeTidy
<1>9. SkillTypes'
  BY <1>2, <1>3, <1>8 DEF SkillsInv, SkillTypes
<1>10. Positions = {}
  BY <1>1, <1>2 DEF RunProgress, Positions
<1>11. run.staged = {} /\ Positions' = {}
  BY <1>1, <1>2, <1>10 DEF RunProgress, Positions
<1>12. RunProgress'
  BY <1>1, <1>2 DEF RunProgress, Positions
<1>13. SkillReady' /\ FilesFollow' /\ DirsFollow'
  BY <1>2, <1>11 DEF SkillReady, FilesFollow, DirsFollow
<1>14. PersonsApart'
  <2>1. \A f \in persons : f \in Files /\ tree[f] = Persons
    BY LockIsApart DEF SkillsInv, SkillTypes, PersonsApart
  <2> QED BY <2>1, <1>2, <1>11 DEF PersonsApart
<1> QED BY <1>9, <1>12, <1>13, <1>14 DEF SkillsInv

LEMMA PersonsKept ==
  ASSUME SkillsInv,
         \/ \E f \in SkillFiles : PersonWrites(f) \/ PersonDeletes(f)
         \/ \E d \in Dirs : PersonRemovesDir(d)
  PROVE  SkillsInv'
<1>1. Absent # Persons
  BY AbsentAssumption
<1>2. ASSUME NEW f \in SkillFiles, PersonWrites(f) PROVE SkillsInv'
  BY <1>1, <1>2, PersonEdits DEF PersonWrites
<1>3. ASSUME NEW f \in SkillFiles, PersonDeletes(f) PROVE SkillsInv'
  BY <1>3, PersonEdits DEF PersonDeletes
<1>4. ASSUME NEW d \in Dirs, PersonRemovesDir(d) PROVE SkillsInv'
  BY <1>4, DirRemoved
<1> QED BY <1>2, <1>3, <1>4

LEMMA SkillsStill == ASSUME SkillsInv, UNCHANGED skillVars PROVE SkillsInv'
<1>1. UNCHANGED <<tree, made, litter, run, before, persons, touched>>
  BY DEF skillVars
<1>2. SkillTypes'
  BY <1>1 DEF SkillsInv, SkillTypes, TreeTidy, TreeTypes
<1>3. RunProgress' /\ SkillReady'
  BY <1>1 DEF SkillsInv, RunProgress, SkillReady, Positions, DirMadeFor, FileAt, Deletes
<1>4. FilesFollow' /\ DirsFollow' /\ PersonsApart'
  BY <1>1 DEF SkillsInv, FilesFollow, DirsFollow, PersonsApart, FileAt, Positions
<1> QED BY <1>2, <1>3, <1>4 DEF SkillsInv

LEMMA SkillsNextInv == SkillsInv /\ [SkillsNext]_skillVars => SkillsInv'
<1> SUFFICES ASSUME SkillsInv, [SkillsNext]_skillVars PROVE SkillsInv'
  OBVIOUS
<1>1. CASE UNCHANGED skillVars
  BY <1>1, SkillsStill
<1>2. CASE \/ \E d \in Drafts : ProjectRegister(d) \/ ProjectRevise(d)
           \/ ProjectRetire \/ Uninstall
           \/ \E v \in Versions : Install(v) \/ Adopt(v)
  BY <1>2, PlansKept
<1>3. CASE LookAgain
  BY <1>3, LookAgainKept
<1>4. CASE StageOne
  BY <1>4, StageOneKept
<1>5. CASE StartCommit
  BY <1>5, StartCommitKept
<1>6. CASE CommitOne
  BY <1>6, CommitOneKept
<1>7. CASE Finish
  BY <1>7, FinishKept
<1>8. CASE StageFails
  BY <1>8, StageFailsKept
<1>9. CASE CommitFails
  BY <1>9, CommitFailsKept
<1>10. CASE UndoOne
  BY <1>10, UndoOneKept
<1>11. CASE CleanUp
  BY <1>11, CleanUpKept
<1>12. CASE Answer \/ Killed
  BY <1>12, EndsKept
<1>13. CASE \/ \E f \in SkillFiles : PersonWrites(f) \/ PersonDeletes(f)
            \/ \E d \in Dirs : PersonRemovesDir(d)
  BY <1>13, PersonsKept
<1> QED BY <1>1, <1>2, <1>3, <1>4, <1>5, <1>6, <1>7, <1>8, <1>9, <1>10, <1>11, <1>12, <1>13
           DEF SkillsNext

(* What the files are, but for those touched, when part of a plan or all   *)
(* of it but the lock is carried out.                                      *)
LEMMA CarriedOut ==
  ASSUME SkillsInv, run.at \in {"committing", "done"}, NEW f \in Files \ touched,
         \A i \in Positions : FileAt(i) = f => i \in run.attempted
  PROVE  tree[f] = ThenIs(run.order, before.tree, f)
<1>1. CASE \A i \in Positions : FileAt(i) # f
  <2>1. ~ \E i \in 1 .. Len(run.order) : run.order[i].file = f
    BY <1>1 DEF Positions, FileAt
  <2>2. ThenIs(run.order, before.tree, f) = before.tree[f]
    BY <2>1, Zenon DEF ThenIs
  <2>3. \A i \in run.attempted : FileAt(i) # f
    BY <1>1 DEF SkillsInv, RunProgress
  <2> QED BY <2>2, <2>3 DEF SkillsInv, FilesFollow
<1>2. ASSUME NEW i \in Positions, FileAt(i) = f
      PROVE  tree[f] = ThenIs(run.order, before.tree, f)
  <2>1. \A j \in Positions : FileAt(j) = f => j = i
    BY <1>2, WriteAt
  <2>2. (CHOOSE j \in 1 .. Len(run.order) : run.order[j].file = f) = i
    BY <1>2, <2>1 DEF Positions, FileAt
  <2>3. \E j \in 1 .. Len(run.order) : run.order[j].file = f
    BY <1>2 DEF Positions, FileAt
  <2>4. ThenIs(run.order, before.tree, f) = run.order[i].bytes
    BY <2>2, <2>3, Zenon DEF ThenIs
  <2>5. i \in run.attempted
    BY <1>2
  <2> QED BY <1>2, <2>4, <2>5 DEF SkillsInv, FilesFollow
<1> QED BY <1>1, <1>2

LEMMA DoneWhole == SkillsInv => DoneIsWhole
<1> SUFFICES ASSUME SkillsInv, run.at = "done", run.kind # "adopt", NEW f \in SkillFiles \ touched,
                    \/ Locked.bytes[f[2]] # Absent
                    \/ /\ before.tree[LockFile] # Absent
                       /\ before.tree[LockFile].bytes[f[2]] # Absent
             PROVE  tree[f] = Locked.bytes[f[2]]
  BY DEF DoneIsWhole, Running
<1>1. run.attempted = Positions
  BY DEF SkillsInv, RunProgress
<1>2. LockFile \in Files \ touched /\ f \in Files \ touched
  BY LockIsApart DEF SkillsInv, SkillTypes
<1>3. /\ tree[LockFile] = ThenIs(run.order, before.tree, LockFile)
      /\ tree[f] = ThenIs(run.order, before.tree, f)
  BY <1>1, <1>2, CarriedOut
<1>4. Whole(run.order, before.tree, run.kind)
  BY DEF SkillsInv, RunProgress, PlanOK
<1>5. NamedBy(tree[LockFile], f) = Locked.bytes[f[2]]
  BY DEF NamedBy, Locked
<1>6. before.tree[LockFile] # Absent => NamedBy(before.tree[LockFile], f) = before.tree[LockFile].bytes[f[2]]
  BY DEF NamedBy
<1> QED BY <1>3, <1>4, <1>5, <1>6 DEF Whole

LEMMA SkillsInvImplies == SkillsInv => SkillsTypeOK /\ SkillsAreSound
<1> SUFFICES ASSUME SkillsInv PROVE SkillsTypeOK /\ SkillsAreSound
  OBVIOUS
<1>1. run \in SkillRuns
  BY DEF SkillsInv, SkillTypes
<1>2. SkillsTypeOK
  BY <1>1, SkillRunTyped DEF SkillsInv, SkillTypes, TreeTidy, TreeTypes, FileBytes, SkillsTypeOK, RunProgress
<1>3. FailedIsUndone
  <2> SUFFICES ASSUME run.at = "failed" PROVE FailedIsUndone
    BY DEF FailedIsUndone, Running
  <2>1. Len(run.undo) = 0 /\ ~run.bad
    BY DEF SkillsInv, RunProgress
  <2> QED BY <2>1 DEF SkillsInv, FilesFollow, DirsFollow, FailedIsUndone
<1>4. PersonsFilesAreKept
  BY DEF SkillsInv, PersonsApart, PersonsFilesAreKept
<1> QED BY <1>2, <1>3, <1>4, DoneWhole DEF SkillsAreSound

(* The lock is written when every other file is.                           *)
LEMMA LockLastStep ==
  ASSUME SkillsInv, [SkillsNext]_skillVars
  PROVE  LockIsWrittenLast
<1> SUFFICES ASSUME run.at = "committing", tree'[LockFile] # tree[LockFile],
                    NEW f \in SkillFiles \ touched, tree'[LockFile].bytes[f[2]] # Absent
             PROVE  \/ tree[f] = tree'[LockFile].bytes[f[2]]
                    \/ run.kind = "adopt" /\ tree[f] = Absent
  BY DEF LockIsWrittenLast, Running
<1>1. run \in SkillRuns /\ RunProgress /\ TreeTidy(tree, made, litter)
  BY DEF SkillsInv, SkillTypes
<1>2. tree \in [Files -> AllBytes]
  BY <1>1 DEF TreeTidy, TreeTypes
<1>3. run.next \in Positions /\ Land(run.next)
  <2>1. tree' # tree
    OBVIOUS
  <2>2. \A g \in SkillFiles : ~PersonWrites(g) /\ ~PersonDeletes(g)
    BY <1>2, LockIsApart DEF PersonWrites, PersonDeletes
  <2>3. CommitOne \/ CommitFails
    BY <2>1, <2>2 DEF SkillsNext, skillVars, ProjectRegister, ProjectRevise, ProjectRetire, Install, Adopt,
       Uninstall, Plan, files, LookAgain, StageOne, StartCommit, Finish, StageFails, UndoOne, CleanUp,
       Answer, Killed, PersonRemovesDir, Running
  <2> QED BY <1>1, <2>1, <2>3, SkillRunTyped DEF CommitOne, CommitFails
<1>4. FileAt(run.next) = LockFile /\ tree'[LockFile] = run.order[run.next].bytes
  BY <1>2, <1>3, LockIsApart DEF Land
<1>5. PlanOK(run.order, before.tree, run.kind) /\ run.next = Len(run.order)
  BY <1>1, <1>3, <1>4 DEF RunProgress, PlanOK, LockLast, Positions, FileAt
<1>6. f \in Files \ touched /\ f # LockFile
  BY LockIsApart
<1>7. ASSUME NEW i \in Positions, FileAt(i) = f PROVE i \in run.attempted
  <2>1. i # run.next
    BY <1>4, <1>6, <1>7
  <2>2. run.attempted = 1 .. run.next - 1 /\ Len(run.order) \in Nat
    BY <1>1, SkillRunTyped DEF RunProgress
  <2> QED BY <2>1, <2>2, <1>5 DEF Positions
<1>8. tree[f] = ThenIs(run.order, before.tree, f)
  BY <1>6, <1>7, CarriedOut
<1>9. ThenIs(run.order, before.tree, LockFile) = tree'[LockFile]
  <2>1. \A j \in Positions : FileAt(j) = LockFile => j = run.next
    BY <1>3, <1>4, WriteAt
  <2>2. (CHOOSE j \in 1 .. Len(run.order) : run.order[j].file = LockFile) = run.next
    BY <1>3, <1>4, <2>1 DEF Positions, FileAt
  <2>3. \E j \in 1 .. Len(run.order) : run.order[j].file = LockFile
    BY <1>3, <1>4 DEF Positions, FileAt
  <2>4. ThenIs(run.order, before.tree, LockFile) = run.order[run.next].bytes
    BY <2>2, <2>3, Zenon DEF ThenIs
  <2> QED BY <2>4, <1>4
<1>10. tree'[LockFile] \in Entries
  <2>1. WriteOK(run.order[run.next], before.tree)
    BY <1>3, WriteAt
  <2> QED BY <2>1, <1>4 DEF WriteOK, FileAt
<1>11. NamedBy(tree'[LockFile], f) = tree'[LockFile].bytes[f[2]]
  BY <1>10, NamedByLocked
<1>12. Whole(run.order, before.tree, run.kind)
  BY <1>5 DEF PlanOK
<1> QED BY <1>8, <1>9, <1>11, <1>12 DEF Whole

(* A verb is done as a whole or undone, and leaves a person's files alone, *)
(* whatever fails, is killed or is edited meanwhile.                       *)
THEOREM SkillsStaySound == SkillsSpec => [](SkillsTypeOK /\ SkillsAreSound)
<1>1. SkillsInit => SkillsInv
  BY SkillsInitInv
<1>2. SkillsInv /\ [SkillsNext]_skillVars => SkillsInv'
  BY SkillsNextInv
<1>3. SkillsInv => SkillsTypeOK /\ SkillsAreSound
  BY SkillsInvImplies
<1> QED BY <1>1, <1>2, <1>3, PTL DEF SkillsSpec

(* The lock is written when every other file of the plan is.               *)
THEOREM LockComesLast == SkillsSpec => [][LockIsWrittenLast]_skillVars
<1>1. SkillsInit => SkillsInv
  BY SkillsInitInv
<1>2. SkillsInv /\ [SkillsNext]_skillVars => SkillsInv' /\ LockIsWrittenLast
  BY SkillsNextInv, LockLastStep
<1> QED BY <1>1, <1>2, PTL DEF SkillsSpec

-----------------------------------------------------------------------------
(* What is not ours in a sequence is what a function keeps of each item,   *)
(* one after another: a group keeps some of its handlers, an entry itself  *)
(* or nothing.                                                             *)
Over(s, phi) == FlattenSeq([i \in 1..Len(s) |-> phi[s[i]]])

LEMMA OverIsFlat ==
  ASSUME NEW T, NEW U, NEW phi \in [T -> Seq(U)], NEW s \in Seq(T)
  PROVE  [i \in 1..Len(s) |-> phi[s[i]]] \in [1..Len(s) -> Seq(U)] /\ Over(s, phi) \in Seq(U)
<1> DEFINE r == [i \in 1..Len(s) |-> phi[s[i]]]
<1>1. r \in [1..Len(s) -> Seq(U)]
  <2>1. \A i \in 1..Len(s) : s[i] \in T
    OBVIOUS
  <2> QED BY <2>1
<1>2. Len(s) \in Nat
  OBVIOUS
<1> HIDE DEF r
<1>3. FlattenSeq(r) \in Seq(U)
  BY <1>1, <1>2, FlattenPositions
<1> QED BY <1>1, <1>3 DEF r, Over

LEMMA OverNone == ASSUME NEW phi PROVE Over(<<>>, phi) = <<>>
<1> DEFINE r == [i \in 1..Len(<<>>) |-> phi[<<>>[i]]]
<1>1. r = <<>> /\ Len(r) = 0
  OBVIOUS
<1> HIDE DEF r
<1>2. FlattenSeq(r) = <<>>
  BY <1>1 DEF FlattenSeq
<1> QED BY <1>2 DEF r, Over

LEMMA OverOneMore ==
  ASSUME NEW T, NEW U, NEW phi \in [T -> Seq(U)], NEW s \in Seq(T), NEW t \in T
  PROVE  Over(Append(s, t), phi) = Over(s, phi) \o phi[t]
<1> DEFINE n == Len(s)
           more == Append(s, t)
           r == [i \in 1..n |-> phi[s[i]]]
           m == [i \in 1..(n + 1) |-> phi[more[i]]]
<1>1. /\ n \in Nat /\ more \in Seq(T) /\ Len(more) = n + 1
      /\ more[n + 1] = t /\ \A i \in 1..n : more[i] = s[i]
  OBVIOUS
<1>2. r \in [1..n -> Seq(U)] /\ Over(s, phi) = FlattenSeq(r)
  BY OverIsFlat DEF Over
<1>3. m \in [1..(n + 1) -> Seq(U)] /\ Over(more, phi) = FlattenSeq(m)
  <2> HIDE DEF more
  <2> QED BY <1>1, OverIsFlat DEF Over
<1>4. \A i \in 1..n : r[i] = m[i]
  BY <1>1
<1>5. m[n + 1] = phi[t]
  BY <1>1
<1> HIDE DEF more, r, m, n
<1>6. FlattenSeq(m) = FlattenSeq(r) \o m[n + 1]
  BY <1>1, <1>2, <1>3, <1>4, FlattenOneMore
<1> QED BY <1>2, <1>3, <1>5, <1>6 DEF more

LEMMA OverOne ==
  ASSUME NEW T, NEW U, NEW phi \in [T -> Seq(U)], NEW t \in T
  PROVE  Over(<<t>>, phi) = phi[t]
<1>1. Append(<<>>, t) = <<t>> /\ <<>> \in Seq(T)
  OBVIOUS
<1>2. PICK e \in Seq(T) : e = <<>>
  BY <1>1
<1>3. Over(Append(e, t), phi) = Over(e, phi) \o phi[t]
  BY OverOneMore
<1>4. phi[t] \in Seq(U)
  OBVIOUS
<1>5. <<>> \o phi[t] = phi[t]
  BY <1>4
<1> QED BY <1>1, <1>2, <1>3, <1>5, OverNone

LEMMA OverConcat ==
  ASSUME NEW T, NEW U, NEW phi \in [T -> Seq(U)], NEW a \in Seq(T), NEW b \in Seq(T)
  PROVE  Over(a \o b, phi) = Over(a, phi) \o Over(b, phi)
<1> DEFINE n == Len(b)
           B(k) == SubSeq(b, 1, k)
           S == {k \in 0..n : Over(a \o B(k), phi) = Over(a, phi) \o Over(B(k), phi)}
<1>1. n \in Nat /\ Over(a, phi) \in Seq(U)
  <2>1. Over(a, phi) \in Seq(U)
    BY OverIsFlat
  <2> QED BY <2>1
<1>2. 0 \in S
  <2>1. B(0) = <<>> /\ a \o <<>> = a /\ Over(a, phi) \o <<>> = Over(a, phi)
    BY <1>1
  <2>2. Over(a \o B(0), phi) = Over(a, phi) \o Over(B(0), phi)
    BY <2>1, OverNone
  <2>3. 0 \in 0..n
    BY <1>1
  <2> HIDE DEF B
  <2> QED BY <2>2, <2>3
<1>3. ASSUME NEW k \in 0..n, k \in S, k < n PROVE k + 1 \in S
  <2>1. PICK t \in T, c \in Seq(T) : t = b[k + 1] /\ c = B(k) /\ B(k + 1) = Append(c, t)
    <3>1. /\ SubSeq(b, 1, k) \in Seq(T) /\ b[k + 1] \in T
          /\ SubSeq(b, 1, k + 1) = Append(SubSeq(b, 1, k), b[k + 1])
      BY <1>3, FirstOnes
    <3> QED BY <3>1
  <2>2. a \o c \in Seq(T) /\ Over(c, phi) \in Seq(U) /\ phi[t] \in Seq(U)
    <3>1. Over(c, phi) \in Seq(U)
      BY OverIsFlat
    <3>2. a \o c \in Seq(T) /\ phi[t] \in Seq(U)
      OBVIOUS
    <3> QED BY <3>1, <3>2
  <2>3. Over(a \o Append(c, t), phi) = Over(a \o c, phi) \o phi[t]
    <3>1. a \o Append(c, t) = Append(a \o c, t)
      BY ConcatOneMore
    <3>2. PICK d \in Seq(T) : d = a \o c
      BY <2>2
    <3>3. Over(Append(d, t), phi) = Over(d, phi) \o phi[t]
      BY OverOneMore
    <3> QED BY <3>1, <3>2, <3>3
  <2>4. Over(a \o c, phi) = Over(a, phi) \o Over(c, phi)
    BY <1>3, <2>1
  <2>5. (Over(a, phi) \o Over(c, phi)) \o phi[t] = Over(a, phi) \o (Over(c, phi) \o phi[t])
    BY <1>1, <2>2, ConcatAssociates
  <2>6. Over(Append(c, t), phi) = Over(c, phi) \o phi[t]
    BY <2>1, OverOneMore
  <2>7. Over(a \o B(k + 1), phi) = Over(a, phi) \o Over(B(k + 1), phi)
    BY <2>1, <2>3, <2>4, <2>5, <2>6
  <2>8. k + 1 \in 0..n
    BY <1>1, <1>3
  <2> HIDE DEF B
  <2> QED BY <2>7, <2>8
<1>4. \A k \in 0..n : k \in S
  <2> HIDE DEF S, n
  <2> QED BY <1>1, <1>2, <1>3, OneByOne
<1>5. n \in S /\ B(n) = b
  BY <1>1, <1>4, FirstOnes
<1> HIDE DEF B
<1> QED BY <1>5

(* Joined pieces keep what the pieces keep, joined.                        *)
Pieces(s, n, T) == s \in [1..n -> Seq(T)]
Filters(phi, T, U) == phi \in [T -> Seq(U)]

LEMMA OverFlat ==
  ASSUME NEW T, NEW U, NEW phi, Filters(phi, T, U), NEW n \in Nat,
         NEW s, Pieces(s, n, T), NEW u, Pieces(u, n, U),
         \A i \in 1..n : Over(s[i], phi) = u[i]
  PROVE  Over(FlattenSeq(s), phi) = FlattenSeq(u)
<1>0. s \in [1..n -> Seq(T)] /\ u \in [1..n -> Seq(U)] /\ phi \in [T -> Seq(U)]
  BY DEF Pieces, Filters
<1> DEFINE FirstS(k) == [i \in 1..k |-> s[i]]
           FirstU(k) == [i \in 1..k |-> u[i]]
           S == {k \in 0..n : Over(FlattenSeq(FirstS(k)), phi) = FlattenSeq(FirstU(k))}
<1>1. 0 \in S
  <2>1. FirstS(0) = <<>> /\ FirstU(0) = <<>> /\ Len(FirstS(0)) = 0 /\ Len(FirstU(0)) = 0
    OBVIOUS
  <2> HIDE DEF FirstS, FirstU
  <2>2. FlattenSeq(FirstS(0)) = <<>> /\ FlattenSeq(FirstU(0)) = <<>>
    BY <2>1 DEF FlattenSeq
  <2> QED BY <2>2, OverNone
<1>2. ASSUME NEW k \in 0..n, k \in S, k < n PROVE k + 1 \in S
  <2>1. k + 1 \in 1..n /\ k + 1 \in 0..n /\ k \in Nat
    BY <1>2
  <2>2. /\ FirstS(k) \in [1..k -> Seq(T)] /\ FirstS(k + 1) \in [1..(k + 1) -> Seq(T)]
        /\ FirstU(k) \in [1..k -> Seq(U)] /\ FirstU(k + 1) \in [1..(k + 1) -> Seq(U)]
        /\ \A i \in 1..k : FirstS(k)[i] = FirstS(k + 1)[i] /\ FirstU(k)[i] = FirstU(k + 1)[i]
        /\ FirstS(k + 1)[k + 1] = s[k + 1] /\ FirstU(k + 1)[k + 1] = u[k + 1]
    BY <1>0, <2>1
  <2> HIDE DEF FirstS, FirstU
  <2>3. FlattenSeq(FirstS(k + 1)) = FlattenSeq(FirstS(k)) \o s[k + 1]
    BY <2>1, <2>2, FlattenOneMore
  <2>4. FlattenSeq(FirstU(k + 1)) = FlattenSeq(FirstU(k)) \o u[k + 1]
    BY <2>1, <2>2, FlattenOneMore
  <2>5. FlattenSeq(FirstS(k)) \in Seq(T) /\ s[k + 1] \in Seq(T)
    BY <1>0, <2>1, <2>2, FlattenPositions
  <2>6. Over(FlattenSeq(FirstS(k)) \o s[k + 1], phi) = Over(FlattenSeq(FirstS(k)), phi) \o Over(s[k + 1], phi)
    BY <1>0, <2>5, OverConcat
  <2> QED BY <1>2, <2>1, <2>3, <2>4, <2>6
<1>3. \A k \in 0..n : k \in S
  <2> HIDE DEF S
  <2> QED BY <1>1, <1>2, OneByOne
<1>4. n \in S /\ FirstS(n) = s /\ FirstU(n) = u
  BY <1>0, <1>3
<1> HIDE DEF FirstS, FirstU
<1> QED BY <1>4

LEMMA FlattenNothing ==
  ASSUME NEW n \in Nat, NEW s, s = [i \in 1..n |-> <<>>]
  PROVE  FlattenSeq(s) = <<>>
<1> DEFINE T == {0}
<1>1. s \in [1..n -> Seq(T)] /\ \A i \in 1..n : s[i] = <<>>
  OBVIOUS
<1>2. FlattenSeq(s) \in Seq(T) /\ \E off : PlacedBy(off, s, n)
  <2> HIDE DEF T
  <2> QED BY <1>1, FlattenPositions
<1>3. PICK off : PlacedBy(off, s, n)
  BY <1>2
<1>4. Len(FlattenSeq(s)) = off[n] /\ off[n] \in Nat
  BY <1>3 DEF PlacedBy, Offsets
<1>5. ASSUME NEW j \in 1..off[n] PROVE FALSE
  <2>1. PICK i \in 1..n : \E k \in 1..Len(s[i]) : j = off[i - 1] + k
    BY <1>3 DEF PlacedBy
  <2>2. Len(s[i]) = 0
    BY <1>1
  <2> QED BY <2>1, <2>2
<1>6. off[n] = 0
  BY <1>4, <1>5
<1> QED BY <1>2, <1>4, <1>6

(* Items of which nothing is kept may go, and nothing else does.           *)
LEMMA WithoutAtTyped ==
  ASSUME NEW T, NEW s \in Seq(T), NEW gone
  PROVE  WithoutAt(s, gone) \in Seq(T)
<1> DEFINE r == [i \in 1..Len(s) |-> IF i \in gone THEN <<>> ELSE <<s[i]>>]
<1>1. r \in [1..Len(s) -> Seq(T)] /\ Len(s) \in Nat /\ DOMAIN s = 1..Len(s)
  <2>1. \A i \in 1..Len(s) : s[i] \in T
    OBVIOUS
  <2> QED BY <2>1
<1>2. WithoutAt(s, gone) = FlattenSeq(r)
  BY <1>1 DEF WithoutAt
<1> HIDE DEF r
<1> QED BY <1>1, <1>2, FlattenPositions

LEMMA WithoutKeeps ==
  ASSUME NEW T, NEW U, NEW phi \in [T -> Seq(U)], NEW s \in Seq(T), NEW gone,
         \A i \in 1..Len(s) : i \in gone => phi[s[i]] = <<>>
  PROVE  Over(WithoutAt(s, gone), phi) = Over(s, phi)
<1> DEFINE n == Len(s)
           r == [i \in 1..n |-> IF i \in gone THEN <<>> ELSE <<s[i]>>]
           u == [i \in 1..n |-> phi[s[i]]]
<1>1. n \in Nat /\ DOMAIN s = 1..n /\ \A i \in 1..n : s[i] \in T
  OBVIOUS
<1>2. r \in [1..n -> Seq(T)] /\ u \in [1..n -> Seq(U)]
  BY <1>1
<1>3. WithoutAt(s, gone) = FlattenSeq(r) /\ Over(s, phi) = FlattenSeq(u)
  BY <1>1 DEF WithoutAt, Over
<1>4. ASSUME NEW i \in 1..n PROVE Over(r[i], phi) = u[i]
  <2>1. CASE i \in gone
    <3>1. r[i] = <<>> /\ u[i] = <<>>
      BY <2>1
    <3> HIDE DEF r, u
    <3> QED BY <3>1, OverNone
  <2>2. CASE i \notin gone
    <3>1. r[i] = <<s[i]>> /\ u[i] = phi[s[i]] /\ s[i] \in T
      BY <1>1, <2>2
    <3> HIDE DEF r, u
    <3> QED BY <3>1, OverOne
  <2> QED BY <2>1, <2>2
<1>5. Pieces(r, n, T) /\ Pieces(u, n, U) /\ Filters(phi, T, U)
  BY <1>2 DEF Pieces, Filters
<1> HIDE DEF n, r, u
<1>6. Over(FlattenSeq(r), phi) = FlattenSeq(u)
  BY <1>1, <1>4, <1>5, OverFlat
<1> QED BY <1>3, <1>6

LEMMA OverNothing ==
  ASSUME NEW T, NEW phi, NEW s \in Seq(T), \A i \in 1..Len(s) : phi[s[i]] = <<>>
  PROVE  Over(s, phi) = <<>>
<1>1. Len(s) \in Nat /\ [i \in 1..Len(s) |-> phi[s[i]]] = [i \in 1..Len(s) |-> <<>>]
  OBVIOUS
<1>2. PICK r : r = [i \in 1..Len(s) |-> phi[s[i]]]
  OBVIOUS
<1>3. FlattenSeq(r) = <<>>
  BY <1>1, <1>2, FlattenNothing
<1> QED BY <1>2, <1>3 DEF Over

(* Which entries are a person's: those that no family of hooks owns.       *)
Foreign(T, b) == [e \in T |-> IF OwnedByAFamily(e, b) THEN <<>> ELSE <<e>>]

LEMMA ForeignFilters ==
  ASSUME NEW T, NEW b
  PROVE  Foreign(T, b) \in [T -> Seq(T)]
BY DEF Foreign

LEMMA ForeignOver ==
  ASSUME NEW T, NEW b, NEW s \in Seq(T)
  PROVE  WithoutAt(s, {i \in DOMAIN s : OwnedByAFamily(s[i], b)}) = Over(s, Foreign(T, b))
<1> DEFINE owned == {i \in DOMAIN s : OwnedByAFamily(s[i], b)}
           x == [i \in DOMAIN s |-> IF i \in owned THEN <<>> ELSE <<s[i]>>]
           y == [i \in 1..Len(s) |-> Foreign(T, b)[s[i]]]
<1>1. DOMAIN s = 1..Len(s) /\ \A i \in 1..Len(s) : s[i] \in T
  OBVIOUS
<1>2. ASSUME NEW i \in 1..Len(s) PROVE x[i] = y[i]
  <2>1. Foreign(T, b)[s[i]] = IF OwnedByAFamily(s[i], b) THEN <<>> ELSE <<s[i]>>
    BY <1>1 DEF Foreign
  <2>2. i \in owned <=> OwnedByAFamily(s[i], b)
    BY <1>1
  <2> HIDE DEF owned
  <2> QED BY <1>1, <2>1, <2>2
<1>3. x = y
  <2>1. x = [i \in 1..Len(s) |-> x[i]] /\ y = [i \in 1..Len(s) |-> y[i]]
    BY <1>1
  <2> HIDE DEF x, y
  <2> QED BY <1>2, <2>1
<1>4. WithoutAt(s, owned) = FlattenSeq(x)
  BY DEF WithoutAt
<1>5. Over(s, Foreign(T, b)) = FlattenSeq(y)
  BY DEF Over
<1> HIDE DEF x, y
<1> QED BY <1>3, <1>4, <1>5

(* Every family has a sequence of entries for each event, of its own.      *)
LEMMA SpecsAreSequences ==
  ASSUME NEW f \in Families, NEW ev
  PROVE  \E n \in Nat : DOMAIN SpecsFor(f, ev) = 1..n
<1> DEFINE Sized(s) == \E n \in Nat : DOMAIN s = 1..n
<1>1. Sized(<<>>)
  <2>1. DOMAIN <<>> = 1..0
    OBVIOUS
  <2> QED BY <2>1
<1>2. ASSUME NEW a PROVE Sized(<<a>>)
  <2>1. DOMAIN <<a>> = 1..1
    OBVIOUS
  <2> QED BY <2>1
<1>3. ASSUME NEW a, NEW c PROVE Sized(<<a, c>>)
  <2>1. DOMAIN <<a, c>> = 1..2
    OBVIOUS
  <2> QED BY <2>1
<1>4. Sized(Projected) /\ Sized(Tail(Projected))
  <2> DEFINE M == {Projected[i] : i \in 1..6}
  <2>1. Projected \in Seq(M) /\ Len(Projected) = 6
    BY DEF Projected
  <2>2. DOMAIN Projected = 1..6
    BY <2>1
  <2> HIDE DEF M
  <2>3. Tail(Projected) \in Seq(M) /\ Len(Tail(Projected)) = 5
    BY <2>1
  <2>4. PICK q \in Seq(M) : q = Tail(Projected) /\ Len(q) = 5
    BY <2>3
  <2>5. DOMAIN q = 1..5
    <3>1. q \in Seq(M) /\ Len(q) = 5
      BY <2>4
    <3>2. DOMAIN q = 1..Len(q)
      BY <3>1
    <3> QED BY <3>1, <3>2
  <2> QED BY <2>2, <2>4, <2>5
<1> HIDE DEF Sized
<1>5. f \in {"minimalism", "design", "trigger", "receipt", "shaper", "projection", "approve", "stop", "builder"}
  BY DEF Families, Specs
<1>6. ASSUME ev \in DOMAIN Specs[f] PROVE Sized(Specs[f][ev])
  <2>1. CASE f \in {"minimalism", "design"}
    <3>1. Specs[f] = ContractSpecs
      BY <2>1 DEF Specs
    <3>2. DOMAIN ContractSpecs = {"UserPromptSubmit", "PreToolUse"}
      BY DEF ContractSpecs
    <3>3. ContractSpecs["UserPromptSubmit"] = <<"">> /\ ContractSpecs["PreToolUse"] = <<"Agent">>
      BY DEF ContractSpecs
    <3> QED BY <1>2, <1>3, <1>4, <1>6, <3>1, <3>2, <3>3
  <2>2. CASE f \in {"trigger"}
    <3>1. Specs[f] = TriggerSpecs
      BY <2>2 DEF Specs
    <3>2. DOMAIN TriggerSpecs = {"SessionEnd"}
      BY DEF TriggerSpecs
    <3>3. TriggerSpecs["SessionEnd"] = <<"">>
      BY DEF TriggerSpecs
    <3> QED BY <1>2, <1>3, <1>4, <1>6, <3>1, <3>2, <3>3
  <2>3. CASE f \in {"receipt"}
    <3>1. Specs[f] = ReceiptSpecs
      BY <2>3 DEF Specs
    <3>2. DOMAIN ReceiptSpecs = {"PreToolUse"}
      BY DEF ReceiptSpecs
    <3>3. ReceiptSpecs["PreToolUse"] = <<"Bash">>
      BY DEF ReceiptSpecs
    <3> QED BY <1>2, <1>3, <1>4, <1>6, <3>1, <3>2, <3>3
  <2>4. CASE f \in {"shaper", "approve"}
    <3>1. Specs[f] = GuardSpecs
      BY <2>4 DEF Specs, ApproveSpecs
    <3>2. DOMAIN GuardSpecs = {"PreToolUse"}
      BY DEF GuardSpecs
    <3>3. GuardSpecs["PreToolUse"] = <<"Bash", FileTools>>
      BY DEF GuardSpecs
    <3> QED BY <1>2, <1>3, <1>4, <1>6, <3>1, <3>2, <3>3
  <2>5. CASE f \in {"stop"}
    <3>1. Specs[f] = StopSpecs
      BY <2>5 DEF Specs
    <3>2. DOMAIN StopSpecs = {"Stop"}
      BY DEF StopSpecs
    <3>3. StopSpecs["Stop"] = <<"">>
      BY DEF StopSpecs
    <3> QED BY <1>2, <1>3, <1>4, <1>6, <3>1, <3>2, <3>3
  <2>6. CASE f \in {"builder"}
    <3>1. Specs[f] = BuilderSpecs
      BY <2>6 DEF Specs
    <3>2. DOMAIN BuilderSpecs = {"PreToolUse"}
      BY DEF BuilderSpecs
    <3>3. BuilderSpecs["PreToolUse"] = <<"Agent">>
      BY DEF BuilderSpecs
    <3> QED BY <1>2, <1>3, <1>4, <1>6, <3>1, <3>2, <3>3
  <2>7. CASE f \in {"projection"}
    <3>1. Specs[f] = ProjectionSpecs
      BY <2>7 DEF Specs
    <3>2. DOMAIN ProjectionSpecs = {"UserPromptSubmit", "PreToolUse", "SessionStart", "PostToolUse"}
      BY DEF ProjectionSpecs
    <3>3. /\ ProjectionSpecs["UserPromptSubmit"] = <<"">>
          /\ ProjectionSpecs["PreToolUse"] = Projected
          /\ ProjectionSpecs["SessionStart"] = <<"">>
          /\ ProjectionSpecs["PostToolUse"] = Tail(Projected)
      BY DEF ProjectionSpecs
    <3> QED BY <1>2, <1>3, <1>4, <1>6, <3>1, <3>2, <3>3
  <2> QED BY <1>5, <2>1, <2>2, <2>3, <2>4, <2>5, <2>6, <2>7
<1>7. Sized(SpecsFor(f, ev))
  BY <1>1, <1>6 DEF SpecsFor
<1> QED BY <1>7 DEF Sized

(* What this version writes for a family is owned by it.                   *)
LEMMA BuiltIsOwned ==
  ASSUME NEW b \in Binaries, NEW f \in Families, NEW matcher
  PROVE  OwnedByAFamily(BuildEntry(b, f, matcher), b)
<1>1. BuildEntry(b, f, matcher).words = PathHolds[b] \union {f}
  BY DEF BuildEntry, HookEntry
<1>2. Owns(BuildEntry(b, f, matcher), b, f)
  BY <1>1, PathAssumption DEF Owns
<1> QED BY <1>2 DEF OwnedByAFamily

BuiltEntries(b, ev) ==
  UNION {{BuildEntry(b, f, SpecsFor(f, ev)[k]) : k \in DOMAIN SpecsFor(f, ev)} : f \in Families}

LEMMA MergeFamilyKeeps ==
  ASSUME NEW b \in Binaries, NEW f \in Families, NEW ev, NEW T, BuiltEntries(b, ev) \subseteq T,
         NEW entries \in Seq(T)
  PROVE  /\ MergeFamily(entries, b, f, ev) \in Seq(T)
         /\ Over(MergeFamily(entries, b, f, ev), Foreign(T, b)) = Over(entries, Foreign(T, b))
<1> DEFINE gone == Drifted(entries, b, f, ev)
           seen == {k \in DOMAIN SpecsFor(f, ev) : \E i \in DOMAIN entries : entries[i] = Built(b, f, ev)[k]}
           new == Built(b, f, ev)
           phi == Foreign(T, b)
           old == WithoutAt(entries, gone)
           unseen == WithoutAt(new, seen)
<1>1. phi \in [T -> Seq(T)]
  BY ForeignFilters
<1>2. new \in Seq(T) /\ \A i \in 1..Len(new) : phi[new[i]] = <<>>
  <2>1. PICK n \in Nat : DOMAIN SpecsFor(f, ev) = 1..n
    BY SpecsAreSequences
  <2>2. ASSUME NEW k \in 1..n
        PROVE  /\ BuildEntry(b, f, SpecsFor(f, ev)[k]) \in T
               /\ OwnedByAFamily(BuildEntry(b, f, SpecsFor(f, ev)[k]), b)
    <3>1. BuildEntry(b, f, SpecsFor(f, ev)[k]) \in BuiltEntries(b, ev)
      BY <2>1 DEF BuiltEntries
    <3> QED BY <3>1, BuiltIsOwned
  <2>3. /\ new = [k \in 1..n |-> new[k]]
        /\ \A k \in 1..n : new[k] = BuildEntry(b, f, SpecsFor(f, ev)[k])
    BY <2>1 DEF Built
  <2> HIDE DEF new
  <2>4. \A k \in 1..n : new[k] \in T /\ OwnedByAFamily(new[k], b)
    BY <2>2, <2>3
  <2>5. new \in Seq(T) /\ Len(new) = n
    BY <2>3, <2>4
  <2> QED BY <2>4, <2>5 DEF Foreign
<1>3. \A i \in 1..Len(entries) : i \in gone => phi[entries[i]] = <<>>
  <2>1. ASSUME NEW i \in 1..Len(entries), i \in gone PROVE phi[entries[i]] = <<>>
    <3>1. Owns(entries[i], b, f)
      BY <2>1 DEF Drifted
    <3>2. entries[i] \in T /\ OwnedByAFamily(entries[i], b)
      BY <3>1 DEF OwnedByAFamily
    <3> QED BY <3>2 DEF Foreign
  <2> QED BY <2>1
<1>4. MergeFamily(entries, b, f, ev) = old \o unseen
  BY DEF MergeFamily, Unseen
<1> HIDE DEF gone, seen, new, phi
<1>5. old \in Seq(T) /\ Over(old, phi) = Over(entries, phi)
  BY <1>1, <1>3, WithoutAtTyped, WithoutKeeps
<1>6. unseen \in Seq(T) /\ Over(unseen, phi) = <<>>
  <2>1. Over(unseen, phi) = Over(new, phi)
    BY <1>1, <1>2, WithoutKeeps
  <2>2. Over(new, phi) = <<>>
    BY <1>2, OverNothing
  <2> QED BY <1>2, <2>1, <2>2, WithoutAtTyped
<1> HIDE DEF old, unseen
<1>7. old \o unseen \in Seq(T)
  BY <1>5, <1>6
<1>8. Over(old \o unseen, phi) = Over(old, phi) \o Over(unseen, phi)
  BY <1>1, <1>5, <1>6, OverConcat
<1>9. Over(entries, phi) \in Seq(T)
  BY <1>1, OverIsFlat
<1>10. Over(entries, phi) \o <<>> = Over(entries, phi)
  BY <1>9
<1> QED BY <1>4, <1>5, <1>6, <1>7, <1>8, <1>10 DEF phi

(* One family after another in one event.                                  *)
Merged(x, b, ev, k) ==
  IF ev \in DOMAIN Specs[InstalledFamilies[k]] THEN MergeFamily(x, b, InstalledFamilies[k], ev) ELSE x

MergesBy(g, n, entries, b, ev) ==
  g = [k \in 0..n |-> IF k = 0 THEN entries ELSE Merged(g[k - 1], b, ev, k)]

LEMMA MergesExist ==
  ASSUME NEW n \in Nat, NEW entries, NEW b, NEW ev
  PROVE  \E g : MergesBy(g, n, entries, b, ev)
<1> DEFINE Upto(g, m) == /\ g = [k \in 0..n |-> g[k]] /\ g[0] = entries
                         /\ \A k \in 1..n : k <= m => g[k] = Merged(g[k - 1], b, ev, k)
           S == {m \in 0..n : \E g : Upto(g, m)}
<1>1. 0 \in S
  <2> DEFINE g == [k \in 0..n |-> entries]
  <2>1. g = [k \in 0..n |-> g[k]] /\ g[0] = entries
    OBVIOUS
  <2>2. ASSUME NEW k \in 1..n, k <= 0 PROVE FALSE
    BY <2>2
  <2>3. Upto(g, 0)
    BY <2>1, <2>2
  <2> HIDE DEF Upto, g
  <2> QED BY <2>3
<1>2. ASSUME NEW m \in 0..n, m \in S, m < n PROVE m + 1 \in S
  <2>1. PICK g : Upto(g, m)
    BY <1>2
  <2> DEFINE h == [k \in 0..n |-> IF k = m + 1 THEN Merged(g[m], b, ev, m + 1) ELSE g[k]]
  <2>2. h = [k \in 0..n |-> h[k]] /\ h[0] = entries
    BY <2>1
  <2>3. ASSUME NEW k \in 1..n, k <= m + 1 PROVE h[k] = Merged(h[k - 1], b, ev, k)
    <3>1. k - 1 \in 0..n /\ k \in 0..n /\ k - 1 # m + 1
      BY <2>3
    <3>2. h[k - 1] = g[k - 1]
      BY <3>1
    <3>3. CASE k = m + 1
      <4>1. h[k] = Merged(g[m], b, ev, m + 1)
        BY <3>1, <3>3
      <4>2. k - 1 = m
        BY <3>3
      <4> HIDE DEF h
      <4> QED BY <3>2, <3>3, <4>1, <4>2
    <3>4. CASE k # m + 1
      <4>1. k <= m
        BY <2>3, <3>4
      <4>2. g[k] = Merged(g[k - 1], b, ev, k)
        BY <2>1, <4>1
      <4>3. h[k] = g[k]
        BY <3>1, <3>4
      <4> HIDE DEF h
      <4> QED BY <3>2, <4>2, <4>3
    <3> QED BY <3>3, <3>4
  <2> HIDE DEF h
  <2>4. Upto(h, m + 1)
    BY <2>2, <2>3
  <2> HIDE DEF Upto
  <2> QED BY <1>2, <2>4
<1>3. n \in S
  <2> HIDE DEF S
  <2> QED BY <1>1, <1>2, OneByOne
<1>4. PICK g : Upto(g, n)
  BY <1>3
<1>5. g = [k \in 0..n |-> IF k = 0 THEN entries ELSE Merged(g[k - 1], b, ev, k)]
  <2>1. ASSUME NEW k \in 0..n PROVE g[k] = IF k = 0 THEN entries ELSE Merged(g[k - 1], b, ev, k)
    <3>1. CASE k = 0
      BY <1>4, <3>1
    <3>2. CASE k # 0
      <4>1. k \in 1..n /\ k <= n
        BY <3>2
      <4> QED BY <1>4, <3>2, <4>1
    <3> QED BY <3>1, <3>2
  <2> QED BY <1>4, <2>1
<1> QED BY <1>5 DEF MergesBy

LEMMA MergeEventKeeps ==
  ASSUME NEW b \in Binaries, NEW ev, NEW T, BuiltEntries(b, ev) \subseteq T, NEW entries \in Seq(T)
  PROVE  /\ MergeEvent(entries, b, ev) \in Seq(T)
         /\ Over(MergeEvent(entries, b, ev), Foreign(T, b)) = Over(entries, Foreign(T, b))
<1> DEFINE n == Len(InstalledFamilies)
           Q(g) == g = [k \in 0..n |-> IF k = 0 THEN entries
                                       ELSE IF ev \in DOMAIN Specs[InstalledFamilies[k]]
                                       THEN MergeFamily(g[k - 1], b, InstalledFamilies[k], ev)
                                       ELSE g[k - 1]]
           g == CHOOSE g : Q(g)
           phi == Foreign(T, b)
<1>1. n \in Nat /\ n = 9
  BY DEF InstalledFamilies
<1>2. ASSUME NEW k \in 1..n PROVE InstalledFamilies[k] \in Families
  <2>1. k \in {1, 2, 3, 4, 5, 6, 7, 8, 9}
    BY <1>1
  <2>2. InstalledFamilies[k] \in {"minimalism", "design", "trigger", "receipt", "shaper",
                                  "projection", "approve", "stop", "builder"}
    BY <2>1 DEF InstalledFamilies
  <2> QED BY <2>2 DEF Families, Specs
<1>3. Q(g)
  <2>1. \E h : Q(h)
    <3> HIDE DEF n
    <3>1. PICK h : MergesBy(h, n, entries, b, ev)
      BY <1>1, MergesExist
    <3>2. Q(h)
      BY <3>1 DEF MergesBy, Merged
    <3> HIDE DEF Q
    <3> QED BY <3>2
  <2> HIDE DEF Q
  <2> QED BY <2>1
<1>4. MergeEvent(entries, b, ev) = g[n]
  BY DEF MergeEvent
<1> HIDE DEF g, n
<1>5. g[0] = entries
  BY <1>1, <1>3
<1>6. ASSUME NEW k \in 1..n PROVE g[k] = Merged(g[k - 1], b, ev, k)
  <2>1. k \in 0..n /\ k # 0
    BY <1>1
  <2> QED BY <1>3, <2>1 DEF Merged
<1> HIDE DEF Q
<1> DEFINE S == {k \in 0..n : g[k] \in Seq(T) /\ Over(g[k], phi) = Over(entries, phi)}
<1>7. 0 \in S
  BY <1>1, <1>5
<1>8. ASSUME NEW k \in 0..n, k \in S, k < n PROVE k + 1 \in S
  <2>1. k + 1 \in 1..n /\ k + 1 \in 0..n /\ (k + 1) - 1 = k
    BY <1>1, <1>8
  <2>2. g[k + 1] = Merged(g[k], b, ev, k + 1)
    BY <1>6, <2>1
  <2>3. InstalledFamilies[k + 1] \in Families
    BY <1>2, <2>1
  <2>4. PICK e \in Seq(T) : e = g[k] /\ Over(e, phi) = Over(entries, phi)
    BY <1>8
  <2>5. /\ MergeFamily(e, b, InstalledFamilies[k + 1], ev) \in Seq(T)
        /\ Over(MergeFamily(e, b, InstalledFamilies[k + 1], ev), phi) = Over(e, phi)
    BY <2>3, MergeFamilyKeeps
  <2>6. g[k + 1] \in Seq(T) /\ Over(g[k + 1], phi) = Over(entries, phi)
    <3>1. CASE ev \in DOMAIN Specs[InstalledFamilies[k + 1]]
      BY <2>2, <2>4, <2>5, <3>1 DEF Merged
    <3>2. CASE ev \notin DOMAIN Specs[InstalledFamilies[k + 1]]
      BY <2>2, <2>4, <3>2 DEF Merged
    <3> QED BY <3>1, <3>2
  <2> QED BY <2>1, <2>6
<1>9. n \in S
  <2>1. \A k \in 0..n : k \in S
    <3> HIDE DEF S
    <3> QED BY <1>1, <1>7, <1>8, OneByOne
  <2> QED BY <1>1, <2>1
<1> QED BY <1>4, <1>9

LEMMA SequenceOf ==
  ASSUME NEW s, IsSequence(s)
  PROVE  s \in Seq({s[i] : i \in 1..Len(s)})
<1> DEFINE T == {s[i] : i \in 1..Len(s)}
<1>1. PICK n \in Nat : n = Len(s)
  BY DEF IsSequence
<1>2. s = [i \in 1..n |-> s[i]] /\ \A i \in 1..n : s[i] \in T
  BY <1>1 DEF IsSequence
<1> HIDE DEF T
<1>3. s \in Seq(T)
  BY <1>2
<1> QED BY <1>3 DEF T

LEMMA OfSequence ==
  ASSUME NEW T, NEW s \in Seq(T)
  PROVE  IsSequence(s) /\ DOMAIN s = 1..Len(s) /\ \A i \in 1..Len(s) : s[i] \in T
BY DEF IsSequence

(* Codex: what a person's is of a group.                                   *)
LEMMA FilteredOver ==
  ASSUME NEW b, NEW H, NEW g, g.handlers \in Seq(H)
  PROVE  /\ Filtered(g, b) \in Seq(H)
         /\ Filtered(g, b) = Over(g.handlers, [h \in H |-> IF OwnsHandler(h, b) THEN <<>> ELSE <<h>>])
<1> DEFINE s == g.handlers
           phi == [h \in H |-> IF OwnsHandler(h, b) THEN <<>> ELSE <<h>>]
           owned == {i \in DOMAIN s : OwnsHandler(s[i], b)}
           x == [i \in DOMAIN s |-> IF i \in owned THEN <<>> ELSE <<s[i]>>]
           y == [i \in 1..Len(s) |-> phi[s[i]]]
<1>1. s \in Seq(H) /\ DOMAIN s = 1..Len(s) /\ \A i \in 1..Len(s) : s[i] \in H
  OBVIOUS
<1>2. ASSUME NEW i \in 1..Len(s) PROVE x[i] = y[i]
  <2>1. phi[s[i]] = IF OwnsHandler(s[i], b) THEN <<>> ELSE <<s[i]>>
    BY <1>1
  <2>2. i \in owned <=> OwnsHandler(s[i], b)
    BY <1>1
  <2> HIDE DEF owned, phi
  <2> QED BY <1>1, <2>1, <2>2
<1>3. x = y
  <2>1. x = [i \in 1..Len(s) |-> x[i]] /\ y = [i \in 1..Len(s) |-> y[i]]
    BY <1>1
  <2> HIDE DEF x, y
  <2> QED BY <1>2, <2>1
<1>4. WithoutAt(s, owned) = FlattenSeq(x) /\ Filtered(g, b) = WithoutAt(s, owned)
  BY DEF WithoutAt, Filtered
<1>5. Over(s, phi) = FlattenSeq(y)
  BY DEF Over
<1>6. WithoutAt(s, owned) \in Seq(H)
  <2> HIDE DEF owned
  <2> QED BY <1>1, WithoutAtTyped
<1> HIDE DEF x, y
<1> QED BY <1>3, <1>4, <1>5, <1>6

LEMMA FilteredTwice ==
  ASSUME NEW b, NEW H, NEW g, g.handlers \in Seq(H), NEW m
  PROVE  Filtered(Group(m, Filtered(g, b)), b) = Filtered(g, b)
<1> DEFINE phi == [h \in H |-> IF OwnsHandler(h, b) THEN <<>> ELSE <<h>>]
           f == Filtered(g, b)
           owned == {i \in DOMAIN g.handlers : OwnsHandler(g.handlers[i], b)}
           again == Group(m, f)
<1>1. f \in Seq(H) /\ f = Over(g.handlers, phi)
  BY FilteredOver
<1>2. phi \in [H -> Seq(H)]
  OBVIOUS
<1>3. Over(f, phi) = Over(g.handlers, phi)
  <2>1. f = WithoutAt(g.handlers, owned)
    BY DEF Filtered
  <2>2. \A i \in 1..Len(g.handlers) : i \in owned => phi[g.handlers[i]] = <<>>
    <3>1. \A i \in 1..Len(g.handlers) : g.handlers[i] \in H
      OBVIOUS
    <3> QED BY <3>1
  <2> HIDE DEF owned, f, phi
  <2> QED BY <1>2, <2>1, <2>2, WithoutKeeps
<1>4. again.handlers = f
  BY DEF Group
<1> HIDE DEF f, again
<1>5. Filtered(again, b) = Over(f, phi)
  BY <1>1, <1>4, FilteredOver
<1> QED BY <1>1, <1>3, <1>5 DEF f, again

GroupsOf(T, H) ==
  \A g \in T : g.handlers \in Seq(H) /\ \A s \in Seq(H) : Group(g.matcher, s) \in T
FilteredBy(T, b) == [g \in T |-> Filtered(g, b)]

(* One event of a file of Codex: its groups stay, each with the handlers of*)
(* a person's, wherever ours is put among them.                            *)
LEMMA EditEventKeeps ==
  ASSUME NEW b, NEW H, NEW T, GroupsOf(T, H), NEW groups \in Seq(T), NEW want \in T, Filtered(want, b) = <<>>, NEW install \in BOOLEAN
  PROVE  /\ EditEvent(groups, b, want, install) \in Seq(T)
         /\ Over(EditEvent(groups, b, want, install), FilteredBy(T, b)) = Over(groups, FilteredBy(T, b))
<1> DEFINE owned == {i \in DOMAIN groups : Filtered(groups[i], b) # groups[i].handlers}
           first == IF owned = {} THEN 0 ELSE CHOOSE i \in owned : \A j \in owned : i <= j
           Left(i) == IF Filtered(groups[i], b) = <<>> THEN <<>>
                      ELSE <<Group(groups[i].matcher, Filtered(groups[i], b))>>
           Placed(i) == IF i \notin owned THEN <<groups[i]>>
                        ELSE IF ~ install \/ i # first THEN Left(i)
                        ELSE IF groups[i] = want THEN <<want>>
                        ELSE Append(Left(i), want)
           placed == [i \in DOMAIN groups |-> Placed(i)]
           tail == IF install /\ owned = {} THEN <<want>> ELSE <<>>
           phi == FilteredBy(T, b)
           kept == [i \in 1..Len(groups) |-> phi[groups[i]]]
<1>1. EditEvent(groups, b, want, install) = FlattenSeq(placed) \o tail
  BY DEF EditEvent
<1>2. DOMAIN groups = 1..Len(groups) /\ Len(groups) \in Nat /\ \A i \in 1..Len(groups) : groups[i] \in T
  OBVIOUS
<1>3. phi \in [T -> Seq(H)]
  <2>1. \A g \in T : Filtered(g, b) \in Seq(H)
    BY FilteredOver DEF GroupsOf
  <2> QED BY <2>1 DEF FilteredBy
<1>4. \A g \in T : phi[g] = Filtered(g, b)
  BY DEF FilteredBy
<1> HIDE DEF phi, owned, first
<1>5. ASSUME NEW i \in 1..Len(groups)
      PROVE  Left(i) \in Seq(T) /\ Over(Left(i), phi) = phi[groups[i]]
  <2> DEFINE f == Filtered(groups[i], b)
             g == Group(groups[i].matcher, f)
  <2>1. groups[i].handlers \in Seq(H) /\ groups[i] \in T /\ phi[groups[i]] = f
    BY <1>2, <1>4 DEF GroupsOf
  <2>2. f \in Seq(H)
    BY <2>1, FilteredOver
  <2>3. g \in T /\ Filtered(g, b) = f
    <3>1. Filtered(g, b) = f
      BY <2>1, FilteredTwice
    <3>2. g \in T
      <4> HIDE DEF f
      <4> QED BY <2>1, <2>2 DEF GroupsOf
    <3> QED BY <3>1, <3>2
  <2>4. Left(i) = IF f = <<>> THEN <<>> ELSE <<g>>
    OBVIOUS
  <2> HIDE DEF f, g, Left
  <2>5. CASE f = <<>>
    BY <2>1, <2>4, <2>5, OverNone
  <2>6. CASE f # <<>>
    <3>1. Left(i) = <<g>> /\ <<g>> \in Seq(T)
      BY <2>3, <2>4, <2>6
    <3>2. Over(<<g>>, phi) = phi[g]
      BY <1>3, <2>3, OverOne
    <3> QED BY <1>4, <2>1, <2>3, <3>1, <3>2
  <2> QED BY <2>5, <2>6
<1>6. phi[want] = <<>> /\ <<want>> \in Seq(T) /\ Over(<<want>>, phi) = <<>>
  <2>1. Over(<<want>>, phi) = phi[want]
    BY <1>3, OverOne
  <2> QED BY <1>4, <2>1
<1>7. ASSUME NEW i \in 1..Len(groups)
      PROVE  placed[i] \in Seq(T) /\ Over(placed[i], phi) = kept[i]
  <2>0. kept[i] = phi[groups[i]] /\ placed[i] = Placed(i) /\ groups[i] \in T
    BY <1>2
  <2> HIDE DEF kept, placed
  <2>1. <<groups[i]>> \in Seq(T) /\ Over(<<groups[i]>>, phi) = phi[groups[i]]
    <3>1. PICK g \in T : g = groups[i]
      BY <2>0
    <3>2. <<g>> \in Seq(T) /\ Over(<<g>>, phi) = phi[g]
      BY <1>3, <3>1, OverOne
    <3> QED BY <3>1, <3>2
  <2>2. Append(Left(i), want) \in Seq(T) /\ Over(Append(Left(i), want), phi) = phi[groups[i]]
    <3>1. PICK l \in Seq(T) : l = Left(i) /\ Over(l, phi) = phi[groups[i]]
      <4> HIDE DEF Left
      <4> QED BY <1>5
    <3> HIDE DEF Left
    <3>2. Over(Append(l, want), phi) = Over(l, phi) \o phi[want]
      BY <1>3, OverOneMore
    <3>3. phi[groups[i]] \in Seq(H)
      BY <1>3, <2>0
    <3>4. phi[groups[i]] \o <<>> = phi[groups[i]]
      BY <3>3
    <3>5. Append(l, want) \in Seq(T)
      OBVIOUS
    <3> QED BY <1>6, <3>1, <3>2, <3>4, <3>5
  <2>3. Left(i) \in Seq(T) /\ Over(Left(i), phi) = phi[groups[i]]
    BY <1>5
  <2>4. Placed(i) \in {<<groups[i]>>, Left(i), <<want>>, Append(Left(i), want)}
        /\ (Placed(i) = <<want>> => groups[i] = want \/ Placed(i) \in {<<groups[i]>>, Left(i), Append(Left(i), want)})
    <3> HIDE DEF Left
    <3> QED OBVIOUS
  <2>5. groups[i] = want => Over(<<want>>, phi) = phi[groups[i]]
    BY <2>1
  <2> HIDE DEF Left, Placed
  <2> QED BY <1>6, <2>0, <2>1, <2>2, <2>3, <2>4, <2>5
<1>8. placed \in [1..Len(groups) -> Seq(T)]
  <2>1. placed = [i \in 1..Len(groups) |-> placed[i]]
    BY <1>2
  <2> HIDE DEF placed
  <2> QED BY <1>7, <2>1
<1>9. kept \in [1..Len(groups) -> Seq(H)]
  BY <1>2, <1>3
<1>10. tail \in Seq(T) /\ Over(tail, phi) = <<>>
  <2>1. tail = <<want>> \/ tail = <<>>
    OBVIOUS
  <2>2. <<>> \in Seq(T)
    OBVIOUS
  <2> HIDE DEF tail
  <2> QED BY <1>6, <2>1, <2>2, OverNone
<1>11. Over(groups, phi) = FlattenSeq(kept) /\ Over(groups, phi) \in Seq(H)
  <2>1. Over(groups, phi) \in Seq(H)
    BY <1>3, OverIsFlat
  <2> QED BY <2>1 DEF Over
<1> HIDE DEF placed, tail, kept
<1>12. Over(FlattenSeq(placed), phi) = FlattenSeq(kept)
  <2>1. Pieces(placed, Len(groups), T) /\ Pieces(kept, Len(groups), H) /\ Filters(phi, T, H)
    BY <1>3, <1>8, <1>9 DEF Pieces, Filters
  <2>2. PICK n \in Nat : n = Len(groups)
    BY <1>2
  <2> QED BY <1>7, <2>1, <2>2, OverFlat
<1>13. FlattenSeq(placed) \in Seq(T)
  BY <1>2, <1>8, FlattenPositions
<1>14. Over(FlattenSeq(placed) \o tail, phi) = Over(FlattenSeq(placed), phi) \o Over(tail, phi)
  <2>1. PICK x \in Seq(T), y \in Seq(T) : x = FlattenSeq(placed) /\ y = tail
    BY <1>10, <1>13
  <2>2. Over(x \o y, phi) = Over(x, phi) \o Over(y, phi)
    BY <1>3, OverConcat
  <2> QED BY <2>1, <2>2
<1>15. FlattenSeq(placed) \o tail \in Seq(T)
  BY <1>10, <1>13
<1>16. Over(groups, phi) \o <<>> = Over(groups, phi)
  BY <1>11
<1> QED BY <1>1, <1>10, <1>11, <1>12, <1>14, <1>15, <1>16 DEF phi

(* What a sequence of groups keeps of a person's, as one of the model's    *)
(* and as a function of each group.                                        *)
LEMMA HandlersOver ==
  ASSUME NEW b, NEW T, NEW s \in Seq(T)
  PROVE  FlattenSeq([i \in DOMAIN s |-> Filtered(s[i], b)]) = Over(s, FilteredBy(T, b))
<1> DEFINE x == [i \in DOMAIN s |-> Filtered(s[i], b)]
           y == [i \in 1..Len(s) |-> FilteredBy(T, b)[s[i]]]
<1>1. DOMAIN s = 1..Len(s) /\ \A i \in 1..Len(s) : s[i] \in T
  OBVIOUS
<1>2. \A i \in 1..Len(s) : FilteredBy(T, b)[s[i]] = Filtered(s[i], b)
  BY <1>1 DEF FilteredBy
<1>3. x = y
  BY <1>1, <1>2
<1>4. Over(s, FilteredBy(T, b)) = FlattenSeq(y)
  BY DEF Over
<1> HIDE DEF x, y
<1>5. FlattenSeq(x) = Over(s, FilteredBy(T, b))
  BY <1>3, <1>4
<1> QED BY <1>5 DEF x

LEMMA DesiredIsOurs ==
  ASSUME NEW b \in Binaries, NEW ev
  PROVE  /\ Desired(b, ev).handlers = <<Handler(PathHolds[b] \union {"projection"}, "built")>>
         /\ IsGroup(Desired(b, ev)) /\ Filtered(Desired(b, ev), b) = <<>>
<1> DEFINE h == Handler(PathHolds[b] \union {"projection"}, "built")
           g == Desired(b, ev)
<1>1. g.handlers = <<h>> /\ g = Group(g.matcher, g.handlers)
  BY DEF Desired, Group
<1>2. OwnsHandler(h, b)
  <2>1. h.words = PathHolds[b] \union {"projection"}
    BY DEF Handler
  <2> QED BY <2>1, PathAssumption DEF OwnsHandler
<1> HIDE DEF h, g
<1>3. <<h>> \in Seq({h}) /\ DOMAIN <<h>> = 1..1 /\ Len(<<h>>) = 1
  OBVIOUS
<1>4. IsGroup(g)
  <2>1. IsSequence(<<h>>)
    BY <1>3, OfSequence
  <2> QED BY <1>1, <2>1 DEF IsGroup
<1>5. Filtered(g, b) = <<>>
  <2> DEFINE phi == [x \in {h} |-> IF OwnsHandler(x, b) THEN <<>> ELSE <<x>>]
  <2>1. Filtered(g, b) = Over(<<h>>, phi)
    BY <1>1, <1>3, FilteredOver
  <2>2. phi[h] = <<>> /\ phi \in [{h} -> Seq({h})]
    BY <1>2
  <2> HIDE DEF phi
  <2>3. h \in {h}
    OBVIOUS
  <2>4. Over(<<h>>, phi) = phi[h]
    BY <2>2, <2>3, OverOne
  <2> QED BY <2>1, <2>2, <2>4
<1> QED BY <1>1, <1>4, <1>5 DEF h, g

AllGroups(s) == IsSequence(s) /\ \A i \in DOMAIN s : IsGroup(s[i])

LEMMA GroupsTyped ==
  ASSUME NEW groups, AllGroups(groups), NEW want, IsGroup(want)
  PROVE  \E H, T : /\ GroupsOf(T, H) /\ groups \in Seq(T) /\ want \in T
                   /\ \A s \in Seq(T) : AllGroups(s)
<1> DEFINE P == {groups[i] : i \in 1..Len(groups)} \union {want}
           M == {g.matcher : g \in P}
           H == UNION {{g.handlers[j] : j \in 1..Len(g.handlers)} : g \in P}
           T == {Group(m, s) : m \in M, s \in Seq(H)}
<1>1. groups \in Seq({groups[i] : i \in 1..Len(groups)}) /\ DOMAIN groups = 1..Len(groups)
  <2>1. groups \in Seq({groups[i] : i \in 1..Len(groups)})
    BY SequenceOf DEF AllGroups
  <2> QED BY <2>1, OfSequence
<1>2. ASSUME NEW g \in P PROVE IsGroup(g)
  BY <1>1, <1>2 DEF AllGroups
<1>3. ASSUME NEW g \in P PROVE g \in T
  <2>1. IsSequence(g.handlers) /\ g = Group(g.matcher, g.handlers)
    BY <1>2 DEF IsGroup
  <2>2. g.handlers \in Seq({g.handlers[j] : j \in 1..Len(g.handlers)})
    BY <2>1, SequenceOf
  <2>3. {g.handlers[j] : j \in 1..Len(g.handlers)} \subseteq H
    OBVIOUS
  <2>4. g.matcher \in M
    OBVIOUS
  <2> HIDE DEF P, M, H
  <2>5. g.handlers \in Seq(H)
    BY <2>2, <2>3
  <2> QED BY <2>1, <2>4, <2>5
<1>4. groups \in Seq(T) /\ want \in T
  <2>1. {groups[i] : i \in 1..Len(groups)} \subseteq P /\ want \in P
    OBVIOUS
  <2> HIDE DEF P, T
  <2>2. {groups[i] : i \in 1..Len(groups)} \subseteq T /\ want \in T
    BY <1>3, <2>1
  <2> QED BY <1>1, <2>2
<1>5. GroupsOf(T, H)
  <2> HIDE DEF M, H
  <2>1. ASSUME NEW g \in T PROVE g.handlers \in Seq(H) /\ g.matcher \in M
    <3>1. PICK m \in M, s \in Seq(H) : g = Group(m, s)
      OBVIOUS
    <3> QED BY <3>1 DEF Group
  <2>2. ASSUME NEW g \in T, NEW s \in Seq(H) PROVE Group(g.matcher, s) \in T
    <3>1. g.matcher \in M
      BY <2>1
    <3> QED BY <3>1
  <2> HIDE DEF T
  <2> QED BY <2>1, <2>2 DEF GroupsOf
<1>6. ASSUME NEW s \in Seq(T) PROVE AllGroups(s)
  <2> HIDE DEF M, H
  <2>1. ASSUME NEW g \in T PROVE IsGroup(g)
    <3>1. PICK m \in M, r \in Seq(H) : g = Group(m, r)
      OBVIOUS
    <3>2. g.handlers = r /\ g.matcher = m
      BY <3>1 DEF Group
    <3>3. IsSequence(r)
      BY <3>1, OfSequence
    <3> QED BY <3>1, <3>2, <3>3 DEF IsGroup
  <2> HIDE DEF T
  <2>2. IsSequence(s) /\ DOMAIN s = 1..Len(s) /\ \A i \in 1..Len(s) : s[i] \in T
    BY OfSequence
  <2> QED BY <2>1, <2>2 DEF AllGroups
<1> HIDE DEF M, H, T
<1> QED BY <1>4, <1>5, <1>6

LEMMA GroupsKept ==
  ASSUME NEW b \in Binaries, NEW ev, NEW groups, AllGroups(groups), NEW install \in BOOLEAN,
         NEW new, new = EditEvent(groups, b, Desired(b, ev), install)
  PROVE  /\ AllGroups(new)
         /\ FlattenSeq([i \in DOMAIN new |-> Filtered(new[i], b)])
              = FlattenSeq([i \in DOMAIN groups |-> Filtered(groups[i], b)])
<1> DEFINE want == Desired(b, ev)
<1>1. IsGroup(want) /\ Filtered(want, b) = <<>>
  BY DesiredIsOurs
<1> HIDE DEF want
<1>2. PICK H, T : /\ GroupsOf(T, H) /\ groups \in Seq(T) /\ want \in T
                  /\ \A s \in Seq(T) : AllGroups(s)
  BY <1>1, GroupsTyped
<1>3. new \in Seq(T) /\ Over(new, FilteredBy(T, b)) = Over(groups, FilteredBy(T, b))
  BY <1>1, <1>2, EditEventKeeps DEF want
<1>4. FlattenSeq([i \in DOMAIN new |-> Filtered(new[i], b)]) = Over(new, FilteredBy(T, b))
  BY <1>3, HandlersOver
<1>5. FlattenSeq([i \in DOMAIN groups |-> Filtered(groups[i], b)]) = Over(groups, FilteredBy(T, b))
  BY <1>2, HandlersOver
<1> QED BY <1>2, <1>3, <1>4, <1>5

(* A change of a file of Codex keeps a person's handlers.                  *)
LEMMA ChangeKeeps ==
  ASSUME NEW b \in Binaries, NEW install \in BOOLEAN, NEW doc, IsDocument("codex", doc)
  PROVE  /\ IsDocument("codex", Change(doc, b, install))
         /\ ForeignHandlers(Change(doc, b, install), b) = ForeignHandlers(doc, b)
<1> DEFINE new == Change(doc, b, install)
<1>1. new = [ev \in DOMAIN CodexSpecs |-> new[ev]]
      /\ \A ev \in DOMAIN CodexSpecs : new[ev] = EditEvent(doc[ev], b, Desired(b, ev), install)
  BY DEF Change
<1> HIDE DEF new
<1>2. ASSUME NEW ev \in DOMAIN CodexSpecs
      PROVE  /\ AllGroups(new[ev])
             /\ FlattenSeq([i \in DOMAIN new[ev] |-> Filtered(new[ev][i], b)])
                  = FlattenSeq([i \in DOMAIN doc[ev] |-> Filtered(doc[ev][i], b)])
  <2>1. AllGroups(doc[ev])
    BY DEF IsDocument, AllGroups
  <2>2. PICK g, n : g = doc[ev] /\ n = new[ev]
    OBVIOUS
  <2>3. n = EditEvent(g, b, Desired(b, ev), install)
    BY <1>1, <2>2
  <2>4. AllGroups(n) /\ FlattenSeq([i \in DOMAIN n |-> Filtered(n[i], b)])
                          = FlattenSeq([i \in DOMAIN g |-> Filtered(g[i], b)])
    BY <2>1, <2>2, <2>3, GroupsKept
  <2> QED BY <2>2, <2>4
<1>3. IsDocument("codex", new)
  BY <1>1, <1>2 DEF IsDocument, AllGroups
<1>4. ForeignHandlers(new, b) = ForeignHandlers(doc, b)
  BY <1>2, Zenon DEF ForeignHandlers
<1> QED BY <1>3, <1>4 DEF new

(* One event of the settings of Claude Code: a merge and a removal leave   *)
(* what no family owns.                                                    *)
TheirsAlone(s, b) == WithoutAt(s, {i \in DOMAIN s : OwnedByAFamily(s[i], b)})

LEMMA MergeLeavesTheirs ==
  ASSUME NEW b \in Binaries, NEW ev, NEW s, IsSequence(s)
  PROVE  /\ IsSequence(MergeEvent(s, b, ev))
         /\ TheirsAlone(MergeEvent(s, b, ev), b) = TheirsAlone(s, b)
<1> DEFINE T == {s[i] : i \in 1..Len(s)} \union BuiltEntries(b, ev)
           new == MergeEvent(s, b, ev)
<1>1. s \in Seq(T) /\ BuiltEntries(b, ev) \subseteq T
  <2>1. s \in Seq({s[i] : i \in 1..Len(s)})
    BY SequenceOf
  <2>2. {s[i] : i \in 1..Len(s)} \subseteq T /\ BuiltEntries(b, ev) \subseteq T
    OBVIOUS
  <2> HIDE DEF T
  <2> QED BY <2>1, <2>2
<1> HIDE DEF T
<1>2. new \in Seq(T) /\ Over(new, Foreign(T, b)) = Over(s, Foreign(T, b))
  BY <1>1, MergeEventKeeps
<1> HIDE DEF new
<1>3. TheirsAlone(new, b) = Over(new, Foreign(T, b)) /\ IsSequence(new)
  BY <1>2, ForeignOver, OfSequence DEF TheirsAlone
<1>4. TheirsAlone(s, b) = Over(s, Foreign(T, b))
  BY <1>1, ForeignOver DEF TheirsAlone
<1> QED BY <1>2, <1>3, <1>4 DEF new

LEMMA RemovalLeavesTheirs ==
  ASSUME NEW b, NEW ev, NEW s, IsSequence(s),
         NEW new, new = WithoutAt(s, {i \in DOMAIN s : Removable(ev, s[i], b)})
  PROVE  IsSequence(new) /\ TheirsAlone(new, b) = TheirsAlone(s, b)
<1> DEFINE T == {s[i] : i \in 1..Len(s)}
           gone == {i \in DOMAIN s : Removable(ev, s[i], b)}
           phi == Foreign(T, b)
<1>1. s \in Seq(T)
  BY SequenceOf
<1>2. \A i \in 1..Len(s) : i \in gone => phi[s[i]] = <<>>
  <2>1. ASSUME NEW i \in 1..Len(s), i \in gone PROVE phi[s[i]] = <<>>
    <3>1. Removable(ev, s[i], b)
      BY <2>1
    <3>2. "stop" \in Families
      BY DEF Families, Specs
    <3>3. OwnedByAFamily(s[i], b)
      BY <3>1, <3>2 DEF Removable, OwnedByAFamily
    <3>4. s[i] \in T
      OBVIOUS
    <3> HIDE DEF T
    <3> QED BY <3>3, <3>4 DEF Foreign
  <2> QED BY <2>1
<1>3. phi \in [T -> Seq(T)]
  BY ForeignFilters
<1> HIDE DEF T, gone, phi
<1>4. new \in Seq(T) /\ Over(new, phi) = Over(s, phi)
  <2>1. new = WithoutAt(s, gone)
    BY DEF gone
  <2>2. WithoutAt(s, gone) \in Seq(T)
    BY <1>1, WithoutAtTyped
  <2>3. Over(WithoutAt(s, gone), phi) = Over(s, phi)
    <3>1. phi \in [T -> Seq(T)]
      BY <1>3
    <3>2. PICK r \in Seq(T) : r = s
      BY <1>1
    <3> QED BY <1>2, <3>1, <3>2, WithoutKeeps
  <2> QED BY <2>1, <2>2, <2>3
<1>5. TheirsAlone(new, b) = Over(new, phi) /\ IsSequence(new)
  BY <1>4, ForeignOver, OfSequence DEF TheirsAlone, phi
<1>6. TheirsAlone(s, b) = Over(s, phi)
  BY <1>1, ForeignOver DEF TheirsAlone, phi
<1> QED BY <1>4, <1>5, <1>6

LEMMA DocumentParts ==
  ASSUME NEW h, NEW d, NEW x
  PROVE  /\ Document(h, d, x).hooks = h /\ Document(h, d, x).deny = d
         /\ Document(h, d, x).disabled = x
BY DEF Document

(* What an install or a removal writes is a document again, and holds what *)
(* was a person's in the one it has read.                                  *)
LEMMA MergeKeeps ==
  ASSUME NEW b \in Binaries, NEW doc, IsDocument("claude", doc), NEW new, new \in {MergeHooks(doc, b), RemoveHooks(doc, b)}
  PROVE  IsDocument("claude", new) /\ ForeignEntries(new, b) = ForeignEntries(doc, b)
<1>1. \A ev \in HookEvents : IsSequence(doc.hooks[ev])
  BY DEF IsDocument
<1>2. PICK h, d, x : /\ new = Document(h, d, x) /\ h = [ev \in HookEvents |-> h[ev]]
                     /\ \A ev \in HookEvents :
                          \/ h[ev] = MergeEvent(doc.hooks[ev], b, ev)
                          \/ h[ev] = WithoutAt(doc.hooks[ev],
                                       {i \in DOMAIN doc.hooks[ev] : Removable(ev, doc.hooks[ev][i], b)})
  <2>1. CASE new = MergeHooks(doc, b)
    <3> DEFINE h == [ev \in HookEvents |-> MergeEvent(doc.hooks[ev], b, ev)]
               d == IF Contains(doc.deny, DenyRule) THEN doc.deny ELSE Append(doc.deny, DenyRule)
    <3>1. new = Document(h, d, doc.disabled)
      BY <2>1 DEF MergeHooks
    <3>2. h = [ev \in HookEvents |-> h[ev]] /\ \A ev \in HookEvents : h[ev] = MergeEvent(doc.hooks[ev], b, ev)
      OBVIOUS
    <3> HIDE DEF h, d
    <3> QED BY <3>1, <3>2
  <2>2. CASE new = RemoveHooks(doc, b)
    <3> DEFINE h == [ev \in HookEvents |->
                       WithoutAt(doc.hooks[ev], {i \in DOMAIN doc.hooks[ev] : Removable(ev, doc.hooks[ev][i], b)})]
               d == SelectSeq(doc.deny, LAMBDA r : r # DenyRule)
    <3>1. new = Document(h, d, doc.disabled)
      BY <2>2 DEF RemoveHooks
    <3>2. h = [ev \in HookEvents |-> h[ev]] /\ \A ev \in HookEvents :
            h[ev] = WithoutAt(doc.hooks[ev], {i \in DOMAIN doc.hooks[ev] : Removable(ev, doc.hooks[ev][i], b)})
      OBVIOUS
    <3> HIDE DEF h, d
    <3> QED BY <3>1, <3>2
  <2> QED BY <2>1, <2>2
<1>3. ASSUME NEW ev \in HookEvents
      PROVE  IsSequence(h[ev]) /\ TheirsAlone(h[ev], b) = TheirsAlone(doc.hooks[ev], b)
  <2>1. PICK s, n : s = doc.hooks[ev] /\ n = h[ev]
    OBVIOUS
  <2>2. IsSequence(s)
    BY <1>1, <2>1
  <2>3. CASE n = MergeEvent(s, b, ev)
    BY <2>1, <2>2, <2>3, MergeLeavesTheirs
  <2>4. CASE n = WithoutAt(s, {i \in DOMAIN s : Removable(ev, s[i], b)})
    BY <2>1, <2>2, <2>4, RemovalLeavesTheirs
  <2>5. n = MergeEvent(s, b, ev) \/ n = WithoutAt(s, {i \in DOMAIN s : Removable(ev, s[i], b)})
    BY <1>2, <2>1
  <2> QED BY <2>3, <2>4, <2>5
<1>4. new.hooks = h /\ new.deny = d /\ new.disabled = x
  BY <1>2, DocumentParts
<1>5. IsDocument("claude", new)
  <2>1. new = Document(new.hooks, new.deny, new.disabled)
    BY <1>2, <1>4
  <2>2. new.hooks = [ev \in HookEvents |-> new.hooks[ev]]
    BY <1>2, <1>4
  <2> QED BY <1>3, <1>4, <2>1, <2>2 DEF IsDocument
<1>6. ForeignEntries(new, b) = ForeignEntries(doc, b)
  BY <1>3, <1>4, Zenon DEF ForeignEntries, TheirsAlone
<1> QED BY <1>5, <1>6

LEMMA EditedKeeps ==
  ASSUME kind \in {"claude", "codex"}, NEW b \in Binaries, NEW install \in BOOLEAN,
         NEW doc, IsDocument(kind, doc), NEW new, new = Edited(install, doc, b)
  PROVE  /\ IsDocument(kind, new)
         /\ IF kind = "codex" THEN ForeignHandlers(new, b) = ForeignHandlers(doc, b)
            ELSE ForeignEntries(new, b) = ForeignEntries(doc, b)
<1>1. CASE kind = "codex"
  BY <1>1, ChangeKeeps DEF Edited
<1>2. CASE kind = "claude"
  <2>1. new \in {MergeHooks(doc, b), RemoveHooks(doc, b)}
    BY <1>2 DEF Edited
  <2> QED BY <1>2, <2>1, MergeKeeps
<1> QED BY <1>1, <1>2

LEMMA EmptyIsDocument == kind \in {"claude", "codex"} => IsDocument(kind, EmptyDocument)
<1> SUFFICES ASSUME kind \in {"claude", "codex"} PROVE IsDocument(kind, EmptyDocument)
  OBVIOUS
<1>1. IsSequence(<<>>) /\ DOMAIN <<>> = {}
  <2>1. <<>> \in Seq({}) /\ 1..Len(<<>>) = {}
    OBVIOUS
  <2> QED BY <2>1, OfSequence
<1>2. CASE kind = "codex"
  <2>1. EmptyDocument = [ev \in DOMAIN CodexSpecs |-> <<>>]
    BY <1>2 DEF EmptyDocument, NoGroups
  <2>2. EmptyDocument = [ev \in DOMAIN CodexSpecs |-> EmptyDocument[ev]]
        /\ \A ev \in DOMAIN CodexSpecs : EmptyDocument[ev] = <<>>
    BY <2>1
  <2> QED BY <1>1, <1>2, <2>2 DEF IsDocument
<1>3. CASE kind = "claude"
  <2>1. EmptyDocument = Document(NoHooks, <<>>, FALSE)
    BY <1>3 DEF EmptyDocument
  <2>2. EmptyDocument.hooks = NoHooks /\ EmptyDocument.deny = <<>> /\ EmptyDocument.disabled = FALSE
    BY <2>1, Zenon DEF Document
  <2>3. NoHooks = [ev \in HookEvents |-> NoHooks[ev]] /\ \A ev \in HookEvents : NoHooks[ev] = <<>>
    BY DEF NoHooks
  <2> QED BY <1>1, <1>3, <2>1, <2>2, <2>3 DEF IsDocument
<1> QED BY <1>2, <1>3

(* What a person writes by hand is still a sequence of entries, or of      *)
(* groups.                                                                 *)
HeldTogether(s) == IsSequence(s) /\ (kind = "codex" => \A i \in DOMAIN s : IsGroup(s[i]))

LEMMA TheirsIsGroup ==
  ASSUME kind = "codex", NEW e, IsGroup(e)
  PROVE  IsGroup(Theirs(e))
<1> DEFINE T == {e.handlers[i] : i \in 1..Len(e.handlers)}
           h == Handler({}, "theirs")
           more == Append(e.handlers, h)
<1>1. e.handlers \in Seq(T)
  BY SequenceOf DEF IsGroup
<1>2. more \in Seq(T \union {h})
  <2>1. e.handlers \in Seq(T \union {h})
    <3> HIDE DEF T
    <3> QED BY <1>1
  <2> HIDE DEF T
  <2> QED BY <2>1
<1>3. IsSequence(more)
  BY <1>2, OfSequence
<1>4. Theirs(e) = Group(e.matcher, more)
  BY Zenon DEF Theirs
<1> HIDE DEF more
<1>5. Theirs(e).matcher = e.matcher /\ Theirs(e).handlers = more
  BY <1>4 DEF Group
<1> QED BY <1>3, <1>4, <1>5 DEF IsGroup

LEMMA OwnIsGroup == kind = "codex" => IsGroup(Own)
<1> SUFFICES ASSUME kind = "codex" PROVE IsGroup(Own)
  OBVIOUS
<1> DEFINE h == Handler({}, "theirs")
<1>1. Own = Group("memory", <<h>>)
  BY DEF Own
<1> HIDE DEF h
<1>2. <<h>> \in Seq({h})
  OBVIOUS
<1>3. IsSequence(<<h>>)
  BY <1>2, OfSequence
<1>4. Own.matcher = "memory" /\ Own.handlers = <<h>>
  BY <1>1 DEF Group
<1> QED BY <1>1, <1>3, <1>4 DEF IsGroup

LEMMA HandsKeep ==
  ASSUME NEW s, HeldTogether(s), NEW new, new \in HandWritten(s)
  PROVE  HeldTogether(new)
<1> DEFINE T == {s[i] : i \in 1..Len(s)} \union {Own} \union {Theirs(s[i]) : i \in 1..Len(s)}
<1>1. DOMAIN s = 1..Len(s) /\ s \in Seq({s[i] : i \in 1..Len(s)}) /\ Outer(s) \subseteq 1..Len(s)
  <2>1. s \in Seq({s[i] : i \in 1..Len(s)})
    BY SequenceOf DEF HeldTogether
  <2> QED BY <2>1, OfSequence DEF Outer
<1>2. ASSUME NEW x \in T, kind = "codex" PROVE IsGroup(x)
  <2>1. \A i \in 1..Len(s) : IsGroup(s[i])
    BY <1>1, <1>2 DEF HeldTogether
  <2>2. \A i \in 1..Len(s) : IsGroup(Theirs(s[i]))
    BY <1>2, <2>1, TheirsIsGroup
  <2> QED BY <1>2, <2>1, <2>2, OwnIsGroup
<1>3. s \in Seq(T) /\ Own \in T /\ \A i \in 1..Len(s) : s[i] \in T /\ Theirs(s[i]) \in T
  <2>1. /\ {s[i] : i \in 1..Len(s)} \subseteq T /\ Own \in T
        /\ \A i \in 1..Len(s) : s[i] \in T /\ Theirs(s[i]) \in T
    OBVIOUS
  <2> HIDE DEF T
  <2> QED BY <1>1, <2>1
<1> HIDE DEF T
<1>4. new \in Seq(T)
  <2>1. CASE new \in {<<Own>> \o s, Append(s, Own)}
    <3>1. PICK e \in T : e = Own
      BY <1>3
    <3>2. <<e>> \in Seq(T) /\ Append(s, e) \in Seq(T)
      BY <1>3
    <3>3. <<e>> \o s \in Seq(T)
      BY <1>3, <3>2
    <3> QED BY <2>1, <3>1, <3>2, <3>3
  <2>2. ASSUME NEW i \in 1..Len(s), new = Append(s, s[i]) PROVE new \in Seq(T)
    BY <1>3, <2>2
  <2>3. ASSUME NEW i \in 1..Len(s), new = ReplaceAt(s, i, Theirs(s[i])) PROVE new \in Seq(T)
    <3>1. PICK e \in T : e = Theirs(s[i])
      BY <1>3
    <3>2. new = [s EXCEPT ![i] = e]
      BY <2>3, <3>1 DEF ReplaceAt
    <3> QED BY <1>3, <3>2
  <2>4. ASSUME NEW i \in 1..Len(s), new = RemoveAt(s, i) PROVE new \in Seq(T)
    <3>1. SubSeq(s, 1, i - 1) \in Seq(T) /\ SubSeq(s, i + 1, Len(s)) \in Seq(T)
      BY <1>3
    <3> QED BY <2>4, <3>1 DEF RemoveAt
  <2> QED BY <1>1, <2>1, <2>2, <2>3, <2>4 DEF HandWritten
<1>5. IsSequence(new) /\ DOMAIN new = 1..Len(new) /\ \A i \in 1..Len(new) : new[i] \in T
  BY <1>4, OfSequence
<1> QED BY <1>2, <1>5 DEF HeldTogether

LEMMA HandDocumentsKeep ==
  ASSUME kind = "claude", NEW doc, IsDocument(kind, doc), NEW new, new \in HandDocuments(doc)
  PROVE  IsDocument(kind, new)
<1> DEFINE h == doc.hooks
<1>1. /\ doc = Document(h, doc.deny, doc.disabled) /\ h = [ev \in HookEvents |-> h[ev]]
      /\ \A ev \in HookEvents : HeldTogether(h[ev])
  BY DEF IsDocument, HeldTogether
<1> HIDE DEF h
<1>2. ASSUME NEW g, NEW d, NEW x, new = Document(g, d, x), g = [ev \in HookEvents |-> g[ev]],
             \A ev \in HookEvents : IsSequence(g[ev])
      PROVE  IsDocument(kind, new)
  <2>1. new.hooks = g /\ new.deny = d /\ new.disabled = x
    BY <1>2, DocumentParts
  <2> QED BY <1>2, <2>1 DEF IsDocument
<1>3. CASE new \in {[doc EXCEPT !.deny = <<>>], [doc EXCEPT !.disabled = TRUE]}
  <2>1. new = Document(h, <<>>, doc.disabled) \/ new = Document(h, doc.deny, TRUE)
    BY <1>1, <1>3 DEF Document
  <2> QED BY <1>1, <1>2, <2>1 DEF HeldTogether
<1>4. ASSUME NEW ev \in {"Stop", "UserPromptSubmit"}, NEW s \in HandWritten(h[ev]),
             new = [doc EXCEPT !.hooks[ev] = s]
      PROVE  IsDocument(kind, new)
  <2>1. ev \in HookEvents
    <3>1. "stop" \in Families /\ "minimalism" \in Families /\ Specs.stop = StopSpecs /\ Specs.minimalism = ContractSpecs
      BY DEF Families, Specs
    <3>2. "Stop" \in DOMAIN StopSpecs /\ "UserPromptSubmit" \in DOMAIN ContractSpecs
      BY DEF StopSpecs, ContractSpecs
    <3> QED BY <3>1, <3>2 DEF HookEvents
  <2> DEFINE g == [h EXCEPT ![ev] = s]
  <2>2. new = Document(g, doc.deny, doc.disabled)
    <3>1. new = [doc EXCEPT !.hooks = g]
      BY <1>4 DEF h
    <3> HIDE DEF g
    <3> QED BY <1>1, <3>1 DEF Document
  <2>3. IsSequence(s)
    BY <1>1, <2>1, HandsKeep DEF HeldTogether
  <2>4. g = [e \in HookEvents |-> g[e]] /\ \A e \in HookEvents : IsSequence(g[e])
    <3>1. DOMAIN h = HookEvents
      BY <1>1
    <3>2. g = [e \in HookEvents |-> IF e = ev THEN s ELSE h[e]]
      BY <3>1
    <3> QED BY <1>1, <2>3, <3>2 DEF HeldTogether
  <2> HIDE DEF g
  <2> QED BY <1>2, <2>2, <2>4
<1>5. \/ \E ev \in {"Stop", "UserPromptSubmit"} :
           new \in {[doc EXCEPT !.hooks[ev] = s] : s \in HandWritten(h[ev])}
      \/ new \in {[doc EXCEPT !.deny = <<>>], [doc EXCEPT !.disabled = TRUE]}
  <2> DEFINE Written(ev) == {[doc EXCEPT !.hooks[ev] = s] : s \in HandWritten(h[ev])}
             edited == {[doc EXCEPT !.deny = <<>>], [doc EXCEPT !.disabled = TRUE]}
  <2>1. HandDocuments(doc) = (UNION {Written(ev) : ev \in {"Stop", "UserPromptSubmit"}}) \union edited
    BY Zenon DEF HandDocuments, h
  <2> HIDE DEF Written, edited
  <2>2. (\E ev \in {"Stop", "UserPromptSubmit"} : new \in Written(ev)) \/ new \in edited
    BY <2>1
  <2> QED BY <2>2 DEF Written, edited
<1> QED BY <1>3, <1>4, <1>5

LEMMA HandGroupsKeep ==
  ASSUME kind = "codex", NEW doc, IsDocument(kind, doc), NEW new, new \in HandGroups(doc)
  PROVE  IsDocument(kind, new)
<1>1. /\ doc = [ev \in DOMAIN CodexSpecs |-> doc[ev]]
      /\ \A ev \in DOMAIN CodexSpecs : HeldTogether(doc[ev])
  BY DEF IsDocument, HeldTogether
<1>2. PICK s \in HandWritten(doc["PreToolUse"]) : new = [doc EXCEPT !["PreToolUse"] = s]
  BY DEF HandGroups
<1>3. "PreToolUse" \in DOMAIN CodexSpecs
  BY DEF CodexSpecs
<1>4. HeldTogether(s)
  BY <1>1, <1>3, HandsKeep
<1>5. new = [ev \in DOMAIN CodexSpecs |-> IF ev = "PreToolUse" THEN s ELSE doc[ev]]
  BY <1>1, <1>2
<1>6. /\ new = [ev \in DOMAIN CodexSpecs |-> new[ev]]
      /\ \A ev \in DOMAIN CodexSpecs : new[ev] = s \/ new[ev] = doc[ev]
  BY <1>5
<1>7. \A ev \in DOMAIN CodexSpecs : HeldTogether(new[ev])
  BY <1>1, <1>4, <1>6
<1> QED BY <1>6, <1>7 DEF IsDocument, HeldTogether

(* The settings: how the file reads and what it holds, and that a command  *)
(* about to rename, which no other write came before since it took the     *)
(* backup, has in the backup what is there.                                *)
CommandShaped(c) ==
  /\ DOMAIN c = {"at", "install", "binary", "read", "raced"}
  /\ c.at \in {"idle", "stage", "rename", "done", "refused"}
  /\ c.at \in {"stage", "rename"} =>
       c.binary \in Binaries /\ c.install \in BOOLEAN /\ IsDocument(kind, c.read.doc)
BackedUp(c) == c.at = "rename" /\ ~c.raced /\ settings.reads # "missing" => backup = settings

SettingsInv ==
  /\ kind \in {"claude", "codex"}
  /\ settings.reads \in {"missing", "well", "invalid", "null", "dangling"}
  /\ backup.reads \in {"missing", "well", "invalid", "null"}
  /\ WellRead(settings) /\ WellRead(backup)
  /\ DOMAIN command = HookCommands
  /\ \A p \in HookCommands : CommandShaped(command[p]) /\ BackedUp(command[p])
  /\ hookRuns \in 0..MaxHookRuns /\ hookRuns \in Nat /\ hands \in 0..MaxHands /\ hands \in Nat

LEMMA SettingsInitInv == SettingsInit => SettingsInv
<1> SUFFICES ASSUME SettingsInit PROVE SettingsInv
  OBVIOUS
<1>1. PICK s \in Starts : kind = s.kind /\ settings = s.file
  BY DEF SettingsInit
<1>2. backup.reads = "missing"
  BY DEF SettingsInit, FileThat
<1>3. \A p \in HookCommands : CommandShaped(command[p]) /\ BackedUp(command[p])
  <2>1. CommandShaped(NoCommand) /\ BackedUp(NoCommand)
    BY DEF NoCommand, CommandShaped, BackedUp
  <2> QED BY <2>1 DEF SettingsInit
<1>4. WellRead(settings) /\ WellRead(backup)
  BY <1>1, <1>2, StartsAssumption DEF WellRead
<1> QED BY <1>1, <1>2, <1>3, <1>4, StartsAssumption, MaxHookRunsAssumption, MaxHandsAssumption
        DEF SettingsInit, SettingsInv

(* What a step makes of one command, and of the file and its backup, as    *)
(* they are after it.                                                      *)
CommandHeld(c) ==
  /\ DOMAIN c = {"at", "install", "binary", "read", "raced"}
  /\ c.at \in {"idle", "stage", "rename", "done", "refused"}
  /\ c.at \in {"stage", "rename"} =>
       c.binary \in Binaries /\ c.install \in BOOLEAN /\ IsDocument(kind, c.read.doc)
  /\ c.at = "rename" /\ ~c.raced /\ settings'.reads # "missing" => backup' = settings'

LEMMA SettingsAfter ==
  ASSUME SettingsInv, kind' = kind,
         settings'.reads \in {"missing", "well", "invalid", "null", "dangling"},
         backup'.reads \in {"missing", "well", "invalid", "null"},
         settings'.reads = "well" => IsDocument(kind, settings'.doc),
         backup'.reads = "well" => IsDocument(kind, backup'.doc),
         DOMAIN command' = HookCommands, \A q \in HookCommands : CommandHeld(command'[q]),
         hookRuns' \in 0..MaxHookRuns, hands' \in 0..MaxHands
  PROVE  SettingsInv'
<1>1. WellRead(settings)' /\ WellRead(backup)'
  BY DEF WellRead
<1>2. \A q \in HookCommands : CommandShaped(command[q])' /\ BackedUp(command[q])'
  BY DEF CommandShaped, BackedUp, CommandHeld
<1>3. hookRuns' \in Nat /\ hands' \in Nat
  BY MaxHookRunsAssumption, MaxHandsAssumption
<1> QED BY <1>1, <1>2, <1>3 DEF SettingsInv

LEMMA HandsSettingsInv == ASSUME SettingsInv, ByHandOfAPerson PROVE SettingsInv'
<1>1. kind' = kind /\ backup' = backup /\ hookRuns' = hookRuns /\ hands' = hands + 1 /\ hands < MaxHands
  BY DEF ByHandOfAPerson
<1>2. \/ settings' = FileThat("invalid", <<>>) \/ settings' = backup
      \/ settings.reads = "well" /\ \E d : /\ settings' = FileThat("well", d)
                                           /\ IF kind = "claude" THEN d \in HandDocuments(settings.doc)
                                              ELSE d \in HandGroups(settings.doc)
  <2> DEFINE written == IF kind = "claude" THEN HandDocuments(settings.doc) ELSE HandGroups(settings.doc)
             wells == {FileThat("well", d) : d \in written}
             broken == {FileThat("invalid", <<>>), backup}
  <2>1. settings' \in broken \union (IF settings.reads # "well" THEN {} ELSE wells)
    BY Zenon DEF ByHandOfAPerson
  <2>2. settings' \in broken \/ (settings.reads = "well" /\ settings' \in wells)
    <3> HIDE DEF broken, wells
    <3> QED BY <2>1
  <2>3. settings' \in broken => settings' = FileThat("invalid", <<>>) \/ settings' = backup
    OBVIOUS
  <2>4. ASSUME settings' \in wells PROVE \E d \in written : settings' = FileThat("well", d)
    <3> HIDE DEF written
    <3> QED BY <2>4
  <2> HIDE DEF broken, wells
  <2> QED BY <2>2, <2>3, <2>4
<1>3. /\ settings'.reads \in {"missing", "well", "invalid", "null", "dangling"}
      /\ settings'.reads = "well" => IsDocument(kind, settings'.doc)
  <2>1. CASE settings' = FileThat("invalid", <<>>)
    BY <2>1 DEF FileThat
  <2>2. CASE settings' = backup
    BY <2>2 DEF SettingsInv, WellRead
  <2>3. ASSUME settings.reads = "well", NEW d, settings' = FileThat("well", d),
               IF kind = "claude" THEN d \in HandDocuments(settings.doc) ELSE d \in HandGroups(settings.doc)
        PROVE  settings'.reads = "well" /\ IsDocument(kind, settings'.doc)
    <3>1. settings'.reads = "well" /\ settings'.doc = d
      BY <2>3 DEF FileThat
    <3>2. IsDocument(kind, settings.doc)
      BY <2>3 DEF SettingsInv, WellRead
    <3>3. IsDocument(kind, d)
      BY <2>3, <3>2, HandDocumentsKeep, HandGroupsKeep DEF SettingsInv
    <3> QED BY <3>1, <3>3
  <2> QED BY <1>2, <2>1, <2>2, <2>3
<1>4. DOMAIN command' = HookCommands
      /\ \A q \in HookCommands : command'[q] = IF command[q].at = "rename" THEN [command[q] EXCEPT !.raced = TRUE]
                                               ELSE command[q]
  BY DEF ByHandOfAPerson, HookAt
<1>5. \A q \in HookCommands : CommandHeld(command'[q])
  <2> SUFFICES ASSUME NEW q \in HookCommands PROVE CommandHeld(command'[q])
    OBVIOUS
  <2> DEFINE c == command[q]
  <2>1. CommandShaped(c)
    BY DEF SettingsInv
  <2>2. CASE c.at = "rename"
    <3>1. command'[q] = [c EXCEPT !.raced = TRUE]
      BY <1>4, <2>2
    <3> HIDE DEF c
    <3>2. /\ DOMAIN command'[q] = DOMAIN c /\ command'[q].at = c.at /\ command'[q].binary = c.binary
          /\ command'[q].install = c.install /\ command'[q].read = c.read /\ command'[q].raced = TRUE
      BY <2>1, <3>1 DEF CommandShaped
    <3> QED BY <2>1, <3>2 DEF CommandShaped, CommandHeld
  <2>3. CASE c.at # "rename"
    <3>1. command'[q] = c
      BY <1>4, <2>3
    <3> HIDE DEF c
    <3> QED BY <2>1, <2>3, <3>1 DEF CommandShaped, CommandHeld
  <2> QED BY <2>2, <2>3
<1>6. backup'.reads \in {"missing", "well", "invalid", "null"}
      /\ (backup'.reads = "well" => IsDocument(kind, backup'.doc))
  BY <1>1 DEF SettingsInv, WellRead
<1>7. hookRuns' \in 0..MaxHookRuns /\ hands' \in 0..MaxHands
  BY <1>1, MaxHandsAssumption DEF SettingsInv
<1> QED BY <1>1, <1>3, <1>4, <1>5, <1>6, <1>7, SettingsAfter

(* The commands a step leaves alone, when the file or its backup changes   *)
(* only under those that have yet to take the backup.                      *)
LEMMA OthersHeld ==
  ASSUME SettingsInv, NEW q \in HookCommands, command'[q] = command[q],
         BackedUp(command[q]) => (command[q].at = "rename" /\ ~command[q].raced /\ settings'.reads # "missing"
                                    => backup' = settings')
  PROVE  CommandHeld(command'[q])
BY DEF SettingsInv, CommandShaped, CommandHeld

LEMMA BeginSettingsInv ==
  ASSUME SettingsInv, NEW p \in HookCommands, NEW b \in Binaries, NEW install \in BOOLEAN, BeginHooks(p, b, install)
  PROVE  SettingsInv'
<1> DEFINE doc == IF settings.reads = "well" THEN settings.doc ELSE EmptyDocument
           refused == settings.reads \in {"invalid", "dangling"} \/ (settings.reads = "null" /\ (install \/ kind = "codex"))
           nothing == settings.reads = "null" \/ Edited(install, doc, b) = doc
           put == [at |-> IF refused THEN "refused" ELSE IF nothing THEN "done" ELSE "stage",
                   install |-> install, binary |-> b,
                   read |-> FileThat(settings.reads, doc), raced |-> FALSE]
<1>1. /\ kind' = kind /\ settings' = settings /\ backup' = backup /\ hands' = hands
      /\ hookRuns < MaxHookRuns /\ hookRuns' = hookRuns + 1
  BY DEF BeginHooks
<1>2. command' = [command EXCEPT ![p] = put]
  BY Zenon DEF BeginHooks
<1>3. IsDocument(kind, doc)
  BY EmptyIsDocument DEF SettingsInv, WellRead
<1>4. CommandHeld(put)
  <2>1. /\ DOMAIN put = {"at", "install", "binary", "read", "raced"}
        /\ put.at = IF refused THEN "refused" ELSE IF nothing THEN "done" ELSE "stage"
        /\ put.install = install /\ put.binary = b /\ put.read = FileThat(settings.reads, doc)
    OBVIOUS
  <2> HIDE DEF put, refused, nothing, doc
  <2>2. put.at \in {"refused", "done", "stage"}
    BY <2>1
  <2>3. put.read.doc = doc
    BY <2>1 DEF FileThat
  <2> QED BY <1>3, <2>1, <2>2, <2>3 DEF CommandHeld
<1> HIDE DEF put
<1>5. \A q \in HookCommands : CommandHeld(command'[q])
  <2> SUFFICES ASSUME NEW q \in HookCommands PROVE CommandHeld(command'[q])
    OBVIOUS
  <2>1. CASE q = p
    BY <1>2, <1>4, <2>1 DEF SettingsInv
  <2>2. CASE q # p
    <3>1. command'[q] = command[q]
      BY <1>2, <2>2 DEF SettingsInv
    <3> QED BY <1>1, <3>1, OthersHeld DEF BackedUp
  <2> QED BY <2>1, <2>2
<1>6. DOMAIN command' = HookCommands
  BY <1>2 DEF SettingsInv
<1>7. hookRuns' \in 0..MaxHookRuns /\ hands' \in 0..MaxHands
  BY <1>1, MaxHookRunsAssumption DEF SettingsInv
<1> QED BY <1>1, <1>5, <1>6, <1>7, SettingsAfter DEF SettingsInv, WellRead

LEMMA BackUpSettingsInv == ASSUME SettingsInv, NEW p \in HookCommands, BackUp(p) PROVE SettingsInv'
<1>1. /\ kind' = kind /\ settings' = settings /\ hookRuns' = hookRuns /\ hands' = hands
      /\ settings.reads # "dangling" /\ command[p].at = "stage"
      /\ backup' = IF settings.reads = "missing" THEN backup ELSE settings
      /\ command' = [command EXCEPT ![p].at = "rename", ![p].raced = FALSE]
  BY DEF BackUp, HookAt
<1>2. DOMAIN command' = HookCommands /\ CommandShaped(command[p])
  BY <1>1 DEF SettingsInv
<1>3. backup'.reads \in {"missing", "well", "invalid", "null"}
      /\ (backup'.reads = "well" => IsDocument(kind, backup'.doc))
  BY <1>1 DEF SettingsInv, WellRead
<1>4. settings'.reads # "missing" => backup' = settings'
  BY <1>1
<1>5. \A q \in HookCommands : CommandHeld(command'[q])
  <2> SUFFICES ASSUME NEW q \in HookCommands PROVE CommandHeld(command'[q])
    OBVIOUS
  <2>1. CASE q = p
    <3> DEFINE c == command[p]
    <3>1. command'[p] = [[c EXCEPT !.at = "rename"] EXCEPT !.raced = FALSE]
      BY <1>1 DEF SettingsInv
    <3> HIDE DEF c
    <3>2. /\ DOMAIN command'[p] = DOMAIN c /\ command'[p].at = "rename" /\ command'[p].binary = c.binary
          /\ command'[p].install = c.install /\ command'[p].read = c.read
      BY <1>2, <3>1 DEF CommandShaped, c
    <3>3. CommandShaped(c) /\ c.at = "stage"
      BY <1>1, <1>2 DEF c
    <3> QED BY <1>4, <2>1, <3>2, <3>3 DEF CommandShaped, CommandHeld
  <2>2. CASE q # p
    <3>1. command'[q] = command[q]
      BY <1>1, <2>2 DEF SettingsInv
    <3> QED BY <1>4, <3>1, OthersHeld
  <2> QED BY <2>1, <2>2
<1> QED BY <1>1, <1>2, <1>3, <1>5, SettingsAfter DEF SettingsInv, WellRead

LEMMA RenameSettingsInv == ASSUME SettingsInv, NEW p \in HookCommands, Rename(p) PROVE SettingsInv'
<1> DEFINE new == Edited(command[p].install, command[p].read.doc, command[p].binary)
           c == command[p]
<1>1. /\ kind' = kind /\ backup' = backup /\ hookRuns' = hookRuns /\ hands' = hands
      /\ c.at = "rename" /\ settings' = FileThat("well", new)
      /\ command' = [RacedBy(p) EXCEPT ![p].at = "done"]
  BY DEF Rename, HookAt
<1>2. CommandShaped(c)
  BY DEF SettingsInv
<1>3. IsDocument(kind, new)
  <2>1. c.binary \in Binaries /\ c.install \in BOOLEAN /\ IsDocument(kind, c.read.doc)
    BY <1>1, <1>2 DEF CommandShaped
  <2>2. kind \in {"claude", "codex"}
    BY DEF SettingsInv
  <2> QED BY <2>1, <2>2, EditedKeeps
<1> HIDE DEF new
<1>4. settings'.reads = "well" /\ settings'.doc = new
  BY <1>1 DEF FileThat
<1>5. \A q \in HookCommands : q # p =>
        command'[q] = IF command[q].at = "rename" THEN [command[q] EXCEPT !.raced = TRUE] ELSE command[q]
  BY <1>1 DEF RacedBy, HookAt
<1>6. DOMAIN command' = HookCommands
  BY <1>1 DEF RacedBy
<1>7. command'[p] = [c EXCEPT !.at = "done"]
  BY <1>1 DEF RacedBy
<1>8. \A q \in HookCommands : CommandHeld(command'[q])
  <2> SUFFICES ASSUME NEW q \in HookCommands PROVE CommandHeld(command'[q])
    OBVIOUS
  <2>1. CASE q = p
    <3> HIDE DEF c
    <3>1. DOMAIN command'[p] = DOMAIN c /\ command'[p].at = "done"
      BY <1>2, <1>7 DEF CommandShaped
    <3> QED BY <1>2, <2>1, <3>1 DEF CommandShaped, CommandHeld
  <2>2. CASE q # p /\ command[q].at = "rename"
    <3> DEFINE d == command[q]
    <3>0. CommandShaped(d) /\ command'[q] = [d EXCEPT !.raced = TRUE]
      BY <1>5, <2>2 DEF SettingsInv
    <3> HIDE DEF d
    <3>1. /\ DOMAIN command'[q] = DOMAIN d /\ command'[q].at = d.at /\ command'[q].binary = d.binary
          /\ command'[q].install = d.install /\ command'[q].read = d.read /\ command'[q].raced = TRUE
      BY <3>0 DEF CommandShaped
    <3> QED BY <3>0, <3>1 DEF CommandShaped, CommandHeld
  <2>3. CASE q # p /\ command[q].at # "rename"
    <3>1. command'[q] = command[q]
      BY <1>5, <2>3
    <3> QED BY <2>3, <3>1, OthersHeld
  <2> QED BY <2>1, <2>2, <2>3
<1> QED BY <1>1, <1>3, <1>4, <1>6, <1>8, SettingsAfter DEF SettingsInv, WellRead

LEMMA StopSettingsInv == ASSUME SettingsInv, NEW p \in HookCommands, HooksStop(p) PROVE SettingsInv'
<1>1. /\ kind' = kind /\ settings' = settings /\ backup' = backup /\ hookRuns' = hookRuns /\ hands' = hands
      /\ command' = [command EXCEPT ![p].at = "refused"]
  BY DEF HooksStop
<1>2. DOMAIN command' = HookCommands /\ CommandShaped(command[p])
  BY <1>1 DEF SettingsInv
<1>3. \A q \in HookCommands : CommandHeld(command'[q])
  <2> SUFFICES ASSUME NEW q \in HookCommands PROVE CommandHeld(command'[q])
    OBVIOUS
  <2>1. CASE q = p
    <3> DEFINE c == command[p]
    <3>1. command'[p] = [c EXCEPT !.at = "refused"] /\ CommandShaped(c)
      BY <1>1, <1>2 DEF SettingsInv
    <3> HIDE DEF c
    <3>2. DOMAIN command'[p] = DOMAIN c /\ command'[p].at = "refused"
      BY <3>1 DEF CommandShaped
    <3> QED BY <2>1, <3>1, <3>2 DEF CommandShaped, CommandHeld
  <2>2. CASE q # p
    <3>1. command'[q] = command[q]
      BY <1>1, <2>2 DEF SettingsInv
    <3> QED BY <1>1, <3>1, OthersHeld DEF BackedUp
  <2> QED BY <2>1, <2>2
<1> QED BY <1>1, <1>2, <1>3, SettingsAfter DEF SettingsInv, WellRead

LEMMA SettingsNextInv == SettingsInv /\ [SettingsNext]_settingsVars => SettingsInv'
<1> SUFFICES ASSUME SettingsInv, [SettingsNext]_settingsVars PROVE SettingsInv'
  OBVIOUS
<1>1. CASE UNCHANGED settingsVars
  <2>1. /\ kind' = kind /\ settings' = settings /\ backup' = backup /\ command' = command
        /\ hookRuns' = hookRuns /\ hands' = hands
    BY <1>1 DEF settingsVars
  <2>2. \A q \in HookCommands : CommandHeld(command'[q])
    BY <2>1, OthersHeld DEF BackedUp
  <2> QED BY <2>1, <2>2, SettingsAfter DEF SettingsInv, WellRead
<1>2. CASE SettingsNext
  BY <1>2, HandsSettingsInv, BeginSettingsInv, BackUpSettingsInv, RenameSettingsInv, StopSettingsInv DEF SettingsNext
<1> QED BY <1>1, <1>2

LEMMA SettingsInvImplies == SettingsInv => SettingsTypeOK
BY DEF SettingsInv, SettingsTypeOK, CommandShaped

(* A write replaces what it keeps.                                         *)
LEMMA ReplacesStep == ASSUME SettingsInv, [SettingsNext]_settingsVars PROVE ReplacesWhatItKeeps
<1> SUFFICES ASSUME NEW p \in HookCommands, command[p].at = "rename", command'[p].at = "done"
             PROVE  /\ settings.reads # "missing" /\ ~command[p].raced => backup = settings
                    /\ settings.reads = "well" /\ settings.doc = command[p].read.doc =>
                         IF kind = "codex"
                         THEN ForeignHandlers(settings'.doc, command[p].binary)
                                = ForeignHandlers(settings.doc, command[p].binary)
                         ELSE ForeignEntries(settings'.doc, command[p].binary)
                                = ForeignEntries(settings.doc, command[p].binary)
  BY DEF ReplacesWhatItKeeps, HookAt
<1> DEFINE c == command[p]
<1>1. CommandShaped(c) /\ BackedUp(c) /\ DOMAIN command = HookCommands
  BY DEF SettingsInv
<1>2. Rename(p)
  <2>1. CASE UNCHANGED settingsVars
    BY <2>1 DEF settingsVars
  <2>2. CASE ByHandOfAPerson
    <3>1. command'[p] = [c EXCEPT !.raced = TRUE]
      BY <2>2 DEF ByHandOfAPerson, HookAt
    <3> HIDE DEF c
    <3>2. command'[p].at = c.at
      BY <1>1, <3>1 DEF CommandShaped
    <3> QED BY <3>2 DEF c
  <2>3. ASSUME NEW q \in HookCommands, NEW b \in Binaries, NEW install \in BOOLEAN, BeginHooks(q, b, install)
        PROVE  FALSE
    <3>1. q # p
      BY <2>3 DEF BeginHooks, HookAt
    <3>2. \E x : command' = [command EXCEPT ![q] = x]
      BY <2>3, Zenon DEF BeginHooks
    <3> QED BY <1>1, <3>1, <3>2
  <2>4. ASSUME NEW q \in HookCommands, BackUp(q) \/ HooksStop(q) PROVE FALSE
    <3>1. \E x : x.at \in {"rename", "refused"} /\ command' = [command EXCEPT ![q] = x]
      <4> DEFINE d == command[q]
      <4>1. CASE BackUp(q)
        <5> DEFINE x == [[d EXCEPT !.at = "rename"] EXCEPT !.raced = FALSE]
        <5>1. command' = [command EXCEPT ![q] = x]
          BY <1>1, <4>1 DEF BackUp
        <5>2. CommandShaped(d)
          BY DEF SettingsInv
        <5>3. x.at = "rename"
          <6> HIDE DEF d
          <6> QED BY <5>2 DEF CommandShaped
        <5> HIDE DEF x
        <5> QED BY <5>1, <5>3
      <4>2. CASE HooksStop(q)
        <5> DEFINE x == [d EXCEPT !.at = "refused"]
        <5>1. command' = [command EXCEPT ![q] = x]
          BY <1>1, <4>2 DEF HooksStop
        <5>2. CommandShaped(d)
          BY DEF SettingsInv
        <5>3. x.at = "refused"
          <6> HIDE DEF d
          <6> QED BY <5>2 DEF CommandShaped
        <5> HIDE DEF x
        <5> QED BY <5>1, <5>3
      <4> QED BY <2>4, <4>1, <4>2
    <3> QED BY <1>1, <3>1
  <2>5. ASSUME NEW q \in HookCommands, Rename(q), q # p PROVE FALSE
    <3>1. command'[p] = [c EXCEPT !.raced = TRUE]
      BY <2>5 DEF Rename, RacedBy, HookAt
    <3> HIDE DEF c
    <3>2. command'[p].at = c.at
      BY <1>1, <3>1 DEF CommandShaped
    <3> QED BY <3>2 DEF c
  <2> QED BY <2>1, <2>2, <2>3, <2>4, <2>5 DEF SettingsNext
<1>3. settings.reads # "missing" /\ ~c.raced => backup = settings
  BY <1>1 DEF BackedUp
<1>4. ASSUME settings.reads = "well", settings.doc = c.read.doc
      PROVE  IF kind = "codex" THEN ForeignHandlers(settings'.doc, c.binary) = ForeignHandlers(settings.doc, c.binary)
             ELSE ForeignEntries(settings'.doc, c.binary) = ForeignEntries(settings.doc, c.binary)
  <2> DEFINE new == Edited(c.install, c.read.doc, c.binary)
  <2>1. settings'.doc = new
    BY <1>2 DEF Rename, FileThat
  <2>2. c.binary \in Binaries /\ c.install \in BOOLEAN /\ IsDocument(kind, c.read.doc)
    BY <1>1 DEF CommandShaped
  <2>3. kind \in {"claude", "codex"}
    BY DEF SettingsInv
  <2> HIDE DEF new, c
  <2>4. IF kind = "codex" THEN ForeignHandlers(new, c.binary) = ForeignHandlers(c.read.doc, c.binary)
        ELSE ForeignEntries(new, c.binary) = ForeignEntries(c.read.doc, c.binary)
    BY <2>2, <2>3, EditedKeeps DEF new
  <2> QED BY <1>4, <2>1, <2>4
<1> QED BY <1>3, <1>4

(* A hook's call, as far as it is, and the exit code of its answer.        *)
LEMMA ExitCodes ==
  /\ Silent.code = 0 /\ Denial.code = 0
  /\ \A code \in {0, 1, 2} : Exits(code).code \in {0, 1, 2}
  /\ \A h : PanicReply(h).code \in {0, 1, 2} /\ Undecoded(h).code \in {0, 1, 2}
  /\ \A h : \A ruling : Reply(h, ruling).code \in {0, 1, 2}
<1>1. Silent.code = 0 /\ Denial.code = 0 /\ \A code \in {0, 1, 2} : Exits(code).code \in {0, 1, 2}
  BY DEF Silent, Denial, Exits
<1>2. [Silent EXCEPT !.context = TRUE].code = 0 /\ [Silent EXCEPT !.warning = TRUE].code = 0
  BY DEF Silent
<1>3. \A h : PanicReply(h).code \in {0, 1, 2} /\ Undecoded(h).code \in {0, 1, 2}
  BY <1>1, <1>2 DEF PanicReply, Undecoded
<1>4. \A h : \A ruling : Reply(h, ruling).code \in {0, 1, 2}
  BY <1>1, <1>2, <1>3 DEF Reply
<1> QED BY <1>1, <1>3, <1>4

LEMMA CallsAreOfTheHook == \A h : \A c \in Calls(h) : c.hook = h
BY DEF Calls, CallOf

LEMMA RulingsTyped ==
  \A h : Rulings(h) \union {"panic"} \subseteq {"none", "deny", "speak", "silent", "failed", "panic"}
BY DEF Rulings, ApproveRulings, ShaperRulings, BuilderRulings, GateRulings, StopRulings, ReceiptRulings,
   ProjectionRulings, Either

LEMMA HookTypesInit == HookInit => HookTypeOK
BY ExitCodes DEF HookInit, HookTypeOK, NoCall

LEMMA HookTypesNext == HookTypeOK /\ [HookNext]_hookVars => HookTypeOK'
<1> SUFFICES ASSUME HookTypeOK, [HookNext]_hookVars PROVE HookTypeOK'
  OBVIOUS
<1>1. CASE UNCHANGED hookVars
  BY <1>1 DEF hookVars, HookTypeOK
<1>2. CASE RunHook
  BY <1>2, CallsAreOfTheHook DEF RunHook, HookTypeOK
<1>3. CASE MissingBinary
  BY <1>3, ExitCodes DEF MissingBinary, HookAnswers, HookTypeOK
<1>4. CASE ParseArguments
  BY <1>4, ExitCodes DEF ParseArguments, HookAnswers, HookTypeOK
<1>5. CASE ReadInput
  BY <1>5, ExitCodes DEF ReadInput, HookAnswers, HookTypeOK
<1>6. CASE DecodeInput
  BY <1>6, ExitCodes DEF DecodeInput, HookAnswers, HookTypeOK
<1>7. CASE Rule
  BY <1>7, ExitCodes, RulingsTyped DEF Rule, HookAnswers, HookTypeOK
<1>8. CASE GoesOn
  BY <1>8, ExitCodes DEF GoesOn, HookTypeOK, NoCall
<1> QED BY <1>1, <1>2, <1>3, <1>4, <1>5, <1>6, <1>7, <1>8 DEF HookNext

(* The hooks' calls: a call comes with its hook, what the command went     *)
(* through to get where it is, and an answer only once there is one.       *)
HookProgress ==
  /\ hookStep # "idle" /\ hookCall.hook = "approve" => hookCall.content.command \in ShellCommands
  /\ hookStep # "answered" => ruled = "none"
  /\ hookStep = "without binary" => ~hookCall.binary
  /\ hookStep \in {"begun", "reading", "decoding", "ruling"} => hookCall.binary
HookInv == HookProgress /\ BlocksOnlyWhatItMust /\ FallbackGuards /\ ReadersOnlyRead

LEMMA HookInitInv == HookInit => HookInv
BY DEF HookInit, HookInv, HookProgress, BlocksOnlyWhatItMust, FallbackGuards, ReadersOnlyRead

(* What each answer says.                                                  *)
LEMMA AnswersSay ==
  /\ Silent.code = 0 /\ ~Silent.deny /\ Denial.code = 0 /\ Denial.deny
  /\ \A code : Exits(code).code = (IF KeepsCode(hookCall.hook) THEN code ELSE 0) /\ ~Exits(code).deny
  /\ \A reply \in {[Silent EXCEPT !.context = TRUE], [Silent EXCEPT !.warning = TRUE]} :
       reply.code = 0 /\ ~reply.deny
BY DEF Silent, Denial, Exits

(* A hook without a ruling yet: what its answer must say to be sound.      *)
Tells(code, deny) == code = 2 \/ deny
LEMMA AnsweredUnruled ==
  ASSUME HookProgress, hookStep \notin {"idle", "answered"}, UNCHANGED <<hookCall, ruled>>,
         hookStep' = "answered",
         LET blocked == Tells(hookAnswer'.code, hookAnswer'.deny)
             h == hookCall.hook
         IN  IF ~hookCall.binary
             THEN (blocked => h = "shaper")
                    /\ (h = "shaper" /\ DecideGuard(hookCall.content) /\ ~blocked
                          => hookCall.content.marker = "spaced")
             ELSE /\ blocked => KeepsCode(h) \/ (h \in {"approve", "builder"} /\ hookCall.fault.size = "over")
                  /\ h = "shaper" => blocked
                  /\ h \in {"approve", "builder"} /\ hookCall.args = "well"
                       /\ hookCall.fault.reads /\ hookCall.fault.size = "over" => blocked
  PROVE  HookInv'
<1>1. ruled' = "none" /\ hookCall' = hookCall
  BY DEF HookProgress
<1>2. HookProgress'
  BY <1>1 DEF HookProgress
<1>3. Blocked' <=> Tells(hookAnswer'.code, hookAnswer'.deny)
  BY DEF Blocked, Tells
<1>4. BlocksOnlyWhatItMust'
  BY <1>1, <1>3 DEF BlocksOnlyWhatItMust, Judged, KeepsCode
<1>5. FallbackGuards'
  BY <1>1, <1>3 DEF FallbackGuards, DecideGuard
<1>6. ReadersOnlyRead'
  BY <1>1 DEF ReadersOnlyRead
<1> QED BY <1>2, <1>4, <1>5, <1>6 DEF HookInv

LEMMA ProgressAlone ==
  ASSUME HookProgress', hookStep' # "answered"
  PROVE  HookInv'
BY DEF HookInv, BlocksOnlyWhatItMust, FallbackGuards, ReadersOnlyRead

LEMMA MissingBinaryKeeps == ASSUME HookInv, MissingBinary PROVE HookInv'
<1> DEFINE code == IF hookCall.hook = "shaper" /\ FallbackDenies(hookCall.content) THEN 2 ELSE 0
<1>1. HookProgress /\ hookStep = "without binary" /\ ~hookCall.binary /\ UNCHANGED <<hookCall, ruled>> /\ hookStep' = "answered"
  BY DEF HookInv, HookProgress, MissingBinary, HookAnswers
<1>2. hookAnswer' = Exits(code)
  BY DEF MissingBinary, HookAnswers
<1>3. hookAnswer'.code = (IF KeepsCode(hookCall.hook) THEN code ELSE 0) /\ ~hookAnswer'.deny
  BY <1>2, AnswersSay
<1>4. Tells(hookAnswer'.code, hookAnswer'.deny) <=> hookCall.hook = "shaper" /\ FallbackDenies(hookCall.content)
  BY <1>3 DEF Tells, KeepsCode
<1>5. hookCall.hook = "shaper" /\ DecideGuard(hookCall.content) /\ ~FallbackDenies(hookCall.content)
        => hookCall.content.marker = "spaced"
  BY DEF DecideGuard, FallbackDenies
<1> HIDE DEF code
<1> QED BY <1>1, <1>4, <1>5, AnsweredUnruled

LEMMA ParseArgumentsKeeps == ASSUME HookInv, ParseArguments PROVE HookInv'
<1>1. HookProgress /\ hookStep = "begun" /\ hookCall.binary /\ UNCHANGED <<hookCall, ruled>>
  BY DEF HookInv, HookProgress, ParseArguments
<1>2. CASE hookStep' = "reading"
  <2>1. HookProgress'
    BY <1>1, <1>2 DEF HookProgress
  <2> QED BY <1>2, <2>1, ProgressAlone
<1>3. CASE hookStep' # "reading"
  <2>1. hookCall.args = "bad" /\ hookCall.hook \notin {"gate", "shaper"} /\ hookStep' = "answered"
        /\ hookAnswer' = Exits(IF hookCall.hook = "receipt" THEN 2 ELSE 1)
    BY <1>3 DEF ParseArguments, HookAnswers, ChecksArguments
  <2>2. hookAnswer'.code = (IF KeepsCode(hookCall.hook) THEN (IF hookCall.hook = "receipt" THEN 2 ELSE 1) ELSE 0)
          /\ ~hookAnswer'.deny
    BY <2>1, AnswersSay
  <2>3. Tells(hookAnswer'.code, hookAnswer'.deny) => KeepsCode(hookCall.hook)
    BY <2>2 DEF Tells
  <2> QED BY <1>1, <2>1, <2>3, AnsweredUnruled
<1> QED BY <1>2, <1>3

LEMMA ReadInputKeeps == ASSUME HookInv, ReadInput PROVE HookInv'
<1>1. HookProgress /\ hookStep = "reading" /\ hookCall.binary /\ UNCHANGED <<hookCall, ruled>>
  BY DEF HookInv, HookProgress, ReadInput
<1>2. CASE hookStep' = "decoding"
  <2>1. HookProgress'
    BY <1>1, <1>2 DEF HookProgress
  <2> QED BY <1>2, <2>1, ProgressAlone
<1>3. CASE hookStep' # "decoding"
  <2>1. ~hookCall.fault.reads /\ hookStep' = "answered"
        /\ hookAnswer' = Exits(IF KeepsCode(hookCall.hook) THEN 2 ELSE 0)
    BY <1>3 DEF ReadInput, HookAnswers
  <2>2. hookAnswer'.code = (IF KeepsCode(hookCall.hook) THEN 2 ELSE 0) /\ ~hookAnswer'.deny
    BY <2>1, AnswersSay
  <2>3. Tells(hookAnswer'.code, hookAnswer'.deny) <=> KeepsCode(hookCall.hook)
    BY <2>2 DEF Tells
  <2>4. hookCall.hook = "shaper" => KeepsCode(hookCall.hook)
    BY DEF KeepsCode
  <2> QED BY <1>1, <2>1, <2>3, <2>4, AnsweredUnruled
<1> QED BY <1>2, <1>3

LEMMA DecodeInputKeeps == ASSUME HookInv, DecodeInput PROVE HookInv'
<1>1. HookProgress /\ hookStep = "decoding" /\ hookCall.binary /\ UNCHANGED <<hookCall, ruled>>
  BY DEF HookInv, HookProgress, DecodeInput
<1>2. CASE hookStep' = "ruling"
  <2>1. HookProgress'
    BY <1>1, <1>2 DEF HookProgress
  <2> QED BY <1>2, <2>1, ProgressAlone
<1>3. CASE hookCall.hook = "receipt" /\ HookAnswers(Exits(2))
  <2>1. hookStep' = "answered" /\ KeepsCode(hookCall.hook)
    BY <1>3 DEF HookAnswers, KeepsCode
  <2> QED BY <1>1, <1>3, <2>1, AnsweredUnruled
<1>4. CASE ~Decodes(hookCall.hook, hookCall.fault) /\ HookAnswers(Undecoded(hookCall.hook))
  <2>1. hookStep' = "answered" /\ hookAnswer' = Undecoded(hookCall.hook)
    BY <1>4 DEF HookAnswers
  <2>2. CASE hookCall.hook = "shaper"
    <3>1. hookAnswer' = Exits(2) /\ KeepsCode(hookCall.hook)
      BY <2>1, <2>2 DEF Undecoded, KeepsCode
    <3>2. Tells(hookAnswer'.code, hookAnswer'.deny)
      BY <3>1, AnswersSay DEF Tells
    <3> QED BY <1>1, <2>1, <2>2, <3>1, <3>2, AnsweredUnruled
  <2>3. CASE hookCall.hook \in {"approve", "builder"} /\ hookCall.fault.size = "over"
    <3>1. hookAnswer' = Denial
      BY <2>1, <2>3 DEF Undecoded
    <3>2. Tells(hookAnswer'.code, hookAnswer'.deny)
      BY <3>1, AnswersSay DEF Tells
    <3> QED BY <1>1, <2>1, <2>3, <3>2, AnsweredUnruled
  <2>4. CASE hookCall.hook # "shaper" /\ ~(hookCall.hook \in {"approve", "builder"} /\ hookCall.fault.size = "over")
    <3>1. hookAnswer' = Silent
      BY <2>1, <2>4 DEF Undecoded
    <3>2. ~Tells(hookAnswer'.code, hookAnswer'.deny)
      BY <3>1, AnswersSay DEF Tells
    <3> QED BY <1>1, <2>1, <2>4, <3>2, AnsweredUnruled
  <2> QED BY <2>2, <2>3, <2>4
<1>5. CASE Decodes(hookCall.hook, hookCall.fault) /\ NamesAnotherEvent(hookCall.hook) /\ HookAnswers(Silent)
  <2>1. hookStep' = "answered" /\ hookAnswer' = Silent
    BY <1>5 DEF HookAnswers
  <2>2. ~Tells(hookAnswer'.code, hookAnswer'.deny)
    BY <2>1, AnswersSay DEF Tells
  <2>3. hookCall.hook \notin {"shaper", "approve", "builder"}
    BY <1>5 DEF NamesAnotherEvent, NeedsObject, Projection
  <2> QED BY <1>1, <2>1, <2>2, <2>3, AnsweredUnruled
<1> QED BY <1>2, <1>3, <1>4, <1>5 DEF DecodeInput

(* What a reader of text runs: neither an entry point nor a command of its *)
(* own.                                                                    *)
LEMMA ReadersLead ==
  ASSUME NEW words \in Seq(STRING), IsReader(words)
  PROVE  words[1] \notin EntryPoints /\ \A j \in DOMAIN words : words[j] \notin CommandFlags
<1>1. PICK i \in DOMAIN words :
        /\ words[i] \in Readers
        /\ \A j \in 1 .. (i - 1) : words[j] \in Assignments
        /\ \A j \in (i + 1) .. Len(words) : words[j] \notin CommandFlags
  BY DEF IsReader
<1>2. i \in 1 .. Len(words) /\ DOMAIN words = 1 .. Len(words) /\ Len(words) \in Nat
  OBVIOUS
<1>3. words[1] \notin EntryPoints
  BY <1>1, <1>2 DEF Readers, Assignments, EntryPoints
<1>4. ASSUME NEW j \in DOMAIN words PROVE words[j] \notin CommandFlags
  <2>1. j \in 1 .. (i - 1) \/ j = i \/ j \in (i + 1) .. Len(words)
    BY <1>2
  <2> QED BY <1>1, <2>1 DEF Readers, Assignments, CommandFlags
<1> QED BY <1>3, <1>4

LEMMA RuleKeeps == ASSUME HookInv, Rule PROVE HookInv'
<1>1. HookProgress /\ hookStep = "ruling" /\ hookCall.binary /\ UNCHANGED hookCall
  BY DEF HookInv, HookProgress, Rule
<1>2. PICK ruling \in Rulings(hookCall.hook) \union {"panic"} :
        ruled' = ruling /\ hookStep' = "answered" /\ hookAnswer' = Reply(hookCall.hook, ruling)
  BY DEF Rule, HookAnswers
<1>3. HookProgress'
  BY <1>1, <1>2 DEF HookProgress
<1>4. ruling \in {"deny", "speak", "silent", "failed", "panic"}
  BY DEF Rulings, ApproveRulings, ShaperRulings, BuilderRulings, GateRulings, StopRulings, ReceiptRulings,
         ProjectionRulings, Either
<1>5. BlocksOnlyWhatItMust'
  <2>1. CASE ruling = "deny"
    <3>1. hookAnswer' = IF KeepsCode(hookCall.hook) THEN Exits(2) ELSE Denial
      BY <1>2, <2>1 DEF Reply
    <3>2. Blocked'
      BY <3>1, AnswersSay DEF Blocked
    <3> QED BY <1>2, <2>1, <3>2 DEF BlocksOnlyWhatItMust, Judged
  <2>2. CASE ruling \in {"speak", "silent", "failed"}
    <3>1. hookAnswer' \in {Silent, [Silent EXCEPT !.warning = TRUE], [Silent EXCEPT !.context = TRUE]}
      BY <1>2, <2>2 DEF Reply
    <3>2. hookAnswer'.code = 0 /\ ~hookAnswer'.deny
      BY <3>1, AnswersSay
    <3>3. ~Blocked'
      BY <3>2 DEF Blocked
    <3> QED BY <1>2, <2>2, <3>3 DEF BlocksOnlyWhatItMust, Judged
  <2>3. CASE ruling = "panic"
    <3>1. hookAnswer' = PanicReply(hookCall.hook)
      BY <1>2, <2>3 DEF Reply
    <3>2. CASE KeepsCode(hookCall.hook)
      <4>1. hookAnswer' = Exits(2)
        BY <3>1, <3>2 DEF PanicReply, KeepsCode
      <4>2. Blocked'
        BY <3>2, <4>1, AnswersSay DEF Blocked
      <4> QED BY <1>1, <1>2, <2>3, <3>2, <4>2 DEF BlocksOnlyWhatItMust, Judged, KeepsCode
    <3>3. CASE ~KeepsCode(hookCall.hook) /\ hookCall.hook = "builder" /\ Launched
      <4>1. hookAnswer' = Denial
        BY <3>1, <3>3 DEF PanicReply
      <4>2. Blocked'
        BY <4>1, AnswersSay DEF Blocked
      <4> QED BY <1>1, <1>2, <2>3, <3>3, <4>2 DEF BlocksOnlyWhatItMust, Judged, Launched
    <3>4. CASE ~KeepsCode(hookCall.hook) /\ ~(hookCall.hook = "builder" /\ Launched)
      <4>1. hookAnswer' \in {Silent, [Silent EXCEPT !.warning = TRUE], [Silent EXCEPT !.context = TRUE]}
        BY <3>1, <3>4 DEF PanicReply
      <4>2. hookAnswer'.code = 0 /\ ~hookAnswer'.deny
        BY <4>1, AnswersSay
      <4>3. ~Blocked'
        BY <4>2 DEF Blocked
      <4> QED BY <1>1, <1>2, <2>3, <3>4, <4>3 DEF BlocksOnlyWhatItMust, Judged, Launched, KeepsCode
    <3> QED BY <3>2, <3>3, <3>4
  <2> QED BY <1>4, <2>1, <2>2, <2>3
<1>6. FallbackGuards'
  BY <1>1 DEF FallbackGuards
<1>7. ReadersOnlyRead'
  <2> SUFFICES ASSUME hookCall.hook = "approve", ruling = "silent", hookCall.content.tool = "Bash",
                      NEW k \in DOMAIN hookCall.content.command,
                      \E i \in DOMAIN hookCall.content.command[k] :
                        hookCall.content.command[k][i] = "approve" /\ i > 2
                          /\ hookCall.content.command[k][i - 1] = "skills"
                          /\ hookCall.content.command[k][i - 2] \in EntryPoints
               PROVE  LET words == hookCall.content.command[k]
                      IN  words[1] \notin EntryPoints /\ \A j \in DOMAIN words : words[j] \notin CommandFlags
    BY <1>1, <1>2 DEF ReadersOnlyRead
  <2> DEFINE words == hookCall.content.command[k]
  <2>1. ~DecideApproveGuard(hookCall.content)
    BY <1>2 DEF Rulings, ApproveRulings, Either
  <2>2. ~CommandMatches(hookCall.content.command)
    BY <2>1 DEF DecideApproveGuard
  <2>3. hookCall.content.command \in ShellCommands
    BY <1>1 DEF HookProgress
  <2>4. words \in Seq(STRING)
    <3>2. hookCall.content.command \in Seq(Seq(STRING))
      BY <2>3, ShellCommandsAssumption
    <3> QED BY <3>2
  <2>5. PICK i \in DOMAIN words : words[i] = "approve" /\ i > 2 /\ words[i - 1] = "skills" /\ words[i - 2] \in EntryPoints
    OBVIOUS
  <2> HIDE DEF words
  <2>6. i - 2 \in 1 .. (Len(words) - 2) /\ (i - 2) + 1 = i - 1 /\ (i - 2) + 2 = i
    BY <2>4, <2>5
  <2>7. \E m \in 1 .. (Len(words) - 2) : words[m] \in EntryPoints /\ words[m + 1] = "skills" /\ words[m + 2] = "approve"
    BY <2>5, <2>6
  <2>8. IsReader(words)
    BY <2>2, <2>7 DEF CommandMatches, words
  <2> QED BY <2>4, <2>8, ReadersLead DEF words
<1> QED BY <1>3, <1>5, <1>6, <1>7 DEF HookInv

LEMMA HookNextInv == HookInv /\ [HookNext]_hookVars => HookInv'
<1> SUFFICES ASSUME HookInv, [HookNext]_hookVars PROVE HookInv'
  OBVIOUS
<1>1. CASE UNCHANGED hookVars
  BY <1>1 DEF hookVars, HookInv, HookProgress, BlocksOnlyWhatItMust, FallbackGuards, ReadersOnlyRead, Blocked,
              Judged, Launched
<1>2. CASE RunHook
  <2>1. PICK h \in HookNames : \E c \in Calls(h) :
          hookCall' = c /\ hookStep' = IF c.binary THEN "begun" ELSE "without binary"
    BY <1>2 DEF RunHook
  <2>2. PICK c \in Calls(h) : hookCall' = c /\ hookStep' = IF c.binary THEN "begun" ELSE "without binary"
    BY <2>1
  <2>3. c.hook = "approve" => c.content.command \in ShellCommands
    <3> SUFFICES ASSUME c.hook = "approve" PROVE c.content.command \in ShellCommands
      OBVIOUS
    <3>1. h = "approve"
      BY CallsAreOfTheHook
    <3>2. Plain("approve") \in Content("approve")
      <4>1. PICK one \in ShellCommands : TRUE
        BY ShellCommandsAssumption
      <4>2. [tool |-> "Bash", command |-> one, path |-> "none", marker |-> "none"] \in Content("approve")
        BY <4>1 DEF Content
      <4> QED BY <4>2 DEF Plain
    <3>3. c.content \in Content("approve")
      BY <3>1, <3>2 DEF Calls, CallOf
    <3> QED BY <3>3 DEF Content
  <2>4. ruled' = "none"
    BY <1>2 DEF RunHook, HookInv, HookProgress
  <2>6. HookProgress'
    BY <2>2, <2>3, <2>4 DEF HookProgress
  <2> QED BY <2>2, <2>6, ProgressAlone
<1>3. CASE GoesOn
  <2>1. HookProgress'
    BY <1>3 DEF GoesOn, HookProgress
  <2> QED BY <1>3, <2>1, ProgressAlone DEF GoesOn
<1> QED BY <1>1, <1>2, <1>3, MissingBinaryKeeps, ParseArgumentsKeeps, ReadInputKeeps, DecodeInputKeeps, RuleKeeps
        DEF HookNext

(* The splitter of a stream: how far it is, and what is open.              *)
LEMMA SplitTypesInit == SplitInit => SplitTypeOK
<1> SUFFICES ASSUME SplitInit PROVE SplitTypeOK
  OBVIOUS
<1>1. stream \in Seq(Tokens)
  BY StreamsAssumption DEF SplitInit
<1>2. at = 0 /\ Len(stream) \in Nat /\ nesting \in Seq(Opening) /\ split = "reading"
  BY <1>1 DEF SplitInit
<1> QED BY <1>1, <1>2 DEF SplitTypeOK

LEMMA NestedTyped ==
  ASSUME nesting \in Seq(Opening), NEW t
  PROVE  Nested(t) \in Seq(Opening)
<1>1. Len(nesting) \in Nat /\ (nesting # <<>> => Len(nesting) - 1 \in 0 .. Len(nesting))
  OBVIOUS
<1>2. CASE IsValue(t) /\ t \in Opening
  BY <1>2 DEF Nested
<1>3. CASE ~(IsValue(t) /\ t \in Opening) /\ IsEnd(t) /\ Inside
  <2>1. nesting # <<>>
    BY <1>3 DEF Inside
  <2>2. SubSeq(nesting, 1, Len(nesting) - 1) \in Seq(Opening)
    BY <2>1, <1>1
  <2> QED BY <1>3, <2>2 DEF Nested
<1>4. CASE ~(IsValue(t) /\ t \in Opening) /\ ~(IsEnd(t) /\ Inside)
  BY <1>4 DEF Nested
<1> QED BY <1>2, <1>3, <1>4

LEMMA SplitTypesNext == SplitTypeOK /\ [SplitNext]_splitVars => SplitTypeOK'
<1> SUFFICES ASSUME SplitTypeOK, [SplitNext]_splitVars PROVE SplitTypeOK'
  OBVIOUS
<1>1. CASE UNCHANGED splitVars
  BY <1>1 DEF splitVars, SplitTypeOK
<1>2. CASE TakeToken
  <2>1. nesting' \in Seq(Opening)
    BY <1>2, NestedTyped DEF TakeToken, SplitTypeOK
  <2>2. at' \in 0 .. Len(stream)
    BY <1>2 DEF TakeToken, SplitTypeOK
  <2> QED BY <1>2, <2>1, <2>2 DEF TakeToken, SplitTypeOK
<1>3. CASE RefuseToken
  BY <1>3 DEF RefuseToken, SplitTypeOK
<1>4. CASE EndOfStream
  BY <1>4 DEF EndOfStream, SplitTypeOK
<1> QED BY <1>1, <1>2, <1>3, <1>4 DEF SplitNext

-----------------------------------------------------------------------------
(* The composition: each part takes its own steps or none.                 *)
LEMMA InstallsPartsStep ==
  ASSUME [InstallsNext]_installsVars
  PROVE  /\ [RegistryNext]_registryVars /\ [SkillsNext]_skillVars
         /\ [TargetsNext]_targetsVars /\ [ContractNext]_contractVars
         /\ [SettingsNext]_settingsVars /\ [HookNext]_hookVars /\ [SplitNext]_splitVars
<1>1. CASE UNCHANGED installsVars
  BY <1>1 DEF installsVars
<1>2. CASE InstallsNext
  <2>1. (part = "overlay" /\ RegistryNext) \/ UNCHANGED registryVars
    BY <1>2 DEF InstallsNext, InstallsStill
  <2>2. (part = "targets" /\ TargetsNext) \/ UNCHANGED targetsVars
    BY <1>2 DEF InstallsNext, InstallsStill
  <2>3. (part = "contracts" /\ ContractNext) \/ UNCHANGED contractVars
    BY <1>2 DEF InstallsNext, InstallsStill
  <2>4. (part = "project" /\ SkillsNext) \/ UNCHANGED skillVars
    BY <1>2 DEF InstallsNext, InstallsStill
  <2>5. (part = "settings" /\ SettingsNext) \/ UNCHANGED settingsVars
    BY <1>2 DEF InstallsNext, InstallsStill
  <2>6. (part = "hooks" /\ HookNext) \/ UNCHANGED hookVars
    BY <1>2 DEF InstallsNext, InstallsStill
  <2>7. (part = "stream" /\ SplitNext) \/ UNCHANGED splitVars
    BY <1>2 DEF InstallsNext, InstallsStill
  <2> QED BY <2>1, <2>2, <2>3, <2>4, <2>5, <2>6, <2>7
<1> QED BY <1>1, <1>2

LEMMA InstallsInvariants == InstallsSpec => [](RegistryInv /\ TargetsInv)
<1>1. InstallsInit => RegistryInv /\ TargetsInv
  BY RegistryInitInv, TargetsInitInv DEF InstallsInit
<1>2. RegistryInv /\ TargetsInv /\ [InstallsNext]_installsVars => RegistryInv' /\ TargetsInv'
  BY InstallsPartsStep, RegistryInvKept, TargetsInvKept
<1> QED BY <1>1, <1>2, PTL DEF InstallsSpec

(* The registry's pair of files is in order beside the other parts too.    *)
THEOREM RegistryHolds == InstallsSpec => []RegistryIsSound
<1>1. RegistryInv => RegistryIsSound
  BY RegistryInvImplies
<1> QED BY <1>1, InstallsInvariants, PTL

(* So is the record of the runtimes.                                       *)
THEOREM RecordHolds == InstallsSpec => []InstalledIsHeld
<1>1. TargetsInv => InstalledIsHeld
  BY TargetsInvImplies
<1> QED BY <1>1, InstallsInvariants, PTL

(* A project's skills are as their verbs say beside the other parts.       *)
THEOREM SkillsHold == InstallsSpec => []SkillsAreSound
<1>1. InstallsInit => SkillsInv
  BY SkillsInitInv DEF InstallsInit
<1>2. SkillsInv /\ [InstallsNext]_installsVars => SkillsInv'
  BY InstallsPartsStep, SkillsNextInv
<1>3. SkillsInv => SkillsAreSound
  BY SkillsInvImplies
<1> QED BY <1>1, <1>2, <1>3, PTL DEF InstallsSpec

(* And so are the contracts in the skill registry, when it does not start  *)
(* damaged.                                                                *)
THEOREM ContractsHold == ASSUME ~MayBeDamaged PROVE InstallsSpec => []ContractsAreSound
<1>1. InstallsInit => ContractInv
  BY ContractInitInv DEF InstallsInit
<1>2. ContractInv /\ [InstallsNext]_installsVars => ContractInv'
  BY InstallsPartsStep, ContractNextInv
<1>3. ContractInv => ContractsAreSound
  BY ContractInvImplies
<1> QED BY <1>1, <1>2, <1>3, PTL DEF InstallsSpec

(* Every part's state is of its type, the holders of its locks with it,    *)
(* when the skill registry does not start damaged.                         *)
THEOREM InstallsTyped == ASSUME ~MayBeDamaged PROVE InstallsSpec => []InstallsTypeOK
<1> DEFINE Typed == SettingsInv /\ HookTypeOK /\ SplitTypeOK
<1>1. InstallsInit => SkillsInv /\ ContractInv
  BY SkillsInitInv, ContractInitInv DEF InstallsInit
<1>2. InstallsInit => Typed
  BY SettingsInitInv, HookTypesInit, SplitTypesInit DEF InstallsInit
<1>3. SkillsInv /\ ContractInv /\ Typed /\ [InstallsNext]_installsVars => SkillsInv' /\ ContractInv' /\ Typed'
  BY InstallsPartsStep, SkillsNextInv, ContractNextInv, SettingsNextInv, HookTypesNext, SplitTypesNext
<1>4. RegistryInv /\ TargetsInv /\ SkillsInv /\ ContractInv /\ Typed => InstallsTypeOK
  BY RegistryInvImplies, TargetsInvImplies, SkillsInvImplies, ContractInvImplies, SettingsInvImplies
  DEF InstallsTypeOK
<1> QED BY <1>1, <1>2, <1>3, <1>4, InstallsInvariants, PTL DEF InstallsSpec

(* A hook that could judge blocks exactly what it judged must not be, one  *)
(* that could not only where a guard must not be passed unseen; without its*)
(* binary the shaper's wrapper still denies the clearance command, and only*)
(* readers of text pass the approve guard: HooksAreSound but for the       *)
(* prompts that gate-task rewrites, the settings and the splitter.         *)
THEOREM GuardsBlock == InstallsSpec => [](BlocksOnlyWhatItMust /\ FallbackGuards /\ ReadersOnlyRead)
<1>1. InstallsInit => HookInv
  BY HookInitInv DEF InstallsInit
<1>2. HookInv /\ [InstallsNext]_installsVars => HookInv'
  BY InstallsPartsStep, HookNextInv
<1>3. HookInv => BlocksOnlyWhatItMust /\ FallbackGuards /\ ReadersOnlyRead
  BY DEF HookInv
<1> QED BY <1>1, <1>2, <1>3, PTL DEF InstallsSpec

(* No step tells of a pair of files of the registry that never was, writes *)
(* a lock before the files it names, removes a binary that is recorded,    *)
(* changes lines of another's in a skill registry that did not start       *)
(* damaged, or writes over settings that are not backed up or without what *)
(* is a person's in them (ReadConsistently, projectCommitOrder,            *)
(* Service.Retire, replaceBlock, WriteBytes).                              *)
THEOREM StepsHold == ASSUME ~MayBeDamaged PROVE InstallsSpec => StepsAreSound
<1> DEFINE Sound == ValidatesOnePair /\ LockIsWrittenLast /\ RecordedKeepsBinary /\ KeepsTheRest
                      /\ ReplacesWhatItKeeps
<1>1. InstallsInit => SkillsInv /\ ContractInv /\ SettingsInv
  BY SkillsInitInv, ContractInitInv, SettingsInitInv DEF InstallsInit
<1>2. SkillsInv /\ ContractInv /\ SettingsInv /\ [InstallsNext]_installsVars
        => SkillsInv' /\ ContractInv' /\ SettingsInv'
  BY InstallsPartsStep, SkillsNextInv, ContractNextInv, SettingsNextInv
<1>3. RegistryInv /\ SkillsInv /\ ContractInv /\ SettingsInv /\ [InstallsNext]_installsVars => Sound
  BY InstallsPartsStep, ValidatesStep, LockLastStep, KeepsBinaryStep, KeepsTheRestStep, ReplacesStep
<1>4. InstallsSpec => [][Sound]_installsVars
  <2>1. RegistryInv /\ SkillsInv /\ ContractInv /\ SettingsInv /\ [InstallsNext]_installsVars
          => [Sound]_installsVars
    BY <1>3
  <2> HIDE DEF Sound
  <2> QED BY <1>1, <1>2, <2>1, InstallsInvariants, PTL DEF InstallsSpec
<1> QED BY <1>4 DEF StepsAreSound

(* Whoever installs or removes for whatever binary, what is a person's in  *)
(* the settings stays as it is (mergeHooks, removeHooks): of SettingsAre-  *)
(* Sound the part that loses nothing.                                      *)
TheirsStay ==
  settings.reads = "well" =>
    \A b \in Binaries : \A install \in BOOLEAN :
      IF kind = "codex"
      THEN ForeignHandlers(Edited(install, settings.doc, b), b) = ForeignHandlers(settings.doc, b)
      ELSE ForeignEntries(Edited(install, settings.doc, b), b) = ForeignEntries(settings.doc, b)

(* TheirsStay holds of every file of settings there may be.                *)
THEOREM EditsLeaveTheirs == InstallsSpec => []TheirsStay
<1>1. InstallsInit => SettingsInv
  BY SettingsInitInv DEF InstallsInit
<1>2. SettingsInv /\ [InstallsNext]_installsVars => SettingsInv'
  BY InstallsPartsStep, SettingsNextInv
<1>3. SettingsInv => TheirsStay
  <2> SUFFICES ASSUME SettingsInv, settings.reads = "well", NEW b \in Binaries, NEW install \in BOOLEAN
               PROVE  IF kind = "codex"
                      THEN ForeignHandlers(Edited(install, settings.doc, b), b) = ForeignHandlers(settings.doc, b)
                      ELSE ForeignEntries(Edited(install, settings.doc, b), b) = ForeignEntries(settings.doc, b)
    BY DEF TheirsStay
  <2>1. kind \in {"claude", "codex"} /\ IsDocument(kind, settings.doc)
    BY DEF SettingsInv, WellRead
  <2> QED BY <2>1, EditedKeeps
<1> QED BY <1>1, <1>2, <1>3, PTL DEF InstallsSpec
=============================================================================
