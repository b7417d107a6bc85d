---------------------------- MODULE ProjectSkills ----------------------------
(***************************************************************************)
(* One skill of a project (engine/skills): project-register, -revise and   *)
(* -retire own a skill an agent wrote, install, adopt and uninstall own a  *)
(* copy of one of the overlay's.  Either way the skill's files stand in    *)
(* one directory per runtime and the project's lock file records the bytes *)
(* that were written.  A verb plans from what it reads, looks again, stages *)
(* temporary files, renames or removes file after file, the lock last, and *)
(* puts everything back when one of them fails.  The verbs exclude each    *)
(* other (the lock on the project's directory); a person edits the files   *)
(* whenever they like, and a verb may be killed at any point.              *)
(***************************************************************************)
EXTENDS Integers, Sequences, FiniteSets, SequencesExt

CONSTANTS
  Dirs,       \* the runtimes' directories of the skill (projectTargets)
  Drafts,     \* what an agent may write as the skill's text
  Absent,     \* no such file
  MaxVerbs,   \* bound on how many verbs begin
  MaxEdits    \* bound on how often the person edits

ASSUME DirsAssumption == IsFiniteSet(Dirs)
ASSUME MaxVerbsAssumption == MaxVerbs \in Nat
ASSUME MaxEditsAssumption == MaxEdits \in Nat

(* The overlay's skill in two versions: the second dropped a file.         *)
Names == {"SKILL.md", "extra"}
Versions == {"v1", "v2"}
Source(v) == [n \in Names |-> IF n = "extra" /\ v = "v2" THEN Absent ELSE v]

(* What a person writes: bytes no verb writes.                             *)
Persons == "mine"
ASSUME PersonsAssumption == Persons \notin Drafts

SkillFiles == Dirs \X Names
LockFile == <<"project", "lock">>
Files == SkillFiles \union {LockFile}

(* What the lock says: the bytes recorded per file name, by which side.    *)
Nothing == [n \in Names |-> Absent]
Entry(by, bytes) == [by |-> by, bytes |-> bytes]
NoEntry == Entry("nobody", Nothing)
ByRegister(d) == Entry("register", [n \in Names |-> IF n = "SKILL.md" THEN d ELSE Absent])
ByInstall(v) == Entry("install", Source(v))
Entries == {NoEntry} \union {ByRegister(d) : d \in Drafts} \union {ByInstall(v) : v \in Versions}
ASSUME AbsentAssumption ==
  Absent # Persons /\ Absent \notin Drafts /\ Absent \notin Versions /\ Absent \notin Entries

VARIABLES
  tree,     \* the bytes of each file, those of the lock too
  made,     \* the directories that exist
  litter,   \* those with a temporary file a killed verb left in them
  run,      \* the verb that runs: where it is, its plan, what it has done
  before,   \* what the files were when it planned (not part of the program)
  persons,  \* files of the person that were there when it last looked (neither)
  touched,  \* files the person has changed since it planned (neither)
  verbs, edits

skillVars == <<tree, made, litter, run, before, persons, touched, verbs, edits>>

files == <<tree, made, litter>>
ghosts == <<before, persons, touched>>

NoRun ==
  [at |-> "idle", kind |-> "none", order |-> <<>>, next |-> 1, staged |-> {},
   attempted |-> {}, undo |-> <<>>, bad |-> FALSE, created |-> {}]

SkillsInit ==
  /\ tree = [f \in Files |-> Absent]
  /\ made = {} /\ litter = {}
  /\ run = NoRun
  /\ before = [tree |-> tree, made |-> {}, litter |-> {}]
  /\ persons = {} /\ touched = {}
  /\ verbs = 0 /\ edits = 0

Running(where) == run.at = where

-----------------------------------------------------------------------------
(* Planning.  A write carries the bytes it replaces, which is what undoing *)
(* it puts back.                                                           *)

Write(f, bytes) == [file |-> f, bytes |-> bytes, backup |-> tree[f]]
DirOf(f) == f[1]
InDir(d) == {f \in SkillFiles : f[1] = d}

Locked == IF tree[LockFile] = Absent THEN NoEntry ELSE tree[LockFile]
Recorded(f) == Locked.bytes[f[2]]
DirsInOrder == SetToSeq(Dirs)

(* Mutant of Owned: the bytes are not compared.                            *)
OwnedIfThere(f) == tree[f] # Absent /\ Recorded(f) # Absent

(* EvaluateOwnership, of one file: as recorded, and alone in its directory.*)
Owned(f) ==
  /\ tree[f] = Recorded(f)
  /\ DirOf(f) \notin litter
  /\ \A g \in InDir(DirOf(f)) \ {f} : tree[g] = Absent

SkillMd(d) == <<d, "SKILL.md">>
Texts(bytes) == [i \in DOMAIN DirsInOrder |-> Write(SkillMd(DirsInOrder[i]), bytes)]
LockWrite(entry) == Write(LockFile, entry)

(* Mutant of RegisterPlan: the lock is written first.                      *)
RegisterPlanLockFirst(d) == <<LockWrite(ByRegister(d))>> \o Texts(d)

RegisterPlan(d) == Append(Texts(d), LockWrite(ByRegister(d)))
MayRegister == Locked = NoEntry /\ made = {}

RetirePlan == Append(Texts(Absent), LockWrite(NoEntry))
AgentOwned == Locked.by = "register" /\ \A d \in Dirs : Owned(SkillMd(d))

(* planSkill: every recorded file is as recorded or gone; none the source  *)
(* adds is in the way.                                                     *)
Untampered(f) == tree[f] \in {Recorded(f), Absent}
Clear(f, v) == Recorded(f) = Absent /\ Source(v)[f[2]] # Absent => tree[f] = Absent

MayInstall(v) ==
  \/ /\ Locked.by = "install"
     /\ \A f \in SkillFiles : Recorded(f) # Absent => Untampered(f)
     /\ \A f \in SkillFiles : Clear(f, v)
  \/ Locked = NoEntry /\ made = {}

(* Mutant of Dropped: what the source dropped is left.                     *)
DroppedNone(v) == {}

Dropped(v) == {f \in SkillFiles : Source(v)[f[2]] = Absent /\ Recorded(f) # Absent /\ tree[f] # Absent}
Changed(v) == {f \in SkillFiles : Source(v)[f[2]] \notin {Absent, tree[f]}}

InstallPlan(v) ==
  SetToSeq({Write(f, Source(v)[f[2]]) : f \in Changed(v)})
    \o SetToSeq({Write(f, Absent) : f \in Dropped(v)})
    \o (IF Locked = ByInstall(v) THEN <<>> ELSE <<LockWrite(ByInstall(v))>>)

(* adopt: every directory there is exactly the source, and one is there.   *)
MayAdopt(v) ==
  /\ Locked = NoEntry
  /\ made # {}
  /\ made \intersect litter = {}
  /\ \A f \in SkillFiles : DirOf(f) \in made => tree[f] = Source(v)[f[2]]
AdoptPlan(v) == <<LockWrite(ByInstall(v))>>

MayUninstall ==
  /\ Locked.by = "install"
  /\ \A f \in SkillFiles : Recorded(f) # Absent => Untampered(f)
UninstallPlan ==
  SetToSeq({Write(f, Absent) : f \in {g \in SkillFiles : Recorded(g) # Absent /\ tree[g] # Absent}})
    \o <<LockWrite(NoEntry)>>

Plan(kind, order) ==
  /\ Running("idle") /\ verbs < MaxVerbs
  /\ verbs' = verbs + 1
  /\ order # <<>>
  /\ run' = [NoRun EXCEPT !.at = "planned", !.kind = kind, !.order = order]
  /\ before' = [tree |-> tree, made |-> made, litter |-> litter]
  /\ persons' = {f \in SkillFiles : tree[f] = Persons}
  /\ touched' = {}
  /\ UNCHANGED <<files, edits>>

ProjectRegister(d) == MayRegister /\ Plan("register", RegisterPlan(d))
ProjectRevise(d) == AgentOwned /\ Plan("revise", RegisterPlan(d))
ProjectRetire == AgentOwned /\ Plan("retire", RetirePlan)
Install(v) == MayInstall(v) /\ Plan("install", InstallPlan(v))
Adopt(v) == MayAdopt(v) /\ Plan("adopt", AdoptPlan(v))
Uninstall == MayUninstall /\ Plan("uninstall", UninstallPlan)

-----------------------------------------------------------------------------
(* Execution.                                                              *)

(* checkStillAsPlanned: whether the file exists, not what is in it.        *)
AsPlanned(w) == tree[w.file] = Absent <=> w.backup = Absent

Indexes == DOMAIN run.order
Deletes(i) == run.order[i].bytes = Absent
FileAt(i) == run.order[i].file

LookAgain ==
  /\ Running("planned")
  /\ IF \A i \in Indexes : AsPlanned(run.order[i])
       THEN /\ run' = [run EXCEPT !.at = "staging"]
            /\ persons' = persons \union {f \in SkillFiles : tree[f] = Persons /\ before.tree[f] = Absent}
       ELSE /\ run' = NoRun
            /\ UNCHANGED persons
  /\ UNCHANGED <<files, before, touched, verbs, edits>>

(* Mutant of DirMadeFor: the lock's directory is taken for a skill's.      *)
DirMadeForLockToo(i) == {DirOf(FileAt(i))}

DirMadeFor(i) == IF FileAt(i) = LockFile THEN {} ELSE {DirOf(FileAt(i))}

StageOne ==
  /\ Running("staging")
  /\ run.next \in Indexes
  /\ LET i == run.next
         needed == IF Deletes(i) THEN {} ELSE DirMadeFor(i)
     IN /\ made' = made \union needed
        /\ run' = [run EXCEPT !.next = i + 1, !.created = @ \union (needed \ made),
                              !.staged = IF Deletes(i) THEN @ ELSE @ \union {i}]
  /\ UNCHANGED <<tree, litter, ghosts, verbs, edits>>

StartCommit ==
  /\ Running("staging")
  /\ run.next \notin Indexes
  /\ run' = [run EXCEPT !.at = "committing", !.next = 1]
  /\ UNCHANGED <<files, ghosts, verbs, edits>>

Land(i) == tree' = [tree EXCEPT ![FileAt(i)] = run.order[i].bytes]

CommitOne ==
  /\ Running("committing")
  /\ run.next \in Indexes
  /\ ~(Deletes(run.next) /\ tree[FileAt(run.next)] = Absent)
  /\ Land(run.next)
  /\ run' = [run EXCEPT !.next = @ + 1, !.attempted = @ \union {run.next},
                        !.staged = @ \ {run.next}]
  /\ UNCHANGED <<made, litter, ghosts, verbs, edits>>

(* Everything is in place; uninstall then removes the directories it left  *)
(* empty.                                                                  *)
Empty(d) == d \notin litter /\ \A f \in InDir(d) : tree[f] = Absent

Finish ==
  /\ Running("committing")
  /\ run.next \notin Indexes
  /\ run' = [run EXCEPT !.at = "done"]
  /\ made' = IF run.kind = "uninstall" THEN {d \in made : ~Empty(d)} ELSE made
  /\ UNCHANGED <<tree, litter, ghosts, verbs, edits>>

-----------------------------------------------------------------------------
(* Undoing.                                                                *)

(* A verb reaches its writes in their order, so that those it reached are  *)
(* its first ones, and goes strictly back; but retire restores the files it *)
(* removed, and then the lock.                                             *)
Back(n) == [i \in 1 .. n |-> n + 1 - i]
UndoOrder(reached) ==
  LET n == Cardinality(reached)
  IN  IF run.kind = "retire" /\ n \in Indexes /\ FileAt(n) = LockFile
        THEN Append(Back(n - 1), n)
        ELSE Back(n)

Undo(reached) ==
  run' = [run EXCEPT !.at = "undoing", !.attempted = reached, !.undo = UndoOrder(reached)]

StageFails ==
  /\ Running("staging")
  /\ run.next \in Indexes /\ ~Deletes(run.next)
  /\ Undo({})
  /\ UNCHANGED <<files, ghosts, verbs, edits>>

(* Mutant of Reached: only what is known to have landed is undone.         *)
ReachedForCertain == run.attempted

Reached == run.attempted \union {run.next}

(* The rename or removal reports an error; it may have landed all the same.*)
CommitFails ==
  /\ Running("committing")
  /\ run.next \in Indexes
  /\ Land(run.next) \/ UNCHANGED tree
  /\ Undo(Reached)
  /\ UNCHANGED <<made, litter, ghosts, verbs, edits>>

UndoOne ==
  /\ Running("undoing")
  /\ run.undo # <<>>
  /\ LET w == run.order[Head(run.undo)]
     IN  \/ /\ tree' = [tree EXCEPT ![w.file] = w.backup]
            /\ run' = [run EXCEPT !.undo = Tail(@)]
         \/ /\ run' = [run EXCEPT !.undo = Tail(@), !.bad = TRUE]
            /\ UNCHANGED tree
  /\ UNCHANGED <<made, litter, ghosts, verbs, edits>>

Leftover == {d \in run.created : Empty(d)}

CleanUp ==
  /\ Running("undoing")
  /\ run.undo = <<>>
  /\ made' = made \ Leftover
  /\ run' = [run EXCEPT !.at = IF run.bad THEN "incomplete" ELSE "failed", !.staged = {}]
  /\ UNCHANGED <<tree, litter, ghosts, verbs, edits>>

Answer ==
  /\ run.at \in {"done", "failed", "incomplete"}
  /\ run' = NoRun
  /\ UNCHANGED <<files, ghosts, verbs, edits>>

(* The verb is killed: its temporary files stay.                           *)
Killed ==
  /\ ~Running("idle")
  /\ litter' = litter \union UNION {DirMadeFor(i) : i \in run.staged}
  /\ run' = NoRun
  /\ UNCHANGED <<tree, made, ghosts, verbs, edits>>

-----------------------------------------------------------------------------
(* The person, outside the program.                                        *)

Touches(S) ==
  /\ edits < MaxEdits
  /\ edits' = edits + 1
  /\ touched' = touched \union S
  /\ persons' = persons \ S
  /\ UNCHANGED <<before, run, verbs>>

PersonWrites(f) ==
  /\ tree' = [tree EXCEPT ![f] = Persons]
  /\ made' = made \union {DirOf(f)}
  /\ Touches({f})
  /\ UNCHANGED litter

PersonDeletes(f) ==
  /\ tree[f] # Absent
  /\ tree' = [tree EXCEPT ![f] = Absent]
  /\ Touches({f})
  /\ UNCHANGED <<made, litter>>

PersonRemovesDir(d) ==
  /\ Running("idle")
  /\ d \in made
  /\ tree' = [f \in Files |-> IF f \in InDir(d) THEN Absent ELSE tree[f]]
  /\ made' = made \ {d} /\ litter' = litter \ {d}
  /\ Touches(InDir(d))

SkillsNext ==
  \/ \E d \in Drafts : ProjectRegister(d)
  \/ \E d \in Drafts : ProjectRevise(d)
  \/ ProjectRetire
  \/ \E v \in Versions : Install(v)
  \/ \E v \in Versions : Adopt(v)
  \/ Uninstall
  \/ LookAgain \/ StageOne \/ StartCommit \/ CommitOne \/ Finish
  \/ StageFails \/ CommitFails \/ UndoOne \/ CleanUp \/ Answer \/ Killed
  \/ \E f \in SkillFiles : PersonWrites(f) \/ PersonDeletes(f)
  \/ \E d \in Dirs : PersonRemovesDir(d)

SkillsSpec == SkillsInit /\ [][SkillsNext]_skillVars

-----------------------------------------------------------------------------
(* Properties.                                                             *)

(* Types: the bytes of the files and of the lock, and what is on the way.  *)
SkillsTypeOK ==
  /\ \A f \in SkillFiles : tree[f] \in {Absent, Persons} \union Drafts \union Versions
  /\ tree[LockFile] \in {Absent} \union Entries
  /\ made \in SUBSET Dirs /\ litter \in SUBSET made
  /\ run.attempted \union run.staged \subseteq Indexes
  /\ persons \union touched \subseteq SkillFiles

(* A verb that failed and says it undid everything has: every file the     *)
(* person did not touch meanwhile, the lock too, is as it was, no          *)
(* directory of its making is left and no temporary file (rollback).       *)
FailedIsUndone ==
  Running("failed") =>
    /\ \A f \in Files \ touched : tree[f] = before.tree[f]
    /\ \A d \in Dirs : InDir(d) \intersect touched = {} => (d \in made <=> d \in before.made)
    /\ litter = before.litter

(* A person's file that was there when the verb planned, or had appeared   *)
(* by the time it looked again, is changed by nobody but the person        *)
(* (EvaluateOwnership, planSkill, checkStillAsPlanned, rollback).          *)
PersonsFilesAreKept == \A f \in persons : tree[f] = Persons

(* The lock is the mark of the commit: when a verb writes it, every file   *)
(* it names holds the bytes it names, but for those adopt said are not     *)
(* installed and those the person touched (projectCommitOrder).            *)
LockIsWrittenLast ==
  Running("committing") /\ tree'[LockFile] # tree[LockFile] =>
    \A f \in SkillFiles \ touched :
      LET named == tree'[LockFile].bytes[f[2]]
      IN  named # Absent => \/ tree[f] = named
                            \/ run.kind = "adopt" /\ tree[f] = Absent

(* A verb that is done leaves, of the files the lock named before or names *)
(* now, exactly those and those bytes it names now, in every directory the *)
(* person did not touch (PlanInstallOwnership, PlanProjectRetire).         *)
DoneIsWhole ==
  Running("done") /\ run.kind # "adopt" =>
    \A f \in SkillFiles \ touched :
      LET was == before.tree[LockFile]
          now == Locked.bytes[f[2]]
      IN  (now # Absent \/ (was # Absent /\ was.bytes[f[2]] # Absent)) => tree[f] = now

(* A verb is done as a whole or undone, and leaves a person's files alone  *)
(* (ExecuteInstall, projectStager).                                        *)
SkillsAreSound == FailedIsUndone /\ PersonsFilesAreKept /\ DoneIsWhole
=============================================================================
