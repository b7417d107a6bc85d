--------------------------- MODULE OverlayRegistry ---------------------------
(***************************************************************************)
(* The overlay's registry of skills and its manifest (engine/skills): two  *)
(* files that must name the same skills.  add, remove and sync-manifest    *)
(* rewrite them under an exclusive lock by two renames, the manifest       *)
(* first; validate compares them under a shared lock, which holds nothing  *)
(* while the lock file does not exist: it then reads again when the file   *)
(* has appeared meanwhile.  A verb may fail or die between the renames.    *)
(***************************************************************************)
EXTENDS Integers

CONSTANTS
  Verbs,       \* processes, each running one verb at a time
  NoVerb,      \* holds the lock exclusively when no process does
  SkillIds,    \* the skills that may be registered
  MaxWrites    \* bound on how many writing verbs begin

ASSUME NoVerbAssumption == NoVerb \notin Verbs
ASSUME MaxWritesAssumption == MaxWrites \in Nat

VARIABLES
  registry,  \* the skills the registry names
  manifest,  \* the skills the manifest names
  lockFile,  \* does the lock file exist?
  writer,    \* the process that holds its lock exclusively
  readers,   \* the processes that hold it shared
  verb,      \* each process: where it is, what it does and has read
  wanted,    \* the skills whose add was reported as done, and whose removal
             \* has not begun since
  writes     \* counts the writing verbs

registryVars == <<registry, manifest, lockFile, writer, readers, verb, wanted, writes>>

NoWork ==
  [at |-> "idle", kind |-> "none", reg |-> {}, man |-> {}, id |-> {},
   provisional |-> FALSE, attempt |-> 0]

RegistryInit ==
  /\ registry = {} /\ manifest = {}
  /\ lockFile = FALSE /\ writer = NoVerb /\ readers = {}
  /\ verb = [p \in Verbs |-> NoWork]
  /\ wanted = {}
  /\ writes = 0

Doing(p, where) == verb[p].at = where
Then(p, where) == verb' = [verb EXCEPT ![p].at = where]
Finishes(p) == verb' = [verb EXCEPT ![p] = NoWork]

filesAndGhost == <<registry, manifest, wanted>>
locks == <<lockFile, writer, readers>>

-----------------------------------------------------------------------------
(* The writing verbs.  Their lock file is created before it is locked.     *)

BeginWrite(p, kind, id) ==
  /\ Doing(p, "idle")
  /\ writes < MaxWrites
  /\ writes' = writes + 1
  /\ verb' = [verb EXCEPT ![p] = [NoWork EXCEPT !.at = "locking", !.kind = kind, !.id = id]]
  /\ lockFile' = TRUE
  /\ UNCHANGED <<filesAndGhost, writer, readers>>

(* Mutant of LockFree: writers do not keep each other out.                 *)
LockFreeOfReaders(p) == readers = {}

LockFree(p) == writer = NoVerb /\ readers = {}

LockOverlay(p) ==
  /\ Doing(p, "locking")
  /\ LockFree(p)
  /\ writer' = p
  /\ wanted' = wanted \ (IF verb[p].kind = "remove" THEN verb[p].id ELSE {})
  /\ Then(p, "locked")
  /\ UNCHANGED <<registry, manifest, lockFile, readers, writes>>

OverlayBusy(p) ==
  /\ Doing(p, "locking")
  /\ ~LockFree(p)
  /\ Finishes(p)
  /\ UNCHANGED <<filesAndGhost, locks, writes>>

(* AddEntry, RemoveEntry, ManifestWithSkill, ManifestWithoutSkill and, to  *)
(* sync, the manifest regenerated from the registry.                       *)
NewRegistry(kind, id) ==
  CASE kind = "add" -> registry \union id
    [] kind = "remove" -> registry \ id
    [] kind = "sync" -> registry
NewManifest(kind, id) ==
  CASE kind = "add" -> manifest \union id
    [] kind = "remove" -> manifest \ id
    [] kind = "sync" -> registry

Admitted(kind, id) ==
  CASE kind = "add" -> id \intersect registry = {}
    [] kind = "remove" -> id \subseteq registry
    [] kind = "sync" -> registry # manifest

(* Mutant of CrossCheck: the pair is written without a look at it.         *)
CrossCheckNothing(reg, man) == TRUE

CrossCheck(reg, man) == reg = man

(* Both files are read, the new pair is made, checked and staged in        *)
(* temporary files.                                                        *)
Stage(p) ==
  LET kind == verb[p].kind
      id == verb[p].id
  IN  /\ Doing(p, "locked")
      /\ Admitted(kind, id)
      /\ CrossCheck(NewRegistry(kind, id), NewManifest(kind, id))
      /\ verb' = [verb EXCEPT ![p].at = "staged", ![p].reg = NewRegistry(kind, id),
                              ![p].man = NewManifest(kind, id)]
      /\ UNCHANGED <<filesAndGhost, locks, writes>>

(* CommitStaged: the manifest, then the registry (a sync has only that).   *)
RenameManifest(p) ==
  /\ Doing(p, "staged")
  /\ manifest' = verb[p].man
  /\ Then(p, IF verb[p].kind = "sync" THEN "written" ELSE "half_written")
  /\ UNCHANGED <<registry, wanted, locks, writes>>

RenameRegistry(p) ==
  /\ Doing(p, "half_written")
  /\ registry' = verb[p].reg
  /\ Then(p, "written")
  /\ UNCHANGED <<manifest, wanted, locks, writes>>

(* The verb has done what it was asked, and says so.                       *)
ReportWrite(p) ==
  /\ Doing(p, "written")
  /\ wanted' = wanted \union (IF verb[p].kind = "add" THEN verb[p].id ELSE {})
  /\ writer' = NoVerb
  /\ Finishes(p)
  /\ UNCHANGED <<registry, manifest, lockFile, readers, writes>>

(* It is refused, or a write or a rename fails: what was renamed stays.    *)
WriteFails(p) ==
  /\ verb[p].at \in {"locked", "staged", "half_written"}
  /\ writer' = NoVerb
  /\ Finishes(p)
  /\ UNCHANGED <<filesAndGhost, lockFile, readers, writes>>

-----------------------------------------------------------------------------
(* validate (ReadConsistently).                                            *)
MaxRereads == 3

BeginValidate(p) ==
  /\ Doing(p, "idle")
  /\ verb' = [verb EXCEPT ![p] =
       [NoWork EXCEPT !.at = "looked", !.kind = "validate", !.provisional = ~lockFile, !.attempt = 1]]
  /\ UNCHANGED <<filesAndGhost, locks, writes>>

(* A lock on a file that does not exist holds nothing.                     *)
LockShared(p) ==
  /\ Doing(p, "looked")
  /\ lockFile => writer = NoVerb
  /\ readers' = IF lockFile THEN readers \union {p} ELSE readers
  /\ Then(p, "reading")
  /\ UNCHANGED <<filesAndGhost, lockFile, writer, writes>>

SharedBusy(p) ==
  /\ Doing(p, "looked")
  /\ lockFile /\ writer # NoVerb
  /\ Finishes(p)
  /\ UNCHANGED <<filesAndGhost, locks, writes>>

ReadRegistry(p) ==
  /\ Doing(p, "reading")
  /\ verb' = [verb EXCEPT ![p].at = "half_read", ![p].reg = registry]
  /\ UNCHANGED <<filesAndGhost, locks, writes>>

ReadManifest(p) ==
  /\ Doing(p, "half_read")
  /\ verb' = [verb EXCEPT ![p].at = "read", ![p].man = manifest]
  /\ UNCHANGED <<filesAndGhost, locks, writes>>

(* Mutants of Raced: no read is taken for a race, or every read is since   *)
(* the lock file came to be.                                               *)
RacedNever(p) == FALSE
RacedOnceLocked(p) == lockFile

(* rereadsWhenTheLockFileAppears.                                          *)
Raced(p) == verb[p].provisional /\ lockFile

(* The lock is released; the result stands, or is read again.              *)
Recheck(p) ==
  /\ Doing(p, "read")
  /\ readers' = readers \ {p}
  /\ IF ~Raced(p)
     THEN Then(p, "validated")
     ELSE IF verb[p].attempt >= MaxRereads
     THEN Finishes(p)
     ELSE verb' = [verb EXCEPT ![p].at = "looked", ![p].provisional = ~lockFile,
                               ![p].attempt = @ + 1]
  /\ UNCHANGED <<filesAndGhost, lockFile, writer, writes>>

TellValidate(p) ==
  /\ Doing(p, "validated")
  /\ Finishes(p)
  /\ UNCHANGED <<filesAndGhost, locks, writes>>

(* A process that dies lets go of its locks.                               *)
VerbDies(p) ==
  /\ ~Doing(p, "idle")
  /\ Finishes(p)
  /\ writer' = IF writer = p THEN NoVerb ELSE writer
  /\ readers' = readers \ {p}
  /\ UNCHANGED <<filesAndGhost, lockFile, writes>>

RegistryNext ==
  \E p \in Verbs :
    \/ \E id \in SkillIds : BeginWrite(p, "add", {id}) \/ BeginWrite(p, "remove", {id})
    \/ BeginWrite(p, "sync", {})
    \/ LockOverlay(p) \/ OverlayBusy(p) \/ Stage(p) \/ RenameManifest(p) \/ RenameRegistry(p)
    \/ ReportWrite(p) \/ WriteFails(p)
    \/ BeginValidate(p) \/ LockShared(p) \/ SharedBusy(p) \/ ReadRegistry(p) \/ ReadManifest(p)
    \/ Recheck(p) \/ TellValidate(p) \/ VerbDies(p)

RegistrySpec == RegistryInit /\ [][RegistryNext]_registryVars

-----------------------------------------------------------------------------
RegistryTypeOK ==
  /\ registry \subseteq SkillIds /\ manifest \subseteq SkillIds /\ wanted \subseteq SkillIds
  /\ lockFile \in BOOLEAN /\ writer \in Verbs \union {NoVerb} /\ readers \subseteq Verbs
  /\ \A p \in Verbs :
       /\ verb[p].attempt \in 0..MaxRereads
       /\ p = writer <=> verb[p].at \in {"locked", "staged", "half_written", "written"}
       /\ p \in readers => verb[p].at \in {"reading", "half_read", "read"}

(* validate never judges the registry of one moment by the manifest of     *)
(* another: what it read is the pair that is there when it lets go of its  *)
(* lock, even if that lock held nothing (ReadConsistently).                *)
ValidatesOnePair ==
  \A p \in Verbs :
    Doing(p, "validated")' /\ ~Doing(p, "validated")
      => verb'[p].reg = registry /\ verb'[p].man = manifest

(* No update is lost: a skill whose add was reported as done stays in both *)
(* files until its removal begins (the exclusive lock, CommitStaged).      *)
AddedIsKept == wanted \subseteq registry \intersect manifest

(* However verbs fail between their renames, the files differ by one skill *)
(* at most, so that doing it again, or a sync, makes them agree            *)
(* (crossCheck).                                                           *)
Astray == (registry \ manifest) \union (manifest \ registry)
AtMostOneAstray == \A a, b \in Astray : a = b

(* The second read is under a lock that is real: nobody reads a third time *)
(* (rereadsWhenTheLockFileAppears).                                        *)
RereadsAtMostOnce == \A p \in Verbs : verb[p].attempt <= 2

(* The pair of files after any race and any failure between its two writes *)
(* (AcquireLocks, CommitStaged, ReadConsistently).                         *)
RegistryIsSound == AddedIsKept /\ AtMostOneAstray /\ RereadsAtMostOnce
=============================================================================
