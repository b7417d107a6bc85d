-------------------------- MODULE InstalledTargets --------------------------
(***************************************************************************)
(* The shared longterm-mem binary and the record of the runtimes it is     *)
(* installed for (engine/runtime/ownership, bin/lib/longterm_mem.sh).  An  *)
(* install deploys the binary, registers it in the runtime's configuration *)
(* and records the runtime; an uninstall unregisters, releases and, when   *)
(* the record names no runtime, removes the binary and then the record.    *)
(* The record is read and written under a lock, of which each step of a    *)
(* verb is a process of its own; two verbs may run at once, and either may *)
(* be killed.                                                              *)
(***************************************************************************)
EXTENDS Integers, FiniteSets

CONSTANTS
  Scripts,     \* processes, each running one verb at a time
  NoScript,    \* holds the lock when no process does
  Targets,     \* the runtimes
  Garbled,     \* the name two glued lines of the record make
  MaxJobs,     \* bound on how many verbs begin
  MayPurge,    \* is uninstall --purge ever asked for?
  MaySkew      \* may the binary refuse a command line it does not know?

ASSUME NoScriptAssumption == NoScript \notin Scripts
ASSUME GarbledAssumption == Garbled \notin Targets
ASSUME MaxJobsAssumption == MaxJobs \in Nat
ASSUME MayPurgeAssumption == MayPurge \in BOOLEAN

VARIABLES
  binary,       \* is the shared binary there?
  entry,        \* the runtimes whose configuration names it
  record,       \* the record: is it there, the names on whole lines, and
                \* whether a partial line follows
  recordLock,   \* the process that holds the record's lock
  job,          \* each process: where it is and what it does
  told,         \* runtimes an install said it had installed, and no
                \* uninstall was begun for since (not part of the program)
  jobs          \* counts the verbs

targetsVars == <<binary, entry, record, recordLock, job, told, jobs>>

NoRecordFile == [there |-> FALSE, names |-> {}, partial |-> FALSE]
NoJob == [at |-> "idle", target |-> Garbled, purge |-> FALSE, failed |-> FALSE]

TargetsInit ==
  /\ binary = FALSE /\ entry = {}
  /\ record = NoRecordFile
  /\ recordLock = NoScript
  /\ job = [p \in Scripts |-> NoJob]
  /\ told = {} /\ jobs = 0

JobAt(p, where) == job[p].at = where
JobTo(p, where) == job' = [job EXCEPT ![p].at = where]
JobEnds(p) == job' = [job EXCEPT ![p] = NoJob]
world == <<binary, entry, record>>

BeginJob(p, t, purge, first) ==
  /\ JobAt(p, "idle")
  /\ jobs < MaxJobs
  /\ jobs' = jobs + 1
  /\ job' = [job EXCEPT ![p] = [at |-> first, target |-> t, purge |-> purge, failed |-> FALSE]]
  /\ UNCHANGED <<world, recordLock>>

-----------------------------------------------------------------------------
(* Install.                                                                *)

BeginInstall(p, t) == BeginJob(p, t, FALSE, "deploy") /\ UNCHANGED told

Deploy(p) ==
  /\ JobAt(p, "deploy")
  /\ binary' = TRUE
  /\ JobTo(p, "register")
  /\ UNCHANGED <<entry, record, recordLock, told, jobs>>

(* Only an entry that was written is recorded; the binary is the one that  *)
(* registers.                                                              *)
RegisterTarget(p) ==
  /\ JobAt(p, "register")
  /\ binary
  /\ entry' = entry \union {job[p].target}
  /\ JobTo(p, "record")
  /\ UNCHANGED <<binary, record, recordLock, told, jobs>>

-----------------------------------------------------------------------------
(* The record's lock, waited for and then given up.                        *)

(* Mutant of LockRecordFree: the lock is not exclusive.                    *)
LockRecordAny(p) == TRUE

LockRecordFree(p) == recordLock = NoScript

LockFor(p, before, after) ==
  /\ JobAt(p, before)
  /\ LockRecordFree(p)
  /\ recordLock' = p
  /\ JobTo(p, after)
  /\ UNCHANGED <<world, told, jobs>>

LockToRecord(p) == LockFor(p, "record", "recording")

(* release has nothing to do without a record.                             *)
LockToRelease(p) == record.there /\ LockFor(p, "release", "releasing")
LockToRetire(p) == LockFor(p, "retire", "deciding")

RecordBusy(p) ==
  /\ job[p].at \in {"record", "release", "retire"}
  /\ recordLock # NoScript
  /\ JobEnds(p)
  /\ UNCHANGED <<world, recordLock, told, jobs>>

ReleaseNothing(p) ==
  /\ JobAt(p, "release")
  /\ ~record.there
  /\ JobTo(p, "assess")
  /\ UNCHANGED <<world, recordLock, told, jobs>>

(* Appending a name to a partial line makes a name nobody knows.           *)
Appended(t) ==
  [there |-> TRUE, partial |-> FALSE,
   names |-> record.names \union {IF record.partial THEN Garbled ELSE t}]

(* Is the runtime being uninstalled, by itself or by a purge?              *)
Leaving(t) ==
  \E q \in Scripts :
    /\ job[q].at \in {"unregister", "release", "releasing", "assess", "retire", "deciding", "removed"}
    /\ job[q].purge \/ job[q].target = t

RecordTarget(p) ==
  LET t == job[p].target
  IN  /\ JobAt(p, "recording")
      /\ record' = IF t \in record.names THEN record ELSE Appended(t)
      /\ recordLock' = NoScript
      /\ told' = IF Leaving(t) THEN told ELSE told \union {t}
      /\ JobEnds(p)
      /\ UNCHANGED <<binary, entry, jobs>>

(* The append is cut off, by a failure or a kill.                          *)
RecordTorn(p) ==
  /\ JobAt(p, "recording")
  /\ job[p].target \notin record.names
  /\ record' = [record EXCEPT !.there = TRUE, !.partial = TRUE]
  /\ recordLock' = NoScript
  /\ JobEnds(p)
  /\ UNCHANGED <<binary, entry, told, jobs>>

-----------------------------------------------------------------------------
(* Uninstall.                                                              *)

BeginUninstall(p, t, purge) ==
  /\ BeginJob(p, t, purge, "unregister")
  /\ told' = IF purge THEN {} ELSE told \ {t}

(* What unregister comes to: where the script goes, the entries left and   *)
(* whether it is a failure.  Released are: a removed entry (exit 0), and   *)
(* an entry no run of this binary can remove (exit 2).  Kept are: one it   *)
(* does not own (exit 6), and one it failed to remove.                     *)
Unregistered(t) ==
  {<<"release", entry \ {t}, FALSE>>, <<"assess", entry, FALSE>>, <<"assess", entry, TRUE>>}
    \union (IF MaySkew THEN {<<"release", entry, FALSE>>} ELSE {})

Unregister(p) ==
  /\ JobAt(p, "unregister")
  /\ binary
  /\ \E r \in Unregistered(job[p].target) :
       /\ entry' = r[2]
       /\ job' = [job EXCEPT ![p].at = r[1], ![p].failed = r[3]]
  /\ UNCHANGED <<binary, record, recordLock, told, jobs>>

UnregisterWithoutBinary(p) ==
  /\ JobAt(p, "unregister")
  /\ ~binary
  /\ JobTo(p, "release")
  /\ UNCHANGED <<world, recordLock, told, jobs>>

(* Mutant of Without: the record is written from the names that were there *)
(* but for all partial and unknown ones.                                   *)
WithoutUnknown(t) == (record.names \ {t}) \ {Garbled}

Without(t) == record.names \ {t}

Release(p) ==
  /\ JobAt(p, "releasing")
  /\ record' = IF record.there
                 THEN [there |-> TRUE, partial |-> FALSE, names |-> Without(job[p].target)]
                 ELSE [there |-> TRUE, partial |-> FALSE, names |-> {}]
  /\ recordLock' = NoScript
  /\ JobTo(p, "assess")
  /\ UNCHANGED <<binary, entry, told, jobs>>

(* The record cannot be read, or what is to be done to it fails.           *)
LockedStepFails(p) ==
  /\ job[p].at \in {"recording", "releasing", "deciding", "removed"}
  /\ recordLock' = NoScript
  /\ JobEnds(p)
  /\ UNCHANGED <<world, told, jobs>>

(* Mutant of NothingDepends: no record counts as an empty one.             *)
NothingDependsIfNone(purge) == purge \/ record.names = {}

(* Settle and Dispose, which agree on this.                                *)
NothingDepends(purge) == purge \/ (record.there /\ record.names = {})

(* assess reads without the lock.                                          *)
Assess(p) ==
  /\ JobAt(p, "assess")
  /\ IF (~job[p].failed \/ job[p].purge) /\ NothingDepends(job[p].purge)
       THEN JobTo(p, "retire")
       ELSE JobEnds(p)
  /\ UNCHANGED <<world, recordLock, told, jobs>>

Retires(p) == NothingDepends(job[p].purge)

RemoveBinary(p) ==
  /\ JobAt(p, "deciding")
  /\ Retires(p)
  /\ binary' = FALSE
  /\ JobTo(p, "removed")
  /\ UNCHANGED <<entry, record, recordLock, told, jobs>>

KeepBinary(p) ==
  /\ JobAt(p, "deciding")
  /\ ~Retires(p)
  /\ recordLock' = NoScript
  /\ JobEnds(p)
  /\ UNCHANGED <<world, told, jobs>>

DeleteRecord(p) ==
  /\ JobAt(p, "removed")
  /\ record' = NoRecordFile
  /\ recordLock' = NoScript
  /\ JobEnds(p)
  /\ UNCHANGED <<binary, entry, told, jobs>>

-----------------------------------------------------------------------------
(* The script is killed, or an unlocked step of it fails for good.         *)
ScriptEnds(p) ==
  /\ job[p].at \in {"deploy", "register", "record", "unregister", "release", "assess", "retire"}
  /\ JobEnds(p)
  /\ UNCHANGED <<world, recordLock, told, jobs>>

TargetsNext ==
  \E p \in Scripts :
    \/ \E t \in Targets : BeginInstall(p, t)
    \/ \E t \in Targets, purge \in {FALSE, MayPurge} : BeginUninstall(p, t, purge)
    \/ Deploy(p) \/ RegisterTarget(p)
    \/ LockToRecord(p) \/ LockToRelease(p) \/ LockToRetire(p) \/ RecordBusy(p)
    \/ RecordTarget(p) \/ RecordTorn(p)
    \/ Unregister(p) \/ UnregisterWithoutBinary(p)
    \/ ReleaseNothing(p) \/ Release(p)
    \/ Assess(p) \/ RemoveBinary(p) \/ KeepBinary(p) \/ DeleteRecord(p)
    \/ LockedStepFails(p) \/ ScriptEnds(p)

TargetsSpec == TargetsInit /\ [][TargetsNext]_targetsVars

-----------------------------------------------------------------------------
(* Properties.                                                             *)

(* Types; only a process at a locked step holds the lock.                  *)
TargetsTypeOK ==
  /\ entry \subseteq Targets /\ told \subseteq Targets
  /\ record.names \subseteq Targets \union {Garbled}
  /\ ~record.there => record = NoRecordFile
  /\ \A p \in Scripts : recordLock = p <=> job[p].at \in {"recording", "releasing", "deciding", "removed"}

(* A runtime whose install was reported as done holds the binary until an  *)
(* uninstall of it begins, whatever other verbs do to the record: it is in *)
(* the record, or a name nobody knows stands in for it (Store.Append).     *)
InstalledIsHeld == \A t \in told : {t, Garbled} \intersect record.names # {}

(* But for --purge, the binary is only ever removed while the record is    *)
(* there and names nobody: a runtime recorded since assess answered keeps  *)
(* it (Service.Retire).                                                    *)
RecordedKeepsBinary ==
  binary /\ ~binary' =>
    \/ record.there /\ record.names = {}
    \/ \E p \in Scripts : job[p].purge /\ JobAt(p, "deciding")

(* Stated by bin/lib/longterm_mem.sh of the record: it prevents an entry   *)
(* that names a binary that no longer exists.                              *)
NoOrphanEntry == entry # {} => binary
=============================================================================
