----------------------------- MODULE EvidenceLog -----------------------------
(***************************************************************************)
(* The log of memory reads that sessions append to (engine/projection/     *)
(* evidencelog): one line of JSON for each read, appended under a lock,    *)
(* which a crash or a full disk may cut off anywhere.  The next append     *)
(* ends a line that was left torn, so as not to be glued to it.            *)
(***************************************************************************)
EXTENDS Integers, Sequences, FiniteSets

CONSTANTS
  Sessions,  \* processes, each appending one line at a time
  Nobody,    \* holds the lock when no session does
  MaxLines   \* bound on how many appends are begun

ASSUME NobodyAssumption == Nobody \notin Sessions
ASSUME MaxLinesAssumption == MaxLines \in Nat

VARIABLES
  sidecar,     \* the file: a sequence of pieces
  sidecarLock, \* the session that holds its lock
  session,     \* each session: where it is, the line it appends, and whether
               \* it saw the file end torn
  recorded,    \* the lines reported as recorded
  lines        \* counts the appends begun

evidenceVars == <<sidecar, sidecarLock, session, recorded, lines>>

(* A line is cut anywhere: before it, within it, or before its newline.    *)
Newline == <<0, 0>>
LineBody(n) == <<<<n, 1>>, <<n, 2>>>>
Pieces == {Newline} \union ((1..MaxLines) \X {1, 2})

Silent == [at |-> "idle", line |-> 0, torn |-> FALSE]

EvidenceInit ==
  /\ sidecar = <<>>
  /\ sidecarLock = Nobody
  /\ session = [s \in Sessions |-> Silent]
  /\ recorded = {}
  /\ lines = 0

InPhase(s, where) == session[s].at = where
Enters(s, where) == session' = [session EXCEPT ![s].at = where]
IsOver(s) == session' = [session EXCEPT ![s] = Silent]

BeginAppend(s) ==
  /\ InPhase(s, "idle")
  /\ lines < MaxLines
  /\ lines' = lines + 1
  /\ session' = [session EXCEPT ![s] = [at |-> "waiting", line |-> lines + 1, torn |-> FALSE]]
  /\ UNCHANGED <<sidecar, sidecarLock, recorded>>

(* Mutant of LockSidecar: the lock is shared.                              *)
LockSidecarShared(s) ==
  /\ InPhase(s, "waiting")
  /\ sidecarLock' = s
  /\ Enters(s, "locked")
  /\ UNCHANGED <<sidecar, recorded, lines>>

LockSidecar(s) ==
  /\ InPhase(s, "waiting")
  /\ sidecarLock = Nobody
  /\ sidecarLock' = s
  /\ Enters(s, "locked")
  /\ UNCHANGED <<sidecar, recorded, lines>>

(* The wait for the lock is bounded.                                       *)
SidecarBusy(s) ==
  /\ InPhase(s, "waiting")
  /\ sidecarLock # Nobody
  /\ IsOver(s)
  /\ UNCHANGED <<sidecar, sidecarLock, recorded, lines>>

(* Mutant of EndsTorn: a file that is not empty ended with its last line.  *)
EndsTornNever(file) == FALSE

EndsTorn(file) == file # <<>> /\ file[Len(file)] # Newline

OpenSidecar(s) ==
  /\ InPhase(s, "locked")
  /\ session' = [session EXCEPT ![s].at = "writing", ![s].torn = EndsTorn(sidecar)]
  /\ UNCHANGED <<sidecar, sidecarLock, recorded, lines>>

(* One write appends the data, or as much of it as there is room for.      *)
Data(s) ==
  (IF session[s].torn THEN <<Newline>> ELSE <<>>) \o LineBody(session[s].line) \o <<Newline>>

WriteLine(s) ==
  /\ InPhase(s, "writing")
  /\ sidecar' = sidecar \o Data(s)
  /\ Enters(s, "written")
  /\ UNCHANGED <<sidecarLock, recorded, lines>>

WriteIsCut(s) ==
  /\ InPhase(s, "writing")
  /\ \E n \in 0..(Len(Data(s)) - 1) : sidecar' = sidecar \o SubSeq(Data(s), 1, n)
  /\ Enters(s, "failed")
  /\ UNCHANGED <<sidecarLock, recorded, lines>>

(* Mutant of Unlock: an append that failed keeps the lock.                 *)
UnlockOnSuccess(s) ==
  sidecarLock' = IF InPhase(s, "written") THEN Nobody ELSE sidecarLock

Unlock(s) == sidecarLock' = Nobody

(* Flushed and closed, the line is reported as recorded.                   *)
ReportLine(s) ==
  /\ InPhase(s, "written")
  /\ recorded' = recorded \union {session[s].line}
  /\ IsOver(s)
  /\ Unlock(s)
  /\ UNCHANGED <<sidecar, lines>>

(* The open, the look at the last byte, the write or the flush failed.     *)
AppendFails(s) ==
  /\ session[s].at \in {"locked", "written", "failed"}
  /\ IsOver(s)
  /\ Unlock(s)
  /\ UNCHANGED <<sidecar, recorded, lines>>

(* The system releases the lock of a process that dies.                    *)
SessionDies(s) ==
  /\ ~InPhase(s, "idle")
  /\ IsOver(s)
  /\ sidecarLock' = IF sidecarLock = s THEN Nobody ELSE sidecarLock
  /\ UNCHANGED <<sidecar, recorded, lines>>

EvidenceStep(s) ==
  \/ LockSidecar(s) \/ SidecarBusy(s) \/ OpenSidecar(s) \/ WriteLine(s)
  \/ WriteIsCut(s) \/ ReportLine(s) \/ AppendFails(s)

EvidenceNext == \E s \in Sessions : BeginAppend(s) \/ EvidenceStep(s) \/ SessionDies(s)

EvidenceSpec == EvidenceInit /\ [][EvidenceNext]_evidenceVars

EvidenceFairness == \A s \in Sessions : WF_evidenceVars(EvidenceStep(s))

-----------------------------------------------------------------------------
EvidenceTypeOK ==
  /\ sidecar \in Seq(Pieces)
  /\ sidecarLock \in Sessions \union {Nobody}
  /\ session \in [Sessions ->
       [at : {"idle", "waiting", "locked", "writing", "written", "failed"},
        line : 0..MaxLines, torn : BOOLEAN]]
  /\ \A s \in Sessions : sidecarLock = s <=> session[s].at \notin {"idle", "waiting"}
  /\ recorded \subseteq 1..lines
  /\ lines \in 0..MaxLines

(* A read reported as recorded can be read back: it is a line of its own,  *)
(* whatever was torn before it or is cut off after it (Log.Append).        *)
LineAt(k, n) ==
  /\ k + 2 <= Len(sidecar)
  /\ SubSeq(sidecar, k, k + 2) = Append(LineBody(n), Newline)
  /\ k = 1 \/ sidecar[k - 1] = Newline
RecordedIsReadable ==
  \A n \in recorded : \E k \in 1..Len(sidecar) : LineAt(k, n)

(* The lock comes free again and again, however appends fail or sessions   *)
(* die, so that no read goes unrecorded for good (the deferred unlock).    *)
SidecarComesFree == []<>(sidecarLock = Nobody)
=============================================================================
