----------------------------- MODULE SyncTrigger -----------------------------
(***************************************************************************)
(* The sync trigger (engine/synctrigger): a hook starts it, it opens its   *)
(* log and starts a detached child; the child opens the log too, runs the  *)
(* sync for a bounded time and logs one line of what came of it.  Opening  *)
(* a full log rotates it, under a lock; a process that has the log open    *)
(* keeps writing to the file it has, wherever that was moved to.  A log    *)
(* that cannot be opened or written is reported on stderr at most: the     *)
(* trigger gives up then, and the child goes on without one.               *)
(***************************************************************************)
EXTENDS Integers, Sequences, FiniteSets

CONSTANTS
  Triggers,    \* the starts of the trigger
  NoProcess,   \* holds the rotation's lock when no process does
  KeptLogs,    \* how many rotated logs are kept
  LogLimit,    \* lines that make a log full (logLimitBytes)
  MaxTriggerKills, \* bound on how many processes are killed
  MaxUnlogged  \* bound on how many processes cannot log

ASSUME KeptLogsAssumption == KeptLogs \in Nat \ {0}
ASSUME LogLimitAssumption == LogLimit \in Nat \ {0}
ASSUME MaxTriggerKillsAssumption == MaxTriggerKills \in Nat
ASSUME MaxUnloggedAssumption == MaxUnlogged \in Nat

(* A start is two processes, each with its own line to log.                *)
Processes == Triggers \X {"trigger", "child"}
ChildOf(p) == <<p[1], "child">>

ASSUME NoProcessAssumption == NoProcess \notin Processes

VARIABLES
  slot,        \* the log (0) and the rotated ones (1 .. KeptLogs): a file or none
  logged,       \* the lines of every file there ever was, by its number
  rotateLock,  \* the process that rotates
  proc,        \* where each process is
  opened,      \* the file each process has open, or none
  killed,      \* the processes that were killed (not part of the program)
  unlogged     \* those that were started wrongly, or could not open or write
               \*   the log (not part of the program)

triggerVars == <<slot, logged, rotateLock, proc, opened, killed, unlogged>>

NoFile == 0
Slots == 0 .. KeptLogs
Pc(where) == <<where, 0>>
Shift(i) == <<"shift", i>>

TriggerInit ==
  /\ slot = [i \in Slots |-> NoFile]
  /\ logged = <<>>
  /\ rotateLock = NoProcess
  /\ proc = [p \in Processes |-> Pc(IF p[2] = "trigger" THEN "ready" ELSE "unborn")]
  /\ opened = [p \in Processes |-> NoFile]
  /\ killed = {} /\ unlogged = {}

In(p, where) == proc[p] = Pc(where)
GoesTo(p, state) == proc' = [proc EXCEPT ![p] = state]
Goes(p, where) == GoesTo(p, Pc(where))

Full == slot[0] # NoFile /\ Cardinality(logged[slot[0]]) >= LogLimit

logs == <<slot, logged>>
mishaps == <<killed, unlogged>>

(* A process that will not log what it has to say.                         *)
Unable(p) ==
  /\ Cardinality(unlogged) < MaxUnlogged
  /\ unlogged' = unlogged \union {p}

-----------------------------------------------------------------------------
(* openLog and rotateLog.                                                  *)

LookAtLog(p) ==
  /\ In(p, "ready")
  /\ Goes(p, IF Full THEN "full" ELSE "opening")
  /\ UNCHANGED <<logs, rotateLock, opened, mishaps>>

LockRotation(p) ==
  /\ In(p, "full")
  /\ rotateLock = NoProcess
  /\ rotateLock' = p
  /\ Goes(p, "locked")
  /\ UNCHANGED <<logs, opened, mishaps>>

(* The lock stays taken for too long, or its file cannot be opened.        *)
RotationBusy(p) ==
  /\ In(p, "full")
  /\ Goes(p, "opening")
  /\ UNCHANGED <<logs, rotateLock, opened, mishaps>>

(* Mutant of StillFull: the log is not looked at again under the lock.     *)
StillFullAsSeen == TRUE

StillFull == Full

(* Mutant of FirstShift: the log is moved before the older ones.           *)
FirstShiftYoungest == Shift(0)

FirstShift == Shift(KeptLogs - 1)

DropOldest(p) ==
  /\ In(p, "locked")
  /\ StillFull
  /\ slot' = [slot EXCEPT ![KeptLogs] = NoFile]
  /\ GoesTo(p, FirstShift)
  /\ UNCHANGED <<logged, rotateLock, opened, mishaps>>

(* Mutant of Unlocks: who finds nothing to do keeps the lock.              *)
UnlocksNot == rotateLock

Unlocks == NoProcess

RotatedMeanwhile(p) ==
  /\ In(p, "locked")
  /\ ~StillFull
  /\ rotateLock' = Unlocks
  /\ Goes(p, "opening")
  /\ UNCHANGED <<logs, opened, mishaps>>

NextShift(i) == IF i = 0 THEN Pc("rotated") ELSE Shift(i - 1)

MoveUp(p) ==
  \E i \in 0 .. KeptLogs - 1 :
    /\ proc[p] = Shift(i)
    /\ slot' = IF slot[i] = NoFile THEN slot
               ELSE [slot EXCEPT ![i + 1] = slot[i], ![i] = NoFile]
    /\ GoesTo(p, NextShift(i))
    /\ UNCHANGED <<logged, rotateLock, opened, mishaps>>

(* The rotation is over, or a rename failed and it is given up.            *)
EndRotation(p) ==
  /\ \/ In(p, "rotated")
     \/ \E i \in 0 .. KeptLogs - 1 : proc[p] = Shift(i)
  /\ rotateLock' = NoProcess
  /\ Goes(p, "opening")
  /\ UNCHANGED <<logs, opened, mishaps>>

OpenLog(p) ==
  /\ In(p, "opening")
  /\ IF slot[0] = NoFile
       THEN /\ logged' = Append(logged, {})
            /\ slot' = [slot EXCEPT ![0] = Len(logged')]
       ELSE UNCHANGED logs
  /\ opened' = [opened EXCEPT ![p] = slot'[0]]
  /\ Goes(p, "open")
  /\ UNCHANGED <<rotateLock, mishaps>>

(* The directory cannot be made, or the log in it not opened: a trigger is *)
(* done, a child goes on and logs nothing.                                 *)
CannotOpenLog(p) ==
  /\ In(p, "ready") \/ In(p, "opening")
  /\ Unable(p)
  /\ Goes(p, IF p[2] = "trigger" THEN "done" ELSE "open")
  /\ UNCHANGED <<logs, rotateLock, opened, killed>>

-----------------------------------------------------------------------------
(* Run, and RunChild.                                                      *)

(* An event or a directory that is not one is refused before anything.     *)
RefusesArguments(p) ==
  /\ In(p, "ready") /\ p[2] = "trigger"
  /\ Unable(p)
  /\ Goes(p, "done")
  /\ UNCHANGED <<logs, rotateLock, opened, killed>>

(* A line is written; nobody looks whether it was, or whether there is a   *)
(* log to write it to.                                                     *)
Logs(p) ==
  \/ /\ opened[p] # NoFile
     /\ logged' = [logged EXCEPT ![opened[p]] = @ \union {p}]
     /\ UNCHANGED unlogged
  \/ Unable(p) /\ UNCHANGED logged
  \/ opened[p] = NoFile /\ UNCHANGED <<logged, unlogged>>

(* Only one of the two has a line to log: the trigger when it cannot start *)
(* its child.                                                              *)
Detach(p) ==
  /\ In(p, "open") /\ p[2] = "trigger"
  /\ proc' = [proc EXCEPT ![p] = Pc("done"), ![ChildOf(p)] = Pc("ready")]
  /\ UNCHANGED <<logs, rotateLock, opened, mishaps>>

DetachFails(p) ==
  /\ In(p, "open") /\ p[2] = "trigger"
  /\ Logs(p)
  /\ Goes(p, "done")
  /\ UNCHANGED <<slot, rotateLock, opened, killed>>

(* Nothing to run, or the sync starts.                                     *)
NotRun(p) ==
  /\ In(p, "open") /\ p[2] = "child"
  /\ Logs(p)
  /\ Goes(p, "done")
  /\ UNCHANGED <<slot, rotateLock, opened, killed>>

StartSync(p) ==
  /\ In(p, "open") /\ p[2] = "child"
  /\ Goes(p, "syncing")
  /\ UNCHANGED <<logs, rotateLock, opened, mishaps>>

(* The sync ends, which nothing makes it do but the child's timeout.       *)
SyncEnds(p) ==
  /\ In(p, "syncing")
  /\ Goes(p, "synced")
  /\ UNCHANGED <<logs, rotateLock, opened, mishaps>>

(* Mutant of TimeIsUp: the sync is waited for.                             *)
TimeIsUpNever(p) == FALSE

TimeIsUp(p) == In(p, "syncing")

SyncTimesOut(p) ==
  /\ TimeIsUp(p)
  /\ Goes(p, "synced")
  /\ UNCHANGED <<logs, rotateLock, opened, mishaps>>

LogOutcome(p) ==
  /\ In(p, "synced")
  /\ Logs(p)
  /\ Goes(p, "done")
  /\ UNCHANGED <<slot, rotateLock, opened, killed>>

Kill(p) ==
  /\ ~In(p, "done") /\ ~In(p, "unborn")
  /\ Cardinality(killed) < MaxTriggerKills
  /\ killed' = killed \union {p}
  /\ Goes(p, "done")
  /\ rotateLock' = IF rotateLock = p THEN NoProcess ELSE rotateLock
  /\ UNCHANGED <<logs, opened, unlogged>>

TriggerStep(p) ==
  \/ LookAtLog(p) \/ LockRotation(p) \/ RotationBusy(p) \/ DropOldest(p)
  \/ RotatedMeanwhile(p) \/ MoveUp(p) \/ EndRotation(p) \/ OpenLog(p)
  \/ CannotOpenLog(p) \/ RefusesArguments(p) \/ Detach(p) \/ DetachFails(p)
  \/ NotRun(p) \/ StartSync(p) \/ SyncTimesOut(p) \/ LogOutcome(p)

TriggerNext == \E p \in Processes : TriggerStep(p) \/ SyncEnds(p) \/ Kill(p)

(* A process that runs gets to take its next step, and a timeout fires;    *)
(* the sync itself is not assumed to end.                                  *)
TriggerFairness == \A p \in Processes : WF_triggerVars(TriggerStep(p))

TriggerSpec == TriggerInit /\ [][TriggerNext]_triggerVars /\ TriggerFairness

-----------------------------------------------------------------------------
(* Properties.                                                             *)

(* Types; every open file exists.                                          *)
TriggerTypeOK ==
  /\ \A i \in Slots : slot[i] \in 0 .. Len(logged)
  /\ \A n \in DOMAIN logged : logged[n] \subseteq Processes
  /\ \A p \in Processes : opened[p] \in 0 .. Len(logged)
  /\ rotateLock = NoProcess \/ In(rotateLock, "locked") \/ In(rotateLock, "rotated")
       \/ \E i \in Slots : proc[rotateLock] = Shift(i)

(* A log is only rotated away when it is full, whoever else was about to   *)
(* rotate it (rotateLog: the fresh log is never rotated again).            *)
RotatedWasFull ==
  \A i \in 1 .. KeptLogs : slot[i] # NoFile => Cardinality(logged[slot[i]]) >= LogLimit

(* No two rotations lose each other's log: a file leaves the kept ones     *)
(* only as the oldest of them (rotateLog: none is lost).                   *)
Kept == {slot[i] : i \in Slots} \ {NoFile}
LeavesAsOldest ==
  [][\A n \in Kept : n \notin {slot'[i] : i \in Slots} => slot[KeptLogs] = n]_triggerVars

(* Every start that has begun ends, whether the sync does or not, and has  *)
(* left a line, unless a process of it was killed, was not told a valid    *)
(* event and directory, or could not open or write the log (Run, RunChild).*)
Starts(t) == {<<t, "trigger">>, <<t, "child">>}
Over(t) == \A p \in Starts(t) : In(p, "done") \/ In(p, "unborn")
Logged(t) ==
  \/ \E n \in DOMAIN logged : logged[n] \intersect Starts(t) # {}
  \/ Starts(t) \intersect (killed \union unlogged) # {}
EveryStartIsLogged ==
  \A t \in Triggers : ~In(<<t, "trigger">>, "ready") ~> (Over(t) /\ Logged(t))
=============================================================================
