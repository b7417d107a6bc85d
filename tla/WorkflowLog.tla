----------------------------- MODULE WorkflowLog -----------------------------
(***************************************************************************)
(* One workflow's event log, and the lifecycle operations that processes   *)
(* of the program run on it at the same time (engine/workflow/lifecycle.go *)
(* over engine/workflow/filelog, which is built on engine/filelock and     *)
(* engine/atomicfile).                                                     *)
(*                                                                         *)
(* An operation loads the log without a lock, builds its event from what   *)
(* it loaded and from the goal and the role chain it reads, and appends    *)
(* it: take the lock or fail, read the log again, admit the event, write   *)
(* the whole new log to a temporary file, rename it into place, flush the  *)
(* directory, free the lock.  A process may stop anywhere; the kernel then *)
(* frees its lock.  The machine may lose power; a rename whose directory   *)
(* was not flushed may then be undone.                                     *)
(***************************************************************************)
EXTENDS LifecycleRules

CONSTANTS
  Proc,          \* processes, each running one operation at a time
  None,          \* holds the lock when no process does
  Orders,        \* the stage orders a catalog may give the profile
  Goals,         \* the digests the goal file may have
  LegacyLogs,    \* logs an older version may have left
  MaxRecords,    \* bound on the role chain records ever written
  MaxChanges     \* bound on what changes outside: goal, chain, catalog,
                 \* power losses, damage, restored files

ASSUME NoneAssumption == None \notin Proc
ASSUME OrdersAssumption ==
  Orders \subseteq Seq(Stages) \ {<<>>} /\ Orders # {}
ASSUME GoalsAssumption == Goals \subseteq Nat \ {0} /\ Goals # {}
ASSUME LegacyAssumption ==
  \A l \in LegacyLogs :
    /\ l \in Seq(Events) /\ Verifies(l)
    /\ l[1].version # NameOnly => StagesFollow(l, l[1].order)
ASSUME BoundsAssumption ==
  MaxRecords \in Nat /\ MaxChanges \in Nat

VARIABLES
  log,       \* the events in the file; <<>>: there is no file
  damaged,   \* the file is not a log of ours: foreign, malformed, drifted or
             \* unreadable; log is then what it held before
  firm,      \* how many events of log survive a power loss
  acked,     \* how many events of log an operation has reported as appended
  restores,  \* how often an operator has put an older copy of the file back
  lock,      \* the process that holds the append lock
  pc,        \* where each process is
  call,      \* the operation it runs, until its event is built
  loaded,    \* the log it loaded, until its event is built
  draft,     \* its event
  staged,    \* the contents of its temporary file
  goal,      \* the digest of the goal file
  chain,     \* the records of the bound role chain
  catalog,   \* the stages the program's catalog gives the profile; <<>>: gone
  changes    \* counts the outside changes

storeVars == <<log, damaged, firm, acked, restores, lock>>
procVars == <<pc, call, loaded, draft, staged>>
outsideVars == <<goal, chain, catalog, changes>>
vars == <<storeVars, procVars, outsideVars>>

NoCall == [kind |-> "none", stage |-> "", outcome |-> ""]
NoEvent == [NewEvent(<<>>, "created") EXCEPT !.version = NameOnly]

Calls ==
  {[NoCall EXCEPT !.kind = k] :
     k \in {"started", "paused", "resumed", "verified", "narrowed"}}
  \union {[NoCall EXCEPT !.kind = "stage_recorded", !.stage = s] : s \in Stages}
  \union {[NoCall EXCEPT !.kind = "closed", !.outcome = o] : o \in Outcomes}

Init ==
  /\ log \in {<<>>} \union LegacyLogs
  /\ damaged = FALSE
  /\ firm = Len(log)
  /\ acked = Len(log)
  /\ restores = 0
  /\ lock = None
  /\ pc = [p \in Proc |-> "idle"]
  /\ call = [p \in Proc |-> NoCall]
  /\ loaded = [p \in Proc |-> <<>>]
  /\ draft = [p \in Proc |-> NoEvent]
  /\ staged = [p \in Proc |-> <<>>]
  /\ goal \in Goals
  /\ chain = <<>>
  /\ catalog \in Orders
  /\ changes = 0

-----------------------------------------------------------------------------
(* Processes move.                                                         *)

At(p, where) == pc[p] = where
Go(p, where) == pc' = [pc EXCEPT ![p] = where]

(* The operation of p ends, or p stops: what it held in memory is gone.    *)
Ends(p) ==
  /\ Go(p, "idle")
  /\ call' = [call EXCEPT ![p] = NoCall]
  /\ loaded' = [loaded EXCEPT ![p] = <<>>]
  /\ draft' = [draft EXCEPT ![p] = NoEvent]
  /\ staged' = [staged EXCEPT ![p] = <<>>]

ChainHead(c) == IF c = <<>> THEN NoHead ELSE c[Len(c)]
Contains(c, head) == \E i \in 1..Len(c) : c[i] = head

(* Create reads the goal, the catalog and the role chain first, and only   *)
(* then looks for a log.                                                   *)
BeginCreate(p) ==
  /\ At(p, "idle")
  /\ catalog # <<>>
  /\ \E head \in {NoHead, ChainHead(chain)} :
       draft' = [draft EXCEPT ![p] =
                   [NewEvent(<<>>, "created") EXCEPT
                      !.order = catalog, !.goal = goal, !.head = head]]
  /\ Go(p, "gathered")
  /\ UNCHANGED <<storeVars, outsideVars, call, loaded, staged>>

LoadForCreate(p) ==
  /\ At(p, "gathered")
  /\ IF log = <<>> /\ ~damaged
     THEN Go(p, "built") /\ UNCHANGED <<call, loaded, draft, staged>>
     ELSE Ends(p)
  /\ UNCHANGED <<storeVars, outsideVars>>

(* loadOwned: every other operation needs a log that is owned.             *)
Begin(p, c) ==
  /\ At(p, "idle")
  /\ ~damaged /\ Owned(log)
  /\ call' = [call EXCEPT ![p] = c]
  /\ loaded' = [loaded EXCEPT ![p] = log]
  /\ Go(p, "loaded")
  /\ UNCHANGED <<storeVars, outsideVars, draft, staged>>

-----------------------------------------------------------------------------
(* Building the event: what each operation checks before it appends.       *)

(* Mutant of OrderFor: the stages the catalog gives today, for every log.  *)
OrderForToday(l) == catalog

(* ProfileOf: the snapshot of the log, else what the catalog gives today.  *)
OrderFor(l) == IF l[1].version = NameOnly THEN catalog ELSE l[1].order

(* Mutant of NarrowMay: the chain need not hold the head recorded last.    *)
NarrowMayAnyChain(l) ==
  /\ l[1].version = Narrowers
  /\ Status(l) # "closed"
  /\ l[1].head # NoHead
  /\ ChainHead(chain) \notin {NoHead, LastRoleChainHead(l)}

NarrowMay(l) ==
  /\ l[1].version = Narrowers
  /\ Status(l) # "closed"
  /\ l[1].head # NoHead
  /\ Contains(chain, LastRoleChainHead(l))
  /\ ChainHead(chain) # LastRoleChainHead(l)

(* Mutant of VerifyMay: the chain need not hold the head bound at creation.*)
VerifyMayAnyChain(l) ==
  /\ StagesFollow(l, OrderFor(l))
  /\ goal = l[1].goal
  /\ l[1].head # NoHead => chain # <<>>

VerifyMay(l) ==
  /\ StagesFollow(l, OrderFor(l))
  /\ goal = l[1].goal
  /\ l[1].head # NoHead => Contains(chain, l[1].head)

(* Abandoning stays possible when the recorded profile is gone.            *)
Proceeds(c, l) ==
  /\ OrderFor(l) = <<>> => c.outcome = "abandoned"
  /\ c.kind = "stage_recorded" => IsNextStage(l, OrderFor(l), c.stage)
  /\ c.kind = "narrowed" => NarrowMay(l)
  /\ c.kind = "verified" => VerifyMay(l)

EventFor(c, l) ==
  [NewEvent(l, c.kind) EXCEPT
     !.stage = c.stage,
     !.outcome = c.outcome,
     !.goal = IF c.kind = "verified" THEN goal ELSE 0,
     !.head = IF \/ c.kind = "narrowed"
                 \/ c.kind = "verified" /\ l[1].head # NoHead
              THEN ChainHead(chain) ELSE NoHead]

Build(p) ==
  /\ At(p, "loaded")
  /\ IF Proceeds(call[p], loaded[p])
     THEN /\ draft' = [draft EXCEPT ![p] = EventFor(call[p], loaded[p])]
          /\ call' = [call EXCEPT ![p] = NoCall]
          /\ loaded' = [loaded EXCEPT ![p] = <<>>]
          /\ Go(p, "built")
          /\ UNCHANGED staged
     ELSE Ends(p)
  /\ UNCHANGED <<storeVars, outsideVars>>

-----------------------------------------------------------------------------
(* Store.Append.                                                           *)

(* Mutant of TakeLock: the lock keeps nobody out.                          *)
TakeLockUnguarded(p) ==
  /\ At(p, "built")
  /\ lock' = p
  /\ Go(p, "locked")
  /\ UNCHANGED <<log, damaged, firm, acked, restores, call, loaded, draft,
                 staged, outsideVars>>

(* One try: a lock another process holds is ErrAppendConflict.             *)
TakeLock(p) ==
  /\ At(p, "built")
  /\ lock = None
  /\ lock' = p
  /\ Go(p, "locked")
  /\ UNCHANGED <<log, damaged, firm, acked, restores, call, loaded, draft,
                 staged, outsideVars>>

(* Mutant of Conflict: an append waits for the lock to come free.          *)
ConflictWaits(p) == FALSE /\ Ends(p)

Conflict(p) ==
  /\ At(p, "built")
  /\ lock # None
  /\ Ends(p)
  /\ UNCHANGED <<storeVars, outsideVars>>

(* ClassifyLog answers absent or owned: the file is a log of ours and not  *)
(* too large to be read.                                                   *)
Accepted == ~damaged /\ Len(log) <= MaxLogEvents

(* Mutants of Stage: the log read under the lock is not classified, or the *)
(* event is not admitted to it.                                            *)
StageUnclassified(p) ==
  /\ At(p, "locked")
  /\ AdmitAppend(log, draft[p])
  /\ staged' = [staged EXCEPT ![p] = Append(log, draft[p])]
  /\ Go(p, "staged")
  /\ UNCHANGED <<storeVars, outsideVars, call, loaded, draft>>

StageUnadmitted(p) ==
  /\ At(p, "locked")
  /\ Accepted
  /\ staged' = [staged EXCEPT ![p] = Append(log, draft[p])]
  /\ Go(p, "staged")
  /\ UNCHANGED <<storeVars, outsideVars, call, loaded, draft>>

(* Read and classify under the lock, admit, and write the temporary file.  *)
Stage(p) ==
  /\ At(p, "locked")
  /\ Accepted /\ AdmitAppend(log, draft[p])
  /\ staged' = [staged EXCEPT ![p] = Append(log, draft[p])]
  /\ Go(p, "staged")
  /\ UNCHANGED <<storeVars, outsideVars, call, loaded, draft>>

(* The event is refused, or the temporary file cannot be written.          *)
Refuse(p) ==
  /\ At(p, "locked")
  /\ Go(p, "failed")
  /\ UNCHANGED <<storeVars, outsideVars, call, loaded, draft, staged>>

(* Mutant of Publish: the temporary file is never renamed over the log.    *)
PublishForgotten(p) ==
  /\ At(p, "staged")
  /\ Go(p, "renamed")
  /\ UNCHANGED <<storeVars, call, loaded, draft, staged, outsideVars>>

Publish(p) ==
  /\ At(p, "staged")
  /\ log' = staged[p]
  /\ Go(p, "renamed")
  /\ UNCHANGED <<damaged, firm, acked, restores, lock, call, loaded, draft,
                 staged, outsideVars>>

PublishFails(p) ==
  /\ At(p, "staged")
  /\ Go(p, "failed")
  /\ UNCHANGED <<storeVars, outsideVars, call, loaded, draft, staged>>

(* Mutant of FlushDir: the directory is not flushed.                       *)
FlushDirSkipped(p) ==
  /\ At(p, "renamed")
  /\ Go(p, "flushed")
  /\ UNCHANGED <<storeVars, call, loaded, draft, staged, outsideVars>>

FlushDir(p) ==
  /\ At(p, "renamed")
  /\ firm' = Len(log)
  /\ Go(p, "flushed")
  /\ UNCHANGED <<log, damaged, acked, restores, lock, call, loaded, draft,
                 staged, outsideVars>>

(* The flush fails after the rename: Append returns the error all the same.*)
FlushFails(p) ==
  /\ At(p, "renamed")
  /\ Go(p, "failed")
  /\ UNCHANGED <<storeVars, outsideVars, call, loaded, draft, staged>>

Succeed(p) ==
  /\ At(p, "flushed")
  /\ lock' = None
  /\ acked' = Len(staged[p])
  /\ Ends(p)
  /\ UNCHANGED <<log, damaged, firm, restores, outsideVars>>

(* Mutant of Fail: a failed append leaves its lock behind.                 *)
FailKeepsLock(p) ==
  /\ At(p, "failed")
  /\ Ends(p)
  /\ UNCHANGED <<storeVars, outsideVars>>

Fail(p) ==
  /\ At(p, "failed")
  /\ lock' = None
  /\ Ends(p)
  /\ UNCHANGED <<log, damaged, firm, acked, restores, outsideVars>>

Crash(p) ==
  /\ ~At(p, "idle")
  /\ lock' = IF lock = p THEN None ELSE lock
  /\ Ends(p)
  /\ UNCHANGED <<log, damaged, firm, acked, restores, outsideVars>>

-----------------------------------------------------------------------------
(* What happens outside the program.                                       *)

Change == changes < MaxChanges /\ changes' = changes + 1

ChangeGoal ==
  /\ Change
  /\ \E g \in Goals \ {goal} : goal' = g
  /\ UNCHANGED <<storeVars, procVars, chain, catalog>>

(* A release of the program may drop the profile or reorder its stages.    *)
ChangeCatalog ==
  /\ Change
  /\ \E o \in (Orders \union {<<>>}) \ {catalog} : catalog' = o
  /\ UNCHANGED <<storeVars, procVars, goal, chain>>

(* A role hands over: the chain gains a record.  Or a chain of the same id *)
(* is put in its place: every record is another one.                       *)
Generation == ChainHead(chain).gen

GrowChain ==
  /\ Len(chain) < MaxRecords
  /\ chain' = Append(chain, [gen |-> IF chain = <<>> THEN 1 ELSE Generation,
                             n |-> Len(chain) + 1])
  /\ UNCHANGED <<storeVars, procVars, goal, catalog, changes>>

ReplaceChain ==
  /\ Change
  /\ chain # <<>>
  /\ \E n \in 1..Len(chain) :
       chain' = [i \in 1..n |-> [gen |-> Generation + 1, n |-> i]]
  /\ UNCHANGED <<storeVars, procVars, goal, catalog>>

(* An operator, or another program, writes the file between appends: the   *)
(* append lock is advisory and binds only this program.                    *)
Damage ==
  /\ Change
  /\ lock = None /\ ~damaged /\ log # <<>>
  /\ damaged' = TRUE
  /\ UNCHANGED <<log, firm, acked, restores, lock, procVars, goal, chain,
                 catalog>>

RestoreFile ==
  /\ Change
  /\ lock = None
  /\ \E n \in 0..Len(log) :
       /\ log' = SubSeq(log, 1, n)
       /\ firm' = n
       /\ acked' = n
  /\ damaged' = FALSE
  /\ restores' = restores + 1
  /\ UNCHANGED <<lock, procVars, goal, chain, catalog>>

(* Every process dies.  Each rename since the last flush of the directory  *)
(* may be lost, the later ones before the earlier.                         *)
PowerLoss ==
  /\ Change
  /\ \E n \in firm..Len(log) : log' = SubSeq(log, 1, n) /\ firm' = n
  /\ lock' = None
  /\ pc' = [p \in Proc |-> "idle"]
  /\ call' = [p \in Proc |-> NoCall]
  /\ loaded' = [p \in Proc |-> <<>>]
  /\ draft' = [p \in Proc |-> NoEvent]
  /\ staged' = [p \in Proc |-> <<>>]
  /\ UNCHANGED <<damaged, acked, restores, goal, chain, catalog>>

-----------------------------------------------------------------------------
AppendStep(p) ==
  \/ TakeLock(p) \/ Conflict(p) \/ Stage(p) \/ Refuse(p)
  \/ Publish(p) \/ PublishFails(p) \/ FlushDir(p) \/ FlushFails(p)
  \/ Succeed(p) \/ Fail(p)

(* What a process does once its operation has begun.                       *)
Continue(p) == LoadForCreate(p) \/ Build(p) \/ AppendStep(p)

Start(p) == BeginCreate(p) \/ \E c \in Calls : Begin(p, c)

Outside ==
  \/ ChangeGoal \/ ChangeCatalog \/ GrowChain \/ ReplaceChain
  \/ Damage \/ RestoreFile \/ PowerLoss

Next == Outside \/ \E p \in Proc : Start(p) \/ Continue(p) \/ Crash(p)

Spec == Init /\ [][Next]_vars

(* An operation that has begun goes on unless its process stops: nothing   *)
(* in it waits for another process.                                        *)
FairSpec == Spec /\ \A p \in Proc : WF_vars(Continue(p))
=============================================================================
