-------------------------- MODULE WorkflowLogProps --------------------------
(***************************************************************************)
(* The properties of WorkflowLog.                                          *)
(***************************************************************************)
EXTENDS WorkflowLog

PcValues ==
  {"idle", "gathered", "loaded", "built", "locked", "staged", "renamed",
   "flushed", "failed"}

(* Every variable has its type, and the counters of firm and acknowledged  *)
(* events count events of the log (filelog.Store, workflow.Lifecycle).     *)
TypeOK ==
  /\ log \in Seq(Events)
  /\ damaged \in BOOLEAN
  /\ firm \in 0..Len(log)
  /\ acked \in 0..Len(log)
  /\ restores \in Nat
  /\ lock \in Proc \union {None}
  /\ pc \in [Proc -> PcValues]
  /\ call \in [Proc -> Calls \union {NoCall}]
  /\ loaded \in [Proc -> Seq(Events)]
  /\ draft \in [Proc -> Events]
  /\ staged \in [Proc -> Seq(Events)]
  /\ goal \in Goals
  /\ chain \in Seq(RoleHead)
  /\ catalog \in Orders \union {<<>>}
  /\ changes \in Nat

(* Whatever order processes load, build, append and stop in, the file is   *)
(* absent or a log whose hash chain verifies and that replays: no operation*)
(* can leave a log that the next one finds drifted.                        *)
LogVerifies == log = <<>> \/ Verifies(log)

(* A process that will rename its temporary file over the log holds the    *)
(* whole current log in it and one event more: a rename can discard no     *)
(* event of another process (filelog.Store.Append, publish).               *)
InFlight(p) == pc[p] \in {"locked", "staged", "renamed", "flushed", "failed"}
StagedIsCurrent ==
  \A p \in Proc : pc[p] = "staged" =>
    /\ staged[p] = Append(log, draft[p])
    /\ \A q \in Proc \ {p} : ~InFlight(q)

(* A log that carries its profile records that profile's stages, in order, *)
(* none skipped or repeated, however the catalog has changed since and     *)
(* although the append itself never looks at the order (RecordStage).      *)
StageOrder ==
  (log # <<>> /\ log[1].version # NameOnly)
    => StagesFollow(log, log[1].order)

(* What a verified event checked is what the workflow was created with: the*)
(* goal bound at creation, and a role chain that has grown from the record *)
(* bound at creation and is not another of the same id (Verify).           *)
VerifiedAsBound(l) ==
  \A i \in 1..Len(l) : l[i].kind = "verified" =>
    /\ l[i].goal = l[1].goal
    /\ l[i].head.gen = l[1].head.gen
    /\ l[i].head.n >= l[1].head.n

(* Each narrowed event records a later record of one and the same chain    *)
(* than the one before it, and than the one bound at creation (Narrow).    *)
NarrowingAdvances(l) ==
  \A i, j \in 1..Len(l) :
    (i < j /\ l[j].kind = "narrowed" /\ l[i].kind \in {"created", "narrowed"})
      => l[j].head.gen = l[i].head.gen /\ l[j].head.n > l[i].head.n

(* What an event records of the goal and the chain is of one goal and one  *)
(* growing chain all along the log (Verify, Narrow); an older version of   *)
(* the program checked as much.                                            *)
InputsAgree(l) == VerifiedAsBound(l) /\ NarrowingAdvances(l)
InputsAreOne == InputsAgree(log)

ASSUME LegacyInputsAssumption == \A l \in LegacyLogs : InputsAgree(l)

(* An event whose append was reported as done survives a power loss.       *)
AckedIsFirm == acked <= firm

(* No step of the program takes an event back or changes one: the log only *)
(* grows, one event at a time, but for a power loss, which keeps all that  *)
(* is firm, and for an operator who restores a file.                       *)
IsPrefixOf(a, b) == Len(a) <= Len(b) /\ SubSeq(b, 1, Len(a)) = a
AppendOnly ==
  [][ \/ IsPrefixOf(log, log') /\ Len(log') <= Len(log) + 1
      \/ IsPrefixOf(log', log) /\ Len(log') >= firm /\ \A p \in Proc : pc'[p] = "idle"
      \/ restores' # restores ]_log

(* A file that is not a log of ours, or too large to be read, is left as it*)
(* is by every operation.                                                  *)
RefusedIsLeftAlone ==
  [][ ~Accepted => (log' = log /\ damaged' = damaged) \/ changes' # changes
    ]_<<log, damaged>>

(* WorkflowLog keeps every promise of the abstract ledger.                 *)
Ledger == INSTANCE WorkflowLedger WITH ledger <- log
ImplementsLedger == Ledger!LedgerSpec

(* An operation that has begun ends: no lock is left behind by a process   *)
(* that stopped, and a busy lock is refused, not waited for.               *)
OperationsEnd == \A p \in Proc : (pc[p] # "idle") ~> (pc[p] = "idle")
LockComesFree == \A p \in Proc : (lock = p) ~> (lock # p)
=============================================================================
