--------------------------- MODULE WorkflowLedger ---------------------------
(***************************************************************************)
(* What a workflow's event log promises, with no file, lock or process in  *)
(* it: one ledger that legal events are added to one at a time, of which a *)
(* firm part is never lost.  WorkflowLog implements it.                    *)
(***************************************************************************)
EXTENDS LifecycleRules

VARIABLES
  ledger,   \* the events, oldest first
  firm,     \* how many of them a power loss cannot take back
  restores  \* how often an operator has put an older copy of the file back

ledgerVars == <<ledger, firm, restores>>

(* The program starts on no log or on one an older version left.           *)
LedgerInit ==
  /\ ledger = <<>> \/ Verifies(ledger)
  /\ firm = Len(ledger)
  /\ restores = 0

(* A stage event of a log that carries its profile is the next of the      *)
(* profile's stages.  The admission rules alone do not say so: it holds    *)
(* because no operation builds on a log that is no longer the current one. *)
InOrder(log, e) ==
  (e.kind = "stage_recorded" /\ log[1].version # NameOnly)
     => IsNextStage(log, log[1].order, e.stage)

Extend ==
  LET e == ledger'[Len(ledger')]
  IN  /\ ledger' # <<>>
      /\ ledger' = Append(ledger, e)
      /\ AdmitAppend(ledger, e)
      /\ InOrder(ledger, e)
      /\ UNCHANGED <<firm, restores>>

Settle == firm' = Len(ledger) /\ UNCHANGED <<ledger, restores>>

Rewind(n) == ledger' = SubSeq(ledger, 1, n) /\ firm' = n

(* A power loss takes back events that are not firm, never others.         *)
Lose == (\E n \in firm..Len(ledger) : Rewind(n)) /\ UNCHANGED restores

Restore ==
  /\ \E n \in 0..Len(ledger) : Rewind(n)
  /\ restores' = restores + 1

LedgerNext == Extend \/ Settle \/ Lose \/ Restore
LedgerSpec == LedgerInit /\ [][LedgerNext]_ledgerVars
=============================================================================
