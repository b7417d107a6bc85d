------------------------------- MODULE MCTask -------------------------------
(***************************************************************************)
(* What surrounds one task once it is planned, checked in one run: opening *)
(* it (OpenTask), what its chain of handoffs promises (HandoffLedger), the *)
(* memory its roles may read (MemoryGate), and the receipts of its reviews *)
(* (Receipts).  The parts share no state here, so a behaviour is one of    *)
(* theirs, told by `part`.                                                 *)
(***************************************************************************)
EXTENDS OpenTask, MemoryGate, HandoffLedger, Receipts, TLC

VARIABLE part

(* Every handoff there is, in the newer version; exemptions to the delivery*)
(* only, since to any other role they are handoffs like all others.        *)
AllHandoffs ==
  {h \in Handoff :
     h.version = 2 /\ (h.payload = "review-exemption" => h.to = "delivery")}

-----------------------------------------------------------------------------
TaskInit ==
  /\ part \in {"opening", "memory", "handoffs", "receipts"}
  /\ OpenInit /\ MemoryInit /\ LedgerInit /\ ReceiptInit
  /\ part # "receipts" => active = {} /\ kept = {}

taskVars ==
  <<openVars, memoryVars, chain, losses, receiptVars, part>>

(* What the parts that do not move keep.                                   *)
TaskStill ==
  /\ part # "opening" => UNCHANGED openVars
  /\ part # "memory" => UNCHANGED memoryVars
  /\ part # "handoffs" => UNCHANGED <<chain, losses>>
  /\ part # "receipts" => UNCHANGED receiptVars

TaskNext ==
  /\ UNCHANGED part
  /\ \/ part = "opening" /\ OpenNext
     \/ part = "memory" /\ MemoryNext
     \/ part = "handoffs" /\ LedgerNext
     \/ part = "receipts" /\ ReceiptNext
  /\ TaskStill

TaskSpec == TaskInit /\ [][TaskNext]_taskVars

Symmetry == Permutations(Actors) \union Permutations(Tasks)
              \union Permutations(AllChanges)

TaskTypeOK == OpenTypeOK /\ MemoryTypeOK /\ ReceiptTypeOK

(* The promises of the part that moves; the rest stands still.             *)
OpeningHolds == part = "opening" => OpeningIsSound
MemoryHolds == part = "memory" => MemoryIsNarrowest
HandoffsHold == part = "handoffs" => HandoffsAreSound
ReceiptsHold == part = "receipts" => ReceiptsAreKept
=============================================================================
