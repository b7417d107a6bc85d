---------------------------- MODULE HandoffLedger ----------------------------
(***************************************************************************)
(* What a role handoff chain promises, with no file or process in it: one  *)
(* chain that records are added to one at a time, each verified with all   *)
(* before it, until the chain is delivered.  RoleChain implements it.      *)
(***************************************************************************)
EXTENDS RoleRules

CONSTANTS
  Handoffs,    \* what the records may say
  Contents,    \* what else their bytes may hold
  MaxRecords,  \* bound on the length of the chain
  MaxLosses    \* bound on power losses

ASSUME RecordsAssumption == Handoffs \subseteq Handoff /\ Contents # {}

VARIABLES chain, losses

LedgerInit == chain = <<>> /\ losses = 0

Extend ==
  /\ Len(chain) < MaxRecords
  /\ \E h \in Handoffs, content \in Contents :
       LET new == Record(h, Len(chain) + 1, Digest(chain), content)
       IN  Valid(h) /\ AdmitRecord(chain, new) /\ chain' = Append(chain, new)
  /\ UNCHANGED losses

(* A power loss takes back the last records.                               *)
Lose ==
  /\ losses < MaxLosses
  /\ losses' = losses + 1
  /\ \E n \in 0..Len(chain) : chain' = SubSeq(chain, 1, n)

LedgerNext == Extend \/ Lose
LedgerSpec == LedgerInit /\ [][LedgerNext]_<<chain, losses>>

-----------------------------------------------------------------------------
(* A chain that has reached delivery went through every mandatory role     *)
(* after the one it began with, by handoffs that were completed, and the   *)
(* reviewer had the last word; an exemption stands in for the reviewer     *)
(* alone (IsValidTransition, SkipsReviewer, VerifyChain).                  *)
Handed(r) == \E i \in 1..Len(chain) : chain[i].to = r /\ chain[i].status = "completed"
Exempted == SkipsReviewer(LastOf(chain))
ReviewedLast ==
  \E i \in 1..(Len(chain) - 1) :
    /\ chain[i].to = "reviewer" /\ chain[i].status = "completed"
    /\ \A j \in (i + 1)..Len(chain) :
         chain[j].from = "reviewer" /\ chain[j].to = "delivery"
DeliveryIsEarned ==
  (chain # <<>> /\ Terminal(chain)) =>
    /\ \A r \in Mandatory :
         Index(r) > Index(chain[1].from) => Handed(r) \/ (r = "reviewer" /\ Exempted)
    /\ Exempted \/ ReviewedLast

(* A chain never gets stuck: until it is delivered some handoff may follow,*)
(* none after that; and after a completed handoff those may that Next      *)
(* names (roles.Next, roles.AdmitRecord).                                  *)
SomeContent == CHOOSE c \in Contents : TRUE
MayFollow(h) ==
  Valid(h) /\ AdmitRecord(chain, Record(h, Len(chain) + 1, Digest(chain), SomeContent))
MayHandTo(to) ==
  \E h \in Handoff : h.to = to /\ h.payload = "work" /\ MayFollow(h)
NeverStuck ==
  chain # <<>> =>
    /\ Terminal(chain) <=> \A h \in Handoff : ~MayFollow(h)
    /\ ~Interrupted(chain) => NextOf(chain) = {to \in Roles : MayHandTo(to)}

(* What a chain promises whoever reads it: it ends well, and it can end    *)
(* (VerifyChain, Next).                                                    *)
HandoffsAreSound == DeliveryIsEarned /\ NeverStuck
=============================================================================
