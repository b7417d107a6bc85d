------------------------------ MODULE RoleChain ------------------------------
(***************************************************************************)
(* One role handoff chain on disk and the processes that append to it      *)
(* (engine/roles/filechain over engine/statestore.Publish).  Every record  *)
(* is a file of its own and there is no lock: an append loads the chain    *)
(* and verifies it, admits its record, and hard-links the record's file to *)
(* the name of its seq, which fails when the name is taken.                *)
(*                                                                         *)
(* Directory entries are made in the order of the links, and a power loss  *)
(* takes back a later entry before an earlier one.                         *)
(***************************************************************************)
EXTENDS RoleRules

CONSTANTS
  Proc,        \* processes, each appending one record at a time
  Handoffs,    \* what the records offered may say
  Contents,    \* what else their bytes may hold
  MaxRecords,  \* bound: no record with a later seq is offered
  MaxLosses    \* bound on power losses

ASSUME HandoffsAssumption == Handoffs \subseteq Handoff
ASSUME BoundsAssumption == MaxRecords \in Nat /\ MaxLosses \in Nat

VARIABLES
  chain,   \* the records in the directory, by seq
  firm,    \* how many of them survive a power loss
  pc,      \* where each process is
  rec,     \* the record it appends
  losses   \* counts the power losses

vars == <<chain, firm, pc, rec, losses>>

NoRecord == [seq |-> 0]

Init ==
  /\ chain = <<>>
  /\ firm = 0
  /\ pc = [p \in Proc |-> "idle"]
  /\ rec = [p \in Proc |-> NoRecord]
  /\ losses = 0

At(p, where) == pc[p] = where
Go(p, where) == pc' = [pc EXCEPT ![p] = where]
Ends(p) == Go(p, "idle") /\ rec' = [rec EXCEPT ![p] = NoRecord]
Stored(p) == rec[p].seq <= Len(chain)

(* A record is offered that parses.  Whoever wrote it had read the chain,  *)
(* up to any record of it, or means a record that is there already.        *)
Offer(p) ==
  /\ At(p, "idle")
  /\ \E h \in Handoffs, content \in Contents, n \in 0..Len(chain), ahead \in 1..2 :
       /\ Valid(h)
       /\ n + ahead <= MaxRecords
       /\ rec' = [rec EXCEPT ![p] =
                    Record(h, n + ahead, Digest(SubSeq(chain, 1, n)), content)]
  /\ Go(p, "offered")
  /\ UNCHANGED <<chain, firm, losses>>

(* loadChain and AdmitRecord.                                              *)
Admit(p) ==
  /\ At(p, "offered")
  /\ IF VerifyChain(chain) /\ AdmitRecord(chain, rec[p])
     THEN Go(p, "admitted") /\ UNCHANGED rec
     ELSE Ends(p)
  /\ UNCHANGED <<chain, firm, losses>>

(* Publish: is the name taken already?                                     *)
Look(p) ==
  /\ At(p, "admitted")
  /\ Go(p, IF Stored(p) THEN "taken" ELSE "staged")
  /\ UNCHANGED <<chain, firm, rec, losses>>

StageFails(p) ==
  /\ At(p, "staged")
  /\ Ends(p)
  /\ UNCHANGED <<chain, firm, losses>>

(* Mutants of Create: the record is renamed into place, over one that may  *)
(* be there, or is not put in place at all.                                *)
CreateByRename(p) ==
  /\ At(p, "staged")
  /\ chain' = IF Stored(p) THEN [chain EXCEPT ![rec[p].seq] = rec[p]]
              ELSE Append(chain, rec[p])
  /\ Go(p, "linked")
  /\ UNCHANGED <<firm, rec, losses>>

CreateNothing(p) ==
  /\ At(p, "staged")
  /\ Go(p, "linked")
  /\ UNCHANGED <<chain, firm, rec, losses>>

(* The hard link: a process that lost the race finds the name taken.       *)
Create(p) ==
  /\ At(p, "staged")
  /\ IF Stored(p)
     THEN Go(p, "taken") /\ UNCHANGED chain
     ELSE Go(p, "linked") /\ chain' = Append(chain, rec[p])
  /\ UNCHANGED <<firm, rec, losses>>

FlushDir(p) ==
  /\ At(p, "linked")
  /\ firm' = Len(chain)
  /\ Go(p, "done")
  /\ UNCHANGED <<chain, rec, losses>>

(* The flush fails and the append is reported as failed; the record stays. *)
FlushFails(p) ==
  /\ At(p, "linked")
  /\ Ends(p)
  /\ UNCHANGED <<chain, firm, losses>>

(* Mutant of SameBytes: a record that is there is as good as this one.     *)
SameBytesAssumed(p) ==
  /\ At(p, "taken")
  /\ Go(p, "done")
  /\ UNCHANGED <<chain, firm, rec, losses>>

(* The stored record is the one offered, or the append is refused.         *)
SameBytes(p) ==
  /\ At(p, "taken")
  /\ IF chain[rec[p].seq] = rec[p]
     THEN Go(p, "done") /\ UNCHANGED rec
     ELSE Ends(p)
  /\ UNCHANGED <<chain, firm, losses>>

(* The append is reported as done.                                         *)
Report(p) ==
  /\ At(p, "done")
  /\ Ends(p)
  /\ UNCHANGED <<chain, firm, losses>>

Crash(p) ==
  /\ ~At(p, "idle")
  /\ Ends(p)
  /\ UNCHANGED <<chain, firm, losses>>

PowerLoss ==
  /\ losses < MaxLosses
  /\ losses' = losses + 1
  /\ \E n \in firm..Len(chain) : chain' = SubSeq(chain, 1, n) /\ firm' = n
  /\ pc' = [p \in Proc |-> "idle"]
  /\ rec' = [p \in Proc |-> NoRecord]

Next ==
  \/ \E p \in Proc :
       \/ Offer(p) \/ Admit(p) \/ Look(p) \/ StageFails(p) \/ Create(p)
       \/ FlushDir(p) \/ FlushFails(p) \/ SameBytes(p) \/ Report(p) \/ Crash(p)
  \/ PowerLoss

Spec == Init /\ [][Next]_vars
=============================================================================
