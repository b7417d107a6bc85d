------------------------------ MODULE RoleRules ------------------------------
(***************************************************************************)
(* The pure half of engine/roles: the closed vocabulary of roles, which    *)
(* role may hand over to which, and when a record continues a chain of     *)
(* handoffs (VerifyChain) and may join it (AdmitRecord).                   *)
(***************************************************************************)
EXTENDS Integers, Sequences, FiniteSets

(* The roles in canonical order; the optional ones may be skipped.         *)
Vocabulary ==
  <<"prototyper", "shaper", "estimator", "builder", "sweeper", "polisher",
    "reviewer", "delivery">>
Optional == {"sweeper", "polisher"}

Roles == {Vocabulary[i] : i \in 1..Len(Vocabulary)}
Mandatory == Roles \ Optional
Index(r) == CHOOSE i \in 1..Len(Vocabulary) : Vocabulary[i] = r

Payloads == {"work", "review-exemption"}
Statuses == {"completed", "interrupted"}
HandoffVersions == {1, 2}

(* What a record says, apart from its place in a chain.                    *)
Handoff ==
  [from : Roles, to : Roles, payload : Payloads, status : Statuses,
   version : HandoffVersions]

IsValidTransition(from, to) ==
  \/ from = "reviewer" /\ to = "builder"
  \/ /\ from # "delivery"
     /\ Index(from) < Index(to)
     /\ \A i \in (Index(from) + 1)..(Index(to) - 1) : Vocabulary[i] \in Optional

SkipsReviewer(h) ==
  /\ h.to = "delivery"
  /\ IsValidTransition(h.from, "reviewer")
  /\ h.payload = "review-exemption"
  /\ h.status = "completed"

(* Mutant of NextRoles: the way back from the reviewer is forgotten.       *)
NextRolesForward(from) ==
  {to \in Roles : IsValidTransition(from, to) /\ Index(from) < Index(to)}

NextRoles(from) == {to \in Roles : IsValidTransition(from, to)}

(* RoleHandoff.Validate, as far as the rules of a chain depend on it.      *)
Valid(h) == IsValidTransition(h.from, h.to) \/ SkipsReviewer(h)

-----------------------------------------------------------------------------
(* Chains.  A record is a handoff with its seq, the digest of the record   *)
(* before it, and content: whatever else its bytes say.  A record's bytes  *)
(* hold the digest of the one before, so the digest of a record stands for *)
(* the chain up to it; SHA-256 is taken to have no collisions.             *)

Bytes(rec) ==
  [from |-> rec.from, to |-> rec.to, payload |-> rec.payload,
   status |-> rec.status, version |-> rec.version, content |-> rec.content]

Record(h, seq, prev, content) ==
  [from |-> h.from, to |-> h.to, payload |-> h.payload, status |-> h.status,
   version |-> h.version, seq |-> seq, prev |-> prev, content |-> content]

Digest(chain) == [i \in 1..Len(chain) |-> Bytes(chain[i])]
Before(chain, i) == SubSeq(chain, 1, i - 1)

(* Mutant of Continues: an interrupted handoff is followed like any other. *)
ContinuesInterrupted(prev, rec) ==
  rec.version >= prev.version /\ rec.from = prev.to /\ prev.to # "delivery"

(* A later record takes over from the one before it; one that follows an   *)
(* interrupted record repeats its transition; none follows a delivery.     *)
Continues(prev, rec) ==
  /\ rec.version >= prev.version
  /\ IF prev.status = "interrupted"
     THEN rec.from = prev.from /\ rec.to = prev.to
     ELSE rec.from = prev.to /\ prev.to # "delivery"

VerifyChain(chain) ==
  \A i \in 1..Len(chain) :
    /\ chain[i].seq = i
    /\ chain[i].prev = Digest(Before(chain, i))
    /\ IF i = 1
       THEN chain[1].from \in {"prototyper", "shaper"}
       ELSE Continues(chain[i - 1], chain[i])

(* Mutant of AdmitRecord: the next record is not verified with the chain.  *)
AdmitRecordUnverified(chain, rec) == rec.seq \in 1..(Len(chain) + 1)

(* A record of a seq the chain has is admitted: the store compares bytes.  *)
AdmitRecord(chain, rec) ==
  \/ rec.seq \in 1..Len(chain)
  \/ rec.seq = Len(chain) + 1 /\ VerifyChain(Append(chain, rec))

-----------------------------------------------------------------------------
(* Resume and Next: where a chain stands.                                  *)

LastOf(chain) == chain[Len(chain)]
Interrupted(chain) == LastOf(chain).status = "interrupted"
Terminal(chain) == LastOf(chain).to = "delivery" /\ ~Interrupted(chain)

NextOf(chain) == IF Terminal(chain) THEN {} ELSE NextRoles(LastOf(chain).to)
=============================================================================
