--------------------------- MODULE RoleChainProofs ---------------------------
(***************************************************************************)
(* Theorems about RoleChain, for any number of processes, any handoffs and *)
(* any bounds.  There is no lock: what carries the argument is that a      *)
(* record admitted once stays admissible, or its place is taken.           *)
(***************************************************************************)
EXTENDS RoleChainProps, SequenceTheorems, TLAPS

-----------------------------------------------------------------------------
(* Lemmas about chains.                                                    *)

ByteRecords ==
  [from : Roles, to : Roles, payload : Payloads, status : Statuses,
   version : HandoffVersions, content : Contents]

(* The digest of a chain of records has the type a record's prev has.      *)
LEMMA DigestType ==
  ASSUME NEW c \in Seq(Records)
  PROVE  Digest(c) \in Seq(ByteRecords)
<1>1. ASSUME NEW i \in 1..Len(c)
      PROVE  Bytes(c[i]) \in ByteRecords
  <2>1. c[i] \in Records
    OBVIOUS
  <2> QED BY <2>1 DEF Records, ByteRecords, Bytes
<1>2. Digest(c) \in [1..Len(c) -> ByteRecords]
  BY <1>1 DEF Digest
<1>3. Len(c) \in Nat
  OBVIOUS
<1> QED BY <1>2, <1>3, SeqDef

(* What is before an earlier place does not depend on what comes later.    *)
LEMMA PrefixFacts ==
  ASSUME NEW c \in Seq(Records), NEW n \in 0..Len(c)
  PROVE  LET m == SubSeq(c, 1, n) IN
         /\ m \in Seq(Records) /\ Len(m) = n
         /\ \A i \in 1..n : m[i] = c[i] /\ Before(m, i) = Before(c, i)
<1> DEFINE m == SubSeq(c, 1, n)
<1>1. m \in Seq(Records) /\ Len(m) = n /\ \A i \in 1..n : m[i] = c[i]
  OBVIOUS
<1>2. ASSUME NEW i \in 1..n
      PROVE  Before(m, i) = Before(c, i)
  <2>1. /\ SubSeq(m, 1, i - 1) \in Seq(Records)
        /\ SubSeq(c, 1, i - 1) \in Seq(Records)
        /\ Len(SubSeq(m, 1, i - 1)) = i - 1
        /\ Len(SubSeq(c, 1, i - 1)) = i - 1
        /\ \A j \in 1..(i - 1) : SubSeq(m, 1, i - 1)[j] = m[j]
        /\ \A j \in 1..(i - 1) : SubSeq(c, 1, i - 1)[j] = c[j]
    BY <1>1
  <2>2. \A j \in 1..(i - 1) : m[j] = c[j]
    BY <1>1
  <2>3. SubSeq(m, 1, i - 1) = SubSeq(c, 1, i - 1)
    BY <2>1, <2>2, SeqEqual
  <2> QED BY <2>3 DEF Before
<1> HIDE DEF m
<1>3. QED BY <1>1, <1>2 DEF m

(* What a power loss leaves of a verified chain is a verified chain.       *)
LEMMA VerifyPrefix ==
  ASSUME NEW c \in Seq(Records), NEW n \in 0..Len(c), VerifyChain(c)
  PROVE  VerifyChain(SubSeq(c, 1, n))
<1> DEFINE m == SubSeq(c, 1, n)
<1>1. /\ m \in Seq(Records) /\ Len(m) = n
      /\ \A i \in 1..n : m[i] = c[i] /\ Before(m, i) = Before(c, i)
  BY PrefixFacts
<1> HIDE DEF m
<1>2. ASSUME NEW i \in 1..n
      PROVE  /\ m[i].seq = i /\ m[i].prev = Digest(Before(m, i))
             /\ IF i = 1 THEN m[1].from \in {"prototyper", "shaper"}
                ELSE Continues(m[i - 1], m[i])
  <2>1. /\ c[i].seq = i /\ c[i].prev = Digest(Before(c, i))
        /\ IF i = 1 THEN c[1].from \in {"prototyper", "shaper"}
           ELSE Continues(c[i - 1], c[i])
    BY DEF VerifyChain
  <2>2. i # 1 => i - 1 \in 1..n
    OBVIOUS
  <2>3. m[i] = c[i] /\ Before(m, i) = Before(c, i) /\ (i # 1 => m[i - 1] = c[i - 1])
    BY <1>1, <2>2
  <2> QED BY <2>1, <2>3
<1>3. VerifyChain(m)
  BY <1>1, <1>2 DEF VerifyChain
<1> QED BY <1>3 DEF m

(* The chain with one record more verifies only if that record names the   *)
(* whole chain before it.                                                  *)
LEMMA AppendedNamesChain ==
  ASSUME NEW c \in Seq(Records), NEW r \in Records, VerifyChain(Append(c, r))
  PROVE  r.seq = Len(c) + 1 /\ r.prev = Digest(c)
<1> DEFINE m == Append(c, r)
<1>1. /\ m \in Seq(Records) /\ Len(m) = Len(c) + 1 /\ m[Len(c) + 1] = r
      /\ \A i \in 1..Len(c) : m[i] = c[i]
  BY AppendProperties
<1>2. SubSeq(m, 1, Len(c)) = c
  <2>1. /\ SubSeq(m, 1, Len(c)) \in Seq(Records)
        /\ Len(SubSeq(m, 1, Len(c))) = Len(c)
        /\ \A i \in 1..Len(c) : SubSeq(m, 1, Len(c))[i] = m[i]
    BY <1>1
  <2> QED BY <1>1, <2>1, SeqEqual
<1>3. Before(m, Len(c) + 1) = c
  BY <1>2 DEF Before
<1>4. Len(c) + 1 \in 1..Len(m)
  BY <1>1
<1>5. m[Len(c) + 1].seq = Len(c) + 1 /\ m[Len(c) + 1].prev = Digest(Before(m, Len(c) + 1))
  BY <1>4 DEF VerifyChain
<1> QED BY <1>1, <1>3, <1>5

-----------------------------------------------------------------------------
(* The inductive invariant.                                                *)

(* A record that was admitted stays admissible: its seq is taken by now, or*)
(* nothing has been added since.  This is why no lock is needed.           *)
AdmittedInv ==
  \A p \in Proc : pc[p] \in {"admitted", "staged"} => AdmitRecord(chain, rec[p])

(* What a process that found its record in place, or put it there, knows.  *)
PlaceInv ==
  \A p \in Proc : pc[p] \in {"linked", "done"} => chain[rec[p].seq] = rec[p]

(* Every record that is on its way says one of the handoffs offered.       *)
Says(r, h, content) ==
  /\ r = Record(h, r.seq, r.prev, content)
  /\ Valid(h) /\ r.seq <= MaxRecords
OfferInv ==
  \A p \in Proc : pc[p] # "idle" =>
    /\ rec[p] \in Records
    /\ \E h \in Handoffs, content \in Contents : Says(rec[p], h, content)

IInv == TypeOK /\ ChainVerifies /\ AdmittedInv /\ PlaceInv /\ OfferInv

(* Initially nothing is stored and nobody is at work.                      *)
LEMMA InitInv == Init => IInv
<1> SUFFICES ASSUME Init PROVE IInv
  OBVIOUS
<1> USE DEF Init
<1>1. chain = <<>> /\ chain \in Seq(Records) /\ Len(chain) = 0
  BY EmptySeq
<1>2. TypeOK
  BY <1>1 DEF TypeOK, PcValues
<1>3. ChainVerifies
  BY <1>1 DEF ChainVerifies, VerifyChain
<1> QED BY <1>2, <1>3 DEF IInv, AdmittedInv, PlaceInv, OfferInv

(* A record that is offered has the type of a record.                      *)
LEMMA OfferStep ==
  ASSUME IInv, NEW p \in Proc, Offer(p)
  PROVE  IInv'
<1> USE DEF Offer, At, Go, IInv
<1>1. PICK h \in Handoffs, content \in Contents, n \in 0..Len(chain), ahead \in 1..2 :
        /\ Valid(h) /\ n + ahead <= MaxRecords
        /\ rec' = [rec EXCEPT ![p] =
                     Record(h, n + ahead, Digest(SubSeq(chain, 1, n)), content)]
  OBVIOUS
<1> DEFINE r == Record(h, n + ahead, Digest(SubSeq(chain, 1, n)), content)
<1>2. chain \in Seq(Records) /\ Len(chain) \in Nat
  BY DEF TypeOK
<1>3. SubSeq(chain, 1, n) \in Seq(Records)
  BY <1>2
<1>4. Digest(SubSeq(chain, 1, n)) \in Seq(ByteRecords)
  BY <1>3, DigestType
<1>5. h \in Handoff /\ n + ahead \in Nat \ {0}
  BY <1>2, HandoffsAssumption
<1>6. r \in Records
  BY <1>4, <1>5 DEF Records, Record, ByteRecords, Handoff
<1>7. r = Record(h, r.seq, r.prev, content) /\ r.seq = n + ahead
  BY DEF Record
<1>8. Says(r, h, content)
  BY <1>1, <1>7 DEF Says
<1> HIDE DEF r
<1>9. /\ rec' = [rec EXCEPT ![p] = r] /\ pc' = [pc EXCEPT ![p] = "offered"]
      /\ UNCHANGED <<chain, firm, losses>>
  BY <1>1 DEF r
<1>10. pc \in [Proc -> PcValues] /\ rec \in [Proc -> Records \union {NoRecord}]
  BY DEF TypeOK
<1>11. \A q \in Proc : /\ q # p => pc'[q] = pc[q] /\ rec'[q] = rec[q]
                       /\ pc'[p] = "offered" /\ rec'[p] = r
  BY <1>9, <1>10
<1>12. TypeOK'
  BY <1>6, <1>9, <1>10, <1>11 DEF TypeOK, PcValues
<1>13. ChainVerifies' /\ AdmittedInv' /\ PlaceInv'
  BY <1>9, <1>11 DEF ChainVerifies, AdmittedInv, PlaceInv
<1>14. OfferInv'
  BY <1>6, <1>8, <1>11 DEF OfferInv
<1> QED BY <1>12, <1>13, <1>14

(* The place of one process changes and that of no other.                  *)
LEMMA Moves ==
  ASSUME TypeOK, NEW p \in Proc, NEW where \in PcValues, Go(p, where)
  PROVE  /\ pc' \in [Proc -> PcValues] /\ pc'[p] = where
         /\ \A q \in Proc : q # p => pc'[q] = pc[q]
BY DEF TypeOK, Go

(* An operation may end at any place: nothing is known of an idle process. *)
LEMMA EndsStep ==
  ASSUME IInv, NEW p \in Proc, Ends(p), UNCHANGED <<chain, firm, losses>>
  PROVE  IInv'
<1> USE DEF IInv
<1>1. /\ pc' \in [Proc -> PcValues] /\ pc'[p] = "idle"
      /\ \A q \in Proc : q # p => pc'[q] = pc[q]
  BY Moves DEF Ends, PcValues
<1>2. /\ rec' \in [Proc -> Records \union {NoRecord}]
      /\ \A q \in Proc : q # p => rec'[q] = rec[q]
  BY DEF Ends, TypeOK
<1>3. TypeOK'
  BY <1>1, <1>2 DEF TypeOK
<1>4. ChainVerifies' /\ AdmittedInv' /\ PlaceInv'
  BY <1>1, <1>2 DEF ChainVerifies, AdmittedInv, PlaceInv
<1>5. OfferInv'
  BY <1>1, <1>2 DEF OfferInv
<1> QED BY <1>3, <1>4, <1>5

(* A process goes on with its record and learns what holds where it is.    *)
LEMMA GoesOnStep ==
  ASSUME IInv, NEW p \in Proc, NEW where \in PcValues, Go(p, where),
         UNCHANGED <<chain, rec, losses>>, firm' \in {firm, Len(chain)},
         pc[p] # "idle",
         where \in {"admitted", "staged"} => AdmitRecord(chain, rec[p]),
         where \in {"taken", "linked", "done"} => rec[p].seq \in 1..Len(chain),
         where \in {"linked", "done"} => chain[rec[p].seq] = rec[p]
  PROVE  IInv'
<1> USE DEF IInv
<1>1. /\ pc' \in [Proc -> PcValues] /\ pc'[p] = where
      /\ \A q \in Proc : q # p => pc'[q] = pc[q]
  BY Moves
<1>2. firm' \in 0..Len(chain)
  BY DEF TypeOK
<1>3. TypeOK'
  BY <1>1, <1>2 DEF TypeOK
<1>4. ChainVerifies' /\ AdmittedInv' /\ PlaceInv'
  BY <1>1 DEF ChainVerifies, AdmittedInv, PlaceInv
<1>5. OfferInv'
  BY <1>1 DEF OfferInv
<1> QED BY <1>3, <1>4, <1>5

(* A record that is linked is the next one of the chain, and verifies.     *)
LEMMA LinkedIsNext ==
  ASSUME IInv, NEW p \in Proc, pc[p] = "staged", ~Stored(p)
  PROVE  /\ chain \in Seq(Records) /\ rec[p] \in Records
         /\ VerifyChain(Append(chain, rec[p]))
         /\ rec[p].seq = Len(chain) + 1 /\ rec[p].prev = Digest(chain)
<1>1. chain \in Seq(Records) /\ rec[p] \in Records /\ AdmitRecord(chain, rec[p])
  BY DEF IInv, TypeOK, OfferInv, AdmittedInv
<1>2. rec[p].seq \in Nat /\ Len(chain) \in Nat
  BY <1>1 DEF Records
<1>3. VerifyChain(Append(chain, rec[p]))
  BY <1>1, <1>2 DEF Stored, AdmitRecord
<1> QED BY <1>1, <1>3, AppendedNamesChain

(* The hard link adds one record.  Whoever wanted the same seq finds it    *)
(* taken, so what was admitted stays admissible.                           *)
LEMMA LinkStep ==
  ASSUME IInv, NEW p \in Proc, pc[p] = "staged", ~Stored(p),
         Go(p, "linked"), chain' = Append(chain, rec[p]),
         UNCHANGED <<firm, rec, losses>>
  PROVE  IInv'
<1> USE DEF IInv
<1>1. /\ chain \in Seq(Records) /\ rec[p] \in Records
      /\ VerifyChain(Append(chain, rec[p]))
      /\ rec[p].seq = Len(chain) + 1
  BY LinkedIsNext
<1>2. /\ chain' \in Seq(Records) /\ Len(chain') = Len(chain) + 1
      /\ Len(chain) \in Nat
      /\ \A i \in 1..Len(chain) : chain'[i] = chain[i]
      /\ chain'[Len(chain) + 1] = rec[p]
  BY <1>1, AppendProperties
<1>3. /\ pc' \in [Proc -> PcValues] /\ pc'[p] = "linked"
      /\ \A q \in Proc : q # p => pc'[q] = pc[q]
  BY Moves DEF PcValues
<1>4. TypeOK'
  <2>1. firm' \in 0..Len(chain')
    BY <1>2 DEF TypeOK
  <2>2. ASSUME NEW q \in Proc, pc'[q] \in {"taken", "linked", "done"}
        PROVE  rec'[q].seq \in 1..Len(chain')
    <3>1. CASE q = p
      BY <3>1, <1>1, <1>2
    <3>2. CASE q # p
      <4>1. rec[q].seq \in 1..Len(chain)
        BY <3>2, <2>2, <1>3 DEF TypeOK
      <4> QED BY <4>1, <1>2
    <3> QED BY <3>1, <3>2
  <2> QED BY <2>1, <2>2, <1>2, <1>3 DEF TypeOK
<1>5. ChainVerifies'
  BY <1>1 DEF ChainVerifies
<1>6. AdmittedInv'
  <2> SUFFICES ASSUME NEW q \in Proc, pc'[q] \in {"admitted", "staged"}
               PROVE  AdmitRecord(chain', rec[q])
    BY DEF AdmittedInv
  <2>1. q # p /\ pc[q] \in {"admitted", "staged"}
    BY <1>3
  <2>2. rec[q] \in Records /\ AdmitRecord(chain, rec[q])
    BY <2>1 DEF AdmittedInv, OfferInv
  <2>3. rec[q].seq \in 1..(Len(chain) + 1)
    BY <2>2, <1>2 DEF AdmitRecord
  <2> QED BY <2>3, <1>2 DEF AdmitRecord
<1>7. PlaceInv'
  <2> SUFFICES ASSUME NEW q \in Proc, pc'[q] \in {"linked", "done"}
               PROVE  chain'[rec[q].seq] = rec[q]
    BY DEF PlaceInv
  <2>1. CASE q = p
    BY <2>1, <1>1, <1>2
  <2>2. CASE q # p
    <3>1. rec[q].seq \in 1..Len(chain) /\ chain[rec[q].seq] = rec[q]
      BY <2>2, <1>3 DEF TypeOK, PlaceInv
    <3> QED BY <3>1, <1>2
  <2> QED BY <2>1, <2>2
<1>8. OfferInv'
  BY <1>3 DEF OfferInv
<1> QED BY <1>4, <1>5, <1>6, <1>7, <1>8

(* A power loss leaves a verified prefix and nobody at work.               *)
LEMMA PowerLossStep ==
  ASSUME IInv, PowerLoss
  PROVE  IInv'
<1> USE DEF IInv
<1>1. PICK n \in firm..Len(chain) : chain' = SubSeq(chain, 1, n) /\ firm' = n
  BY DEF PowerLoss
<1>2. chain \in Seq(Records) /\ n \in 0..Len(chain) /\ losses' \in Nat
  BY DEF TypeOK, PowerLoss
<1>3. chain' \in Seq(Records) /\ Len(chain') = n
  BY <1>1, <1>2, PrefixFacts
<1>4. \A p \in Proc : pc'[p] = "idle" /\ rec'[p] = NoRecord
  BY DEF PowerLoss
<1>5. TypeOK'
  BY <1>1, <1>2, <1>3, <1>4 DEF TypeOK, PowerLoss, PcValues
<1>6. ChainVerifies'
  BY <1>1, <1>2, VerifyPrefix DEF ChainVerifies
<1>7. AdmittedInv' /\ PlaceInv' /\ OfferInv'
  BY <1>4 DEF AdmittedInv, PlaceInv, OfferInv
<1> QED BY <1>5, <1>6, <1>7

(* Every step keeps the invariant.                                         *)
LEMMA InvStep == IInv /\ [Next]_vars => IInv'
<1> SUFFICES ASSUME IInv, [Next]_vars PROVE IInv'
  OBVIOUS
<1>1. ASSUME NEW p \in Proc, Offer(p) PROVE IInv'
  BY <1>1, OfferStep
<1>2. ASSUME NEW p \in Proc, Admit(p) PROVE IInv'
  BY <1>2, EndsStep, GoesOnStep DEF Admit, At, PcValues
<1>3. ASSUME NEW p \in Proc, Look(p) PROVE IInv'
  <2>1. /\ pc[p] = "admitted" /\ AdmitRecord(chain, rec[p]) /\ rec[p] \in Records
        /\ UNCHANGED <<chain, firm, rec, losses>>
    BY <1>3 DEF Look, At, IInv, AdmittedInv, OfferInv
  <2>2. CASE Stored(p)
    <3>1. rec[p].seq \in 1..Len(chain)
      BY <2>1, <2>2 DEF Stored, Records, IInv, TypeOK
    <3> QED BY <1>3, <2>1, <2>2, <3>1, GoesOnStep DEF Look, PcValues
  <2>3. CASE ~Stored(p)
    BY <1>3, <2>1, <2>3, GoesOnStep DEF Look, PcValues
  <2> QED BY <2>2, <2>3
<1>4. ASSUME NEW p \in Proc, Create(p) PROVE IInv'
  <2>1. pc[p] = "staged" /\ rec[p] \in Records
    BY <1>4 DEF Create, At, IInv, OfferInv
  <2>2. CASE Stored(p)
    <3>1. rec[p].seq \in 1..Len(chain)
      BY <2>1, <2>2 DEF Stored, Records, IInv, TypeOK
    <3> QED BY <1>4, <2>1, <2>2, <3>1, GoesOnStep DEF Create, PcValues
  <2>3. CASE ~Stored(p)
    BY <1>4, <2>1, <2>3, LinkStep DEF Create
  <2> QED BY <2>2, <2>3
<1>5. ASSUME NEW p \in Proc, FlushDir(p) PROVE IInv'
  <2>1. /\ pc[p] = "linked" /\ rec[p].seq \in 1..Len(chain)
        /\ chain[rec[p].seq] = rec[p]
    BY <1>5 DEF FlushDir, At, IInv, TypeOK, PlaceInv
  <2> QED BY <1>5, <2>1, GoesOnStep DEF FlushDir, PcValues
<1>6. ASSUME NEW p \in Proc, SameBytes(p) PROVE IInv'
  <2>1. pc[p] = "taken" /\ rec[p].seq \in 1..Len(chain)
    BY <1>6 DEF SameBytes, At, IInv, TypeOK
  <2> QED BY <1>6, <2>1, EndsStep, GoesOnStep DEF SameBytes, PcValues
<1>7. ASSUME NEW p \in Proc, StageFails(p) \/ FlushFails(p) \/ Report(p) \/ Crash(p)
      PROVE  IInv'
  BY <1>7, EndsStep DEF StageFails, FlushFails, Report, Crash
<1>8. CASE PowerLoss
  BY <1>8, PowerLossStep
<1>9. CASE UNCHANGED vars
  <2>1. UNCHANGED <<chain, firm, pc, rec, losses>>
    BY <1>9 DEF vars
  <2> QED BY <2>1 DEF IInv, TypeOK, ChainVerifies, AdmittedInv, PlaceInv, OfferInv
<1> QED BY <1>1, <1>2, <1>3, <1>4, <1>5, <1>6, <1>7, <1>8, <1>9 DEF Next

-----------------------------------------------------------------------------
(* The inductive invariant holds of every behaviour: types, a verified     *)
(* chain, admitted records that stay admissible, and what a process that   *)
(* reports a record knows (filechain.Append, statestore.Publish).          *)
THEOREM SpecInv == Spec => []IInv
<1>1. Init => IInv
  BY InitInv
<1>2. IInv /\ [Next]_vars => IInv'
  BY InvStep
<1> QED BY <1>1, <1>2, PTL DEF Spec

(* Every variable keeps its type, and a process that compares with or has  *)
(* linked a record works on a seq the chain has (statestore.Publish).      *)
THEOREM SpecTypeOK == Spec => []TypeOK
<1>1. IInv => TypeOK
  BY DEF IInv
<1> QED BY <1>1, SpecInv, PTL

(* However many processes append, and however stale what their records     *)
(* were written against, the directory holds one verified chain, with no   *)
(* lock around any of it (filechain.Append).                               *)
THEOREM SpecChainVerifies == Spec => []ChainVerifies
<1>1. IInv => ChainVerifies
  BY DEF IInv
<1> QED BY <1>1, SpecInv, PTL

(* Who is told that a record is stored finds that very record in the chain *)
(* (statestore.Publish, "exactly one wins").                               *)
THEOREM SpecReportedIsStored == Spec => []ReportedIsStored
<1>1. IInv => ReportedIsStored
  BY DEF IInv, PlaceInv, ReportedIsStored
<1> QED BY <1>1, SpecInv, PTL

(* The steps that change the chain: a hard link and a power loss.          *)
LEMMA ChainChanges ==
  ASSUME IInv, [Next]_vars, chain' # chain
  PROVE  \/ \E p \in Proc :
              /\ pc[p] = "staged" /\ ~Stored(p)
              /\ chain' = Append(chain, rec[p]) /\ UNCHANGED losses
         \/ PowerLoss
<1>1. ASSUME NEW p \in Proc, Create(p)
      PROVE  /\ pc[p] = "staged" /\ ~Stored(p)
             /\ chain' = Append(chain, rec[p]) /\ UNCHANGED losses
  BY <1>1 DEF Create, At
<1>2. ASSUME NEW p \in Proc,
             \/ Offer(p) \/ Admit(p) \/ Look(p) \/ StageFails(p) \/ FlushDir(p)
             \/ FlushFails(p) \/ SameBytes(p) \/ Report(p) \/ Crash(p)
      PROVE  FALSE
  BY <1>2 DEF Offer, Admit, Look, StageFails, FlushDir, FlushFails, SameBytes,
     Report, Crash
<1>3. CASE UNCHANGED vars
  BY <1>3 DEF vars
<1> QED BY <1>1, <1>2, <1>3 DEF Next

(* No append replaces or removes a record; a power loss takes none that    *)
(* was flushed (statestore.Publish).                                       *)
THEOREM SpecRecordsAreImmutable == Spec => RecordsAreImmutable
<1> DEFINE Step == \/ IsPrefixOf(chain, chain') /\ Len(chain') = Len(chain) + 1
                   \/ IsPrefixOf(chain', chain) /\ Len(chain') >= firm /\ losses' # losses
<1>1. ASSUME IInv, [Next]_vars, chain' # chain
      PROVE  Step
  <2>1. ASSUME NEW p \in Proc, pc[p] = "staged", ~Stored(p), chain' = Append(chain, rec[p])
        PROVE  Step
    <3>1. chain \in Seq(Records) /\ rec[p] \in Records
      BY <1>1, <2>1, LinkedIsNext
    <3>2. /\ chain' \in Seq(Records) /\ Len(chain') = Len(chain) + 1
          /\ \A i \in 1..Len(chain) : chain'[i] = chain[i]
          /\ Len(chain) \in Nat
      BY <2>1, <3>1, AppendProperties
    <3>3. /\ SubSeq(chain', 1, Len(chain)) \in Seq(Records)
          /\ Len(SubSeq(chain', 1, Len(chain))) = Len(chain)
          /\ \A i \in 1..Len(chain) : SubSeq(chain', 1, Len(chain))[i] = chain'[i]
      BY <3>2
    <3>4. SubSeq(chain', 1, Len(chain)) = chain
      BY <3>1, <3>2, <3>3, SeqEqual
    <3> QED BY <3>2, <3>4 DEF IsPrefixOf
  <2>2. CASE PowerLoss
    <3>1. PICK n \in firm..Len(chain) : chain' = SubSeq(chain, 1, n)
      BY <2>2 DEF PowerLoss
    <3>2. chain \in Seq(Records) /\ firm \in 0..Len(chain) /\ losses \in Nat
      BY <1>1 DEF IInv, TypeOK
    <3>3. n \in 0..Len(chain) /\ Len(chain') = n
      BY <3>1, <3>2, PrefixFacts
    <3>4. losses' # losses
      BY <2>2, <3>2 DEF PowerLoss
    <3> QED BY <3>1, <3>2, <3>3, <3>4 DEF IsPrefixOf
  <2> QED BY <1>1, <2>1, <2>2, ChainChanges
<1>2. IInv /\ [Next]_vars => [Step]_chain
  BY <1>1
<1> QED BY <1>2, SpecInv, PTL DEF Spec, RecordsAreImmutable

-----------------------------------------------------------------------------
(* The refinement.                                                         *)

(* The ledger's rules are those of the chain.                              *)
LEMMA SameRules ==
  /\ \A h : Ledger!Valid(h) <=> Valid(h)
  /\ \A h, seq, prev, content :
       Ledger!Record(h, seq, prev, content) = Record(h, seq, prev, content)
  /\ \A c : Ledger!Digest(c) = Digest(c)
  /\ \A c, r : Ledger!AdmitRecord(c, r) <=> AdmitRecord(c, r)
<1>1. \A h : Ledger!Valid(h) <=> Valid(h)
  BY DEF Ledger!Valid, Valid, Ledger!SkipsReviewer, SkipsReviewer,
     Ledger!IsValidTransition, IsValidTransition, Ledger!Index, Index,
     Ledger!Vocabulary, Vocabulary, Ledger!Optional, Optional
<1>2. \A h, seq, prev, content :
        Ledger!Record(h, seq, prev, content) = Record(h, seq, prev, content)
  BY Zenon DEF Ledger!Record, Record
<1>3. \A c : Ledger!Digest(c) = Digest(c)
  BY Zenon DEF Ledger!Digest, Digest, Ledger!Bytes, Bytes
<1>4. /\ \A c, i : Ledger!Before(c, i) = Before(c, i)
      /\ \A a, b : Ledger!Continues(a, b) <=> Continues(a, b)
  BY DEF Ledger!Before, Before, Ledger!Continues, Continues
<1>5. \A c : Ledger!VerifyChain(c) <=> VerifyChain(c)
  BY <1>3, <1>4 DEF Ledger!VerifyChain, VerifyChain
<1>6. \A c, r : Ledger!AdmitRecord(c, r) <=> AdmitRecord(c, r)
  BY <1>5 DEF Ledger!AdmitRecord, AdmitRecord
<1> QED BY <1>1, <1>2, <1>3, <1>6

(* The processes and their races, files and crashes together are one       *)
(* ledger that verified records are added to one at a time: the hard link  *)
(* extends it and a power loss takes from it (filechain.Append).           *)
THEOREM SpecImplementsLedger == Spec => ImplementsLedger
<1>1. Init => Ledger!LedgerInit
  BY DEF Init, Ledger!LedgerInit
<1>2. ASSUME IInv, [Next]_vars
      PROVE  [Ledger!LedgerNext]_<<chain, losses>>
  <2>1. CASE chain' = chain /\ ~PowerLoss
    <3>1. \A p \in Proc :
            (\/ Offer(p) \/ Admit(p) \/ Look(p) \/ StageFails(p) \/ Create(p)
             \/ FlushDir(p) \/ FlushFails(p) \/ SameBytes(p) \/ Report(p) \/ Crash(p))
            => losses' = losses
      BY DEF Offer, Admit, Look, StageFails, Create, FlushDir, FlushFails,
         SameBytes, Report, Crash
    <3>2. losses' = losses
      BY <1>2, <2>1, <3>1 DEF Next, vars
    <3> QED BY <2>1, <3>2
  <2>2. ASSUME NEW p \in Proc, pc[p] = "staged", ~Stored(p),
               chain' = Append(chain, rec[p]), UNCHANGED losses
        PROVE  Ledger!Extend
    <3>1. /\ chain \in Seq(Records) /\ VerifyChain(Append(chain, rec[p]))
          /\ rec[p].seq = Len(chain) + 1 /\ rec[p].prev = Digest(chain)
      BY <1>2, <2>2, LinkedIsNext
    <3>2. PICK h \in Handoffs, content \in Contents : Says(rec[p], h, content)
      BY <1>2, <2>2 DEF IInv, OfferInv
    <3>3. rec[p] = Record(h, Len(chain) + 1, Digest(chain), content) /\ Valid(h)
      BY <3>1, <3>2 DEF Says
    <3>4. Len(chain) < MaxRecords
      BY <3>1, <3>2, BoundsAssumption DEF Says
    <3>5. AdmitRecord(chain, rec[p])
      BY <3>1 DEF AdmitRecord
    <3> QED BY <2>2, <3>3, <3>4, <3>5, SameRules DEF Ledger!Extend
  <2>3. CASE PowerLoss
    <3>1. firm \in 0..Len(chain) /\ \E n \in firm..Len(chain) : chain' = SubSeq(chain, 1, n)
      BY <1>2, <2>3 DEF PowerLoss, IInv, TypeOK
    <3> QED BY <2>3, <3>1 DEF PowerLoss, Ledger!Lose, Ledger!LedgerNext
  <2> QED BY <1>2, <2>1, <2>2, <2>3, ChainChanges DEF Ledger!LedgerNext
<1> QED
  BY <1>1, <1>2, SpecInv, PTL DEF Spec, ImplementsLedger, Ledger!LedgerSpec
=============================================================================
