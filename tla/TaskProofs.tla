------------------------------ MODULE TaskProofs ------------------------------
(***************************************************************************)
(* Theorems about what surrounds a task: the receipts of its reviews       *)
(* (Receipts), what its chain of handoffs promises (HandoffLedger), opening*)
(* it (OpenTask) and the memory its roles may read (MemoryGate), for any   *)
(* agents, openers, tasks, documents, records, sources and bounds, and the *)
(* same for the composition MCTask.                                        *)
(***************************************************************************)
EXTENDS MCTask, FiniteSetTheorems, SequenceTheorems, TLAPS

-----------------------------------------------------------------------------
(* Handoffs.  The roles in canonical order, and what a transition passes.  *)
LEMMA RolesInOrder ==
  /\ Len(Vocabulary) = 8 /\ \A i \in 1..8 : Vocabulary[i] \in Roles
  /\ \A r \in Roles : Index(r) \in 1..8 /\ Vocabulary[Index(r)] = r
  /\ \A i \in 1..8 : Index(Vocabulary[i]) = i
<1>1. PICK v : v = Vocabulary
  OBVIOUS
<1>2. v = <<"prototyper", "shaper", "estimator", "builder", "sweeper", "polisher",
            "reviewer", "delivery">>
  BY <1>1 DEF Vocabulary
<1>3. Len(v) = 8 /\ \A i, j \in 1..8 : v[i] = v[j] => i = j
  <2>1. /\ Len(v) = 8 /\ v[1] = "prototyper" /\ v[2] = "shaper" /\ v[3] = "estimator"
        /\ v[4] = "builder" /\ v[5] = "sweeper" /\ v[6] = "polisher" /\ v[7] = "reviewer"
        /\ v[8] = "delivery"
    BY <1>2
  <2>2. ASSUME NEW i \in 1..8, NEW j \in 1..8, v[i] = v[j] PROVE i = j
    <3>1. i \in {1, 2, 3, 4, 5, 6, 7, 8} /\ j \in {1, 2, 3, 4, 5, 6, 7, 8}
      OBVIOUS
    <3> QED BY <2>1, <2>2, <3>1
  <2> QED BY <2>1, <2>2
<1>4. Roles = {v[i] : i \in 1..8}
  BY <1>1, <1>3 DEF Roles
<1>5. ASSUME NEW i \in 1..8 PROVE Index(v[i]) = i
  BY <1>1, <1>3 DEF Index
<1>6. ASSUME NEW r \in Roles PROVE Index(r) \in 1..8 /\ v[Index(r)] = r
  <2>1. PICK i \in 1..8 : r = v[i]
    BY <1>4
  <2> QED BY <1>5, <2>1
<1> QED BY <1>1, <1>3, <1>4, <1>5, <1>6

LEMMA SomeIndexes ==
  /\ Index("reviewer") = 7 /\ Index("delivery") = 8 /\ Index("builder") = 4
  /\ {"reviewer", "delivery", "builder"} \subseteq Mandatory /\ Mandatory \subseteq Roles
<1>1. Vocabulary[7] = "reviewer" /\ Vocabulary[8] = "delivery" /\ Vocabulary[4] = "builder"
  BY DEF Vocabulary
<1>2. Index("reviewer") = 7 /\ Index("delivery") = 8 /\ Index("builder") = 4
  BY <1>1, RolesInOrder
<1>3. {"reviewer", "delivery", "builder"} \subseteq Roles
  BY <1>1, RolesInOrder
<1> QED BY <1>2, <1>3 DEF Mandatory, Optional

(* A transition leads back to the builder, or on, past no mandatory role.  *)
LEMMA TransitionPasses ==
  ASSUME NEW from \in Roles, NEW to \in Roles, IsValidTransition(from, to)
  PROVE  /\ from # "delivery"
         /\ \/ from = "reviewer" /\ to = "builder"
            \/ /\ Index(from) < Index(to)
               /\ \A r \in Mandatory : Index(r) <= Index(from) \/ Index(to) <= Index(r)
<1>1. CASE from = "reviewer" /\ to = "builder"
  BY <1>1
<1>2. CASE /\ from # "delivery" /\ Index(from) < Index(to)
           /\ \A i \in (Index(from) + 1)..(Index(to) - 1) : Vocabulary[i] \in Optional
  <2>1. ASSUME NEW r \in Mandatory, Index(from) < Index(r), Index(r) < Index(to)
        PROVE  FALSE
    <3>1. r \in Roles /\ r \notin Optional
      BY DEF Mandatory
    <3>2. Index(r) \in 1..8 /\ Index(from) \in 1..8 /\ Index(to) \in 1..8
          /\ Vocabulary[Index(r)] = r
      BY <3>1, RolesInOrder
    <3>3. Index(r) \in (Index(from) + 1)..(Index(to) - 1)
      BY <2>1, <3>2
    <3> QED BY <1>2, <3>1, <3>2, <3>3
  <2>2. \A r \in Mandatory : Index(r) \in 1..8
    BY RolesInOrder DEF Mandatory
  <2>3. Index(from) \in 1..8 /\ Index(to) \in 1..8
    BY RolesInOrder
  <2>4. \A r \in Mandatory : Index(r) <= Index(from) \/ Index(to) <= Index(r)
    BY <2>1, <2>2, <2>3
  <2> QED BY <1>2, <2>4
<1> QED BY <1>1, <1>2 DEF IsValidTransition

(* From every role but the last the next one in order can be reached.      *)
LEMMA SomeTransition ==
  ASSUME NEW from \in Roles, from # "delivery"
  PROVE  \E to \in Roles : IsValidTransition(from, to)
<1>1. Index(from) \in 1..8 /\ Vocabulary[Index(from)] = from
  BY RolesInOrder
<1>2. Index(from) # 8
  <2>1. Vocabulary[8] = "delivery"
    BY DEF Vocabulary
  <2> QED BY <1>1, <2>1
<1>3. PICK i : i = Index(from) + 1
  OBVIOUS
<1>4. i \in 1..8 /\ Vocabulary[i] \in Roles /\ Index(Vocabulary[i]) = i
  BY <1>1, <1>2, <1>3, RolesInOrder
<1>5. (Index(from) + 1)..(i - 1) = {}
  BY <1>1, <1>3
<1>6. IsValidTransition(from, Vocabulary[i])
  BY <1>1, <1>3, <1>4, <1>5 DEF IsValidTransition
<1> QED BY <1>4, <1>6

-----------------------------------------------------------------------------
(* Chains, and what holds of every record of one.                          *)
HandoffBytes ==
  [from : Roles, to : Roles, payload : Payloads, status : Statuses,
   version : HandoffVersions, content : Contents]
LedgerRecords ==
  [from : Roles, to : Roles, payload : Payloads, status : Statuses,
   version : HandoffVersions, seq : Nat, prev : Seq(HandoffBytes), content : Contents]

(* Every mandatory role from the first record's on was handed to before a  *)
(* record that comes from it or from a later one; what comes from the      *)
(* reviewer comes right after the review.                                  *)
Reached(c, n) ==
  \A r \in Mandatory :
    Index(c[1].from) < Index(r) /\ Index(r) <= Index(c[n].from) =>
      \E i \in 1..(n - 1) : c[i].to = r /\ c[i].status = "completed"
Reviewed(c, n) ==
  c[n].from = "reviewer" =>
    \E i \in 1..(n - 1) :
      /\ c[i].to = "reviewer" /\ c[i].status = "completed"
      /\ \A j \in (i + 1)..n : c[j].from = "reviewer" /\ c[j].to = c[n].to
Sound(c, n) == Valid(c[n]) /\ Reached(c, n) /\ Reviewed(c, n)

LedgerInv ==
  /\ chain \in Seq(LedgerRecords) /\ VerifyChain(chain)
  /\ \A n \in 1..Len(chain) : Sound(chain, n)

LEMMA LedgerDigest ==
  ASSUME NEW c \in Seq(LedgerRecords)
  PROVE  Digest(c) \in Seq(HandoffBytes)
<1>1. ASSUME NEW i \in 1..Len(c) PROVE Bytes(c[i]) \in HandoffBytes
  <2>1. c[i] \in LedgerRecords
    OBVIOUS
  <2> QED BY <2>1 DEF LedgerRecords, HandoffBytes, Bytes
<1>2. Digest(c) \in [1..Len(c) -> HandoffBytes]
  BY <1>1 DEF Digest
<1>3. Len(c) \in Nat
  OBVIOUS
<1> QED BY <1>2, <1>3, SeqDef

(* Two chains that agree up to a place agree on what is before it.         *)
LEMMA SameBefore ==
  ASSUME NEW c \in Seq(LedgerRecords), NEW m \in Seq(LedgerRecords), NEW n \in Nat,
         n <= Len(c), n <= Len(m), \A i \in 1..n : m[i] = c[i]
  PROVE  \A i \in 1..(n + 1) : Before(m, i) = Before(c, i)
<1> SUFFICES ASSUME NEW i \in 1..(n + 1) PROVE Before(m, i) = Before(c, i)
  OBVIOUS
<1>1. /\ SubSeq(m, 1, i - 1) \in Seq(LedgerRecords) /\ SubSeq(c, 1, i - 1) \in Seq(LedgerRecords)
      /\ Len(SubSeq(m, 1, i - 1)) = i - 1 /\ Len(SubSeq(c, 1, i - 1)) = i - 1
      /\ \A j \in 1..(i - 1) : SubSeq(m, 1, i - 1)[j] = m[j]
      /\ \A j \in 1..(i - 1) : SubSeq(c, 1, i - 1)[j] = c[j]
  OBVIOUS
<1>2. SubSeq(m, 1, i - 1) = SubSeq(c, 1, i - 1)
  BY <1>1, SeqEqual
<1> QED BY <1>2 DEF Before

LEMMA PrefixSound ==
  ASSUME NEW c \in Seq(LedgerRecords), NEW n \in 0..Len(c), VerifyChain(c),
         \A k \in 1..Len(c) : Sound(c, k)
  PROVE  LET m == SubSeq(c, 1, n)
         IN  m \in Seq(LedgerRecords) /\ VerifyChain(m) /\ \A k \in 1..Len(m) : Sound(m, k)
<1>1. PICK m : m = SubSeq(c, 1, n)
  OBVIOUS
<1>2. m \in Seq(LedgerRecords) /\ Len(m) = n /\ \A i \in 1..n : m[i] = c[i]
  BY <1>1
<1>3. \A i \in 1..n : Before(m, i) = Before(c, i)
  BY <1>2, SameBefore
<1>4. ASSUME NEW i \in 1..n
      PROVE  /\ m[i].seq = i /\ m[i].prev = Digest(Before(m, i))
             /\ IF i = 1 THEN m[1].from \in {"prototyper", "shaper"}
                ELSE Continues(m[i - 1], m[i])
  <2>1. /\ c[i].seq = i /\ c[i].prev = Digest(Before(c, i))
        /\ IF i = 1 THEN c[1].from \in {"prototyper", "shaper"}
           ELSE Continues(c[i - 1], c[i])
    BY DEF VerifyChain
  <2>2. i # 1 => i - 1 \in 1..n
    OBVIOUS
  <2>3. m[i] = c[i] /\ Before(m, i) = Before(c, i) /\ (i # 1 => m[i - 1] = c[i - 1])
    BY <1>2, <1>3, <2>2
  <2> QED BY <2>1, <2>3
<1>5. VerifyChain(m)
  BY <1>2, <1>4 DEF VerifyChain
<1>6. ASSUME NEW k \in 1..n PROVE Sound(m, k)
  <2>1. Sound(c, k) /\ m[k] = c[k] /\ m[1] = c[1]
    BY <1>2
  <2>2. \A i \in 1..k : m[i] = c[i]
    BY <1>2
  <2>3. Valid(m[k])
    BY <2>1 DEF Sound
  <2>4. Reached(m, k)
    BY <2>1, <2>2 DEF Sound, Reached
  <2>5. Reviewed(m, k)
    <3> SUFFICES ASSUME m[k].from = "reviewer"
                 PROVE  \E i \in 1..(k - 1) :
                          /\ m[i].to = "reviewer" /\ m[i].status = "completed"
                          /\ \A j \in (i + 1)..k : m[j].from = "reviewer" /\ m[j].to = m[k].to
      BY DEF Reviewed
    <3>1. PICK i \in 1..(k - 1) :
             /\ c[i].to = "reviewer" /\ c[i].status = "completed"
             /\ \A j \in (i + 1)..k : c[j].from = "reviewer" /\ c[j].to = c[k].to
      BY <2>1 DEF Sound, Reviewed
    <3>2. i \in 1..k /\ \A j \in (i + 1)..k : j \in 1..k
      OBVIOUS
    <3> QED BY <2>1, <2>2, <3>1, <3>2
  <2> QED BY <2>3, <2>4, <2>5 DEF Sound
<1> QED BY <1>1, <1>2, <1>5, <1>6

(* When a record joins a chain.                                            *)
LEMMA JoinsChain ==
  ASSUME NEW c \in Seq(LedgerRecords), NEW r \in LedgerRecords, VerifyChain(c)
  PROVE  VerifyChain(Append(c, r)) <=>
           /\ r.seq = Len(c) + 1 /\ r.prev = Digest(c)
           /\ IF c = <<>> THEN r.from \in {"prototyper", "shaper"} ELSE Continues(c[Len(c)], r)
<1>1. PICK m : m = Append(c, r)
  OBVIOUS
<1>2. PICK n \in Nat : n = Len(c)
  OBVIOUS
<1>3. /\ m \in Seq(LedgerRecords) /\ Len(m) = n + 1 /\ m[n + 1] = r
      /\ \A i \in 1..n : m[i] = c[i]
  BY <1>1, <1>2, AppendProperties
<1>4. \A i \in 1..(n + 1) : Before(m, i) = Before(c, i)
  BY <1>2, <1>3, SameBefore
<1>5. Before(c, n + 1) = c
  <2>1. SubSeq(c, 1, n) \in Seq(LedgerRecords) /\ Len(SubSeq(c, 1, n)) = n
        /\ \A j \in 1..n : SubSeq(c, 1, n)[j] = c[j]
    BY <1>2
  <2>2. SubSeq(c, 1, n) = c
    BY <1>2, <2>1, SeqEqual
  <2> QED BY <2>2 DEF Before
<1>6. c = <<>> <=> n = 0
  BY <1>2, EmptySeq
<1> DEFINE Fits(k) ==
      /\ m[k].seq = k /\ m[k].prev = Digest(Before(m, k))
      /\ IF k = 1 THEN m[1].from \in {"prototyper", "shaper"} ELSE Continues(m[k - 1], m[k])
<1>7. VerifyChain(m) <=> \A k \in 1..(n + 1) : Fits(k)
  BY <1>3 DEF VerifyChain
<1>8. \A k \in 1..n : Fits(k)
  <2> SUFFICES ASSUME NEW k \in 1..n PROVE Fits(k)
    OBVIOUS
  <2>1. /\ c[k].seq = k /\ c[k].prev = Digest(Before(c, k))
        /\ IF k = 1 THEN c[1].from \in {"prototyper", "shaper"} ELSE Continues(c[k - 1], c[k])
    BY <1>2 DEF VerifyChain
  <2>2. k # 1 => k - 1 \in 1..n
    OBVIOUS
  <2>3. m[k] = c[k] /\ Before(m, k) = Before(c, k) /\ (k # 1 => m[k - 1] = c[k - 1])
    BY <1>3, <1>4, <2>2
  <2>4. n >= 1 => 1 \in 1..n
    OBVIOUS
  <2> QED BY <1>3, <2>1, <2>3, <2>4
<1>9. Fits(n + 1) <=>
        /\ r.seq = n + 1 /\ r.prev = Digest(c)
        /\ IF n = 0 THEN r.from \in {"prototyper", "shaper"} ELSE Continues(c[n], r)
  <2>1. n # 0 => (n + 1 # 1 /\ (n + 1) - 1 = n /\ m[n] = c[n])
    BY <1>3
  <2>2. Before(m, n + 1) = c /\ m[n + 1] = r
    BY <1>3, <1>4, <1>5
  <2> QED BY <2>1, <2>2
<1>10. \A k \in 1..(n + 1) : k \in 1..n \/ k = n + 1
  OBVIOUS
<1> HIDE DEF Fits
<1> QED BY <1>1, <1>2, <1>6, <1>7, <1>8, <1>9, <1>10

-----------------------------------------------------------------------------
(* A record that joins a sound chain is sound.                             *)
LEMMA LedgerRecordKnown ==
  ASSUME NEW h \in Handoff, NEW seq \in Nat, NEW prev \in Seq(HandoffBytes),
         NEW content \in Contents, NEW r, r = Record(h, seq, prev, content)
  PROVE  /\ r \in LedgerRecords /\ r.from = h.from /\ r.to = h.to /\ r.payload = h.payload
         /\ r.status = h.status /\ r.version = h.version /\ r.seq = seq /\ r.prev = prev
BY DEF Record, LedgerRecords, Handoff

LEMMA SameRules ==
  ASSUME NEW h, NEW r, r.from = h.from, r.to = h.to, r.payload = h.payload,
         r.status = h.status
  PROVE  (Valid(r) <=> Valid(h)) /\ (SkipsReviewer(r) <=> SkipsReviewer(h))
BY DEF Valid, SkipsReviewer

(* What a valid record passes over, if it is completed and not a delivery. *)
LEMMA ReachesOn ==
  ASSUME NEW c \in Seq(LedgerRecords), NEW n \in 1..Len(c), Valid(c[n]), Reached(c, n),
         c[n].status = "completed", c[n].to # "delivery",
         NEW r \in Mandatory, Index(c[1].from) < Index(r), Index(r) <= Index(c[n].to)
  PROVE  \E i \in 1..n : c[i].to = r /\ c[i].status = "completed"
<1>1. c[n] \in LedgerRecords /\ c[1] \in LedgerRecords
  OBVIOUS
<1>2. c[n].from \in Roles /\ c[n].to \in Roles /\ r \in Roles /\ c[1].from \in Roles
  BY <1>1 DEF LedgerRecords, Mandatory
<1>3. IsValidTransition(c[n].from, c[n].to)
  BY DEF Valid, SkipsReviewer
<1>4. /\ Index(r) \in 1..8 /\ Vocabulary[Index(r)] = r /\ Index(c[n].from) \in 1..8
      /\ Index(c[n].to) \in 1..8 /\ Vocabulary[Index(c[n].to)] = c[n].to
  BY <1>2, RolesInOrder
<1>5. CASE Index(r) <= Index(c[n].from)
  <2>1. \E i \in 1..(n - 1) : c[i].to = r /\ c[i].status = "completed"
    BY <1>5 DEF Reached
  <2> QED BY <2>1
<1>6. CASE ~(Index(r) <= Index(c[n].from))
  <2>1. ~(c[n].from = "reviewer" /\ c[n].to = "builder")
    <3> SUFFICES ASSUME c[n].from = "reviewer", c[n].to = "builder" PROVE FALSE
      OBVIOUS
    <3>1. Index(r) <= 4 /\ ~(Index(r) <= 7) /\ Index(r) \in 1..8
      BY <1>4, <1>6, SomeIndexes
    <3> QED BY <3>1
  <2>2. Index(c[n].to) <= Index(r)
    BY <1>2, <1>3, <1>6, <2>1, TransitionPasses
  <2>3. r = c[n].to
    BY <1>4, <2>2
  <2> QED BY <2>3
<1> QED BY <1>5, <1>6

LEMMA ExtendSound ==
  ASSUME NEW c \in Seq(LedgerRecords), VerifyChain(c), \A k \in 1..Len(c) : Sound(c, k),
         NEW r \in LedgerRecords, Valid(r), VerifyChain(Append(c, r))
  PROVE  LET m == Append(c, r) IN \A k \in 1..Len(m) : Sound(m, k)
<1>1. PICK m : m = Append(c, r)
  OBVIOUS
<1>2. PICK n \in Nat : n = Len(c)
  OBVIOUS
<1>3. /\ m \in Seq(LedgerRecords) /\ Len(m) = n + 1 /\ m[n + 1] = r
      /\ \A i \in 1..n : m[i] = c[i]
  BY <1>1, <1>2, AppendProperties
<1>4. IF n = 0 THEN r.from \in {"prototyper", "shaper"} ELSE Continues(c[n], r)
  BY <1>2, JoinsChain, EmptySeq
<1>5. ASSUME NEW k \in 1..n PROVE Sound(m, k)
  <2>1. Sound(c, k)
    BY <1>2
  <2>2. \A i \in 1..k : m[i] = c[i]
    BY <1>3
  <2>3. m[k] = c[k] /\ m[1] = c[1]
    BY <2>2
  <2>4. Valid(m[k]) /\ Reached(m, k)
    BY <2>1, <2>2, <2>3 DEF Sound, Reached
  <2>5. Reviewed(m, k)
    <3> SUFFICES ASSUME m[k].from = "reviewer"
                 PROVE  \E i \in 1..(k - 1) :
                          /\ m[i].to = "reviewer" /\ m[i].status = "completed"
                          /\ \A j \in (i + 1)..k : m[j].from = "reviewer" /\ m[j].to = m[k].to
      BY DEF Reviewed
    <3>1. PICK i \in 1..(k - 1) :
             /\ c[i].to = "reviewer" /\ c[i].status = "completed"
             /\ \A j \in (i + 1)..k : c[j].from = "reviewer" /\ c[j].to = c[k].to
      BY <2>1, <2>3 DEF Sound, Reviewed
    <3>2. i \in 1..k /\ \A j \in (i + 1)..k : j \in 1..k
      OBVIOUS
    <3> QED BY <2>2, <2>3, <3>1, <3>2
  <2> QED BY <2>4, <2>5 DEF Sound
<1>6. Reached(m, n + 1)
  <2> SUFFICES ASSUME NEW q \in Mandatory, Index(m[1].from) < Index(q), Index(q) <= Index(r.from)
               PROVE  \E i \in 1..n : m[i].to = q /\ m[i].status = "completed"
    BY <1>3 DEF Reached
  <2>1. n # 0
    <3>1. m[1].from \in Roles /\ q \in Roles
      <4>1. m[1] \in LedgerRecords
        BY <1>3
      <4> QED BY <4>1 DEF LedgerRecords, Mandatory
    <3>2. Index(m[1].from) \in 1..8 /\ Index(q) \in 1..8
      BY <3>1, RolesInOrder
    <3>3. n = 0 => m[1] = r
      BY <1>3
    <3> QED BY <3>2, <3>3
  <2>2. /\ Continues(c[n], r) /\ n \in 1..Len(c) /\ m[1] = c[1] /\ Sound(c, n)
        /\ c[n].status \in {"completed", "interrupted"}
    <3>1. n \in 1..Len(c) /\ c[n] \in LedgerRecords /\ m[1] = c[1]
      BY <1>2, <1>3, <2>1
    <3> QED BY <1>4, <2>1, <3>1 DEF LedgerRecords, Statuses
  <2>3. CASE c[n].status = "interrupted"
    <3>1. r.from = c[n].from
      BY <2>2, <2>3 DEF Continues
    <3>2. \E i \in 1..(n - 1) : c[i].to = q /\ c[i].status = "completed"
      BY <2>2, <3>1 DEF Sound, Reached
    <3> QED BY <1>3, <3>2
  <2>4. CASE c[n].status = "completed"
    <3>1. r.from = c[n].to /\ c[n].to # "delivery"
      BY <2>2, <2>4 DEF Continues
    <3>2. \E i \in 1..n : c[i].to = q /\ c[i].status = "completed"
      BY <2>2, <2>4, <3>1, ReachesOn DEF Sound
    <3> QED BY <1>3, <3>2
  <2> QED BY <2>2, <2>3, <2>4
<1>7. Reviewed(m, n + 1)
  <2> SUFFICES ASSUME r.from = "reviewer"
               PROVE  \E i \in 1..n :
                        /\ m[i].to = "reviewer" /\ m[i].status = "completed"
                        /\ \A j \in (i + 1)..(n + 1) : m[j].from = "reviewer" /\ m[j].to = r.to
    BY <1>3 DEF Reviewed
  <2>1. n # 0
    BY <1>4
  <2>2. /\ Continues(c[n], r) /\ n \in 1..Len(c) /\ Sound(c, n) /\ m[n] = c[n]
        /\ c[n].status \in {"completed", "interrupted"}
    <3>1. n \in 1..Len(c) /\ c[n] \in LedgerRecords /\ m[n] = c[n]
      BY <1>2, <1>3, <2>1
    <3> QED BY <1>4, <2>1, <3>1 DEF LedgerRecords, Statuses
  <2>3. CASE c[n].status = "interrupted"
    <3>1. c[n].from = "reviewer" /\ r.to = c[n].to
      BY <2>2, <2>3 DEF Continues
    <3>2. PICK i \in 1..(n - 1) :
             /\ c[i].to = "reviewer" /\ c[i].status = "completed"
             /\ \A j \in (i + 1)..n : c[j].from = "reviewer" /\ c[j].to = c[n].to
      BY <2>2, <3>1 DEF Sound, Reviewed
    <3>3. i \in 1..n /\ \A j \in (i + 1)..(n + 1) : j = n + 1 \/ (j \in (i + 1)..n /\ j \in 1..n)
      OBVIOUS
    <3> QED BY <1>3, <3>1, <3>2, <3>3
  <2>4. CASE c[n].status = "completed"
    <3>1. c[n].to = "reviewer"
      BY <2>2, <2>4 DEF Continues
    <3>2. n \in 1..n /\ \A j \in (n + 1)..(n + 1) : m[j] = r
      BY <1>3, <2>1
    <3> QED BY <2>2, <2>4, <3>1, <3>2
  <2> QED BY <2>2, <2>3, <2>4
<1>8. Sound(m, n + 1)
  BY <1>3, <1>6, <1>7 DEF Sound
<1>9. \A k \in 1..(n + 1) : k \in 1..n \/ k = n + 1
  OBVIOUS
<1> QED BY <1>1, <1>3, <1>5, <1>8, <1>9

LEMMA LedgerInitInv == LedgerInit => LedgerInv
<1>1. <<>> \in Seq(LedgerRecords) /\ Len(<<>>) = 0
  BY EmptySeq
<1> QED BY <1>1 DEF LedgerInit, LedgerInv, VerifyChain

LEMMA LedgerStep == LedgerInv /\ [LedgerNext]_<<chain, losses>> => LedgerInv'
<1> SUFFICES ASSUME LedgerInv, [LedgerNext]_<<chain, losses>> PROVE LedgerInv'
  OBVIOUS
<1>1. /\ chain \in Seq(LedgerRecords) /\ VerifyChain(chain) /\ Len(chain) \in Nat
      /\ \A n \in 1..Len(chain) : Sound(chain, n)
  BY DEF LedgerInv
<1>2. CASE Extend
  <2>1. PICK h \in Handoffs, content \in Contents :
          LET new == Record(h, Len(chain) + 1, Digest(chain), content)
          IN  Valid(h) /\ AdmitRecord(chain, new) /\ chain' = Append(chain, new)
    BY <1>2 DEF Extend
  <2>2. PICK r : r = Record(h, Len(chain) + 1, Digest(chain), content)
    OBVIOUS
  <2>3. Digest(chain) \in Seq(HandoffBytes) /\ h \in Handoff
    BY <1>1, LedgerDigest, RecordsAssumption
  <2>4. /\ r \in LedgerRecords /\ r.from = h.from /\ r.to = h.to /\ r.payload = h.payload
        /\ r.status = h.status /\ r.seq = Len(chain) + 1
    BY <1>1, <2>2, <2>3, LedgerRecordKnown
  <2>5. Valid(r)
    BY <2>1, <2>4, SameRules
  <2>6. VerifyChain(Append(chain, r)) /\ chain' = Append(chain, r)
    BY <1>1, <2>1, <2>2, <2>4 DEF AdmitRecord
  <2>7. chain' \in Seq(LedgerRecords)
    BY <1>1, <2>4, <2>6, AppendProperties
  <2>8. \A k \in 1..Len(chain') : Sound(chain', k)
    BY <1>1, <2>4, <2>5, <2>6, ExtendSound
  <2> QED BY <2>6, <2>7, <2>8 DEF LedgerInv, VerifyChain, Sound, Reached, Reviewed
<1>3. CASE Lose
  <2>1. PICK n \in 0..Len(chain) : chain' = SubSeq(chain, 1, n)
    BY <1>3 DEF Lose
  <2>2. /\ chain' \in Seq(LedgerRecords) /\ VerifyChain(chain')
        /\ \A k \in 1..Len(chain') : Sound(chain', k)
    BY <1>1, <2>1, PrefixSound
  <2> QED BY <2>2 DEF LedgerInv, VerifyChain, Sound, Reached, Reviewed
<1>4. CASE UNCHANGED <<chain, losses>>
  BY <1>1, <1>4 DEF LedgerInv, VerifyChain, Sound, Reached, Reviewed
<1> QED BY <1>2, <1>3, <1>4 DEF LedgerNext

-----------------------------------------------------------------------------
(* A delivered chain.                                                      *)
LEMMA EarnedWhenSound == LedgerInv => DeliveryIsEarned
<1> SUFFICES ASSUME LedgerInv, chain # <<>>, Terminal(chain)
             PROVE  /\ \A r \in Mandatory :
                         Index(r) > Index(chain[1].from) =>
                           Handed(r) \/ (r = "reviewer" /\ Exempted)
                    /\ Exempted \/ ReviewedLast
  BY DEF DeliveryIsEarned
<1>1. PICK n \in Nat : n = Len(chain)
  BY DEF LedgerInv
<1>2. n # 0 /\ n \in 1..n /\ chain \in Seq(LedgerRecords) /\ Sound(chain, n)
  BY <1>1, EmptySeq DEF LedgerInv
<1>3. PICK last : last = chain[n]
  OBVIOUS
<1>4. LastOf(chain) = last /\ last.to = "delivery" /\ last.status # "interrupted"
  BY <1>1, <1>3 DEF Terminal, LastOf, Interrupted
<1>5. last \in LedgerRecords /\ chain[1] \in LedgerRecords
  BY <1>1, <1>2, <1>3
<1>6. last.from \in Roles /\ chain[1].from \in Roles /\ last.status = "completed"
      /\ last.to \in Roles
  BY <1>4, <1>5 DEF LedgerRecords, Statuses
<1>7. Index(last.from) \in 1..8 /\ Index(chain[1].from) \in 1..8
      /\ Vocabulary[Index(last.from)] = last.from
  BY <1>6, RolesInOrder
<1>8. ASSUME NEW r \in Mandatory, Index(r) > Index(chain[1].from), Index(r) <= Index(last.from)
      PROVE  Handed(r)
  <2>1. Index(r) \in 1..8
    BY RolesInOrder DEF Mandatory
  <2>2. Index(chain[1].from) < Index(r)
    BY <1>7, <1>8, <2>1
  <2>3. PICK i \in 1..(n - 1) : chain[i].to = r /\ chain[i].status = "completed"
    BY <1>2, <1>3, <1>8, <2>2 DEF Sound, Reached
  <2> QED BY <1>1, <2>3 DEF Handed
<1>9. Handed("delivery")
  BY <1>1, <1>2, <1>3, <1>4, <1>6 DEF Handed
<1>10. \A r \in Mandatory : Index(r) \in 1..8 /\ Vocabulary[Index(r)] = r
  BY RolesInOrder DEF Mandatory
<1>11. CASE SkipsReviewer(last)
  <2>1. IsValidTransition(last.from, "reviewer") /\ "reviewer" \in Roles /\ Exempted
    BY <1>4, <1>11, SomeIndexes DEF SkipsReviewer, Exempted
  <2>2. \A r \in Mandatory : Index(r) <= Index(last.from) \/ 7 <= Index(r)
    BY <1>6, <2>1, TransitionPasses, SomeIndexes
  <2>3. ASSUME NEW r \in Mandatory, Index(r) > Index(chain[1].from)
        PROVE  Handed(r) \/ r = "reviewer"
    <3>1. CASE Index(r) <= Index(last.from)
      BY <1>8, <2>3, <3>1
    <3>2. CASE Index(r) = 7 \/ Index(r) = 8
      BY <1>9, <1>10, <3>2 DEF Vocabulary
    <3>3. Index(r) <= Index(last.from) \/ Index(r) = 7 \/ Index(r) = 8
      BY <1>7, <1>10, <2>2
    <3> QED BY <3>1, <3>2, <3>3
  <2> QED BY <2>1, <2>3
<1>12. CASE IsValidTransition(last.from, last.to)
  <2>1. /\ Index(last.from) < 8
        /\ \A r \in Mandatory : Index(r) <= Index(last.from) \/ 8 <= Index(r)
    BY <1>4, <1>6, <1>12, TransitionPasses, SomeIndexes
  <2>2. ASSUME NEW r \in Mandatory, Index(r) > Index(chain[1].from)
        PROVE  Handed(r)
    <3>1. CASE Index(r) <= Index(last.from)
      BY <1>8, <2>2, <3>1
    <3>2. CASE Index(r) = 8
      BY <1>9, <1>10, <3>2 DEF Vocabulary
    <3>3. Index(r) <= Index(last.from) \/ Index(r) = 8
      BY <1>7, <1>10, <2>1
    <3> QED BY <3>1, <3>2, <3>3
  <2>3. last.from = "reviewer"
    <3>1. 7 <= Index(last.from)
      BY <1>7, <2>1, SomeIndexes
    <3>2. Index(last.from) = 7
      BY <1>7, <2>1, <3>1
    <3> QED BY <1>7, <3>2 DEF Vocabulary
  <2>4. PICK i \in 1..(n - 1) :
          /\ chain[i].to = "reviewer" /\ chain[i].status = "completed"
          /\ \A j \in (i + 1)..n : chain[j].from = "reviewer" /\ chain[j].to = chain[n].to
    BY <1>2, <1>3, <2>3 DEF Sound, Reviewed
  <2>5. ReviewedLast
    BY <1>1, <1>3, <1>4, <2>4 DEF ReviewedLast
  <2> QED BY <2>2, <2>5
<1> QED BY <1>2, <1>3, <1>11, <1>12 DEF Sound, Valid

-----------------------------------------------------------------------------
(* What may follow a chain.                                                *)
LEMMA Follows ==
  ASSUME LedgerInv, chain # <<>>, NEW h \in Handoff
  PROVE  MayFollow(h) <=> Valid(h) /\ Continues(LastOf(chain), h)
<1>1. PICK r : r = Record(h, Len(chain) + 1, Digest(chain), SomeContent)
  OBVIOUS
<1>2. chain \in Seq(LedgerRecords) /\ VerifyChain(chain) /\ Len(chain) \in Nat
      /\ Digest(chain) \in Seq(HandoffBytes) /\ SomeContent \in Contents
  BY LedgerDigest, RecordsAssumption DEF LedgerInv, SomeContent
<1>3. /\ r \in LedgerRecords /\ r.from = h.from /\ r.to = h.to /\ r.version = h.version
      /\ r.seq = Len(chain) + 1 /\ r.prev = Digest(chain)
  BY <1>1, <1>2, LedgerRecordKnown
<1>4. AdmitRecord(chain, r) <=> VerifyChain(Append(chain, r))
  BY <1>2, <1>3 DEF AdmitRecord
<1>5. VerifyChain(Append(chain, r)) <=> Continues(chain[Len(chain)], r)
  BY <1>2, <1>3, JoinsChain
<1>6. Continues(chain[Len(chain)], r) <=> Continues(LastOf(chain), h)
  BY <1>3 DEF Continues, LastOf
<1> QED BY <1>1, <1>4, <1>5, <1>6 DEF MayFollow

LEMMA StuckOnlyWhenDelivered == LedgerInv => NeverStuck
<1> SUFFICES ASSUME LedgerInv, chain # <<>>
             PROVE  /\ Terminal(chain) <=> \A h \in Handoff : ~MayFollow(h)
                    /\ ~Interrupted(chain) => NextOf(chain) = {to \in Roles : MayHandTo(to)}
  BY DEF NeverStuck
<1>1. PICK last : last = LastOf(chain)
  OBVIOUS
<1>2. last \in LedgerRecords /\ Valid(last)
  <2>1. Len(chain) \in 1..Len(chain) /\ chain \in Seq(LedgerRecords)
    BY EmptySeq DEF LedgerInv
  <2> QED BY <1>1, <2>1 DEF LedgerInv, LastOf, Sound
<1>3. /\ last.from \in Roles /\ last.to \in Roles /\ last.payload \in Payloads
      /\ last.status \in Statuses /\ last.version \in HandoffVersions
  BY <1>2 DEF LedgerRecords
<1>4. /\ Interrupted(chain) <=> last.status = "interrupted"
      /\ Terminal(chain) <=> last.to = "delivery" /\ last.status # "interrupted"
  BY <1>1 DEF Interrupted, Terminal
<1>5. \A h \in Handoff : MayFollow(h) <=> Valid(h) /\ Continues(last, h)
  BY <1>1, Follows
<1> DEFINE Handing(to) ==
      [from |-> last.to, to |-> to, payload |-> "work", status |-> "completed",
       version |-> last.version]
<1>6. ASSUME NEW to \in Roles, IsValidTransition(last.to, to), last.status # "interrupted",
             last.to # "delivery"
      PROVE  Handing(to) \in Handoff /\ MayFollow(Handing(to))
  <2>1. Handing(to) \in Handoff
    BY <1>3 DEF Handoff, Payloads, Statuses
  <2>2. Valid(Handing(to))
    BY <1>6 DEF Valid
  <2>3. Continues(last, Handing(to))
    BY <1>3, <1>6 DEF Continues, HandoffVersions
  <2> QED BY <1>5, <2>1, <2>2, <2>3
<1>7. Terminal(chain) => \A h \in Handoff : ~MayFollow(h)
  BY <1>4, <1>5 DEF Continues
<1>8. ASSUME ~Terminal(chain) PROVE \E h \in Handoff : MayFollow(h)
  <2>1. CASE last.status = "interrupted"
    <3>1. PICK h : h = [from |-> last.from, to |-> last.to, payload |-> last.payload,
                        status |-> last.status, version |-> last.version]
      OBVIOUS
    <3>2. h \in Handoff
      BY <1>3, <3>1 DEF Handoff
    <3>3. Valid(h)
      BY <1>2, <3>1, SameRules
    <3>4. Continues(last, h)
      BY <1>3, <2>1, <3>1 DEF Continues, HandoffVersions
    <3> QED BY <1>5, <3>2, <3>3, <3>4
  <2>2. CASE last.status # "interrupted"
    <3>1. last.to # "delivery"
      BY <1>4, <1>8, <2>2
    <3>2. PICK to \in Roles : IsValidTransition(last.to, to)
      BY <1>3, <3>1, SomeTransition
    <3> QED BY <1>6, <2>2, <3>1, <3>2
  <2> QED BY <2>1, <2>2
<1>9. ASSUME ~Interrupted(chain) PROVE NextOf(chain) = {to \in Roles : MayHandTo(to)}
  <2>1. CASE Terminal(chain)
    BY <1>7, <2>1 DEF NextOf, MayHandTo
  <2>2. CASE ~Terminal(chain)
    <3>1. NextOf(chain) = {to \in Roles : IsValidTransition(last.to, to)}
      BY <1>1, <2>2 DEF NextOf, NextRoles
    <3>2. last.status # "interrupted" /\ last.to # "delivery"
      BY <1>4, <1>9, <2>2
    <3>3. ASSUME NEW to \in Roles, IsValidTransition(last.to, to) PROVE MayHandTo(to)
      <4>1. Handing(to) \in Handoff /\ MayFollow(Handing(to))
        BY <1>6, <3>2, <3>3
      <4> QED BY <4>1 DEF MayHandTo
    <3>4. ASSUME NEW to \in Roles, MayHandTo(to) PROVE IsValidTransition(last.to, to)
      <4>1. PICK h \in Handoff : h.to = to /\ h.payload = "work" /\ MayFollow(h)
        BY <3>4 DEF MayHandTo
      <4>2. Valid(h) /\ Continues(last, h)
        BY <1>5, <4>1
      <4> QED BY <3>2, <4>1, <4>2 DEF Valid, SkipsReviewer, Continues
    <3> QED BY <3>1, <3>3, <3>4
  <2> QED BY <2>1, <2>2
<1> QED BY <1>7, <1>8, <1>9

(* A chain that was delivered went through every mandatory role, with the  *)
(* reviewer last or exempted, and one that was not can go on: whatever the *)
(* handoffs, the contents and the bounds, and after any power loss.        *)
THEOREM HandoffsStaySound == LedgerSpec => []HandoffsAreSound
<1>1. LedgerInit => LedgerInv
  BY LedgerInitInv
<1>2. LedgerInv /\ [LedgerNext]_<<chain, losses>> => LedgerInv'
  BY LedgerStep
<1>3. LedgerInv => HandoffsAreSound
  BY EarnedWhenSound, StuckOnlyWhenDelivered DEF HandoffsAreSound
<1> QED BY <1>1, <1>2, <1>3, PTL DEF LedgerSpec

-----------------------------------------------------------------------------
(* The memory a role may read.  The directives on record are taken in their*)
(* order; each that is there narrows the plan so far, and becomes it.      *)
AnyOrNone == Directive \union {Undirected}
After(plan, d) == IF Present(d) THEN d ELSE plan
Chained(s) == \A i \in 1..(Len(s) - 1) : Narrows(s[i], s[i + 1])
Longer(s, d) == s \o AsList(d)
Turns(plan, d) == Present(d) => Narrows(plan, d)

WithGoal(m) == After(m.ceiling, m.goal)
WithHandoff(m) == After(WithGoal(m), m.handoff)
Shape(m) ==
  /\ m = [ceiling |-> m.ceiling, goal |-> m.goal, handoff |-> m.handoff, role |-> m.role]
  /\ {m.ceiling, m.goal, m.handoff, m.role} \subseteq AnyOrNone

MemoryInv ==
  /\ state \in [status : {"none", "created", "running", "paused", "closed"},
                identity : Identities]
  /\ Shape(memory)
  /\ state.status # "none" => memory.ceiling \in Directive /\ Resolves(memory)
  /\ narrowed \in 0..MaxNarrowed

LEMMA WideIsANumber ==
  /\ Wide("none") = 1 /\ Wide("goal") = 2 /\ Wide("project") = 3
  /\ {Scopes[i] : i \in 1..3} = {"none", "goal", "project"}
<1>1. Scopes[1] = "none" /\ Scopes[2] = "goal" /\ Scopes[3] = "project"
  BY DEF Scopes
<1>2. \A i \in 1..3 : i = 1 \/ i = 2 \/ i = 3
  OBVIOUS
<1>3. Wide("none") = 1
  <2>1. \A i \in 1..3 : Scopes[i] = "none" <=> i = 1
    BY <1>1, <1>2
  <2> QED BY <2>1 DEF Wide
<1>4. Wide("goal") = 2
  <2>1. \A i \in 1..3 : Scopes[i] = "goal" <=> i = 2
    BY <1>1, <1>2
  <2> QED BY <2>1 DEF Wide
<1>5. Wide("project") = 3
  <2>1. \A i \in 1..3 : Scopes[i] = "project" <=> i = 3
    BY <1>1, <1>2
  <2> QED BY <2>1 DEF Wide
<1>6. {Scopes[i] : i \in 1..3} = {"none", "goal", "project"}
  BY <1>1, <1>2
<1> QED BY <1>3, <1>4, <1>5, <1>6

LEMMA DirectiveFields ==
  ASSUME NEW d \in Directive
  PROVE  /\ d.scope \in {"none", "goal", "project"} /\ Present(d) /\ d # Undirected
         /\ d \in AnyDirective /\ (d.scope = "none" => d.sources = {})
         /\ Wide(d.scope) \in 1..3
<1>1. d \in AnyDirective /\ (d.scope = "none" => d.sources = {})
  BY DEF Directive
<1>2. d.scope \in {"none", "goal", "project"}
  BY <1>1, WideIsANumber DEF AnyDirective
<1>3. Undirected.scope = "undirected"
  BY DEF Undirected
<1>4. d # Undirected
  BY <1>2, <1>3
<1> QED BY <1>1, <1>2, <1>4, WideIsANumber DEF Present

LEMMA NarrowsOrders ==
  /\ \A d \in Directive : Narrows(d, d)
  /\ \A d, e, f \in Directive : Narrows(d, e) /\ Narrows(e, f) => Narrows(d, f)
BY DirectiveFields DEF Narrows

(* One more directive on the list.                                         *)
LEMMA ListGrows ==
  ASSUME NEW s \in Seq(Directive), Len(s) >= 1, NEW d \in AnyOrNone,
         NEW u, u = Longer(s, d)
  PROVE  /\ u \in Seq(Directive) /\ Len(u) >= 1
         /\ u[Len(u)] = After(s[Len(s)], d)
         /\ Chained(u) <=> Chained(s) /\ Turns(s[Len(s)], d)
<1>1. CASE d = Undirected
  <2>1. u = s
    BY <1>1 DEF AsList, Present, Longer
  <2> QED BY <1>1, <2>1 DEF After, Turns, Present
<1>2. CASE d # Undirected
  <2>1. d \in Directive /\ AsList(d) = <<d>> /\ After(s[Len(s)], d) = d
    BY <1>2 DEF AsList, Present, AnyOrNone, After
  <2>2. /\ u \in Seq(Directive) /\ Len(u) = Len(s) + 1 /\ Len(s) \in Nat
        /\ u[Len(s) + 1] = d /\ \A i \in 1..Len(s) : u[i] = s[i]
    BY <2>1 DEF Longer
  <2>3. Chained(u) <=> Chained(s) /\ Narrows(s[Len(s)], d)
    <3>1. ASSUME Chained(u) PROVE Chained(s) /\ Narrows(s[Len(s)], d)
      <4>1. \A i \in 1..Len(s) : Narrows(u[i], u[i + 1])
        <5>1. \A i \in 1..(Len(u) - 1) : Narrows(u[i], u[i + 1])
          BY ONLY <3>1 DEF Chained
        <5> QED BY <2>2, <5>1
      <4>2. Narrows(u[Len(s)], u[Len(s) + 1])
        BY <2>2, <4>1
      <4>3. \A i \in 1..(Len(s) - 1) : Narrows(u[i], u[i + 1]) /\ u[i] = s[i] /\ u[i + 1] = s[i + 1]
        BY <2>2, <4>1
      <4>4. u[Len(s)] = s[Len(s)]
        BY <2>2
      <4> QED BY <2>2, <4>2, <4>3, <4>4 DEF Chained
    <3>2. ASSUME Chained(s), Narrows(s[Len(s)], d) PROVE Chained(u)
      <4> SUFFICES ASSUME NEW i \in 1..(Len(u) - 1) PROVE Narrows(u[i], u[i + 1])
        BY DEF Chained
      <4>1. i \in 1..Len(s) /\ u[i] = s[i]
        BY <2>2
      <4>2. CASE i = Len(s)
        BY <2>2, <3>2, <4>1, <4>2
      <4>3. CASE i # Len(s)
        <5>1. i \in 1..(Len(s) - 1) /\ i + 1 \in 1..Len(s)
          BY <2>2, <4>1, <4>3
        <5> QED BY <2>2, <3>2, <4>1, <5>1 DEF Chained
      <4> QED BY <4>2, <4>3
    <3> QED BY <3>1, <3>2
  <2> QED BY <1>2, <2>1, <2>2, <2>3 DEF Turns, Present
<1> QED BY <1>1, <1>2

(* What the directives on record resolve to.                               *)
LEMMA PlanShape ==
  ASSUME NEW m, Shape(m), m.ceiling \in Directive
  PROVE  /\ PlanOf(m) = After(WithHandoff(m), m.role)
         /\ Resolves(m) <=> /\ Turns(m.ceiling, m.goal)
                            /\ Turns(WithGoal(m), m.handoff)
                            /\ Turns(WithHandoff(m), m.role)
         /\ {WithGoal(m), WithHandoff(m), PlanOf(m)} \subseteq Directive
<1>1. /\ m.goal \in AnyOrNone /\ m.handoff \in AnyOrNone /\ m.role \in AnyOrNone
  BY DEF Shape
<1>2. PICK s1 : s1 = AsList(m.ceiling)
  OBVIOUS
<1>3. s1 = <<m.ceiling>> /\ s1 \in Seq(Directive) /\ Len(s1) = 1 /\ s1[1] = m.ceiling /\ Chained(s1)
  <2>1. s1 = <<m.ceiling>>
    BY <1>2, DirectiveFields DEF AsList
  <2>2. s1 \in Seq(Directive) /\ Len(s1) = 1 /\ s1[1] = m.ceiling
    BY <2>1
  <2>3. Chained(s1)
    BY <2>2 DEF Chained
  <2> QED BY <2>1, <2>2, <2>3
<1>4. PICK s2 : s2 = Longer(s1, m.goal)
  OBVIOUS
<1>5. /\ s2 \in Seq(Directive) /\ Len(s2) >= 1 /\ s2[Len(s2)] = WithGoal(m)
      /\ Chained(s2) <=> Turns(m.ceiling, m.goal)
  <2>1. s1 \in Seq(Directive) /\ Len(s1) >= 1 /\ s1[Len(s1)] = m.ceiling
    BY <1>3
  <2>2. /\ s2 \in Seq(Directive) /\ Len(s2) >= 1 /\ s2[Len(s2)] = After(s1[Len(s1)], m.goal)
        /\ Chained(s2) <=> Chained(s1) /\ Turns(s1[Len(s1)], m.goal)
    BY ONLY <1>1, <1>4, <2>1, ListGrows
  <2> QED BY ONLY <1>3, <2>1, <2>2 DEF WithGoal
<1>6. PICK s3 : s3 = Longer(s2, m.handoff)
  OBVIOUS
<1>7. /\ s3 \in Seq(Directive) /\ Len(s3) >= 1 /\ s3[Len(s3)] = WithHandoff(m)
      /\ Chained(s3) <=> Turns(m.ceiling, m.goal) /\ Turns(WithGoal(m), m.handoff)
  <2>1. /\ s3 \in Seq(Directive) /\ Len(s3) >= 1 /\ s3[Len(s3)] = After(s2[Len(s2)], m.handoff)
        /\ Chained(s3) <=> Chained(s2) /\ Turns(s2[Len(s2)], m.handoff)
    BY ONLY <1>1, <1>5, <1>6, ListGrows
  <2> QED BY ONLY <1>5, <2>1 DEF WithHandoff
<1>8. PICK s4 : s4 = Longer(s3, m.role)
  OBVIOUS
<1>9. /\ s4 \in Seq(Directive) /\ Len(s4) >= 1 /\ s4[Len(s4)] = After(WithHandoff(m), m.role)
      /\ Chained(s4) <=> /\ Turns(m.ceiling, m.goal) /\ Turns(WithGoal(m), m.handoff)
                         /\ Turns(WithHandoff(m), m.role)
  <2>1. /\ s4 \in Seq(Directive) /\ Len(s4) >= 1 /\ s4[Len(s4)] = After(s3[Len(s3)], m.role)
        /\ Chained(s4) <=> Chained(s3) /\ Turns(s3[Len(s3)], m.role)
    BY ONLY <1>1, <1>7, <1>8, ListGrows
  <2> QED BY ONLY <1>7, <2>1
<1>10. InOrder(m) = s4
  BY <1>2, <1>4, <1>6, <1>8 DEF InOrder, Longer
<1>11. PlanOf(m) = s4[Len(s4)] /\ (Resolves(m) <=> Chained(s4))
  BY <1>10 DEF PlanOf, Resolves, Chained
<1>12. \A s \in Seq(Directive) : Len(s) >= 1 => s[Len(s)] \in Directive
  OBVIOUS
<1> QED BY <1>5, <1>7, <1>9, <1>11, <1>12

(* The plan narrows as directives are added, whatever there is of them.    *)
LEMMA TurnNarrows ==
  ASSUME NEW p \in Directive, NEW d \in AnyOrNone, Turns(p, d)
  PROVE  /\ After(p, d) \in Directive /\ Narrows(p, After(p, d))
         /\ Present(d) => d \in Directive /\ After(p, d) = d
<1>1. CASE Present(d)
  BY <1>1 DEF AnyOrNone, Present, After, Turns
<1>2. CASE ~Present(d)
  BY <1>2, NarrowsOrders DEF After
<1> QED BY <1>1, <1>2

LEMMA MemoryInitInv == MemoryInit => MemoryInv
<1> SUFFICES ASSUME MemoryInit PROVE MemoryInv
  OBVIOUS
<1>1. PICK u : u = Undirected
  OBVIOUS
<1>2. memory = [ceiling |-> u, goal |-> u, handoff |-> u, role |-> u] /\ u \in AnyOrNone
  BY <1>1 DEF MemoryInit, AnyOrNone
<1>3. Shape(memory)
  BY <1>2 DEF Shape
<1>4. /\ state \in [status : {"none", "created", "running", "paused", "closed"},
                    identity : Identities]
      /\ state.status = "none"
  BY DEF MemoryInit, Identities
<1> QED BY <1>3, <1>4, MaxNarrowedAssumption DEF MemoryInv, MemoryInit

LEMMA MemoryStep ==
  ASSUME MemoryInv, [MemoryNext]_memoryVars
  PROVE  MemoryInv'
<1>1. /\ state \in [status : {"none", "created", "running", "paused", "closed"},
                    identity : Identities]
      /\ Shape(memory) /\ narrowed \in 0..MaxNarrowed
  BY DEF MemoryInv
<1>2. CASE UNCHANGED memoryVars
  <2>1. state' = state /\ memory' = memory /\ narrowed' = narrowed
    BY <1>2 DEF memoryVars
  <2> QED BY <2>1 DEF MemoryInv, Shape, Resolves, InOrder
<1>3. CASE CreateWorkflow
  <2>1. PICK c \in Directive, g \in AnyOrNone, h \in AnyOrNone, r \in AnyOrNone :
          /\ memory' = [ceiling |-> c, goal |-> g, handoff |-> h, role |-> r]
          /\ Admits(memory')
    BY <1>3 DEF CreateWorkflow, AnyOrNone
  <2>2. memory'.ceiling = c /\ Shape(memory)'
    BY <2>1 DEF Shape, AnyOrNone
  <2>3. Resolves(memory)'
    BY <2>1 DEF Admits
  <2>4. state' \in [status : {"none", "created", "running", "paused", "closed"},
                    identity : Identities]
    BY <1>3 DEF CreateWorkflow
  <2>5. narrowed' \in 0..MaxNarrowed
    BY <1>1, <1>3 DEF CreateWorkflow
  <2> QED BY <2>2, <2>3, <2>4, <2>5 DEF MemoryInv
<1>4. ASSUME NEW d \in Directive \union {Undirected}, NarrowTo(d) PROVE MemoryInv'
  <2>1. PICK m : m = memory
    OBVIOUS
  <2>2. PICK y : y = [m EXCEPT !.role = d]
    OBVIOUS
  <2>3. memory' = y /\ Admits(y) /\ state' = state
    BY <1>4, <2>1, <2>2 DEF NarrowTo, WithRole
  <2>4. m = [ceiling |-> m.ceiling, goal |-> m.goal, handoff |-> m.handoff, role |-> m.role]
        /\ {m.ceiling, m.goal, m.handoff, m.role} \subseteq AnyOrNone
    BY <1>1, <2>1 DEF Shape
  <2>5. y = [ceiling |-> m.ceiling, goal |-> m.goal, handoff |-> m.handoff, role |-> d]
    BY <2>2, <2>4
  <2>6. Shape(memory)' /\ memory'.ceiling = m.ceiling
    BY <1>4, <2>3, <2>4, <2>5 DEF Shape, AnyOrNone
  <2>7. Resolves(memory)'
    BY <2>3 DEF Admits
  <2>8. state.status # "none"
    BY <1>4 DEF NarrowTo, IsOpen
  <2>9. memory'.ceiling \in Directive
    BY <2>1, <2>6, <2>8 DEF MemoryInv
  <2>10. narrowed' \in 0..MaxNarrowed
    BY <1>1, <1>4, MaxNarrowedAssumption DEF NarrowTo
  <2> QED BY <1>1, <2>3, <2>6, <2>7, <2>9, <2>10 DEF MemoryInv
<1>5. ASSUME NEW status \in {"running", "paused", "closed"}, MoveTo(status) PROVE MemoryInv'
  <2>1. state' = [state EXCEPT !.status = status] /\ memory' = memory /\ narrowed' = narrowed
    BY <1>5 DEF MoveTo
  <2>2. state' \in [status : {"none", "created", "running", "paused", "closed"},
                    identity : Identities]
    BY <1>1, <2>1
  <2>3. state.status # "none"
    BY <1>5 DEF MoveTo
  <2>4. memory.ceiling \in Directive /\ Resolves(memory)
    BY <2>3 DEF MemoryInv
  <2> QED BY <1>1, <2>1, <2>2, <2>4 DEF MemoryInv, Shape, Resolves, InOrder
<1> QED BY <1>2, <1>3, <1>4, <1>5 DEF MemoryNext

(* What a log holds, written out.                                          *)
LEMMA InForcePlan ==
  ASSUME MemoryInv, state.status # "none"
  PROVE  /\ Resolves(memory) /\ PlanOf(memory) \in Directive /\ PlanOf(memory) \in Directives
         /\ \A d \in Directives : d \in Directive /\ Narrows(d, PlanOf(memory))
<1> DEFINE c == memory.ceiling
           g == memory.goal
           h == memory.handoff
           r == memory.role
           p == WithGoal(memory)
           q == WithHandoff(memory)
           plan == PlanOf(memory)
<1>1. Shape(memory) /\ c \in Directive /\ Resolves(memory)
  BY DEF MemoryInv
<1>2. g \in AnyOrNone /\ h \in AnyOrNone /\ r \in AnyOrNone
  BY <1>1 DEF Shape
<1>3. plan = After(q, r) /\ Turns(c, g) /\ Turns(p, h) /\ Turns(q, r)
  BY <1>1, PlanShape
<1>4. p \in Directive /\ Narrows(c, p) /\ (Present(g) => g \in Directive /\ p = g)
  BY <1>1, <1>2, <1>3, TurnNarrows DEF WithGoal
<1>5. q \in Directive /\ Narrows(p, q) /\ (Present(h) => h \in Directive /\ q = h)
  BY <1>2, <1>3, <1>4, TurnNarrows DEF WithHandoff
<1>6. plan \in Directive /\ Narrows(q, plan) /\ (Present(r) => r \in Directive /\ plan = r)
  BY <1>2, <1>3, <1>5, TurnNarrows
<1>7. Narrows(p, plan) /\ Narrows(c, plan) /\ Narrows(plan, plan)
  BY <1>1, <1>4, <1>5, <1>6, NarrowsOrders
<1>8. plan \in {c, g, h, r} /\ Present(plan)
  BY <1>3, <1>6, DirectiveFields DEF After, WithGoal, WithHandoff
<1>9. \A d \in Directives : d \in Directive /\ Narrows(d, plan)
  BY <1>1, <1>4, <1>5, <1>6, <1>7 DEF Directives
<1> QED BY <1>1, <1>6, <1>8, <1>9 DEF Directives

LEMMA PlanIsNarrowestInv == MemoryInv => PlanIsNarrowest
BY InForcePlan DEF PlanIsNarrowest

LEMMA NarrowingIsNotForGoodInv == MemoryInv => NarrowingIsNotForGood
<1> SUFFICES ASSUME MemoryInv, IsOpen(state), NEW d \in Directive, Narrows(PlanOf(Base), d)
             PROVE  Admits(WithRole(memory, d)) /\ PlanOf(WithRole(memory, d)) = d
  BY DEF NarrowingIsNotForGood
<1>1. PICK m : m = memory
  OBVIOUS
<1>2. /\ m = [ceiling |-> m.ceiling, goal |-> m.goal, handoff |-> m.handoff, role |-> m.role]
      /\ {m.ceiling, m.goal, m.handoff, m.role} \subseteq AnyOrNone
      /\ Shape(m) /\ m.ceiling \in Directive /\ Resolves(m)
  BY <1>1 DEF MemoryInv, Shape, IsOpen
<1>3. PICK b : b = [m EXCEPT !.role = Undirected]
  OBVIOUS
<1>4. PICK w : w = [m EXCEPT !.role = d]
  OBVIOUS
<1>5. /\ b = [ceiling |-> m.ceiling, goal |-> m.goal, handoff |-> m.handoff, role |-> Undirected]
      /\ w = [ceiling |-> m.ceiling, goal |-> m.goal, handoff |-> m.handoff, role |-> d]
  BY <1>2, <1>3, <1>4
<1>6. /\ b.ceiling = m.ceiling /\ b.goal = m.goal /\ b.handoff = m.handoff /\ b.role = Undirected
      /\ w.ceiling = m.ceiling /\ w.goal = m.goal /\ w.handoff = m.handoff /\ w.role = d
  BY <1>5
<1>7. Shape(b) /\ Shape(w)
  BY <1>2, <1>5, <1>6 DEF Shape, AnyOrNone
<1>8. /\ WithGoal(b) = WithGoal(m) /\ WithGoal(w) = WithGoal(m)
      /\ WithHandoff(b) = WithHandoff(m) /\ WithHandoff(w) = WithHandoff(m)
  BY <1>6 DEF WithGoal, WithHandoff
<1>9. Turns(m.ceiling, m.goal) /\ Turns(WithGoal(m), m.handoff)
  BY <1>2, PlanShape
<1>10. PlanOf(b) = WithHandoff(m)
  <2>1. PlanOf(b) = After(WithHandoff(b), b.role)
    BY <1>2, <1>6, <1>7, PlanShape
  <2> QED BY <1>6, <1>8, <2>1 DEF After, Present
<1>11. Narrows(WithHandoff(m), d)
  BY <1>1, <1>3, <1>10 DEF Base
<1>12. Resolves(w) /\ PlanOf(w) = d
  <2>1. Turns(w.ceiling, w.goal) /\ Turns(WithGoal(w), w.handoff) /\ Turns(WithHandoff(w), w.role)
    BY <1>6, <1>8, <1>9, <1>11 DEF Turns
  <2>2. Resolves(w) /\ PlanOf(w) = After(WithHandoff(w), w.role)
    BY <1>2, <1>6, <1>7, <2>1, PlanShape
  <2> QED BY <1>6, <2>2, DirectiveFields DEF After
<1>13. WithRole(memory, d) = w
  BY <1>1, <1>4 DEF WithRole
<1> QED BY <1>12, <1>13 DEF Admits

LEMMA CallFields ==
  ASSUME NEW c \in Calls
  PROVE  /\ c.kind \in {"read", "edit", "skill", "other_skill", "unknown_skill", "other"}
         /\ c.kind = "edit" => c = [kind |-> "edit"]
         /\ c.kind = "read" => c.project \in ProjectArgs
BY DEF Calls, Reads

(* A read of memory while a plan is in force is held against it.           *)
LEMMA GateOfRead ==
  ASSUME NEW m, NEW s, IsOpen(s), NEW c \in Calls, ReadsMemory(c), Resolves(m)
  PROVE  /\ Gate(s, m, c) = PlanGate(s, m, c)
         /\ Gate(s, m, c) = "allow" =>
              /\ PlanOf(m).scope # "none" /\ SourceOf(c) \in PlanOf(m).sources
              /\ c.kind = "skill" \/ c.byId \/ ProjectGate(s, PlanOf(m), c) = "allow"
         /\ Gate(s, m, c) = "deny" =>
              \/ PlanOf(m).scope = "none" \/ SourceOf(c) \notin PlanOf(m).sources
              \/ ~(c.kind = "skill" \/ c.byId) /\ ProjectGate(s, PlanOf(m), c) = "deny"
<1>1. c.kind \in {"read", "skill"}
  BY DEF ReadsMemory
<1>2. Gate(s, m, c) = PlanGate(s, m, c)
  BY <1>1 DEF Gate, ReadsMemory
<1> QED BY <1>2 DEF PlanGate

LEMMA GateIsThePlanInv == MemoryInv => GateIsThePlan
<1> SUFFICES ASSUME MemoryInv, IsOpen(state), NEW c \in Calls, ReadsMemory(c)
             PROVE  /\ Gate(state, memory, c) = "allow" => \A d \in Directives : Permits(d, c)
                    /\ Gate(state, memory, c) = "deny" => \E d \in Directives : ~Permits(d, c)
  BY DEF GateIsThePlan
<1>1. PICK plan : plan = PlanOf(memory)
  OBVIOUS
<1>2. /\ Resolves(memory) /\ plan \in Directive /\ plan \in Directives
      /\ \A d \in Directives : d \in Directive /\ Narrows(d, plan)
  BY <1>1, InForcePlan DEF IsOpen
<1>3. c.kind \in {"read", "skill"}
  BY DEF ReadsMemory
<1>4. ASSUME Gate(state, memory, c) = "allow", NEW d \in Directives PROVE Permits(d, c)
  <2>1. /\ plan.scope # "none" /\ SourceOf(c) \in plan.sources
        /\ c.kind = "skill" \/ c.byId \/ ProjectGate(state, plan, c) = "allow"
    BY <1>1, <1>2, <1>4, GateOfRead
  <2>2. d \in Directive /\ Wide(plan.scope) <= Wide(d.scope) /\ plan.sources \subseteq d.sources
    BY <1>2 DEF Narrows
  <2>3. /\ d.scope \in {"none", "goal", "project"} /\ plan.scope \in {"none", "goal", "project"}
    BY <1>2, <2>2, DirectiveFields
  <2>4. d.scope # "none" /\ (d.scope = "goal" => plan.scope = "goal")
    BY <2>1, <2>2, <2>3, WideIsANumber
  <2>5. c.kind = "read" /\ ~c.byId =>
          /\ NamesGoal(c) => c.project \in {"right", "every"}
          /\ ~NamesGoal(c) => c.project = "right"
          /\ NamesGoal(c) /\ d.scope = "goal" => c.goal = "right"
    <3> SUFFICES ASSUME c.kind = "read", ~c.byId
                 PROVE  /\ NamesGoal(c) => c.project \in {"right", "every"}
                        /\ ~NamesGoal(c) => c.project = "right"
                        /\ NamesGoal(c) /\ d.scope = "goal" => c.goal = "right"
      OBVIOUS
    <3>1. ProjectGate(state, plan, c) = "allow"
      BY <2>1
    <3>2. NamesProject(c) /\ (NamesGoal(c) /\ plan.scope = "goal" => c.goal = "right")
      BY <3>1 DEF ProjectGate
    <3> QED BY <2>4, <3>2 DEF NamesProject
  <2> QED BY <2>1, <2>2, <2>4, <2>5 DEF Permits
<1>5. ASSUME Gate(state, memory, c) = "deny" PROVE \E d \in Directives : ~Permits(d, c)
  <2>1. ~Permits(plan, c)
    <3>1. CASE plan.scope = "none" \/ SourceOf(c) \notin plan.sources
      BY <3>1 DEF Permits
    <3>2. CASE ~(c.kind = "skill" \/ c.byId) /\ ProjectGate(state, plan, c) = "deny"
      <4>1. c.kind = "read" /\ ~c.byId
        BY <1>3, <3>2
      <4>2. ~(NamesProject(c) /\ (NamesGoal(c) /\ plan.scope = "goal" => c.goal = "right"))
        BY <3>2 DEF ProjectGate
      <4> QED BY <4>1, <4>2 DEF Permits, NamesProject
    <3> QED BY <1>1, <1>2, <1>5, <3>1, <3>2, GateOfRead
  <2> QED BY <1>2, <2>1
<1> QED BY <1>4, <1>5

LEMMA EvidenceIsOfGatedReadsInv == MemoryInv => EvidenceIsOfGatedReads
<1> SUFFICES ASSUME MemoryInv, NEW c \in Calls, c # [kind |-> "edit"]
             PROVE  Evidence(state, c) <=> Gate(state, NoMemory, c) = "deny"
  BY DEF EvidenceIsOfGatedReads
<1>1. PICK m : m = memory
  OBVIOUS
<1>2. PICK z, u : z = [scope |-> "none", sources |-> {}] /\ u = Undirected
  OBVIOUS
<1>3. PICK n : n = [m EXCEPT !.ceiling = z, !.goal = u, !.handoff = u, !.role = u]
  OBVIOUS
<1>4. n = NoMemory
  BY <1>1, <1>2, <1>3 DEF NoMemory
<1>5. DOMAIN m = {"ceiling", "goal", "handoff", "role"}
  <2>1. m = [ceiling |-> m.ceiling, goal |-> m.goal, handoff |-> m.handoff, role |-> m.role]
    BY <1>1 DEF MemoryInv, Shape
  <2> QED BY <2>1
<1>6. n = [ceiling |-> z, goal |-> u, handoff |-> u, role |-> u]
  BY <1>3, <1>5
<1>7. z \in Directive /\ u \in AnyOrNone /\ ~Present(u)
  BY <1>2, WideIsANumber DEF Directive, AnyDirective, AnyOrNone, Present
<1>8. Shape(n) /\ n.ceiling = z /\ n.goal = u /\ n.handoff = u /\ n.role = u
  BY <1>6, <1>7 DEF Shape, AnyOrNone
<1>9. Resolves(n) /\ PlanOf(n) = z
  <2>1. WithGoal(n) = z /\ WithHandoff(n) = z
    BY <1>7, <1>8 DEF WithGoal, WithHandoff, After
  <2>2. Turns(n.ceiling, n.goal) /\ Turns(WithGoal(n), n.handoff) /\ Turns(WithHandoff(n), n.role)
    BY <1>7, <1>8 DEF Turns
  <2>3. Resolves(n) /\ PlanOf(n) = After(WithHandoff(n), n.role)
    BY <1>7, <1>8, <2>2, PlanShape
  <2> QED BY <1>7, <1>8, <2>1, <2>3 DEF After
<1>10. z.scope = "none" /\ PlanOf(n).scope = "none"
  BY <1>2, <1>9
<1>11. c.kind # "edit"
  BY CallFields
<1>12. CASE IsOpen(state) /\ ReadsMemory(c)
  <2>1. Gate(state, n, c) = PlanGate(state, n, c)
    BY <1>9, <1>12, GateOfRead
  <2>2. PlanGate(state, n, c) = "deny"
    BY <1>9, <1>10 DEF PlanGate
  <2> QED BY <1>4, <1>12, <2>1, <2>2 DEF Evidence
<1>13. CASE ~(IsOpen(state) /\ ReadsMemory(c))
  <2>1. Gate(state, n, c) # "deny"
    <3>1. CASE IsOpen(state) /\ c.kind = "unknown_skill"
      <4>1. Gate(state, n, c) = UnknownSkillGate(n)
        BY <1>11, <1>13, <3>1 DEF Gate
      <4> QED BY <4>1 DEF UnknownSkillGate
    <3>2. CASE ~(IsOpen(state) /\ c.kind = "unknown_skill")
      BY <1>11, <1>13, <3>2 DEF Gate
    <3> QED BY <3>1, <3>2
  <2> QED BY <1>4, <1>13, <2>1 DEF Evidence
<1> QED BY <1>12, <1>13

LEMMA MemoryInvImplies == MemoryInv => MemoryTypeOK /\ MemoryIsNarrowest
<1> SUFFICES ASSUME MemoryInv PROVE MemoryTypeOK /\ MemoryIsNarrowest
  OBVIOUS
<1>1. \A d \in {memory.ceiling, memory.goal, memory.handoff, memory.role} :
        d \in AnyDirective \union {Undirected} /\ (d.scope = "none" => d.sources = {})
  <2>1. \A d \in AnyOrNone :
          d \in AnyDirective \union {Undirected} /\ (d.scope = "none" => d.sources = {})
    BY DEF AnyOrNone, Directive, Undirected
  <2> QED BY <2>1 DEF MemoryInv, Shape
<1>2. MemoryTypeOK
  BY <1>1 DEF MemoryInv, MemoryTypeOK
<1> QED BY <1>2, PlanIsNarrowestInv, NarrowingIsNotForGoodInv, GateIsThePlanInv,
           EvidenceIsOfGatedReadsInv DEF MemoryIsNarrowest

(* What may be read is what every directive on record permits, at the gate *)
(* and in what the gate leaves a trace of, and what one role's directive   *)
(* narrowed comes back with the next (memoryscope.Resolve, Gate, Evidence),*)
(* whatever the sources of memory are.                                     *)
THEOREM MemoryStaysNarrowest == MemorySpec => [](MemoryTypeOK /\ MemoryIsNarrowest)
<1>1. MemoryInv /\ [MemoryNext]_memoryVars => MemoryInv'
  BY MemoryStep
<1> QED BY <1>1, MemoryInitInv, MemoryInvImplies, PTL DEF MemorySpec

-----------------------------------------------------------------------------
(* Opening a task.  Others only add to what an opener did: a chain grows, a*)
(* workflow that is there stays, is never unstarted, and keeps its stages. *)
HopRecords == [to : Roles, doc : 0..MaxDocs]
FlowStatuses == {"none", "created", "running", "paused", "closed"}
Steps == {"first", "second", "create", "start", "bind"}
DoneNames == {<<step>> : step \in Steps} \union {Stage(n) : n \in 1..PreWork}
Started(t) == flow[t].status \notin {"none", "created"}
Wrote(r, n) == Len(hops[r.task]) >= n /\ hops[r.task][n] = Design(r.doc)[n]

StoreTypes ==
  /\ hops \in [Tasks -> Seq(HopRecords)]
  /\ flow \in [Tasks -> [status : FlowStatuses, stages : 0..(PreWork + 1)]]
  /\ boundTo \in Tasks \union {NoTask}

AfterCreate == {"start", "stages", "bind", "read_back", "reported"}
AfterStart == AfterCreate \ {"start"}
BeforeStages == {"checking", "chain_free", "first", "second", "create", "start"}

IsOpener(r) == r = [at |-> r.at, task |-> r.task, doc |-> r.doc, done |-> r.done, seen |-> r.seen]

OpenerTypes(r) ==
  /\ IsOpener(r) /\ r.task \in Tasks \union {NoTask} /\ r.done \subseteq DoneNames
  /\ r.at \notin BeforeStages \union AfterCreate \union {"failed"} => r.done = {}
  /\ r.at \in BeforeStages \union AfterCreate \union {"failed"} => r.doc \in 1..MaxDocs
  /\ r.at # "idle" => r.task \in Tasks

DoneInv(r) ==
  /\ <<"first">> \in r.done => Wrote(r, 1)
  /\ <<"second">> \in r.done => Wrote(r, 2)
  /\ <<"create">> \in r.done => flow[r.task].status # "none"
  /\ <<"start">> \in r.done => Started(r.task)
  /\ \A n \in 1..PreWork :
       Stage(n) \in r.done => flow[r.task].status # "none" /\ flow[r.task].stages >= n

PlaceInv(r) ==
  /\ r.at \in {"second", "create"} \union AfterCreate => <<"first">> \in r.done
  /\ r.at \in {"create"} \union AfterCreate => <<"second">> \in r.done
  /\ r.at \in AfterCreate => <<"create">> \in r.done
  /\ r.at \in AfterStart => <<"start">> \in r.done
  /\ r.at \in {"bind", "read_back", "reported"} =>
       flow[r.task].status # "none" /\ flow[r.task].stages >= PreWork
  /\ r.at \in BeforeStages => \A n \in 1..PreWork : Stage(n) \notin r.done
  /\ r.at = "stages" => Stage(PreWork) \notin r.done

LaunchInv(r) ==
  /\ r.at \in {"in_force", "launched"} => Started(r.task)
  /\ r.at = "launched" => \E i \in 1..Len(hops[r.task]) : hops[r.task][i].to = "builder"

OpenerInv(r) == OpenerTypes(r) /\ DoneInv(r) /\ PlaceInv(r) /\ LaunchInv(r)

(* Who created the workflow is one opener, and reports once.               *)
CreatorInv ==
  \A a, b \in Actors :
    /\ actor[a].task = actor[b].task
    /\ <<"create">> \in actor[a].done /\ <<"create">> \in actor[b].done
    => a = b

WholeTask(t) ==
  /\ \E d \in 1..MaxDocs :
       Len(hops[t]) >= 2 /\ hops[t][1] = Design(d)[1] /\ hops[t][2] = Design(d)[2]
  /\ Started(t) /\ flow[t].stages >= PreWork

OpenedInv ==
  /\ opened \in [Tasks -> 0..1]
  /\ \A t \in Tasks : opened[t] = 1 => WholeTask(t)
  /\ \A a \in Actors :
       <<"create">> \in actor[a].done /\ opened[actor[a].task] = 1 => actor[a].at = "reported"

OpenInv ==
  /\ doc \in [Tasks -> 1..MaxDocs] /\ StoreTypes
  /\ DOMAIN actor = Actors /\ actor = [a \in Actors |-> actor[a]]
  /\ \A a \in Actors : OpenerInv(actor[a])
  /\ CreatorInv /\ OpenedInv

LEMMA StepNames ==
  /\ \A s, u \in Steps : <<s>> = <<u>> => s = u
  /\ \A s \in Steps : \A n : <<s>> # Stage(n)
  /\ \A n, k : Stage(n) = Stage(k) => n = k
  /\ \A s \in Steps : <<s>> \in DoneNames
  /\ \A n \in 1..PreWork : Stage(n) \in DoneNames
BY DEF Stage, DoneNames, Steps

LEMMA IdleIsOpener == OpenerInv(Idle) /\ Idle.at = "idle" /\ Idle.done = {}
<1>1. PICK r : r = Idle
  OBVIOUS
<1>2. r = [at |-> "idle", task |-> NoTask, doc |-> 0, done |-> {}, seen |-> NoTask]
  BY <1>1 DEF Idle
<1>3. r.at = "idle" /\ r.task = NoTask /\ r.done = {} /\ IsOpener(r)
  BY <1>2 DEF IsOpener
<1>4. OpenerTypes(r)
  BY <1>3 DEF OpenerTypes, BeforeStages, AfterCreate
<1>5. DoneInv(r) /\ PlaceInv(r) /\ LaunchInv(r)
  BY <1>3 DEF DoneInv, PlaceInv, LaunchInv, BeforeStages, AfterCreate, AfterStart
<1> QED BY <1>1, <1>3, <1>4, <1>5 DEF OpenerInv

LEMMA OpenInitInv == OpenInit => OpenInv
<1> SUFFICES ASSUME OpenInit PROVE OpenInv
  OBVIOUS
<1>1. DOMAIN actor = Actors /\ actor = [a \in Actors |-> actor[a]]
      /\ \A a \in Actors : actor[a] = Idle
  <2> DEFINE z == Idle
  <2>1. actor = [a \in Actors |-> z]
    BY DEF OpenInit
  <2> HIDE DEF z
  <2>2. DOMAIN actor = Actors /\ actor = [a \in Actors |-> actor[a]]
        /\ \A a \in Actors : actor[a] = z
    BY <2>1
  <2> QED BY <2>2 DEF z
<1>2. StoreTypes
  <2>1. NoFlow \in [status : FlowStatuses, stages : 0..(PreWork + 1)]
    BY OpenBoundsAssumption DEF NoFlow, FlowStatuses
  <2>2. flow \in [Tasks -> [status : FlowStatuses, stages : 0..(PreWork + 1)]]
    BY <2>1 DEF OpenInit
  <2>3. hops \in [Tasks -> Seq(HopRecords)]
    BY EmptySeq DEF OpenInit
  <2> QED BY <2>2, <2>3 DEF StoreTypes, OpenInit
<1>3. doc \in [Tasks -> 1..MaxDocs] /\ opened \in [Tasks -> 0..1]
      /\ \A t \in Tasks : opened[t] = 0
  BY OpenBoundsAssumption DEF OpenInit
<1>4. \A a \in Actors : OpenerInv(actor[a]) /\ actor[a].done = {}
  BY <1>1, IdleIsOpener
<1>5. CreatorInv /\ OpenedInv
  BY <1>3, <1>4 DEF CreatorInv, OpenedInv
<1> QED BY <1>1, <1>2, <1>3, <1>4, <1>5 DEF OpenInv

-----------------------------------------------------------------------------
(* What a step of the stores leaves true.                                  *)
Grows ==
  \A t \in Tasks :
    /\ Len(hops[t]) <= Len(hops'[t])
    /\ \A i \in 1..Len(hops[t]) : hops'[t][i] = hops[t][i]
    /\ flow[t].status # "none" =>
         flow'[t].status # "none" /\ flow[t].stages <= flow'[t].stages
    /\ Started(t) => Started(t)'

LEMMA GrowsKeeps ==
  ASSUME StoreTypes, StoreTypes', Grows, NEW r, OpenerInv(r), r.at # "idle"
  PROVE  OpenerInv(r)'
<1> DEFINE t == r.task
<1>1. t \in Tasks
  BY DEF OpenerInv, OpenerTypes
<1>2. /\ hops[t] \in Seq(HopRecords) /\ hops'[t] \in Seq(HopRecords)
      /\ flow[t].stages \in Nat /\ flow'[t].stages \in Nat
      /\ Len(hops[t]) \in Nat /\ Len(hops'[t]) \in Nat /\ PreWork \in Nat
  BY <1>1, OpenBoundsAssumption DEF StoreTypes
<1>3. /\ Len(hops[t]) <= Len(hops'[t])
      /\ \A i \in 1..Len(hops[t]) : hops'[t][i] = hops[t][i]
      /\ flow[t].status # "none" =>
           flow'[t].status # "none" /\ flow[t].stages <= flow'[t].stages
      /\ Started(t) => Started(t)'
  BY <1>1 DEF Grows
<1>4. \A n \in 1..2 : Wrote(r, n) => Wrote(r, n)'
  BY <1>2, <1>3 DEF Wrote
<1>5. OpenerTypes(r)'
  BY DEF OpenerInv, OpenerTypes
<1>6. DoneInv(r)'
  <2>1. \A n \in 1..PreWork :
          Stage(n) \in r.done => flow'[t].status # "none" /\ flow'[t].stages >= n
    BY <1>2, <1>3 DEF OpenerInv, DoneInv
  <2> QED BY <1>3, <1>4, <2>1 DEF OpenerInv, DoneInv
<1>7. PlaceInv(r)'
  <2>1. r.at \in {"bind", "read_back", "reported"} =>
          flow'[t].status # "none" /\ flow'[t].stages >= PreWork
    BY <1>2, <1>3 DEF OpenerInv, PlaceInv
  <2> QED BY <2>1 DEF OpenerInv, PlaceInv
<1>8. LaunchInv(r)'
  <2>1. r.at = "launched" => \E i \in 1..Len(hops'[t]) : hops'[t][i].to = "builder"
    <3> SUFFICES ASSUME r.at = "launched"
                 PROVE  \E i \in 1..Len(hops'[t]) : hops'[t][i].to = "builder"
      OBVIOUS
    <3>1. PICK i \in 1..Len(hops[t]) : hops[t][i].to = "builder"
      BY DEF OpenerInv, LaunchInv
    <3> QED BY <1>2, <1>3, <3>1
  <2> QED BY <1>3, <2>1 DEF OpenerInv, LaunchInv
<1> QED BY <1>5, <1>6, <1>7, <1>8 DEF OpenerInv

LEMMA GrowsKeepsAll ==
  ASSUME StoreTypes, StoreTypes', Grows, NEW r, OpenerInv(r)
  PROVE  OpenerInv(r)'
<1>1. CASE r.at # "idle"
  BY <1>1, GrowsKeeps
<1>2. CASE r.at = "idle"
  <2>1. r.done = {}
    BY <1>2 DEF OpenerInv, OpenerTypes, BeforeStages, AfterCreate
  <2> QED BY <1>2, <2>1 DEF OpenerInv, OpenerTypes, DoneInv, PlaceInv, LaunchInv, BeforeStages,
                            AfterCreate, AfterStart
<1> QED BY <1>1, <1>2

LEMMA GrowsWhole ==
  ASSUME StoreTypes, StoreTypes', Grows, NEW t \in Tasks, WholeTask(t)
  PROVE  WholeTask(t)'
<1>1. /\ hops[t] \in Seq(HopRecords) /\ hops'[t] \in Seq(HopRecords)
      /\ flow[t].stages \in Nat /\ flow'[t].stages \in Nat
      /\ Len(hops[t]) \in Nat /\ Len(hops'[t]) \in Nat /\ PreWork \in Nat
  BY OpenBoundsAssumption DEF StoreTypes
<1>2. /\ Len(hops[t]) <= Len(hops'[t])
      /\ \A i \in 1..Len(hops[t]) : hops'[t][i] = hops[t][i]
      /\ flow[t].status # "none" => flow[t].stages <= flow'[t].stages
      /\ Started(t) => Started(t)'
  BY DEF Grows
<1>3. flow[t].status # "none" /\ Started(t) /\ flow[t].stages >= PreWork
  BY DEF WholeTask, Started
<1>4. PICK d \in 1..MaxDocs :
         Len(hops[t]) >= 2 /\ hops[t][1] = Design(d)[1] /\ hops[t][2] = Design(d)[2]
  BY DEF WholeTask
<1>5. Len(hops'[t]) >= 2 /\ hops'[t][1] = Design(d)[1] /\ hops'[t][2] = Design(d)[2]
  BY <1>1, <1>2, <1>4
<1>6. Started(t)' /\ flow'[t].stages >= PreWork
  BY <1>1, <1>2, <1>3
<1> QED BY <1>5, <1>6 DEF WholeTask

-----------------------------------------------------------------------------
(* One actor moves to the record r, the stores having only grown.          *)
LEMMA OpenMoves ==
  ASSUME OpenInv, NEW a \in Actors, NEW r,
         actor' = [actor EXCEPT ![a] = r],
         StoreTypes', Grows, UNCHANGED <<doc, opened>>,
         OpenerInv(r)',
         <<"create">> \in r.done =>
           \/ <<"create">> \in actor[a].done /\ r.task = actor[a].task
           \/ flow[r.task].status = "none",
         actor[a].at # "reported" \/ r.done = {},
         r.task \in Tasks \/ r.done = {}
  PROVE  OpenInv'
<1>1. /\ DOMAIN actor = Actors
      /\ \A b \in Actors : actor'[b] = IF b = a THEN r ELSE actor[b]
      /\ DOMAIN actor' = Actors /\ actor' = [b \in Actors |-> actor'[b]]
  BY DEF OpenInv
<1>2. \A b \in Actors : OpenerInv(actor[b])
  BY DEF OpenInv
<1>3. StoreTypes
  BY DEF OpenInv
<1>4. \A b \in Actors : OpenerInv(actor[b])'
  <2> SUFFICES ASSUME NEW b \in Actors PROVE OpenerInv(actor[b])'
    OBVIOUS
  <2>1. \E o : o = actor'[b] /\ OpenerInv(o)'
    <3>1. CASE b = a
      BY <1>1, <3>1
    <3>2. CASE b # a
      <4>1. PICK o : o = actor[b]
        OBVIOUS
      <4>2. OpenerInv(o)
        BY <1>2, <4>1
      <4>3. OpenerInv(o)'
        BY <1>3, <4>2, GrowsKeepsAll
      <4>4. actor'[b] = o
        BY <1>1, <3>2, <4>1
      <4> QED BY <4>3, <4>4
    <3> QED BY <3>1, <3>2
  <2>2. PICK o : o = actor'[b] /\ OpenerInv(o)'
    BY <2>1
  <2> QED BY <2>2 DEF OpenerInv, OpenerTypes, IsOpener, DoneInv, PlaceInv, LaunchInv, Wrote, Started
<1>5. \A t \in Tasks : opened[t] = 1 => flow[t].status # "none"
  BY DEF OpenInv, OpenedInv, WholeTask, Started
<1>6. \A b \in Actors : <<"create">> \in actor[b].done => flow[actor[b].task].status # "none"
  BY <1>2 DEF OpenerInv, DoneInv
<1>7. CreatorInv'
  <2> SUFFICES ASSUME NEW b \in Actors, NEW c \in Actors, actor'[b].task = actor'[c].task,
                      <<"create">> \in actor'[b].done, <<"create">> \in actor'[c].done, b # c
               PROVE  FALSE
    BY DEF CreatorInv
  <2>1. CreatorInv
    BY DEF OpenInv
  <2>2. b = a \/ c = a
    BY <1>1, <2>1 DEF CreatorInv
  <2>3. PICK d \in Actors : /\ d # a /\ actor[d].task = r.task
                            /\ <<"create">> \in actor[d].done /\ <<"create">> \in r.done
    BY <1>1, <2>2
  <2>4. flow[r.task].status # "none"
    BY <1>6, <2>3
  <2> QED BY <2>1, <2>3, <2>4 DEF CreatorInv
<1>8. OpenedInv'
  <2>1. opened' = opened /\ opened \in [Tasks -> 0..1]
    BY DEF OpenInv, OpenedInv
  <2>2. \A t \in Tasks : opened[t] = 1 => WholeTask(t)'
    BY GrowsWhole DEF OpenInv, OpenedInv
  <2>3. \A b \in Actors :
          <<"create">> \in actor'[b].done /\ opened[actor'[b].task] = 1 => actor'[b].at = "reported"
    <3>1. \A b \in Actors :
            <<"create">> \in actor[b].done /\ opened[actor[b].task] = 1 => actor[b].at = "reported"
      BY DEF OpenInv, OpenedInv
    <3>2. <<"create">> \in r.done /\ opened[r.task] = 1 => r.at = "reported"
      BY <1>5, <3>1
    <3> QED BY <1>1, <3>1, <3>2
  <2> QED BY <2>1, <2>2, <2>3 DEF OpenedInv
<1>9. doc' \in [Tasks -> 1..MaxDocs]
  BY DEF OpenInv
<1> QED BY <1>1, <1>4, <1>7, <1>8, <1>9 DEF OpenInv

(* The record an actor moves to.                                           *)
LEMMA DidGives ==
  ASSUME OpenInv, NEW a \in Actors, NEW step, NEW next, Did(a, step, next)
  PROVE  \E r : /\ actor' = [actor EXCEPT ![a] = r] /\ IsOpener(r)
                /\ r.at = next /\ r.task = actor[a].task /\ r.doc = actor[a].doc
                /\ r.done = actor[a].done \union {step}
<1>1. PICK o : o = actor[a]
  OBVIOUS
<1>2. IsOpener(o) /\ DOMAIN actor = Actors /\ actor = [b \in Actors |-> actor[b]]
  BY <1>1 DEF OpenInv, OpenerInv, OpenerTypes
<1>3. PICK r : r = [at |-> next, task |-> o.task, doc |-> o.doc,
                    done |-> o.done \union {step}, seen |-> o.seen]
  OBVIOUS
<1>4. r.at = next /\ r.task = o.task /\ r.doc = o.doc /\ r.done = o.done \union {step}
      /\ IsOpener(r)
  BY <1>3 DEF IsOpener
<1>5. actor' = [actor EXCEPT ![a] = r]
  <2>1. actor' = [actor EXCEPT ![a] = [o EXCEPT !.at = next, !.done = @ \union {step}]]
    BY <1>1, <1>2 DEF Did
  <2>2. [o EXCEPT !.at = next, !.done = @ \union {step}] = r
    <3>1. PICK u : u = o.done \union {step}
      OBVIOUS
    <3>2. PICK y : y = [o EXCEPT !.at = next, !.done = u]
      OBVIOUS
    <3>3. DOMAIN o = {"at", "task", "doc", "done", "seen"}
      BY <1>2 DEF IsOpener
    <3>4. /\ y = [f \in {"at", "task", "doc", "done", "seen"} |-> y[f]]
          /\ y.at = next /\ y.task = o.task /\ y.doc = o.doc /\ y.done = u /\ y.seen = o.seen
      BY <3>2, <3>3
    <3>5. /\ r = [f \in {"at", "task", "doc", "done", "seen"} |-> r[f]]
          /\ r.at = next /\ r.task = o.task /\ r.doc = o.doc /\ r.done = u /\ r.seen = o.seen
      BY <1>3, <3>1
    <3>6. y = r
      BY <3>4, <3>5
    <3> QED BY <3>1, <3>2, <3>6
  <2> QED BY <2>1, <2>2
<1> QED BY <1>1, <1>4, <1>5

LEMMA MovesGives ==
  ASSUME OpenInv, NEW a \in Actors, NEW where, Moves(a, where)
  PROVE  \E r : /\ actor' = [actor EXCEPT ![a] = r] /\ IsOpener(r)
                /\ r.at = where /\ r.task = actor[a].task /\ r.doc = actor[a].doc
                /\ r.done = actor[a].done
<1>1. PICK o : o = actor[a]
  OBVIOUS
<1>2. IsOpener(o) /\ DOMAIN actor = Actors /\ actor = [b \in Actors |-> actor[b]]
  BY <1>1 DEF OpenInv, OpenerInv, OpenerTypes
<1>3. PICK r : r = [at |-> where, task |-> o.task, doc |-> o.doc, done |-> o.done, seen |-> o.seen]
  OBVIOUS
<1>4. r.at = where /\ r.task = o.task /\ r.doc = o.doc /\ r.done = o.done /\ IsOpener(r)
  BY <1>3 DEF IsOpener
<1>5. actor' = [actor EXCEPT ![a] = r]
  <2>1. actor' = [actor EXCEPT ![a] = [o EXCEPT !.at = where]]
    BY <1>1, <1>2 DEF Moves
  <2>2. [o EXCEPT !.at = where] = r
    BY <1>2, <1>3 DEF IsOpener
  <2> QED BY <2>1, <2>2
<1> QED BY <1>1, <1>4, <1>5

(* The stores as they were have grown.                                     *)
LEMMA StillGrows ==
  ASSUME OpenInv, UNCHANGED <<hops, flow>>, boundTo' \in Tasks \union {NoTask}
  PROVE  StoreTypes' /\ Grows
<1>1. StoreTypes'
  BY DEF OpenInv, StoreTypes
<1>2. \A t \in Tasks : Len(hops[t]) \in Nat /\ flow[t].stages \in Int
  BY OpenBoundsAssumption DEF OpenInv, StoreTypes
<1>3. Grows
  BY <1>2 DEF Grows, Started
<1> QED BY <1>1, <1>3

LEMMA HopGrows ==
  ASSUME OpenInv, NEW t \in Tasks, NEW x \in HopRecords,
         hops' = [hops EXCEPT ![t] = Append(@, x)], UNCHANGED <<flow, boundTo>>
  PROVE  /\ StoreTypes' /\ Grows
         /\ Len(hops'[t]) = Len(hops[t]) + 1 /\ hops'[t][Len(hops[t]) + 1] = x
<1>1. hops \in [Tasks -> Seq(HopRecords)] /\ \A u \in Tasks : hops[u] \in Seq(HopRecords)
  BY DEF OpenInv, StoreTypes
<1>2. \A u \in Tasks : flow[u].stages \in Int /\ Len(hops[u]) \in Nat
  BY <1>1, OpenBoundsAssumption DEF OpenInv, StoreTypes
<1>3. hops'[t] = Append(hops[t], x) /\ \A u \in Tasks : u # t => hops'[u] = hops[u]
  BY <1>1
<1>4. /\ Append(hops[t], x) \in Seq(HopRecords)
      /\ Len(Append(hops[t], x)) = Len(hops[t]) + 1
      /\ Append(hops[t], x)[Len(hops[t]) + 1] = x
      /\ \A i \in 1..Len(hops[t]) : Append(hops[t], x)[i] = hops[t][i]
  BY <1>1, AppendProperties
<1>5. hops' \in [Tasks -> Seq(HopRecords)]
  BY <1>1, <1>4
<1>6. StoreTypes'
  BY <1>5 DEF OpenInv, StoreTypes
<1>7. Grows
  <2> SUFFICES ASSUME NEW u \in Tasks
               PROVE  /\ Len(hops[u]) <= Len(hops'[u])
                      /\ \A i \in 1..Len(hops[u]) : hops'[u][i] = hops[u][i]
    BY <1>2 DEF Grows, Started
  <2> QED BY <1>2, <1>3, <1>4
<1> QED BY <1>3, <1>4, <1>6, <1>7

LEMMA FlowGrows ==
  ASSUME OpenInv, NEW t \in Tasks,
         NEW f \in [status : FlowStatuses, stages : 0..(PreWork + 1)],
         flow' = [flow EXCEPT ![t] = f], UNCHANGED <<hops, boundTo>>,
         flow[t].status # "none" => f.status # "none" /\ flow[t].stages <= f.stages,
         Started(t) => f.status \notin {"none", "created"}
  PROVE  StoreTypes' /\ Grows /\ flow'[t] = f
<1>1. flow \in [Tasks -> [status : FlowStatuses, stages : 0..(PreWork + 1)]]
  BY DEF OpenInv, StoreTypes
<1>2. \A u \in Tasks : flow[u].stages \in Int /\ Len(hops[u]) \in Nat
  BY <1>1, OpenBoundsAssumption DEF OpenInv, StoreTypes
<1>3. flow'[t] = f /\ \A u \in Tasks : u # t => flow'[u] = flow[u]
  BY <1>1
<1>4. flow' \in [Tasks -> [status : FlowStatuses, stages : 0..(PreWork + 1)]]
  BY <1>1
<1>5. StoreTypes'
  BY <1>4 DEF OpenInv, StoreTypes
<1>6. Grows
  BY <1>2, <1>3 DEF Grows, Started
<1> QED BY <1>3, <1>5, <1>6

(* What an actor's own record says, once the stores have grown.            *)
LEMMA Carried ==
  ASSUME OpenInv, StoreTypes', Grows, NEW a \in Actors, NEW o, o = actor[a]
  PROVE  OpenerInv(o) /\ OpenerInv(o)'
<1>1. StoreTypes /\ OpenerInv(o)
  BY DEF OpenInv
<1> QED BY <1>1, GrowsKeepsAll

(* A call that fails, whatever it did to the stores.                       *)
LEMMA FailMoves ==
  ASSUME OpenInv, NEW a \in Actors,
         actor[a].at \in {"first", "second", "create", "start", "stages", "bind", "read_back"},
         Moves(a, "failed"), StoreTypes', Grows, UNCHANGED <<doc, opened>>
  PROVE  OpenInv'
<1>1. PICK o : o = actor[a]
  OBVIOUS
<1>2. OpenerInv(o) /\ OpenerInv(o)'
  BY <1>1, Carried
<1>3. PICK r : /\ actor' = [actor EXCEPT ![a] = r] /\ IsOpener(r)
               /\ r.at = "failed" /\ r.task = o.task /\ r.doc = o.doc /\ r.done = o.done
  BY <1>1, MovesGives
<1>4. o.at \in BeforeStages \union AfterCreate /\ o.task \in Tasks
  BY <1>1, <1>2 DEF BeforeStages, AfterCreate, OpenerInv, OpenerTypes
<1>5. OpenerInv(r)'
  <2>1. OpenerTypes(r)'
    BY <1>2, <1>3, <1>4 DEF OpenerInv, OpenerTypes
  <2>2. DoneInv(r)'
    BY <1>2, <1>3 DEF OpenerInv, DoneInv, Wrote, Started
  <2>3. PlaceInv(r)' /\ LaunchInv(r)'
    BY <1>3 DEF PlaceInv, LaunchInv, AfterCreate, AfterStart, BeforeStages
  <2> QED BY <2>1, <2>2, <2>3 DEF OpenerInv
<1>6. r.task = actor[a].task /\ r.done = actor[a].done /\ r.task \in Tasks /\ actor[a].at # "reported"
  BY <1>1, <1>3, <1>4
<1> QED BY <1>3, <1>5, <1>6, OpenMoves

(* An opener that has done a step moves on, the stores having grown so as  *)
(* to hold what it says of them.                                           *)
LEMMA DoneMoves ==
  ASSUME OpenInv, NEW a \in Actors, NEW o, o = actor[a], NEW step \in DoneNames, NEW next,
         o.at \in {"first", "second", "create", "start", "stages"},
         next \in {"second"} \union {"create"} \union (AfterCreate \ {"reported"}),
         Did(a, step, next), StoreTypes', Grows, UNCHANGED <<doc, opened>>,
         step = <<"create">> => flow[o.task].status = "none",
         \A r : r.at = next /\ r.task = o.task /\ r.doc = o.doc
                  /\ r.done = o.done \union {step} =>
                DoneInv(r)' /\ PlaceInv(r)'
  PROVE  OpenInv'
<1>2. OpenerInv(o) /\ OpenerInv(o)'
  BY Carried
<1>3. PICK r : /\ actor' = [actor EXCEPT ![a] = r] /\ IsOpener(r)
               /\ r.at = next /\ r.task = o.task /\ r.doc = o.doc /\ r.done = o.done \union {step}
  BY DidGives
<1>4. o.at \in BeforeStages \union AfterCreate /\ o.task \in Tasks
  BY <1>2 DEF BeforeStages, AfterCreate, OpenerInv, OpenerTypes
<1>5. OpenerInv(r)'
  <2>1. OpenerTypes(r)'
    BY <1>2, <1>3, <1>4 DEF OpenerInv, OpenerTypes, BeforeStages, AfterCreate
  <2>2. DoneInv(r)' /\ PlaceInv(r)'
    BY <1>3
  <2>3. LaunchInv(r)'
    BY <1>3 DEF LaunchInv, AfterCreate
  <2> QED BY <2>1, <2>2, <2>3 DEF OpenerInv
<1>6. <<"create">> \in r.done =>
           \/ <<"create">> \in actor[a].done /\ r.task = actor[a].task
           \/ flow[r.task].status = "none"
  BY <1>3
<1>7. r.task \in Tasks /\ actor[a].at # "reported"
  BY <1>3, <1>4
<1> QED BY <1>3, <1>5, <1>6, <1>7, OpenMoves

(* An actor turns to something else, the stores as they were.              *)
LEMMA LeaveKeeps ==
  ASSUME OpenInv, NEW a \in Actors, Leaves(a), UNCHANGED <<stores, bounds>>
  PROVE  OpenInv'
<1>1. PICK r : r = Idle
  OBVIOUS
<1>2. actor' = [actor EXCEPT ![a] = r]
  BY <1>1 DEF Leaves
<1>3. StoreTypes' /\ Grows
  BY StillGrows DEF OpenInv, StoreTypes, stores
<1>4. StoreTypes /\ OpenerInv(r) /\ r.done = {}
  BY <1>1, IdleIsOpener DEF OpenInv
<1>5. OpenerInv(r)'
  BY <1>3, <1>4, GrowsKeepsAll
<1>6. UNCHANGED <<doc, opened>>
  BY DEF bounds
<1> QED BY <1>2, <1>3, <1>4, <1>5, <1>6, OpenMoves

(* An idle actor begins, whatever it begins.                               *)
LEMMA BeginKeeps ==
  ASSUME OpenInv, NEW a \in Actors, NEW r, actor' = [actor EXCEPT ![a] = r],
         IsOpener(r), r.done = {}, r.task \in Tasks,
         r.at \in {"checking", "told_to_open", "bound"}, r.at = "checking" => r.doc \in 1..MaxDocs,
         UNCHANGED <<stores, doc, opened>>
  PROVE  OpenInv'
<1>1. StoreTypes' /\ Grows
  BY StillGrows DEF OpenInv, StoreTypes, stores
<1>2. OpenerTypes(r)'
  BY DEF OpenerTypes, BeforeStages, AfterCreate
<1>3. DoneInv(r)' /\ PlaceInv(r)' /\ LaunchInv(r)'
  BY DEF DoneInv, PlaceInv, LaunchInv, BeforeStages, AfterCreate, AfterStart
<1>4. OpenerInv(r)'
  BY <1>2, <1>3 DEF OpenerInv
<1> QED BY <1>1, <1>4, OpenMoves

(* An opener that only looked moves on, and nothing it says is new.        *)
LEMMA LookKeeps ==
  ASSUME OpenInv, NEW a \in Actors, NEW from, NEW where, Is(a, from), Moves(a, where),
         UNCHANGED <<stores, bounds>>,
         \/ from = "checking" /\ where = "chain_free"
         \/ from = "chain_free" /\ where = "first"
         \/ /\ from = "bound" /\ where \in {"in_force", "told_to_open"}
            /\ where = "in_force" => Started(actor[a].task)
         \/ /\ from = "in_force" /\ where \in {"launched", "told_to_hop", "told_to_open"}
            /\ where = "launched" => \E i \in 1..Len(hops[actor[a].task]) :
                                        hops[actor[a].task][i].to = "builder"
  PROVE  OpenInv'
<1>1. StoreTypes' /\ Grows /\ UNCHANGED <<doc, opened, hops, flow>>
  BY StillGrows DEF OpenInv, StoreTypes, stores, bounds
<1>2. PICK o : o = actor[a]
  OBVIOUS
<1>3. OpenerInv(o) /\ OpenerInv(o)' /\ o.at = from
  BY <1>1, <1>2, Carried DEF Is
<1>4. PICK r : /\ actor' = [actor EXCEPT ![a] = r] /\ IsOpener(r)
               /\ r.at = where /\ r.task = o.task /\ r.doc = o.doc /\ r.done = o.done
  BY <1>2, MovesGives
<1>5. o.task \in Tasks
  BY <1>3 DEF OpenerInv, OpenerTypes
<1>6. OpenerInv(r)'
  <2>1. OpenerTypes(r)'
    BY <1>3, <1>4 DEF OpenerInv, OpenerTypes, BeforeStages, AfterCreate
  <2>2. DoneInv(r)'
    BY <1>3, <1>4 DEF OpenerInv, DoneInv, Wrote, Started
  <2>3. PlaceInv(r)'
    BY <1>3, <1>4 DEF OpenerInv, OpenerTypes, PlaceInv, BeforeStages, AfterCreate, AfterStart
  <2>4. LaunchInv(r)'
    BY <1>1, <1>2, <1>3, <1>4 DEF OpenerInv, LaunchInv, Started
  <2> QED BY <2>1, <2>2, <2>3, <2>4 DEF OpenerInv
<1>7. r.task = actor[a].task /\ r.done = actor[a].done /\ r.task \in Tasks /\ actor[a].at # "reported"
  BY <1>2, <1>3, <1>4, <1>5
<1> QED BY <1>1, <1>4, <1>6, <1>7, OpenMoves

-----------------------------------------------------------------------------
(* One lemma per step.                                                     *)
LEMMA BeginOpenKeeps ==
  ASSUME OpenInv, NEW a \in Actors, NEW t \in Tasks, BeginOpen(a, t)
  PROVE  OpenInv'
<1>1. PICK d : d = doc[t]
  OBVIOUS
<1>2. d \in 1..MaxDocs
  BY <1>1 DEF OpenInv
<1>3. PICK i : i = Idle
  OBVIOUS
<1>4. i = [at |-> "idle", task |-> NoTask, doc |-> 0, done |-> {}, seen |-> NoTask]
  BY <1>3 DEF Idle
<1>5. PICK r : r = [i EXCEPT !.at = "checking", !.task = t, !.doc = d]
  OBVIOUS
<1>6. r = [at |-> "checking", task |-> t, doc |-> d, done |-> {}, seen |-> NoTask]
  BY <1>4, <1>5
<1>7. r.at = "checking" /\ r.task = t /\ r.doc = d /\ r.done = {} /\ IsOpener(r)
  BY <1>6 DEF IsOpener
<1>8. actor' = [actor EXCEPT ![a] = r] /\ UNCHANGED <<stores, doc, opened>>
  BY <1>1, <1>3, <1>5 DEF BeginOpen
<1> QED BY <1>2, <1>7, <1>8, BeginKeeps

LEMMA BeginLaunchKeeps ==
  ASSUME OpenInv, NEW a \in Actors, NEW t \in Tasks, BeginLaunch(a, t)
  PROVE  OpenInv'
<1>1. PICK where : where = IF boundTo = NoTask THEN "told_to_open" ELSE "bound"
  OBVIOUS
<1>2. where \in {"told_to_open", "bound"}
  BY <1>1
<1>3. PICK i : i = Idle
  OBVIOUS
<1>4. i = [at |-> "idle", task |-> NoTask, doc |-> 0, done |-> {}, seen |-> NoTask]
  BY <1>3 DEF Idle
<1>5. PICK r : r = [i EXCEPT !.at = where, !.task = t, !.seen = boundTo]
  OBVIOUS
<1>6. r = [at |-> where, task |-> t, doc |-> 0, done |-> {}, seen |-> boundTo]
  BY <1>4, <1>5
<1>7. r.at = where /\ r.task = t /\ r.done = {} /\ IsOpener(r)
  BY <1>6 DEF IsOpener
<1>8. actor' = [actor EXCEPT ![a] = r] /\ UNCHANGED <<stores, doc, opened>>
  BY <1>1, <1>3, <1>5 DEF BeginLaunch, bounds
<1> QED BY <1>2, <1>7, <1>8, BeginKeeps

LEMMA ChecksKeep ==
  ASSUME OpenInv, NEW a \in Actors, CheckChain(a) \/ CheckFlow(a)
  PROVE  OpenInv'
<1>1. UNCHANGED <<stores, bounds>>
  BY DEF CheckChain, CheckFlow
<1>2. CASE Leaves(a)
  BY <1>1, <1>2, LeaveKeeps
<1>3. CASE Is(a, "checking") /\ Moves(a, "chain_free")
  BY <1>1, <1>3, LookKeeps
<1>4. CASE Is(a, "chain_free") /\ Moves(a, "first")
  BY <1>1, <1>4, LookKeeps
<1> QED BY <1>2, <1>3, <1>4 DEF CheckChain, CheckFlow

LEMMA CallFailsKeeps ==
  ASSUME OpenInv, NEW a \in Actors, CallFails(a)
  PROVE  OpenInv'
<1>1. UNCHANGED <<stores, bounds>> /\ Moves(a, "failed")
      /\ actor[a].at \in {"first", "second", "create", "start", "stages", "bind"}
  BY DEF CallFails
<1>2. StoreTypes' /\ Grows /\ UNCHANGED <<doc, opened>>
  BY <1>1, StillGrows DEF OpenInv, StoreTypes, stores, bounds
<1> QED BY <1>1, <1>2, FailMoves

LEMMA DesignRecords ==
  ASSUME NEW d \in 1..MaxDocs
  PROVE  /\ Design(d) = <<Hop("estimator", d), Hop("builder", d)>>
         /\ Hop("estimator", d) \in HopRecords /\ Hop("builder", d) \in HopRecords
         /\ Hop("estimator", d).doc = d /\ Hop("builder", d).doc = d
         /\ Hop("estimator", d).to = "estimator" /\ Hop("builder", d).to = "builder"
         /\ Len(SubSeq(Design(d), 1, 0)) = 0 /\ Len(SubSeq(Design(d), 1, 1)) = 1
         /\ SubSeq(Design(d), 1, 1)[1] = Design(d)[1]
<1>1. {"estimator", "builder"} \subseteq Roles
  <2>1. Vocabulary[3] = "estimator" /\ Vocabulary[4] = "builder" /\ Len(Vocabulary) = 8
    BY DEF Vocabulary
  <2> QED BY <2>1 DEF Roles
<1>2. d \in 0..MaxDocs
  BY OpenBoundsAssumption
<1>3. /\ Hop("estimator", d) \in HopRecords /\ Hop("builder", d) \in HopRecords
      /\ Hop("estimator", d).doc = d /\ Hop("builder", d).doc = d
      /\ Hop("estimator", d).to = "estimator" /\ Hop("builder", d).to = "builder"
  BY <1>1, <1>2 DEF Hop, HopRecords
<1>4. PICK x, y : x = Hop("estimator", d) /\ y = Hop("builder", d)
  OBVIOUS
<1>5. Design(d) = <<x, y>>
  BY <1>4 DEF Design
<1>6. Len(SubSeq(<<x, y>>, 1, 0)) = 0 /\ Len(SubSeq(<<x, y>>, 1, 1)) = 1
      /\ SubSeq(<<x, y>>, 1, 1)[1] = <<x, y>>[1]
  OBVIOUS
<1> QED BY <1>3, <1>5, <1>6 DEF Design

LEMMA AppendKeeps ==
  ASSUME OpenInv, NEW a \in Actors,
         NEW n \in 1..2, NEW step, NEW next,
         \/ n = 1 /\ step = "first" /\ next = "second"
         \/ n = 2 /\ step = "second" /\ next = "create",
         AppendRecord(a, n, step, next)
  PROVE  OpenInv'
<1>1. PICK o : o = actor[a]
  OBVIOUS
<1>2. OpenerInv(o)
  BY <1>1 DEF OpenInv
<1>3. PICK t, d : t = o.task /\ d = o.doc
  OBVIOUS
<1>4. o.at = step /\ t \in Tasks /\ d \in 1..MaxDocs
  BY <1>1, <1>2, <1>3 DEF AppendRecord, Is, OpenerInv, OpenerTypes, BeforeStages
<1>5. PICK x : x = Design(d)[n]
  OBVIOUS
<1>6. x \in HopRecords /\ x.doc = d
  BY <1>4, <1>5, DesignRecords
<1>7. UNCHANGED <<flow, boundTo, doc, opened>>
  BY DEF AppendRecord, bounds
<1>8. CASE Moves(a, "failed") /\ UNCHANGED hops
  <2>1. StoreTypes' /\ Grows
    BY <1>7, <1>8, StillGrows DEF OpenInv, StoreTypes
  <2> QED BY <1>1, <1>4, <1>7, <1>8, <2>1, FailMoves
<1>9. CASE /\ Appends(t, n, x)
           /\ hops' = IF n <= Len(hops[t]) THEN hops ELSE [hops EXCEPT ![t] = Append(@, x)]
           /\ Outcome(a, <<step>>, next)
  <2>0. hops[t] \in Seq(HopRecords) /\ Len(hops[t]) \in Nat
    BY <1>4 DEF OpenInv, StoreTypes
  <2>1. StoreTypes' /\ Grows /\ Len(hops'[t]) >= n /\ hops'[t][n] = x
    <3>1. CASE n <= Len(hops[t])
      <4>1. hops' = hops /\ hops[t][n] = x
        BY <1>9, <3>1 DEF Appends
      <4>2. StoreTypes' /\ Grows
        BY <1>7, <4>1, StillGrows DEF OpenInv, StoreTypes
      <4> QED BY <2>0, <3>1, <4>1, <4>2
    <3>2. CASE n > Len(hops[t])
      <4>1. hops' = [hops EXCEPT ![t] = Append(@, x)] /\ hops[t] = SubSeq(Design(d), 1, n - 1)
        BY <1>6, <1>9, <2>0, <3>2 DEF Appends
      <4>2. StoreTypes' /\ Grows /\ Len(hops'[t]) = Len(hops[t]) + 1
            /\ hops'[t][Len(hops[t]) + 1] = x
        BY <1>4, <1>6, <1>7, <4>1, HopGrows
      <4>3. Len(hops[t]) = n - 1
        <5>1. CASE n = 1
          BY <1>4, <4>1, <5>1, DesignRecords
        <5>2. CASE n = 2
          BY <1>4, <4>1, <5>2, DesignRecords
        <5> QED BY <5>1, <5>2
      <4> QED BY <4>2, <4>3
    <3> QED BY <2>0, <3>1, <3>2
  <2>2. CASE Moves(a, "failed")
    BY <1>1, <1>4, <1>7, <2>1, <2>2, FailMoves
  <2>3. CASE Did(a, <<step>>, next)
    <3>1. OpenerInv(o)'
      BY <1>1, <2>1, Carried
    <3>2. <<step>> \in DoneNames /\ <<step>> # <<"create">> /\ <<step>> # <<"start">>
          /\ (n = 1 => <<step>> = <<"first">>) /\ (n = 2 => <<step>> = <<"second">>)
          /\ (n = 1 => <<step>> # <<"second">>) /\ (n = 2 => <<step>> # <<"first">>)
          /\ \A k : <<step>> # Stage(k)
      BY StepNames DEF Steps
    <3>3. \A r : r.at = next /\ r.task = o.task /\ r.doc = o.doc
                   /\ r.done = o.done \union {<<step>>} => DoneInv(r)' /\ PlaceInv(r)'
      <4> SUFFICES ASSUME NEW r, r.at = next, r.task = o.task, r.doc = o.doc,
                          r.done = o.done \union {<<step>>}
                   PROVE  DoneInv(r)' /\ PlaceInv(r)'
        OBVIOUS
      <4>1. Wrote(r, n)'
        BY <1>3, <1>5, <2>1 DEF Wrote
      <4>2. DoneInv(r)'
        BY <3>1, <3>2, <4>1 DEF OpenerInv, DoneInv, Wrote, Started
      <4>3. PlaceInv(r)'
        BY <1>4, <3>1, <3>2 DEF OpenerInv, PlaceInv, BeforeStages, AfterCreate, AfterStart
      <4> QED BY <4>2, <4>3
    <3>4. o.at \in {"first", "second", "create", "start", "stages"}
          /\ next \in {"second"} \union {"create"} \union (AfterCreate \ {"reported"})
      BY <1>4 DEF AfterCreate
    <3> QED BY <1>1, <1>7, <2>1, <2>3, <3>2, <3>3, <3>4, DoneMoves
  <2> QED BY <1>9, <2>2, <2>3 DEF Outcome
<1> QED BY <1>1, <1>3, <1>5, <1>8, <1>9 DEF AppendRecord

LEMMA CreateKeeps ==
  ASSUME OpenInv, NEW a \in Actors, Create(a)
  PROVE  OpenInv'
<1>1. PICK o : o = actor[a]
  OBVIOUS
<1>2. PICK t : t = o.task
  OBVIOUS
<1>3. OpenerInv(o)
  BY <1>1 DEF OpenInv
<1>4. o.at = "create" /\ t \in Tasks
  BY <1>1, <1>2, <1>3 DEF Create, Is, OpenerInv, OpenerTypes
<1>5. PICK f : f = [status |-> "created", stages |-> 0]
  OBVIOUS
<1>6. f \in [status : FlowStatuses, stages : 0..(PreWork + 1)] /\ f.status = "created"
  BY <1>5, OpenBoundsAssumption DEF FlowStatuses
<1>7. /\ flow[t].status = "none" /\ flow' = [flow EXCEPT ![t] = f]
      /\ Outcome(a, <<"create">>, "start") /\ UNCHANGED <<hops, boundTo, doc, opened>>
  BY <1>1, <1>2, <1>5 DEF Create, Creates, bounds
<1>8. StoreTypes' /\ Grows /\ flow'[t] = f
  BY <1>4, <1>6, <1>7, FlowGrows DEF Started
<1>9. CASE Moves(a, "failed")
  BY <1>1, <1>4, <1>7, <1>8, <1>9, FailMoves
<1>10. CASE Did(a, <<"create">>, "start")
  <2>1. OpenerInv(o)'
    BY <1>1, <1>8, Carried
  <2>2. /\ <<"create">> \in DoneNames /\ <<"create">> # <<"start">>
        /\ <<"create">> # <<"first">> /\ <<"create">> # <<"second">>
        /\ \A k : <<"create">> # Stage(k)
    BY StepNames DEF Steps
  <2>3. \A r : r.at = "start" /\ r.task = o.task /\ r.doc = o.doc
                 /\ r.done = o.done \union {<<"create">>} => DoneInv(r)' /\ PlaceInv(r)'
    <3> SUFFICES ASSUME NEW r, r.at = "start", r.task = o.task, r.doc = o.doc,
                        r.done = o.done \union {<<"create">>}
                 PROVE  DoneInv(r)' /\ PlaceInv(r)'
      OBVIOUS
    <3>1. flow'[r.task].status # "none"
      BY <1>2, <1>6, <1>8
    <3>2. DoneInv(r)'
      BY <2>1, <2>2, <3>1 DEF OpenerInv, DoneInv, Wrote, Started
    <3>3. PlaceInv(r)'
      BY <1>4, <2>1, <2>2 DEF OpenerInv, PlaceInv, BeforeStages, AfterCreate, AfterStart
    <3> QED BY <3>2, <3>3
  <2>4. "start" \in AfterCreate \ {"reported"}
    BY DEF AfterCreate
  <2> QED BY <1>1, <1>2, <1>4, <1>7, <1>8, <1>10, <2>2, <2>3, <2>4, DoneMoves
<1> QED BY <1>7, <1>9, <1>10 DEF Outcome

LEMMA StartKeeps ==
  ASSUME OpenInv, NEW a \in Actors, Start(a)
  PROVE  OpenInv'
<1>1. PICK o : o = actor[a]
  OBVIOUS
<1>2. PICK t : t = o.task
  OBVIOUS
<1>3. OpenerInv(o)
  BY <1>1 DEF OpenInv
<1>4. o.at = "start" /\ t \in Tasks
  BY <1>1, <1>2, <1>3 DEF Start, Is, OpenerInv, OpenerTypes
<1>5. PICK f : f = [flow[t] EXCEPT !.status = "running"]
  OBVIOUS
<1>6. flow \in [Tasks -> [status : FlowStatuses, stages : 0..(PreWork + 1)]]
  BY DEF OpenInv, StoreTypes
<1>7. /\ f \in [status : FlowStatuses, stages : 0..(PreWork + 1)]
      /\ f.status = "running" /\ f.stages = flow[t].stages
  BY <1>4, <1>5, <1>6 DEF FlowStatuses
<1>8. /\ flow' = [flow EXCEPT ![t] = f]
      /\ Outcome(a, <<"start">>, "stages") /\ UNCHANGED <<hops, boundTo, doc, opened>>
  BY <1>1, <1>2, <1>5 DEF Start, bounds
<1>9. flow[t].stages <= f.stages
  BY <1>4, <1>6, <1>7, OpenBoundsAssumption
<1>10. StoreTypes' /\ Grows /\ flow'[t] = f
  BY <1>4, <1>7, <1>8, <1>9, FlowGrows
<1>11. CASE Moves(a, "failed")
  BY <1>1, <1>4, <1>8, <1>10, <1>11, FailMoves
<1>12. CASE Did(a, <<"start">>, "stages")
  <2>1. OpenerInv(o)'
    BY <1>1, <1>10, Carried
  <2>2. /\ <<"start">> \in DoneNames /\ <<"create">> # <<"start">>
        /\ <<"start">> # <<"first">> /\ <<"start">> # <<"second">>
        /\ \A k : <<"start">> # Stage(k)
    BY StepNames DEF Steps
  <2>3. PreWork \in 1..PreWork
    BY OpenBoundsAssumption
  <2>4. \A r : r.at = "stages" /\ r.task = o.task /\ r.doc = o.doc
                 /\ r.done = o.done \union {<<"start">>} => DoneInv(r)' /\ PlaceInv(r)'
    <3> SUFFICES ASSUME NEW r, r.at = "stages", r.task = o.task, r.doc = o.doc,
                        r.done = o.done \union {<<"start">>}
                 PROVE  DoneInv(r)' /\ PlaceInv(r)'
      OBVIOUS
    <3>1. Started(r.task)'
      BY <1>2, <1>7, <1>10 DEF Started
    <3>2. DoneInv(r)'
      BY <2>1, <2>2, <3>1 DEF OpenerInv, DoneInv, Wrote, Started
    <3>3. PlaceInv(r)'
      BY <1>4, <2>1, <2>2, <2>3 DEF OpenerInv, PlaceInv, BeforeStages, AfterCreate, AfterStart
    <3> QED BY <3>2, <3>3
  <2>5. "stages" \in AfterCreate \ {"reported"}
    BY DEF AfterCreate
  <2> QED BY <1>1, <1>4, <1>8, <1>10, <1>12, <2>2, <2>4, <2>5, DoneMoves
<1> QED BY <1>8, <1>11, <1>12 DEF Outcome

(* An opener that has not recorded the last stage has recorded fewer.      *)
LEMMA FewerRecorded ==
  ASSUME NEW a \in Actors, Stage(PreWork) \notin actor[a].done
  PROVE  Recorded(a) \in 0..(PreWork - 1)
<1> DEFINE S == {n \in 1..PreWork : Stage(n) \in actor[a].done}
<1>1. PreWork \in Nat \ {0}
  BY OpenBoundsAssumption
<1>2. S \subseteq 1..(PreWork - 1)
  BY <1>1
<1>3. IsFiniteSet(1..(PreWork - 1)) /\ Cardinality(1..(PreWork - 1)) = PreWork - 1
  BY <1>1, FS_Interval
<1>4. Cardinality(S) \in Nat /\ Cardinality(S) <= PreWork - 1
  BY <1>2, <1>3, FS_Subset, FS_CardinalityType
<1> QED BY <1>1, <1>4 DEF Recorded

LEMMA StageKeeps ==
  ASSUME OpenInv, NEW a \in Actors, RecordPreWork(a)
  PROVE  OpenInv'
<1>1. PICK o : o = actor[a]
  OBVIOUS
<1>2. PICK t, n : t = o.task /\ n = Recorded(a) + 1
  OBVIOUS
<1>3. OpenerInv(o)
  BY <1>1 DEF OpenInv
<1>4. o.at = "stages" /\ t \in Tasks /\ Stage(PreWork) \notin o.done
  BY <1>1, <1>2, <1>3 DEF RecordPreWork, Is, OpenerInv, OpenerTypes, PlaceInv
<1>5. n \in 1..PreWork /\ n \in 0..(PreWork + 1) /\ PreWork \in Nat \ {0}
  BY <1>1, <1>2, <1>4, FewerRecorded, OpenBoundsAssumption
<1>6. PICK f : f = [flow[t] EXCEPT !.stages = n]
  OBVIOUS
<1>7. flow \in [Tasks -> [status : FlowStatuses, stages : 0..(PreWork + 1)]]
  BY DEF OpenInv, StoreTypes
<1>8. /\ f \in [status : FlowStatuses, stages : 0..(PreWork + 1)]
      /\ f.status = flow[t].status /\ f.stages = n
  BY <1>4, <1>5, <1>6, <1>7
<1>9. /\ flow' = [flow EXCEPT ![t] = f] /\ flow[t].status = "running" /\ flow[t].stages + 1 = n
      /\ UNCHANGED <<hops, boundTo, doc, opened>>
      /\ \/ Did(a, Stage(n), IF LastStage(n) THEN "bind" ELSE "stages")
         \/ Moves(a, "failed")
  BY <1>1, <1>2, <1>6 DEF RecordPreWork, bounds
<1>10. flow[t].stages <= f.stages
  BY <1>4, <1>5, <1>7, <1>8, <1>9
<1>11. StoreTypes' /\ Grows /\ flow'[t] = f
  BY <1>4, <1>8, <1>9, <1>10, FlowGrows DEF Started
<1>12. CASE Moves(a, "failed")
  BY <1>1, <1>4, <1>9, <1>11, <1>12, FailMoves
<1>13. CASE Did(a, Stage(n), IF LastStage(n) THEN "bind" ELSE "stages")
  <2>1. OpenerInv(o)'
    BY <1>1, <1>11, Carried
  <2>2. PICK s, next : s = Stage(n) /\ next = IF LastStage(n) THEN "bind" ELSE "stages"
    OBVIOUS
  <2>3. /\ s \in DoneNames /\ s # <<"create">> /\ s # <<"start">>
        /\ s # <<"first">> /\ s # <<"second">> /\ \A k : s = Stage(k) => k = n
    BY <1>5, <2>2, StepNames DEF Steps
  <2>4. /\ next \in AfterStart /\ next \in AfterCreate \ {"reported"}
        /\ next \in {"bind", "stages"} /\ (next = "bind" <=> n = PreWork)
    BY <2>2 DEF AfterCreate, AfterStart, LastStage
  <2>5. \A r : r.at = next /\ r.task = o.task /\ r.doc = o.doc
                 /\ r.done = o.done \union {s} => DoneInv(r)' /\ PlaceInv(r)'
    <3> SUFFICES ASSUME NEW r, r.at = next, r.task = o.task, r.doc = o.doc,
                        r.done = o.done \union {s}
                 PROVE  DoneInv(r)' /\ PlaceInv(r)'
      OBVIOUS
    <3>1. flow'[r.task].status # "none" /\ flow'[r.task].stages = n
      BY <1>2, <1>8, <1>9, <1>11
    <3>2. \A k \in 1..PreWork : Stage(k) \in r.done =>
            flow'[r.task].status # "none" /\ flow'[r.task].stages >= k
      BY <1>5, <2>1, <2>3, <3>1 DEF OpenerInv, DoneInv
    <3>3. DoneInv(r)'
      BY <2>1, <2>3, <3>2 DEF OpenerInv, DoneInv, Wrote, Started
    <3>4. /\ <<"first">> \in r.done /\ <<"second">> \in r.done
          /\ <<"create">> \in r.done /\ <<"start">> \in r.done
      BY <1>3, <1>4 DEF OpenerInv, PlaceInv, AfterCreate, AfterStart
    <3>5. r.at = "stages" => Stage(PreWork) \notin r.done
      BY <1>4, <2>3, <2>4
    <3>6. r.at \in {"bind", "read_back", "reported"} => flow'[r.task].stages >= PreWork
      BY <1>5, <2>4, <3>1
    <3>7. r.at \notin BeforeStages
      BY <2>4 DEF BeforeStages
    <3>8. PlaceInv(r)'
      BY <3>1, <3>4, <3>5, <3>6, <3>7 DEF PlaceInv
    <3> QED BY <3>3, <3>8
  <2>6. Did(a, s, next) /\ s # <<"create">> /\ o.at \in {"first", "second", "create", "start", "stages"}
    BY <1>4, <1>13, <2>2, <2>3
  <2> QED BY <1>1, <1>9, <1>11, <2>3, <2>4, <2>5, <2>6, DoneMoves
<1> QED BY <1>9, <1>12, <1>13

LEMMA BindKeeps ==
  ASSUME OpenInv, NEW a \in Actors, Bind(a)
  PROVE  OpenInv'
<1>1. PICK o : o = actor[a]
  OBVIOUS
<1>2. OpenerInv(o) /\ o.at = "bind" /\ o.task \in Tasks /\ o.doc \in 1..MaxDocs
  BY <1>1 DEF OpenInv, Bind, Is, OpenerInv, OpenerTypes, AfterCreate
<1>3. StoreTypes' /\ Grows /\ UNCHANGED <<doc, opened>>
  BY <1>1, <1>2, StillGrows DEF Bind, bounds
<1>4. OpenerInv(o)'
  BY <1>1, <1>3, Carried
<1>5. CASE Moves(a, "failed")
  BY <1>1, <1>2, <1>3, <1>5, FailMoves
<1>6. CASE Moves(a, "read_back")
  <2>1. PICK r : /\ actor' = [actor EXCEPT ![a] = r] /\ IsOpener(r)
                 /\ r.at = "read_back" /\ r.task = o.task /\ r.doc = o.doc /\ r.done = o.done
    BY <1>1, <1>6, MovesGives
  <2>2. OpenerTypes(r)'
    BY <1>2, <1>4, <2>1 DEF OpenerInv, OpenerTypes, BeforeStages, AfterCreate
  <2>3. DoneInv(r)'
    BY <1>4, <2>1 DEF OpenerInv, DoneInv, Wrote, Started
  <2>4. PlaceInv(r)'
    BY <1>2, <1>4, <2>1 DEF OpenerInv, PlaceInv, BeforeStages, AfterCreate, AfterStart
  <2>5. LaunchInv(r)'
    BY <2>1 DEF LaunchInv
  <2>6. OpenerInv(r)'
    BY <2>2, <2>3, <2>4, <2>5 DEF OpenerInv
  <2>7. r.task = actor[a].task /\ r.done = actor[a].done /\ r.task \in Tasks /\ actor[a].at # "reported"
    BY <1>1, <1>2, <2>1
  <2> QED BY <1>3, <2>1, <2>6, <2>7, OpenMoves
<1> QED BY <1>5, <1>6 DEF Bind

LEMMA ReportKeeps ==
  ASSUME OpenInv, NEW a \in Actors, Report(a)
  PROVE  OpenInv'
<1>1. PICK o : o = actor[a]
  OBVIOUS
<1>2. PICK t : t = o.task
  OBVIOUS
<1>3. OpenerInv(o) /\ o.at = "read_back" /\ t \in Tasks /\ o.doc \in 1..MaxDocs
  BY <1>1, <1>2 DEF OpenInv, Report, Is, OpenerInv, OpenerTypes, AfterCreate
<1>4. UNCHANGED <<doc, hops, flow, boundTo>> /\ StoreTypes /\ StoreTypes' /\ Grows
  BY StillGrows DEF Report, stores, OpenInv, StoreTypes
<1>5. CASE Moves(a, "failed") /\ UNCHANGED opened
  BY <1>1, <1>3, <1>4, <1>5, FailMoves
<1>6. CASE Did(a, <<"bind">>, "reported") /\ opened' = [opened EXCEPT ![t] = @ + 1]
  <2>1. PICK r : /\ actor' = [actor EXCEPT ![a] = r] /\ IsOpener(r)
                 /\ r.at = "reported" /\ r.task = o.task /\ r.doc = o.doc
                 /\ r.done = o.done \union {<<"bind">>}
    BY <1>1, <1>6, DidGives
  <2>2. /\ <<"bind">> \in DoneNames /\ <<"create">> # <<"bind">> /\ <<"start">> # <<"bind">>
        /\ <<"bind">> # <<"first">> /\ <<"bind">> # <<"second">>
        /\ \A k : <<"bind">> # Stage(k)
    BY StepNames DEF Steps
  <2>3. OpenerInv(o)'
    BY <1>1, <1>4, Carried
  <2>4. OpenerInv(r)'
    <3>1. OpenerTypes(r)'
      BY <1>3, <2>1, <2>2, <2>3 DEF OpenerInv, OpenerTypes, BeforeStages, AfterCreate
    <3>2. DoneInv(r)'
      BY <2>1, <2>2, <2>3 DEF OpenerInv, DoneInv, Wrote, Started
    <3>3. PlaceInv(r)'
      BY <1>3, <2>1, <2>2, <2>3 DEF OpenerInv, PlaceInv, BeforeStages, AfterCreate, AfterStart
    <3>4. LaunchInv(r)'
      BY <2>1 DEF LaunchInv
    <3> QED BY <3>1, <3>2, <3>3, <3>4 DEF OpenerInv
  <2>5. /\ DOMAIN actor = Actors
        /\ \A b \in Actors : actor'[b] = IF b = a THEN r ELSE actor[b]
        /\ DOMAIN actor' = Actors /\ actor' = [b \in Actors |-> actor'[b]]
    BY <2>1 DEF OpenInv
  <2>6. \A b \in Actors : OpenerInv(actor[b])'
    <3> SUFFICES ASSUME NEW b \in Actors PROVE OpenerInv(actor[b])'
      OBVIOUS
    <3>1. \E u : u = actor'[b] /\ OpenerInv(u)'
      <4>1. CASE b = a
        BY <2>4, <2>5, <4>1
      <4>2. CASE b # a
        <5>1. PICK u : u = actor[b]
          OBVIOUS
        <5>2. OpenerInv(u)'
          BY <1>4, <5>1, Carried
        <5>3. actor'[b] = u
          BY <2>5, <4>2, <5>1
        <5> QED BY <5>2, <5>3
      <4> QED BY <4>1, <4>2
    <3>2. PICK u : u = actor'[b] /\ OpenerInv(u)'
      BY <3>1
    <3> QED BY <3>2 DEF OpenerInv, OpenerTypes, IsOpener, DoneInv, PlaceInv, LaunchInv, Wrote, Started
  <2>7. /\ <<"create">> \in o.done /\ <<"create">> \in r.done /\ CreatorInv /\ OpenedInv
        /\ Wrote(o, 1) /\ Wrote(o, 2) /\ Started(t) /\ flow[t].stages >= PreWork
    BY <1>2, <1>3, <2>1 DEF OpenInv, OpenerInv, DoneInv, PlaceInv, AfterCreate, AfterStart
  <2>8. CreatorInv'
    BY <1>1, <2>1, <2>5, <2>7 DEF CreatorInv
  <2>9. opened \in [Tasks -> 0..1] /\ opened[t] = 0
    BY <1>1, <1>2, <1>3, <2>7 DEF OpenedInv
  <2>10. opened' \in [Tasks -> 0..1] /\ opened'[t] = 1 /\ \A u \in Tasks : u # t => opened'[u] = opened[u]
    <3>1. opened' = [opened EXCEPT ![t] = 1]
      BY <1>6, <2>9
    <3> QED BY <1>3, <2>9, <3>1
  <2>11. WholeTask(t)
    BY <1>2, <1>3, <2>7, OpenBoundsAssumption DEF WholeTask, Wrote
  <2>12. \A u \in Tasks : opened'[u] = 1 => WholeTask(u)'
    <3>1. \A u \in Tasks : opened'[u] = 1 => WholeTask(u)
      BY <2>7, <2>10, <2>11 DEF OpenedInv
    <3> QED BY <1>4, <3>1, GrowsWhole
  <2>13. \A b \in Actors :
           <<"create">> \in actor'[b].done /\ opened'[actor'[b].task] = 1 => actor'[b].at = "reported"
    <3> SUFFICES ASSUME NEW b \in Actors, <<"create">> \in actor'[b].done,
                        opened'[actor'[b].task] = 1
                 PROVE  actor'[b].at = "reported"
      OBVIOUS
    <3>1. CASE b = a
      BY <2>1, <2>5, <3>1
    <3>2. CASE b # a
      <4>1. actor'[b] = actor[b] /\ actor[b].task # t
        BY <1>1, <1>2, <2>5, <2>7, <3>2 DEF CreatorInv
      <4>2. actor[b].task \in Tasks
        <5>1. PICK u : u = actor[b]
          OBVIOUS
        <5>2. OpenerInv(u) /\ <<"create">> \in u.done
          BY <4>1, <5>1 DEF OpenInv
        <5>3. u.task \in Tasks
          BY <5>2 DEF OpenerInv, OpenerTypes, BeforeStages, AfterCreate
        <5> QED BY <5>1, <5>3
      <4> QED BY <2>7, <2>10, <4>1, <4>2 DEF OpenedInv
    <3> QED BY <3>1, <3>2
  <2>14. OpenedInv'
    BY <2>10, <2>12, <2>13 DEF OpenedInv
  <2>15. doc' \in [Tasks -> 1..MaxDocs]
    BY <1>4 DEF OpenInv
  <2> QED BY <1>4, <2>5, <2>6, <2>8, <2>14, <2>15 DEF OpenInv
<1> QED BY <1>1, <1>2, <1>5, <1>6 DEF Report

LEMMA LaunchLooksKeep ==
  ASSUME OpenInv, NEW a \in Actors, ReadFlow(a) \/ ReadRole(a)
  PROVE  OpenInv'
<1>1. PICK o : o = actor[a]
  OBVIOUS
<1>2. CASE ReadFlow(a)
  <2>1. PICK where : where = IF InForce(o.task, o.seen) THEN "in_force" ELSE "told_to_open"
    OBVIOUS
  <2>2. where \in {"in_force", "told_to_open"} /\ (where = "in_force" => Started(o.task))
    BY <2>1 DEF InForce, Started
  <2>3. Is(a, "bound") /\ Moves(a, where) /\ UNCHANGED <<stores, bounds>>
    BY <1>1, <1>2, <2>1 DEF ReadFlow
  <2> QED BY <1>1, <2>2, <2>3, LookKeeps
<1>3. CASE ReadRole(a)
  <2>1. PICK t, where : t = o.task /\ where = Verdict(RoleOf(t))
    OBVIOUS
  <2>2. Is(a, "in_force") /\ Moves(a, where) /\ UNCHANGED <<stores, bounds>>
    BY <1>1, <1>3, <2>1 DEF ReadRole
  <2>3. t \in Tasks
    <3>1. OpenerInv(o) /\ o.at = "in_force"
      BY <1>1, <2>2 DEF OpenInv, Is
    <3> QED BY <2>1, <3>1 DEF OpenerInv, OpenerTypes
  <2>4. RoleOf(t) \in Roles \union {"none"}
    <3>1. hops[t] \in Seq(HopRecords)
      BY <2>3 DEF OpenInv, StoreTypes
    <3>2. hops[t] # <<>> => hops[t][Len(hops[t])] \in HopRecords
      BY <3>1
    <3> QED BY <3>2 DEF RoleOf, HopRecords
  <2>5. /\ where \in {"launched", "told_to_hop", "told_to_open"}
        /\ where = "launched" => RoleOf(t) = "builder"
    <3>1. CASE RoleOf(t) = "builder"
      BY <2>1, <3>1 DEF Verdict
    <3>2. CASE RoleOf(t) \in Roles \ {"builder", "delivery"}
      BY <2>1, <3>2 DEF Verdict
    <3>3. CASE RoleOf(t) = "delivery" \/ (RoleOf(t) = "none" /\ RoleOf(t) \notin Roles)
      BY <2>1, <3>3 DEF Verdict
    <3> QED BY <2>4, <3>1, <3>2, <3>3
  <2>6. where = "launched" => \E i \in 1..Len(hops[t]) : hops[t][i].to = "builder"
    <3> SUFFICES ASSUME where = "launched" PROVE \E i \in 1..Len(hops[t]) : hops[t][i].to = "builder"
      OBVIOUS
    <3>1. hops[t] \in Seq(HopRecords)
      BY <2>3 DEF OpenInv, StoreTypes
    <3>2. hops[t] # <<>> /\ hops[t][Len(hops[t])].to = "builder"
      BY <2>5 DEF RoleOf
    <3>3. Len(hops[t]) \in 1..Len(hops[t])
      BY <3>1, <3>2
    <3> QED BY <3>2, <3>3
  <2> QED BY <1>1, <2>1, <2>2, <2>5, <2>6, LookKeeps
<1> QED BY <1>2, <1>3

(* Steps of the stores that no actor takes.                                *)
LEMMA StoresMove ==
  ASSUME OpenInv, StoreTypes', Grows, UNCHANGED <<actor, opened>>,
         doc' \in [Tasks -> 1..MaxDocs]
  PROVE  OpenInv'
<1>1. StoreTypes
  BY DEF OpenInv
<1>2. \A a \in Actors : OpenerInv(actor[a])'
  <2> SUFFICES ASSUME NEW a \in Actors PROVE OpenerInv(actor[a])'
    OBVIOUS
  <2>1. PICK o : o = actor[a]
    OBVIOUS
  <2>2. OpenerInv(o)'
    BY <2>1, Carried
  <2>3. actor'[a] = o
    BY <2>1
  <2> QED BY <2>2, <2>3 DEF OpenerInv, OpenerTypes, IsOpener, DoneInv, PlaceInv, LaunchInv, Wrote,
                            Started
<1>3. CreatorInv' /\ DOMAIN actor' = Actors /\ (actor = [a \in Actors |-> actor[a]])'
  BY DEF OpenInv, CreatorInv
<1>4. OpenedInv'
  <2>1. \A t \in Tasks : opened[t] = 1 => WholeTask(t)'
    BY <1>1, GrowsWhole DEF OpenInv, OpenedInv
  <2> QED BY <2>1 DEF OpenInv, OpenedInv
<1> QED BY <1>2, <1>3, <1>4 DEF OpenInv

LEMMA HandFlowKeeps ==
  ASSUME OpenInv, NEW t \in Tasks, HandFlow(t)
  PROVE  StoreTypes' /\ Grows
<1>1. flow \in [Tasks -> [status : FlowStatuses, stages : 0..(PreWork + 1)]] /\ PreWork \in Nat \ {0}
  BY OpenBoundsAssumption DEF OpenInv, StoreTypes
<1>2. PICK p : p = flow[t]
  OBVIOUS
<1>3. /\ p \in [status : FlowStatuses, stages : 0..(PreWork + 1)]
      /\ p = [status |-> p.status, stages |-> p.stages]
      /\ p.status \in FlowStatuses /\ p.stages \in 0..(PreWork + 1)
  BY <1>1, <1>2
<1>4. \E f \in [status : FlowStatuses, stages : 0..(PreWork + 1)] :
        /\ flow' = [flow EXCEPT ![t] = f]
        /\ p.status # "none" => f.status # "none" /\ p.stages <= f.stages
        /\ p.status \notin {"none", "created"} => f.status \notin {"none", "created"}
  <2>1. CASE Creates(t) /\ flow' = [flow EXCEPT ![t] = [status |-> "created", stages |-> 0]]
    <3>1. PICK f : f = [status |-> "created", stages |-> 0]
      OBVIOUS
    <3>2. f \in [status : FlowStatuses, stages : 0..(PreWork + 1)]
      BY <1>1, <3>1 DEF FlowStatuses
    <3> QED BY <1>2, <2>1, <3>1, <3>2 DEF Creates
  <2>2. CASE \E move \in {<<"created", "running">>, <<"running", "paused">>, <<"paused", "running">>,
                          <<"created", "closed">>, <<"running", "closed">>, <<"paused", "closed">>} :
               flow[t].status = move[1] /\ flow' = [flow EXCEPT ![t].status = move[2]]
    <3>1. PICK to \in {"running", "paused", "closed"} : flow' = [flow EXCEPT ![t].status = to]
      <4>1. PICK move \in {<<"created", "running">>, <<"running", "paused">>, <<"paused", "running">>,
                           <<"created", "closed">>, <<"running", "closed">>, <<"paused", "closed">>} :
               flow' = [flow EXCEPT ![t].status = move[2]]
        BY <2>2
      <4>2. move[2] \in {"running", "paused", "closed"}
        OBVIOUS
      <4> QED BY <4>1, <4>2
    <3>2. PICK f : f = [p EXCEPT !.status = to]
      OBVIOUS
    <3>3. f = [status |-> to, stages |-> p.stages] /\ f.status = to /\ f.stages = p.stages
      BY <1>3, <3>2
    <3>4. f \in [status : FlowStatuses, stages : 0..(PreWork + 1)] /\ p.stages <= f.stages
          /\ f.status \notin {"none", "created"}
      BY <1>1, <1>3, <3>1, <3>3 DEF FlowStatuses
    <3>5. flow' = [flow EXCEPT ![t] = f]
      BY <1>2, <3>1, <3>2
    <3> QED BY <3>4, <3>5
  <2>3. CASE /\ flow[t].status = "running" /\ flow[t].stages <= PreWork
             /\ flow' = [flow EXCEPT ![t].stages = @ + 1]
    <3>1. PICK k : k = p.stages + 1
      OBVIOUS
    <3>2. PICK f : f = [p EXCEPT !.stages = k]
      OBVIOUS
    <3>3. f = [status |-> p.status, stages |-> k] /\ f.status = p.status /\ f.stages = k
      BY <1>3, <3>2
    <3>4. k \in 0..(PreWork + 1) /\ p.stages <= k
      BY <1>1, <1>2, <1>3, <2>3, <3>1
    <3>5. f \in [status : FlowStatuses, stages : 0..(PreWork + 1)]
      BY <1>3, <3>3, <3>4
    <3>6. flow' = [flow EXCEPT ![t] = f]
      BY <1>1, <1>2, <2>3, <3>1, <3>2
    <3> QED BY <3>3, <3>4, <3>5, <3>6
  <2> QED BY <2>1, <2>2, <2>3 DEF HandFlow
<1>5. UNCHANGED <<hops, boundTo>>
  BY DEF HandFlow
<1> QED BY <1>2, <1>4, <1>5, FlowGrows DEF Started

LEMMA HandHopKeeps ==
  ASSUME OpenInv, NEW t \in Tasks, HandHop(t)
  PROVE  StoreTypes' /\ Grows
<1>1. PICK to : /\ to \in (IF hops[t] = <<>> THEN {"estimator"} ELSE NextRoles(RoleOf(t)))
                /\ hops' = [hops EXCEPT ![t] = Append(@, Hop(to, 0))]
  BY DEF HandHop
<1>2. to \in Roles
  <2>1. Vocabulary[3] = "estimator" /\ Len(Vocabulary) = 8
    BY DEF Vocabulary
  <2>2. "estimator" \in Roles
    BY <2>1 DEF Roles
  <2> QED BY <1>1, <2>2 DEF NextRoles
<1>3. Hop(to, 0) \in HopRecords
  BY <1>2, OpenBoundsAssumption DEF Hop, HopRecords
<1>4. UNCHANGED <<flow, boundTo>>
  BY DEF HandHop
<1> QED BY <1>1, <1>3, <1>4, HopGrows

LEMMA ByHandKeeps ==
  ASSUME OpenInv, ByHand
  PROVE  OpenInv'
<1>1. UNCHANGED <<doc, actor, opened>> /\ doc' \in [Tasks -> 1..MaxDocs]
  BY DEF ByHand, OpenInv
<1>2. StoreTypes' /\ Grows
  <2>1. CASE HandBinding
    <3>1. UNCHANGED <<hops, flow>> /\ boundTo' \in Tasks \union {NoTask}
      BY <2>1 DEF HandBinding
    <3> QED BY <3>1, StillGrows
  <2>2. CASE \E t \in Tasks : HandHop(t) \/ HandFlow(t)
    BY <2>2, HandHopKeeps, HandFlowKeeps
  <2> QED BY <2>1, <2>2 DEF ByHand
<1> QED BY <1>1, <1>2, StoresMove

LEMMA EditKeeps ==
  ASSUME OpenInv, NEW t \in Tasks, EditDocument(t)
  PROVE  OpenInv'
<1>1. doc \in [Tasks -> 1..MaxDocs] /\ MaxDocs \in Nat \ {0}
  BY OpenBoundsAssumption DEF OpenInv
<1>2. doc[t] + 1 \in 1..MaxDocs
  BY <1>1 DEF EditDocument
<1>3. doc' = [doc EXCEPT ![t] = doc[t] + 1]
  BY <1>1 DEF EditDocument
<1>4. doc' \in [Tasks -> 1..MaxDocs]
  BY <1>1, <1>2, <1>3
<1>5. StoreTypes' /\ Grows /\ UNCHANGED <<actor, opened>>
  BY StillGrows DEF EditDocument, stores, OpenInv, StoreTypes
<1> QED BY <1>4, <1>5, StoresMove

LEMMA OpenStep ==
  ASSUME OpenInv, [OpenNext]_openVars
  PROVE  OpenInv'
<1>1. CASE UNCHANGED openVars
  <2>1. StoreTypes' /\ Grows /\ UNCHANGED <<actor, opened, doc>>
    BY <1>1, StillGrows DEF openVars, OpenInv, StoreTypes
  <2>2. doc' \in [Tasks -> 1..MaxDocs]
    BY <2>1 DEF OpenInv
  <2> QED BY <2>1, <2>2, StoresMove
<1>2. ASSUME NEW a \in Actors, NEW t \in Tasks, BeginOpen(a, t) \/ BeginLaunch(a, t)
      PROVE  OpenInv'
  BY <1>2, BeginOpenKeeps, BeginLaunchKeeps
<1>3. ASSUME NEW a \in Actors, CheckChain(a) \/ CheckFlow(a)
      PROVE  OpenInv'
  BY <1>3, ChecksKeep
<1>4. ASSUME NEW a \in Actors, AppendFirst(a)
      PROVE  OpenInv'
  <2>1. 1 \in 1..2 /\ AppendRecord(a, 1, "first", "second")
    BY <1>4 DEF AppendFirst
  <2> QED BY <2>1, AppendKeeps
<1>5. ASSUME NEW a \in Actors, AppendSecond(a)
      PROVE  OpenInv'
  <2>1. 2 \in 1..2 /\ AppendRecord(a, 2, "second", "create")
    BY <1>5 DEF AppendSecond
  <2> QED BY <2>1, AppendKeeps
<1>6. ASSUME NEW a \in Actors, Create(a) \/ Start(a) \/ RecordPreWork(a)
      PROVE  OpenInv'
  BY <1>6, CreateKeeps, StartKeeps, StageKeeps
<1>7. ASSUME NEW a \in Actors, Bind(a) \/ Report(a) \/ CallFails(a)
      PROVE  OpenInv'
  BY <1>7, BindKeeps, ReportKeeps, CallFailsKeeps
<1>8. ASSUME NEW a \in Actors, ReadFlow(a) \/ ReadRole(a) \/ Quit(a)
      PROVE  OpenInv'
  <2>1. CASE Quit(a)
    BY <2>1, LeaveKeeps DEF Quit
  <2> QED BY <1>8, <2>1, LaunchLooksKeep
<1>9. ASSUME NEW t \in Tasks, EditDocument(t)
      PROVE  OpenInv'
  BY <1>9, EditKeeps
<1> QED BY <1>1, <1>2, <1>3, <1>4, <1>5, <1>6, <1>7, <1>8, <1>9, ByHandKeeps DEF OpenNext

LEMMA OpenInvImplies == OpenInv => OpenTypeOK /\ OpeningIsSound
<1> SUFFICES ASSUME OpenInv PROVE OpenTypeOK /\ OpeningIsSound
  OBVIOUS
<1>1. OpenTypeOK
  <2>1. \A t \in Tasks : hops[t] \in Seq([to : Roles, doc : 0..MaxDocs])
    BY DEF OpenInv, StoreTypes, HopRecords
  <2>2. \A a \in Actors : OpenerTypes(actor[a])
    BY DEF OpenInv, OpenerInv
  <2> QED BY <2>1, <2>2 DEF OpenTypeOK, OpenInv, StoreTypes, OpenerTypes, FlowStatuses, DoneNames, Steps
<1>2. OpenedOnce
  BY DEF OpenInv, OpenedInv, OpenedOnce
<1>3. OpenedIsWhole
  <2> SUFFICES ASSUME NEW t \in Tasks, opened[t] > 0
               PROVE  /\ \E d \in 1..MaxDocs : Len(hops[t]) >= 2 /\ SubSeq(hops[t], 1, 2) = Design(d)
                      /\ flow[t].status \notin {"none", "created"} /\ flow[t].stages >= PreWork
    BY DEF OpenedIsWhole
  <2>1. WholeTask(t)
    BY DEF OpenInv, OpenedInv
  <2>2. PICK d \in 1..MaxDocs :
           Len(hops[t]) >= 2 /\ hops[t][1] = Design(d)[1] /\ hops[t][2] = Design(d)[2]
    BY <2>1 DEF WholeTask
  <2>3. PICK x, y : x = Hop("estimator", d) /\ y = Hop("builder", d)
    OBVIOUS
  <2>4. Design(d) = <<x, y>> /\ hops[t][1] = x /\ hops[t][2] = y /\ hops[t] \in Seq(HopRecords)
    BY <2>2, <2>3 DEF Design, OpenInv, StoreTypes
  <2>5. SubSeq(hops[t], 1, 2) = <<x, y>>
    <3>1. PICK s : s = hops[t]
      OBVIOUS
    <3>2. Len(s) \in Nat /\ Len(s) >= 2 /\ s[1] = x /\ s[2] = y /\ s \in Seq(HopRecords)
      BY <2>2, <2>4, <3>1
    <3>3. PICK u : u = SubSeq(s, 1, 2)
      OBVIOUS
    <3>4. u \in Seq(HopRecords) /\ Len(u) = 2 /\ u[1] = x /\ u[2] = y
      BY <3>2, <3>3
    <3>5. x \in HopRecords /\ y \in HopRecords
      BY <3>2
    <3>6. <<x, y>> \in Seq(HopRecords) /\ Len(<<x, y>>) = 2 /\ <<x, y>>[1] = x /\ <<x, y>>[2] = y
      BY <3>5
    <3>7. \A i \in 1..Len(u) : u[i] = <<x, y>>[i]
      BY <3>4, <3>6
    <3>8. u = <<x, y>>
      BY <3>4, <3>6, <3>7, SeqEqual
    <3> QED BY <3>1, <3>3, <3>8
  <2> QED BY <2>1, <2>2, <2>4, <2>5 DEF WholeTask, Started
<1>4. ReportedIsTrue
  <2>1. \A a \in Actors : DoneInv(actor[a])
    BY DEF OpenInv, OpenerInv
  <2> QED BY <2>1 DEF ReportedIsTrue, DoneInv, Wrote, Started
<1>5. LaunchedInside
  <2>1. \A a \in Actors : LaunchInv(actor[a])
    BY DEF OpenInv, OpenerInv
  <2> QED BY <2>1 DEF LaunchedInside, LaunchInv, Is, Started
<1> QED BY <1>1, <1>2, <1>3, <1>4, <1>5 DEF OpeningIsSound

(* However openings of a task interleave with each other, with what people *)
(* do by hand and with calls that fail after they wrote, a task is reported*)
(* opened once and whole, what an opener says it did was done, and a       *)
(* builder is launched only into a started workflow whose chain handed the *)
(* work to one (Open.Open, CheckLaunch).                                   *)
THEOREM OpeningStaysSound == OpenSpec => [](OpenTypeOK /\ OpeningIsSound)
<1>1. OpenInv /\ [OpenNext]_openVars => OpenInv'
  BY OpenStep
<1> QED BY <1>1, OpenInitInv, OpenInvImplies, PTL DEF OpenSpec

-----------------------------------------------------------------------------
(* Receipts.  A receipt that an agent saw is in a store it has still to    *)
(* read, or among those it has found; a receipt it found and is done with  *)
(* is kept, if the agent may still be let through.                         *)
Stores == {"worktree", "common"}
Files == [to : AllChanges \union Features, receipt : Approved \ Unsafe, data : {"own", "other"}]
OwnKept(name) == \E k \in kept : k.receipt = name /\ k.data = "own"
Unread(i, name) == \E j \in (i + 1)..2 : name \in held[TxStores[j]]

IsAgent(r) ==
  r = [at |-> r.at, into |-> r.into, acks |-> r.acks, sees |-> r.sees, todo |-> r.todo,
       read |-> r.read, next |-> r.next, now |-> r.now, unusable |-> r.unusable]

AgentTypes(r) ==
  /\ IsAgent(r)
  /\ r.at \in {"free", "reading", "writing", "comparing", "allowed"}
  /\ r.sees \subseteq Surviving /\ r.into \subseteq AllChanges \union Features
  /\ r.todo \subseteq r.next /\ r.next \subseteq Approved /\ r.read \in 0..2
  /\ r.at \in {"reading", "writing", "comparing"} => r.into # {}

FoundInv(r) ==
  r.at \in {"reading", "writing"} =>
    /\ \A name \in r.sees : name \in r.next \/ Unread(r.read, name)
    /\ ~r.unusable /\ Cardinality(r.into) = 1 =>
         \A name \in r.next \ r.todo : OwnKept(name)

WriterInv(r) ==
  r.at = "writing" =>
    \E name \in r.todo \ Unsafe :
      /\ r.now = {name}
      /\ \A k \in kept :
           k.to = (CHOOSE to \in r.into : TRUE) /\ k.receipt = name => k.data = "own"

EndedInv(r) ==
  /\ r.at = "comparing" => \A name \in r.sees : name \in r.next \/ OwnKept(name)
  /\ r.at = "allowed" /\ r.into # {} => \A name \in r.sees : OwnKept(name)

AgentInv(r) == AgentTypes(r) /\ FoundInv(r) /\ WriterInv(r) /\ EndedInv(r)

ReceiptInv ==
  /\ active \subseteq AllChanges /\ kept \subseteq Files /\ early \subseteq kept
  /\ held \in [Stores -> SUBSET Approved]
  /\ DOMAIN agent = Agents \union People /\ agent = [a \in DOMAIN agent |-> agent[a]]
  /\ \A a \in DOMAIN agent : AgentInv(agent[a])
  /\ \A name \in burned : OwnKept(name)

LEMMA FreeIsInv == AgentInv(Free) /\ Free.at = "free"
<1>1. PICK f : f = Free
  OBVIOUS
<1>2. f = [at |-> "free", into |-> {}, acks |-> FALSE, sees |-> {}, todo |-> {}, read |-> 0,
           next |-> {}, now |-> {}, unusable |-> FALSE]
  BY <1>1 DEF Free
<1>3. /\ f.at = "free" /\ f.into = {} /\ f.sees = {} /\ f.todo = {} /\ f.next = {} /\ f.read = 0
      /\ IsAgent(f)
  BY <1>2 DEF IsAgent
<1> QED BY <1>1, <1>3 DEF AgentInv, AgentTypes, FoundInv, WriterInv, EndedInv

LEMMA ReceiptInitInv == ReceiptInit => ReceiptInv
<1> SUFFICES ASSUME ReceiptInit PROVE ReceiptInv
  OBVIOUS
<1>1. DOMAIN agent = Agents \union People /\ agent = [a \in DOMAIN agent |-> agent[a]]
      /\ \A a \in DOMAIN agent : agent[a] = Free
  <2> DEFINE z == Free
  <2>1. agent = [a \in Agents \union People |-> z]
    BY DEF ReceiptInit
  <2> HIDE DEF z
  <2>2. DOMAIN agent = Agents \union People /\ agent = [a \in DOMAIN agent |-> agent[a]]
        /\ \A a \in DOMAIN agent : agent[a] = z
    BY <2>1
  <2> QED BY <2>2 DEF z
<1>2. \A a \in DOMAIN agent : AgentInv(agent[a])
  BY <1>1, FreeIsInv
<1>3. kept \subseteq Files
  <2>1. ASSUME NEW to \in AllChanges, NEW r \in Approved \ Unsafe
        PROVE  Kept(to, r, "other") \in Files
    BY DEF Kept, Files
  <2> QED BY <2>1 DEF ReceiptInit
<1>4. active \subseteq AllChanges /\ early \subseteq kept /\ held \in [Stores -> SUBSET Approved]
      /\ burned = {}
  BY DEF ReceiptInit, Stores
<1> QED BY <1>1, <1>2, <1>3, <1>4 DEF ReceiptInv

(* What is known of an agent stays true while the stores and the changes   *)
(* keep what they hold, and more own receipts are kept.                    *)
LEMMA ReceiptMoves ==
  ASSUME ReceiptInv, NEW a \in DOMAIN agent, NEW r, agent' = [agent EXCEPT ![a] = r],
         UNCHANGED <<held, active, kept, early, burned, turns>>,
         AgentInv(r)
  PROVE  ReceiptInv'
<1>1. /\ DOMAIN agent' = DOMAIN agent /\ agent' = [b \in DOMAIN agent |-> agent'[b]]
      /\ agent'[a] = r /\ \A b \in DOMAIN agent \ {a} : agent'[b] = agent[b]
  BY DEF ReceiptInv
<1>2. ASSUME NEW b \in DOMAIN agent PROVE AgentInv(agent'[b])
  BY <1>1 DEF ReceiptInv
<1>3. ASSUME NEW b \in DOMAIN agent PROVE AgentInv(agent[b])'
  BY <1>2 DEF AgentInv, AgentTypes, FoundInv, WriterInv, EndedInv, OwnKept, Unread, Surviving
<1> QED BY <1>1, <1>3 DEF ReceiptInv, OwnKept

(* It is denied, or its process stops.                                     *)
LEMMA DeniedKeeps ==
  ASSUME ReceiptInv, NEW a \in DOMAIN agent, Denied(a),
         UNCHANGED <<held, active, kept, early, burned, turns>>
  PROVE  ReceiptInv'
BY FreeIsInv, ReceiptMoves DEF Denied

AgentFields == {"at", "into", "acks", "sees", "todo", "read", "next", "now", "unusable"}

LEMMA FieldsMakeAgent ==
  ASSUME NEW r, DOMAIN r = AgentFields, r = [f \in AgentFields |-> r[f]]
  PROVE  IsAgent(r)
BY DEF IsAgent, AgentFields

LEMMA AgentHasFields == ASSUME NEW r, IsAgent(r) PROVE DOMAIN r = AgentFields
BY DEF IsAgent, AgentFields

LEMMA CheckCommandKeeps ==
  ASSUME ReceiptInv, NEW a \in Agents, CheckCommand(a)
  PROVE  ReceiptInv'
<1>1. PICK f : f = Free
  OBVIOUS
<1>2. f = [at |-> "free", into |-> {}, acks |-> FALSE, sees |-> {}, todo |-> {}, read |-> 0,
           next |-> {}, now |-> {}, unusable |-> FALSE]
  BY <1>1 DEF Free
<1>3. PICK r : r = [f EXCEPT !.acks = TRUE, !.into = active, !.sees = Surviving,
                             !.at = IF active = {} THEN "allowed" ELSE "reading"]
  OBVIOUS
<1>4. /\ DOMAIN r = AgentFields /\ r = [x \in AgentFields |-> r[x]]
      /\ r.into = active /\ r.sees = Surviving /\ r.at = IF active = {} THEN "allowed" ELSE "reading"
      /\ r.todo = {} /\ r.next = {} /\ r.read = 0
  BY <1>2, <1>3 DEF AgentFields
<1>5. agent' = [agent EXCEPT ![a] = r] /\ UNCHANGED <<held, active, kept, early, burned, turns>>
  BY <1>1, <1>3 DEF CheckCommand
<1>6. IsAgent(r)
  BY <1>4, FieldsMakeAgent
<1>7. AgentTypes(r)
  BY <1>4, <1>6 DEF AgentTypes, ReceiptInv
<1>8. FoundInv(r)
  <2>1. TxStores[1] = "worktree" /\ TxStores[2] = "common"
    BY DEF TxStores
  <2>2. \A name \in Surviving : Unread(0, name)
    BY <2>1 DEF Surviving, Unread
  <2> QED BY <1>4, <2>2 DEF FoundInv
<1>9. WriterInv(r) /\ EndedInv(r)
  BY <1>4 DEF WriterInv, EndedInv
<1>10. a \in DOMAIN agent
  BY DEF ReceiptInv
<1> QED BY <1>5, <1>7, <1>8, <1>9, <1>10, ReceiptMoves DEF AgentInv

LEMMA CaptureByHandKeeps ==
  ASSUME ReceiptInv, NEW a \in People, NEW to \in AllChanges \union Features, CaptureByHand(a, to)
  PROVE  ReceiptInv'
<1>1. PICK f : f = Free
  OBVIOUS
<1>2. f = [at |-> "free", into |-> {}, acks |-> FALSE, sees |-> {}, todo |-> {}, read |-> 0,
           next |-> {}, now |-> {}, unusable |-> FALSE]
  BY <1>1 DEF Free
<1>3. PICK r : r = [f EXCEPT !.into = {to}, !.at = "reading"]
  OBVIOUS
<1>4. /\ DOMAIN r = AgentFields /\ r = [x \in AgentFields |-> r[x]]
      /\ r.into = {to} /\ r.sees = {} /\ r.at = "reading"
      /\ r.todo = {} /\ r.next = {} /\ r.read = 0
  BY <1>2, <1>3 DEF AgentFields
<1>5. agent' = [agent EXCEPT ![a] = r] /\ UNCHANGED <<held, active, kept, early, burned, turns>>
  BY <1>1, <1>3 DEF CaptureByHand
<1>6. IsAgent(r)
  BY <1>4, FieldsMakeAgent
<1>7. AgentInv(r)
  BY <1>4, <1>6 DEF AgentInv, AgentTypes, FoundInv, WriterInv, EndedInv
<1>8. a \in DOMAIN agent
  BY DEF ReceiptInv
<1> QED BY <1>5, <1>7, <1>8, ReceiptMoves

LEMMA DocumentsKeeps ==
  ASSUME ReceiptInv, NEW a \in DOMAIN agent, Documents(a)
  PROVE  ReceiptInv'
<1>1. PICK g : g = agent[a]
  OBVIOUS
<1>2. PICK i, names : i = g.read + 1 /\ names = held[TxStores[i]] \ g.next
  OBVIOUS
<1>3. PICK r : r = [g EXCEPT !.read = i, !.next = g.next \union names, !.todo = names]
  OBVIOUS
<1>4. AgentInv(g) /\ g.at = "reading" /\ g.todo = {} /\ i <= 2
  BY <1>1, <1>2 DEF ReceiptInv, Documents, AgentAt, TxStores
<1>5. DOMAIN g = AgentFields /\ g.read \in 0..2
  BY <1>4, AgentHasFields DEF AgentInv, AgentTypes
<1>6. /\ DOMAIN r = AgentFields /\ r = [x \in AgentFields |-> r[x]]
      /\ r.read = i /\ r.next = g.next \union names /\ r.todo = names
      /\ r.into = g.into /\ r.sees = g.sees /\ r.at = g.at /\ r.unusable = g.unusable
  BY <1>3, <1>5 DEF AgentFields
<1>7. agent' = [agent EXCEPT ![a] = r] /\ UNCHANGED <<held, active, kept, early, burned, turns>>
  BY <1>1, <1>2, <1>3 DEF Documents
<1>8. IsAgent(r)
  BY <1>6, FieldsMakeAgent
<1>9. i \in 1..2 /\ TxStores[i] \in Stores
  <2>1. i \in 1..2
    BY <1>2, <1>4, <1>5
  <2>2. TxStores[1] = "worktree" /\ TxStores[2] = "common"
    BY DEF TxStores
  <2> QED BY <2>1, <2>2 DEF Stores
<1>10. names \subseteq Approved
  BY <1>2, <1>9 DEF ReceiptInv
<1>11. AgentTypes(r)
  BY <1>4, <1>6, <1>8, <1>9, <1>10 DEF AgentInv, AgentTypes
<1>12. FoundInv(r)
  <2>1. ASSUME NEW name \in g.sees PROVE name \in r.next \/ Unread(i, name)
    <3>1. name \in g.next \/ Unread(g.read, name)
      BY <1>4, <2>1 DEF AgentInv, FoundInv
    <3>2. CASE Unread(g.read, name)
      <4>1. PICK j \in (g.read + 1)..2 : name \in held[TxStores[j]]
        BY <3>2 DEF Unread
      <4>2. CASE j = i
        BY <1>2, <1>6, <4>1, <4>2
      <4>3. CASE j # i
        <5>1. j \in (i + 1)..2
          BY <1>2, <1>5, <4>1, <4>3
        <5> QED BY <4>1, <5>1 DEF Unread
      <4> QED BY <4>2, <4>3
    <3> QED BY <1>6, <3>1, <3>2
  <2>2. ~g.unusable /\ Cardinality(g.into) = 1 => \A name \in g.next : OwnKept(name)
    BY <1>4 DEF AgentInv, FoundInv
  <2>3. r.next \ r.todo \subseteq g.next
    BY <1>6
  <2> QED BY <1>6, <2>1, <2>2, <2>3 DEF FoundInv
<1>13. WriterInv(r) /\ EndedInv(r)
  BY <1>4, <1>6 DEF WriterInv, EndedInv
<1> QED BY <1>7, <1>11, <1>12, <1>13, ReceiptMoves DEF AgentInv

(* A receipt it is done with: passed over, kept already, or one of several.*)
LEMMA DoneWith ==
  ASSUME ReceiptInv, NEW a \in DOMAIN agent, AgentAt(a, "reading"), NEW name \in agent[a].todo,
         NEW r, agent' = [agent EXCEPT ![a] = r],
         UNCHANGED <<held, active, kept, early, burned, turns>>,
         \/ r = [agent[a] EXCEPT !.todo = @ \ {name}] /\ (OwnKept(name) \/ ~Alone(a))
         \/ r = [agent[a] EXCEPT !.todo = @ \ {name}, !.unusable = TRUE]
  PROVE  ReceiptInv'
<1>1. PICK g : g = agent[a]
  OBVIOUS
<1>2. AgentInv(g) /\ g.at = "reading" /\ name \in g.todo
  BY <1>1 DEF ReceiptInv, AgentAt
<1>3. DOMAIN g = AgentFields
  BY <1>2, AgentHasFields DEF AgentInv, AgentTypes
<1>4. /\ DOMAIN r = AgentFields /\ r = [x \in AgentFields |-> r[x]]
      /\ r.read = g.read /\ r.next = g.next /\ r.todo = g.todo \ {name}
      /\ r.into = g.into /\ r.sees = g.sees /\ r.at = g.at
  <2>1. CASE r = [g EXCEPT !.todo = g.todo \ {name}]
    BY <1>3, <2>1 DEF AgentFields
  <2>2. CASE r = [g EXCEPT !.todo = g.todo \ {name}, !.unusable = TRUE]
    BY <1>3, <2>2 DEF AgentFields
  <2> QED BY <1>1, <2>1, <2>2
<1>5. r.unusable \/ (r.unusable = g.unusable /\ (OwnKept(name) \/ Cardinality(g.into) # 1))
  <2>1. CASE r = [g EXCEPT !.todo = g.todo \ {name}] /\ (OwnKept(name) \/ ~Alone(a))
    <3>1. r.unusable = g.unusable
      BY <1>3, <2>1 DEF AgentFields
    <3> QED BY <1>1, <2>1, <3>1 DEF Alone
  <2>2. CASE r = [g EXCEPT !.todo = g.todo \ {name}, !.unusable = TRUE]
    BY <1>3, <2>2 DEF AgentFields
  <2> QED BY <1>1, <2>1, <2>2
<1>6. IsAgent(r)
  BY <1>4, FieldsMakeAgent
<1>7. AgentTypes(r)
  BY <1>2, <1>4, <1>6 DEF AgentInv, AgentTypes
<1>8. FoundInv(r)
  <2>1. /\ \A n \in g.sees : n \in g.next \/ Unread(g.read, n)
        /\ ~g.unusable /\ Cardinality(g.into) = 1 => \A n \in g.next \ g.todo : OwnKept(n)
    BY <1>2 DEF AgentInv, FoundInv
  <2>2. \A n \in r.next \ r.todo : n = name \/ n \in g.next \ g.todo
    BY <1>4
  <2> QED BY <1>4, <1>5, <2>1, <2>2 DEF FoundInv
<1>9. WriterInv(r) /\ EndedInv(r)
  BY <1>2, <1>4 DEF WriterInv, EndedInv
<1> QED BY <1>7, <1>8, <1>9, ReceiptMoves DEF AgentInv

LEMMA PassOverKeeps ==
  ASSUME ReceiptInv, NEW a \in DOMAIN agent, NEW name \in agent[a].todo,
         PassOver(a, name) \/ Survivors(a, name)
  PROVE  ReceiptInv'
<1>1. CASE PassOver(a, name)
  <2>1. PICK r : r = [agent[a] EXCEPT !.todo = @ \ {name}, !.unusable = TRUE]
    OBVIOUS
  <2>2. agent' = [agent EXCEPT ![a] = r]
    BY <1>1, <2>1 DEF PassOver, ReceiptInv
  <2> QED BY <1>1, <2>1, <2>2, DoneWith DEF PassOver
<1>2. CASE Survivors(a, name)
  BY <1>2, DoneWith DEF Survivors, Done
<1> QED BY <1>1, <1>2

LEMMA PersistKeeps ==
  ASSUME ReceiptInv, NEW a \in DOMAIN agent, NEW name \in agent[a].todo, Persist(a, name)
  PROVE  ReceiptInv'
<1>1. /\ AgentAt(a, "reading") /\ name \notin Unsafe
      /\ UNCHANGED <<held, active, kept, early, burned, turns>>
  BY DEF Persist
<1>2. CASE \E k \in KeptAs(Into(a), name) : k.data = "own" /\ Done(a, name)
  <2>1. OwnKept(name) /\ Done(a, name)
    BY <1>2 DEF KeptAs, OwnKept
  <2> QED BY <1>1, <2>1, DoneWith DEF Done
<1>3. CASE \E k \in KeptAs(Into(a), name) : k.data = "other" /\ Denied(a)
  BY <1>1, <1>3, DeniedKeeps
<1>4. CASE /\ KeptAs(Into(a), name) = {}
           /\ agent' = [agent EXCEPT ![a].at = "writing", ![a].now = {name}]
  <2>1. PICK g : g = agent[a]
    OBVIOUS
  <2>2. AgentInv(g) /\ g.at = "reading" /\ name \in g.todo
    BY <1>1, <2>1 DEF ReceiptInv, AgentAt
  <2>3. DOMAIN g = AgentFields
    BY <2>2, AgentHasFields DEF AgentInv, AgentTypes
  <2>4. PICK r : r = [g EXCEPT !.at = "writing", !.now = {name}]
    OBVIOUS
  <2>5. /\ DOMAIN r = AgentFields /\ r = [x \in AgentFields |-> r[x]]
        /\ r.at = "writing" /\ r.now = {name} /\ r.read = g.read /\ r.next = g.next
        /\ r.todo = g.todo /\ r.into = g.into /\ r.sees = g.sees /\ r.unusable = g.unusable
    BY <2>3, <2>4 DEF AgentFields
  <2>6. agent' = [agent EXCEPT ![a] = r]
    BY <1>4, <2>1, <2>4 DEF ReceiptInv
  <2>7. IsAgent(r)
    BY <2>5, FieldsMakeAgent
  <2>8. AgentTypes(r) /\ FoundInv(r) /\ EndedInv(r)
    BY <2>2, <2>5, <2>7 DEF AgentInv, AgentTypes, FoundInv, EndedInv
  <2>9. WriterInv(r)
    <3>1. \A k \in kept : ~(k.to = (CHOOSE to \in r.into : TRUE) /\ k.receipt = name)
      BY <1>4, <2>1, <2>5 DEF KeptAs, Into
    <3> QED BY <1>1, <2>2, <2>5, <3>1 DEF WriterInv
  <2> QED BY <1>1, <2>6, <2>8, <2>9, ReceiptMoves DEF AgentInv
<1> QED BY <1>2, <1>3, <1>4 DEF Persist

(* The file an agent puts in place was not there when it looked, or was put*)
(* there meanwhile by another that had the same receipt.                   *)
LEMMA WriteReceiptKeeps ==
  ASSUME ReceiptInv, NEW a \in DOMAIN agent, WriteReceipt(a)
  PROVE  ReceiptInv'
<1>1. PICK g : g = agent[a]
  OBVIOUS
<1>2. AgentInv(g) /\ g.at = "writing"
  BY <1>1 DEF ReceiptInv, AgentAt, WriteReceipt
<1>3. PICK name \in g.todo \ Unsafe :
         /\ g.now = {name}
         /\ \A k \in kept :
              k.to = (CHOOSE to \in g.into : TRUE) /\ k.receipt = name => k.data = "own"
  BY <1>2 DEF AgentInv, WriterInv
<1>4. PICK to \in g.into : to = Into(a)
  BY <1>1, <1>2 DEF AgentInv, AgentTypes, Into
<1>5. to \in AllChanges \union Features /\ name \in Approved \ Unsafe
  BY <1>2, <1>3 DEF AgentInv, AgentTypes
<1>6. PICK new : new = Kept(to, name, "own")
  OBVIOUS
<1>7. new \in Files /\ new.to = to /\ new.receipt = name /\ new.data = "own"
  BY <1>5, <1>6 DEF Kept, Files
<1>8. /\ kept' = (kept \ KeptAs(to, name)) \union {new}
      /\ agent' = [agent EXCEPT ![a].at = "reading", ![a].now = {},
                                ![a].todo = agent[a].todo \ {name}]
      /\ UNCHANGED <<held, active, early, burned, turns>>
  <2>1. (CHOOSE n \in agent[a].now : TRUE) = name
    BY <1>1, <1>3
  <2> QED BY <1>4, <1>6, <2>1 DEF WriteReceipt
<1>9. KeptAs(to, name) \subseteq {new}
  <2>1. ASSUME NEW k \in KeptAs(to, name) PROVE k = new
    <3>1. k \in Files /\ k.to = to /\ k.receipt = name
      BY <2>1 DEF KeptAs, ReceiptInv
    <3>2. k.data = "own"
      BY <1>1, <1>3, <1>4, <2>1, <3>1 DEF KeptAs, Into
    <3> QED BY <1>6, <3>1, <3>2 DEF Kept, Files
  <2> QED BY <2>1
<1>10. kept' = kept \union {new}
  BY <1>8, <1>9
<1>11. OwnKept(name)' /\ \A n : OwnKept(n) => OwnKept(n)'
  BY <1>7, <1>10 DEF OwnKept
<1>12. PICK r : r = [g EXCEPT !.at = "reading", !.now = {}, !.todo = g.todo \ {name}]
  OBVIOUS
<1>13. /\ DOMAIN r = AgentFields /\ r = [x \in AgentFields |-> r[x]]
       /\ r.at = "reading" /\ r.read = g.read /\ r.next = g.next
       /\ r.todo = g.todo \ {name} /\ r.into = g.into /\ r.sees = g.sees
       /\ r.unusable = g.unusable
  <2>1. DOMAIN g = AgentFields
    BY <1>2, AgentHasFields DEF AgentInv, AgentTypes
  <2> QED BY <1>12, <2>1 DEF AgentFields
<1>14. /\ agent' = [agent EXCEPT ![a] = r] /\ DOMAIN agent' = DOMAIN agent
       /\ agent' = [b \in DOMAIN agent |-> agent'[b]]
       /\ agent'[a] = r /\ \A b \in DOMAIN agent \ {a} : agent'[b] = agent[b]
  BY <1>1, <1>8, <1>12 DEF ReceiptInv
<1>15. AgentInv(agent[a])'
  <2>1. IsAgent(r)
    BY <1>13, FieldsMakeAgent
  <2>2. AgentTypes(r)'
    BY <1>2, <1>8, <1>13, <2>1 DEF AgentInv, AgentTypes, Surviving
  <2>3. FoundInv(r)'
    <3>1. /\ \A n \in g.sees : n \in g.next \/ Unread(g.read, n)
          /\ ~g.unusable /\ Cardinality(g.into) = 1 => \A n \in g.next \ g.todo : OwnKept(n)
      BY <1>2 DEF AgentInv, FoundInv
    <3>2. \A n \in r.next \ r.todo : n = name \/ n \in g.next \ g.todo
      BY <1>13
    <3>3. \A n : Unread(g.read, n) => Unread(g.read, n)'
      BY <1>8 DEF Unread
    <3> QED BY <1>11, <1>13, <3>1, <3>2, <3>3 DEF FoundInv
  <2>4. WriterInv(r)' /\ EndedInv(r)'
    BY <1>13 DEF WriterInv, EndedInv
  <2> QED BY <1>14, <2>2, <2>3, <2>4 DEF AgentInv
<1>16. ASSUME NEW b \in DOMAIN agent \ {a} PROVE AgentInv(agent[b])'
  <2>1. PICK h : h = agent[b]
    OBVIOUS
  <2>2. AgentInv(h) /\ agent'[b] = h
    BY <1>14, <2>1 DEF ReceiptInv
  <2>3. AgentTypes(h)' /\ FoundInv(h)' /\ EndedInv(h)'
    BY <1>8, <1>11, <2>2
    DEF AgentInv, AgentTypes, FoundInv, EndedInv, Surviving, Unread
  <2>4. WriterInv(h)'
    BY <1>7, <1>10, <2>2 DEF AgentInv, WriterInv
  <2> QED BY <2>2, <2>3, <2>4 DEF AgentInv
<1>17. kept' \subseteq Files /\ early' \subseteq kept'
  BY <1>7, <1>8, <1>10 DEF ReceiptInv
<1>18. \A n \in burned' : OwnKept(n)'
  BY <1>8, <1>11 DEF ReceiptInv
<1>19. \A b \in DOMAIN agent : AgentInv(agent[b])'
  BY <1>15, <1>16
<1>20. active' \subseteq AllChanges /\ held' \in [Stores -> SUBSET Approved]
       /\ DOMAIN agent' = Agents \union People
  BY <1>8, <1>14 DEF ReceiptInv
<1> QED BY <1>14, <1>17, <1>18, <1>19, <1>20 DEF ReceiptInv

LEMMA EndReadKeeps ==
  ASSUME ReceiptInv, NEW a \in DOMAIN agent, EndRead(a)
  PROVE  ReceiptInv'
<1>1. PICK g : g = agent[a]
  OBVIOUS
<1>2. /\ AgentInv(g) /\ g.at = "reading" /\ g.todo = {} /\ g.read = 2
      /\ UNCHANGED <<held, active, kept, early, burned, turns>>
  BY <1>1 DEF ReceiptInv, AgentAt, EndRead, TxStores
<1>3. DOMAIN g = AgentFields
  BY <1>2, AgentHasFields DEF AgentInv, AgentTypes
<1>4. /\ g.sees \subseteq g.next
      /\ ~g.unusable /\ Cardinality(g.into) = 1 => \A n \in g.next : OwnKept(n)
  <2>1. \A n : ~Unread(2, n)
    BY DEF Unread
  <2> QED BY <1>2, <2>1 DEF AgentInv, FoundInv
<1>5. CASE g.unusable \/ (Alone(a) /\ ~g.acks)
  BY <1>1, <1>2, <1>5, DeniedKeeps DEF EndRead
<1>6. CASE ~(g.unusable \/ (Alone(a) /\ ~g.acks)) /\ Alone(a)
  <2>1. PICK r : r = [g EXCEPT !.at = "allowed"]
    OBVIOUS
  <2>2. /\ DOMAIN r = AgentFields /\ r = [x \in AgentFields |-> r[x]]
        /\ r.at = "allowed" /\ r.read = g.read /\ r.next = g.next
        /\ r.todo = g.todo /\ r.into = g.into /\ r.sees = g.sees
    BY <1>3, <2>1 DEF AgentFields
  <2>3. agent' = [agent EXCEPT ![a] = r]
    BY <1>1, <1>6, <2>1 DEF EndRead, AgentGoes, ReceiptInv
  <2>4. IsAgent(r)
    BY <2>2, FieldsMakeAgent
  <2>5. AgentTypes(r) /\ FoundInv(r) /\ WriterInv(r)
    BY <1>2, <2>2, <2>4 DEF AgentInv, AgentTypes, FoundInv, WriterInv
  <2>6. EndedInv(r)
    BY <1>1, <1>4, <1>6, <2>2 DEF EndedInv, Alone
  <2> QED BY <1>2, <2>3, <2>5, <2>6, ReceiptMoves DEF AgentInv
<1>7. CASE ~(g.unusable \/ (Alone(a) /\ ~g.acks)) /\ ~Alone(a)
  <2>1. PICK missing : missing = Unpersisted(g.next, g.into)
    OBVIOUS
  <2>2. PICK r : r = [g EXCEPT !.next = missing, !.at = "comparing"]
    OBVIOUS
  <2>3. /\ DOMAIN r = AgentFields /\ r = [x \in AgentFields |-> r[x]]
        /\ r.at = "comparing" /\ r.read = g.read /\ r.next = missing
        /\ r.todo = g.todo /\ r.into = g.into /\ r.sees = g.sees
    BY <1>3, <2>2 DEF AgentFields
  <2>4. agent' = [agent EXCEPT ![a] = r]
    BY <1>1, <1>7, <2>1, <2>2 DEF EndRead, ReceiptInv
  <2>5. IsAgent(r)
    BY <2>3, FieldsMakeAgent
  <2>6. AgentTypes(r) /\ FoundInv(r) /\ WriterInv(r)
    BY <1>2, <2>1, <2>3, <2>5 DEF AgentInv, AgentTypes, FoundInv, WriterInv, Unpersisted
  <2>7. \A n \in g.next : n \in missing \/ OwnKept(n)
    BY <2>1 DEF Unpersisted, OwnKept, Kept
  <2>8. EndedInv(r)
    BY <1>4, <2>3, <2>7 DEF EndedInv
  <2> QED BY <1>2, <2>4, <2>6, <2>8, ReceiptMoves DEF AgentInv
<1> QED BY <1>5, <1>6, <1>7

LEMMA CompareKeeps ==
  ASSUME ReceiptInv, NEW a \in DOMAIN agent, Compare(a)
  PROVE  ReceiptInv'
<1>1. PICK g : g = agent[a]
  OBVIOUS
<1>2. /\ AgentInv(g) /\ g.at = "comparing"
      /\ UNCHANGED <<held, active, kept, early, burned, turns>>
  BY <1>1 DEF ReceiptInv, AgentAt, Compare
<1>3. CASE Unpersisted(g.next, Features) # {}
  BY <1>1, <1>2, <1>3, DeniedKeeps DEF Compare
<1>4. CASE Unpersisted(g.next, Features) = {}
  <2>1. PICK r : r = [g EXCEPT !.at = "allowed"]
    OBVIOUS
  <2>2. /\ DOMAIN r = AgentFields /\ r = [x \in AgentFields |-> r[x]]
        /\ r.at = "allowed" /\ r.read = g.read /\ r.next = g.next
        /\ r.todo = g.todo /\ r.into = g.into /\ r.sees = g.sees
    <3>1. DOMAIN g = AgentFields
      BY <1>2, AgentHasFields DEF AgentInv, AgentTypes
    <3> QED BY <2>1, <3>1 DEF AgentFields
  <2>3. agent' = [agent EXCEPT ![a] = r]
    BY <1>1, <1>4, <2>1 DEF Compare, AgentGoes, ReceiptInv
  <2>4. IsAgent(r)
    BY <2>2, FieldsMakeAgent
  <2>5. AgentTypes(r) /\ FoundInv(r) /\ WriterInv(r)
    BY <1>2, <2>2, <2>4 DEF AgentInv, AgentTypes, FoundInv, WriterInv
  <2>6. ASSUME NEW n \in g.next PROVE OwnKept(n)
    <3>1. PICK to \in Features : Kept(to, n, "own") \in kept
      BY <1>4 DEF Unpersisted
    <3>2. Kept(to, n, "own").receipt = n /\ Kept(to, n, "own").data = "own"
      BY DEF Kept
    <3> QED BY <3>1, <3>2 DEF OwnKept
  <2>7. EndedInv(r)
    BY <1>2, <2>2, <2>6 DEF AgentInv, EndedInv
  <2> QED BY <1>2, <2>3, <2>5, <2>7, ReceiptMoves DEF AgentInv
<1> QED BY <1>3, <1>4

(* The review tool and people.                                             *)
LEMMA ApproveKeeps ==
  ASSUME ReceiptInv, NEW s \in DOMAIN held, NEW r \in Approved, Approve(s, r)
  PROVE  ReceiptInv'
<1>1. /\ held' \in [Stores -> SUBSET Approved] /\ \A x \in Stores : held[x] \subseteq held'[x]
      /\ UNCHANGED <<active, kept, early, agent, burned>>
  BY DEF ReceiptInv, Approve
<1>2. \A i \in 1..2 : TxStores[i] \in Stores
  BY DEF TxStores, Stores
<1>3. ASSUME NEW b \in DOMAIN agent PROVE AgentInv(agent[b])'
  <2>1. PICK h : h = agent[b]
    OBVIOUS
  <2>2. AgentInv(h) /\ agent'[b] = h
    BY <1>1, <2>1 DEF ReceiptInv
  <2>3. AgentTypes(h)'
    BY <1>1, <2>2 DEF AgentInv, AgentTypes, Surviving, Stores
  <2>4. FoundInv(h)'
    <3>1. h.read \in 0..2
      BY <2>2 DEF AgentInv, AgentTypes
    <3>2. \A n : Unread(h.read, n) => Unread(h.read, n)'
      BY <1>1, <1>2, <3>1 DEF Unread
    <3> QED BY <1>1, <2>2, <3>2 DEF AgentInv, FoundInv, OwnKept
  <2>5. WriterInv(h)' /\ EndedInv(h)'
    BY <1>1, <2>2 DEF AgentInv, WriterInv, EndedInv, OwnKept
  <2> QED BY <2>2, <2>3, <2>4, <2>5 DEF AgentInv
<1> QED BY <1>1, <1>3 DEF ReceiptInv, OwnKept

LEMMA AcknowledgeKeeps ==
  ASSUME ReceiptInv, NEW a \in DOMAIN agent, NEW r \in Approved, Acknowledge(a, r)
  PROVE  ReceiptInv'
<1>1. PICK gone : gone = {r} \intersect Surviving
  OBVIOUS
<1>2. /\ AgentAt(a, "allowed") /\ UNCHANGED <<active, kept, early, turns>>
      /\ held' = [s \in DOMAIN held |-> held[s] \ {r}]
      /\ burned' = IF agent[a].into = {} THEN burned ELSE burned \union (gone \intersect agent[a].sees)
      /\ agent' = [b \in DOMAIN agent |->
                     IF b = a THEN Free ELSE [agent[b] EXCEPT !.sees = @ \ gone]]
  BY <1>1 DEF Acknowledge
<1>3. held' \in [Stores -> SUBSET Approved]
  BY <1>2 DEF ReceiptInv
<1>4. Surviving' = Surviving \ {r}
  BY <1>2 DEF ReceiptInv, Surviving, Stores
<1>5. DOMAIN agent' = DOMAIN agent /\ agent' = [b \in DOMAIN agent |-> agent'[b]]
      /\ agent'[a] = Free
  BY <1>2
<1>6. AgentInv(agent[a])'
  BY <1>5, FreeIsInv DEF AgentInv, AgentTypes, FoundInv, WriterInv, EndedInv, Free
<1>7. ASSUME NEW b \in DOMAIN agent \ {a} PROVE AgentInv(agent[b])'
  <2>1. PICK g : g = agent[b]
    OBVIOUS
  <2>2. AgentInv(g)
    BY <2>1 DEF ReceiptInv
  <2>3. PICK h : h = [g EXCEPT !.sees = g.sees \ gone]
    OBVIOUS
  <2>4. agent'[b] = h
    BY <1>2, <2>1, <2>3
  <2>5. /\ DOMAIN h = AgentFields /\ h = [x \in AgentFields |-> h[x]]
        /\ h.at = g.at /\ h.read = g.read /\ h.next = g.next /\ h.now = g.now
        /\ h.todo = g.todo /\ h.into = g.into /\ h.sees = g.sees \ gone
        /\ h.unusable = g.unusable
    <3>1. DOMAIN g = AgentFields
      BY <2>2, AgentHasFields DEF AgentInv, AgentTypes
    <3> QED BY <2>3, <3>1 DEF AgentFields
  <2>6. IsAgent(h)
    BY <2>5, FieldsMakeAgent
  <2>7. AgentTypes(h)'
    BY <1>1, <1>2, <1>4, <2>2, <2>5, <2>6 DEF AgentInv, AgentTypes
  <2>8. FoundInv(h)'
    <3>1. ASSUME NEW n \in g.sees \ gone, Unread(g.read, n) PROVE Unread(g.read, n)'
      <4>1. PICK j \in (g.read + 1)..2 : n \in held[TxStores[j]]
        BY <3>1 DEF Unread
      <4>2. g.read \in 0..2 /\ g.sees \subseteq Surviving
        BY <2>2 DEF AgentInv, AgentTypes
      <4>3. TxStores[j] \in DOMAIN held /\ n # r
        <5>1. j \in 1..2
          BY <4>1, <4>2
        <5>2. TxStores[1] = "worktree" /\ TxStores[2] = "common"
          BY DEF TxStores
        <5> QED BY <1>1, <3>1, <4>2, <5>1, <5>2 DEF ReceiptInv, Stores
      <4>4. n \in held'[TxStores[j]]
        BY <1>2, <4>1, <4>3
      <4> QED BY <4>1, <4>4 DEF Unread
    <3>2. \A n : OwnKept(n) => OwnKept(n)'
      BY <1>2 DEF OwnKept
    <3>3. g.at \in {"reading", "writing"} => \A n \in g.sees \ gone : n \in g.next \/ Unread(g.read, n)'
      BY <2>2, <3>1 DEF AgentInv, FoundInv
    <3>4. g.at \in {"reading", "writing"} /\ ~g.unusable /\ Cardinality(g.into) = 1 =>
            \A n \in g.next \ g.todo : OwnKept(n)'
      BY <2>2, <3>2 DEF AgentInv, FoundInv
    <3> QED BY <2>5, <3>3, <3>4 DEF FoundInv
  <2>9. WriterInv(h)'
    BY <1>2, <2>2, <2>5 DEF AgentInv, WriterInv
  <2>10. EndedInv(h)'
    <3>1. \A n : OwnKept(n) => OwnKept(n)'
      BY <1>2 DEF OwnKept
    <3> QED BY <2>2, <2>5, <3>1 DEF AgentInv, EndedInv
  <2> QED BY <2>4, <2>7, <2>8, <2>9, <2>10 DEF AgentInv
<1>8. ASSUME NEW n \in burned' PROVE OwnKept(n)'
  <2>1. n \in burned \/ (agent[a].into # {} /\ n \in agent[a].sees)
    BY <1>2
  <2>2. OwnKept(n)
    BY <1>2, <2>1 DEF ReceiptInv, AgentInv, EndedInv, AgentAt
  <2> QED BY <1>2, <2>2 DEF OwnKept
<1>9. \A b \in DOMAIN agent : AgentInv(agent[b])'
  BY <1>6, <1>7
<1>10. /\ active' \subseteq AllChanges /\ kept' \subseteq Files /\ early' \subseteq kept'
       /\ DOMAIN agent' = Agents \union People
  BY <1>2, <1>5 DEF ReceiptInv
<1> QED BY <1>3, <1>5, <1>8, <1>9, <1>10 DEF ReceiptInv

LEMMA TurnChangeKeeps ==
  ASSUME ReceiptInv, NEW c \in AllChanges, TurnChange(c)
  PROVE  ReceiptInv'
<1>1. active' \subseteq AllChanges /\ UNCHANGED <<held, kept, early, agent, burned>>
  BY DEF ReceiptInv, TurnChange
<1> QED BY <1>1 DEF ReceiptInv, AgentInv, AgentTypes, FoundInv, WriterInv, EndedInv, OwnKept,
                    Unread, Surviving

LEMMA ReceiptStep == ReceiptInv /\ [ReceiptNext]_receiptVars => ReceiptInv'
<1> SUFFICES ASSUME ReceiptInv, [ReceiptNext]_receiptVars PROVE ReceiptInv'
  OBVIOUS
<1>1. ASSUME NEW a \in Agents, CheckCommand(a) PROVE ReceiptInv'
  BY <1>1, CheckCommandKeeps
<1>2. ASSUME NEW a \in People, NEW to \in AllChanges \union Features, CaptureByHand(a, to)
      PROVE  ReceiptInv'
  BY <1>2, CaptureByHandKeeps
<1>3. ASSUME NEW a \in DOMAIN agent,
             \/ Documents(a) \/ EndRead(a) \/ WriteReceipt(a) \/ Compare(a) \/ AgentStops(a)
      PROVE  ReceiptInv'
  BY <1>3, DocumentsKeeps, EndReadKeeps, WriteReceiptKeeps, CompareKeeps, DeniedKeeps
     DEF AgentStops
<1>4. ASSUME NEW a \in DOMAIN agent, NEW name \in agent[a].todo,
             PassOver(a, name) \/ Persist(a, name) \/ Survivors(a, name)
      PROVE  ReceiptInv'
  BY <1>4, PassOverKeeps, PersistKeeps
<1>5. ASSUME NEW a \in DOMAIN agent, NEW r \in Approved, Acknowledge(a, r) PROVE ReceiptInv'
  BY <1>5, AcknowledgeKeeps
<1>6. ASSUME NEW s \in DOMAIN held, NEW r \in Approved, Approve(s, r) PROVE ReceiptInv'
  BY <1>6, ApproveKeeps
<1>7. ASSUME NEW c \in AllChanges, TurnChange(c) PROVE ReceiptInv'
  BY <1>7, TurnChangeKeeps
<1>8. CASE UNCHANGED receiptVars
  BY <1>8 DEF receiptVars, ReceiptInv, AgentInv, AgentTypes, FoundInv, WriterInv, EndedInv,
              OwnKept, Unread, Surviving
<1> QED
  BY <1>1, <1>2, <1>3, <1>4, <1>5, <1>6, <1>7, <1>8 DEF ReceiptNext

LEMMA ReceiptInvImplies == ReceiptInv => ReceiptTypeOK /\ ReceiptsAreKept
<1> SUFFICES ASSUME ReceiptInv PROVE ReceiptTypeOK /\ ReceiptsAreKept
  OBVIOUS
<1>1. \A k \in kept : k.to \in AllChanges \union Features /\ k.receipt \in Approved \ Unsafe
  BY DEF ReceiptInv, Files
<1>2. ReceiptTypeOK
  BY <1>1 DEF ReceiptInv, AgentInv, AgentTypes, ReceiptTypeOK
<1>3. ReceiptsAreKept
  BY DEF ReceiptInv, OwnKept, ReceiptsAreKept
<1> QED BY <1>2, <1>3

(* However agents, people, the review tool and stopped processes interleave*)
(* with each other and with changes that come and go: no approved receipt  *)
(* that the hook saw is burned by a command it let through without being   *)
(* kept, and no file that was there before is written over.                *)
THEOREM ReceiptsStayKept ==
  ReceiptInit /\ [][ReceiptNext]_receiptVars => [](ReceiptTypeOK /\ ReceiptsAreKept)
<1>1. ReceiptInit => ReceiptInv
  BY ReceiptInitInv
<1>2. ReceiptInv /\ [ReceiptNext]_receiptVars => ReceiptInv'
  BY ReceiptStep
<1>3. ReceiptInv => ReceiptTypeOK /\ ReceiptsAreKept
  BY ReceiptInvImplies
<1> QED BY <1>1, <1>2, <1>3, PTL

-----------------------------------------------------------------------------
(* The composition: the part that moves takes its own steps, and the others*)
(* stand still.                                                            *)
LEMMA TaskSteps ==
  ASSUME [TaskNext]_taskVars
  PROVE  /\ UNCHANGED part
         /\ [OpenNext]_openVars /\ [MemoryNext]_memoryVars
         /\ [LedgerNext]_<<chain, losses>> /\ [ReceiptNext]_receiptVars
<1>1. CASE UNCHANGED taskVars
  BY <1>1 DEF taskVars
<1>2. CASE TaskNext
  BY <1>2 DEF TaskNext, TaskStill
<1> QED BY <1>1, <1>2

LEMMA TaskIsItsParts ==
  TaskSpec => OpenSpec /\ MemorySpec /\ LedgerSpec /\ ReceiptInit
                /\ [][ReceiptNext]_receiptVars
<1>1. TaskInit => OpenInit /\ MemoryInit /\ LedgerInit /\ ReceiptInit
  BY DEF TaskInit
<1>2. [TaskNext]_taskVars => /\ [OpenNext]_openVars /\ [MemoryNext]_memoryVars
                             /\ [LedgerNext]_<<chain, losses>> /\ [ReceiptNext]_receiptVars
  BY TaskSteps
<1> QED BY <1>1, <1>2, PTL DEF TaskSpec, OpenSpec, MemorySpec, LedgerSpec

(* The parts of a task keep their types together (MCTask).                 *)
THEOREM TaskStaysTyped == TaskSpec => []TaskTypeOK
<1>1. OpenTypeOK /\ MemoryTypeOK /\ ReceiptTypeOK => TaskTypeOK
  BY DEF TaskTypeOK
<1> QED BY <1>1, TaskIsItsParts, OpeningStaysSound, MemoryStaysNarrowest, ReceiptsStayKept, PTL

(* Openings of a task keep what they promise beside its other parts (Open).*)
THEOREM TaskOpeningHolds == TaskSpec => []OpeningHolds
<1>1. OpeningIsSound => OpeningHolds
  BY DEF OpeningHolds
<1> QED BY <1>1, TaskIsItsParts, OpeningStaysSound, PTL

(* What its roles may read stays the narrowest plan (memoryscope, Gate).   *)
THEOREM TaskMemoryHolds == TaskSpec => []MemoryHolds
<1>1. MemoryIsNarrowest => MemoryHolds
  BY DEF MemoryHolds
<1> QED BY <1>1, TaskIsItsParts, MemoryStaysNarrowest, PTL

(* Its chain of handoffs keeps what it promises (roles.VerifyChain).       *)
THEOREM TaskHandoffsHold == TaskSpec => []HandoffsHold
<1>1. HandoffsAreSound => HandoffsHold
  BY DEF HandoffsHold
<1> QED BY <1>1, TaskIsItsParts, HandoffsStaySound, PTL

(* No receipt of its reviews is burned unkept (reviewreceipt/service.go).   *)
THEOREM TaskReceiptsHold == TaskSpec => []ReceiptsHold
<1>1. ReceiptsAreKept => ReceiptsHold
  BY DEF ReceiptsHold
<1> QED BY <1>1, TaskIsItsParts, ReceiptsStayKept, PTL
=============================================================================
