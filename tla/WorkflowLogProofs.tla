-------------------------- MODULE WorkflowLogProofs --------------------------
(***************************************************************************)
(* Theorems about WorkflowLog, for any number of processes, any stages and *)
(* any bounds.  The inductive invariant IInv says who may be where in an   *)
(* append and what a process that holds the lock knows of the file.        *)
(***************************************************************************)
EXTENDS WorkflowLogProps, SequenceTheorems, FiniteSetTheorems, WellFoundedInduction, TLAPS

-----------------------------------------------------------------------------
(* Lemmas about logs.                                                      *)

(* Appending leaves the part before any earlier event alone.               *)
LEMMA BeforeAppend ==
  ASSUME NEW l \in Seq(Events), NEW e \in Events
  PROVE  /\ \A i \in 1..Len(l) : Before(Append(l, e), i) = Before(l, i)
         /\ Before(Append(l, e), Len(l) + 1) = l
         /\ \A i \in 1..Len(l) : Append(l, e)[i] = l[i]
         /\ Append(l, e)[Len(l) + 1] = e
         /\ Len(Append(l, e)) = Len(l) + 1
         /\ Append(l, e) \in Seq(Events)
<1>1. /\ Append(l, e) \in Seq(Events)
      /\ Len(Append(l, e)) = Len(l) + 1
      /\ \A i \in 1..Len(l) : Append(l, e)[i] = l[i]
      /\ Append(l, e)[Len(l) + 1] = e
  BY AppendProperties
<1>2. ASSUME NEW i \in 1..(Len(l) + 1)
      PROVE  Before(Append(l, e), i) = SubSeq(l, 1, i - 1)
  <2>1. /\ SubSeq(Append(l, e), 1, i - 1) \in Seq(Events)
        /\ SubSeq(l, 1, i - 1) \in Seq(Events)
        /\ Len(SubSeq(Append(l, e), 1, i - 1)) = i - 1
        /\ Len(SubSeq(l, 1, i - 1)) = i - 1
        /\ \A j \in 1..(i - 1) : SubSeq(Append(l, e), 1, i - 1)[j] = Append(l, e)[j]
        /\ \A j \in 1..(i - 1) : SubSeq(l, 1, i - 1)[j] = l[j]
    BY <1>1
  <2>2. \A j \in 1..(i - 1) : Append(l, e)[j] = l[j]
    BY <1>1
  <2>3. SubSeq(Append(l, e), 1, i - 1) = SubSeq(l, 1, i - 1)
    BY <2>1, <2>2, SeqEqual
  <2> QED BY <2>3 DEF Before
<1>3. SubSeq(l, 1, Len(l)) = l
  BY SubSeqFull
<1> QED BY <1>1, <1>2, <1>3 DEF Before

(* An admitted event extends an absent or owned log to an owned one.       *)
LEMMA VerifiesAppend ==
  ASSUME NEW l \in Seq(Events), NEW e \in Events,
         l = <<>> \/ Verifies(l), AdmitAppend(l, e)
  PROVE  Verifies(Append(l, e))
<1> DEFINE m == Append(l, e)
<1>1. /\ m \in Seq(Events) /\ Len(m) = Len(l) + 1
      /\ \A i \in 1..Len(l) : m[i] = l[i] /\ Before(m, i) = Before(l, i)
      /\ m[Len(l) + 1] = e /\ Before(m, Len(l) + 1) = l
  BY BeforeAppend
<1>2. ASSUME NEW i \in 1..Len(l)
      PROVE  /\ l[i].seq = i - 1 /\ l[i].prev = Digest(Before(l, i))
             /\ ValidEvent(l[i]) /\ CheckTransition(Before(l, i), l[i])
  <2>1. l # <<>>
    BY <1>2
  <2> QED BY <2>1 DEF Verifies, Chained, Replays
<1> HIDE DEF m
<1>3. Chained(m)
  <2> SUFFICES ASSUME NEW i \in 1..Len(m)
               PROVE  m[i].seq = i - 1 /\ m[i].prev = Digest(Before(m, i))
    BY DEF Chained
  <2>1. CASE i \in 1..Len(l)
    BY <2>1, <1>1, <1>2
  <2>2. CASE i = Len(l) + 1
    BY <2>2, <1>1 DEF AdmitAppend
  <2> QED BY <2>1, <2>2, <1>1
<1>4. Replays(m)
  <2> SUFFICES ASSUME NEW i \in 1..Len(m)
               PROVE  ValidEvent(m[i]) /\ CheckTransition(Before(m, i), m[i])
    BY DEF Replays
  <2>1. CASE i \in 1..Len(l)
    BY <2>1, <1>1, <1>2
  <2>2. CASE i = Len(l) + 1
    BY <2>2, <1>1 DEF AdmitAppend
  <2> QED BY <2>1, <2>2, <1>1
<1>5. m # <<>>
  BY <1>1
<1> QED BY <1>3, <1>4, <1>5 DEF Verifies, m

(* What a power loss or a restore leaves of an owned log is owned.         *)
LEMMA VerifiesPrefix ==
  ASSUME NEW l \in Seq(Events), NEW n \in 0..Len(l), l = <<>> \/ Verifies(l)
  PROVE  LET m == SubSeq(l, 1, n) IN
         /\ m \in Seq(Events) /\ Len(m) = n
         /\ m = <<>> \/ Verifies(m)
<1> DEFINE m == SubSeq(l, 1, n)
<1>1. /\ m \in Seq(Events) /\ Len(m) = n
      /\ \A i \in 1..n : m[i] = l[i]
  OBVIOUS
<1>2. ASSUME NEW i \in 1..n
      PROVE  Before(m, i) = Before(l, i)
  <2>1. /\ SubSeq(m, 1, i - 1) \in Seq(Events)
        /\ SubSeq(l, 1, i - 1) \in Seq(Events)
        /\ Len(SubSeq(m, 1, i - 1)) = i - 1
        /\ Len(SubSeq(l, 1, i - 1)) = i - 1
        /\ \A j \in 1..(i - 1) : SubSeq(m, 1, i - 1)[j] = m[j]
        /\ \A j \in 1..(i - 1) : SubSeq(l, 1, i - 1)[j] = l[j]
    BY <1>1
  <2>2. \A j \in 1..(i - 1) : m[j] = l[j]
    BY <1>1
  <2>3. SubSeq(m, 1, i - 1) = SubSeq(l, 1, i - 1)
    BY <2>1, <2>2, SeqEqual
  <2> QED BY <2>3 DEF Before
<1> HIDE DEF m
<1>3. ASSUME Verifies(l), n # 0
      PROVE  Verifies(m)
  <2>1. ASSUME NEW i \in 1..n
        PROVE  /\ l[i].seq = i - 1 /\ l[i].prev = Digest(Before(l, i))
               /\ ValidEvent(l[i]) /\ CheckTransition(Before(l, i), l[i])
    BY <1>3 DEF Verifies, Chained, Replays
  <2>2. Chained(m)
    BY <1>1, <1>2, <2>1 DEF Chained
  <2>3. Replays(m)
    BY <1>1, <1>2, <2>1 DEF Replays
  <2> QED BY <2>2, <2>3, <1>1, <1>3 DEF Verifies
<1>4. n = 0 => m = <<>>
  BY <1>1
<1>5. n # 0 => Verifies(m)
  BY <1>1, <1>3
<1> QED BY <1>1, <1>4, <1>5 DEF m

-----------------------------------------------------------------------------
(* The inductive invariant.                                                *)

(* The lock is held by the one process that is inside an append.           *)
LockInv == \A p \in Proc : lock = p <=> InFlight(p)

(* What a process knows where it stands.                                   *)
PlaceInv ==
  \A p \in Proc :
    /\ pc[p] = "loaded" => loaded[p] # <<>> /\ call[p] \in Calls
    /\ pc[p] = "staged" =>
         staged[p] = Append(log, draft[p]) /\ AdmitAppend(log, draft[p])
    /\ pc[p] \in {"renamed", "flushed"} => staged[p] = log
    /\ pc[p] = "flushed" => firm = Len(log)

LogInv == LogVerifies /\ AckedIsFirm

(* A stage event that waits to be appended is the next stage of the log it *)
(* was built on, whose contents its prev digest pins.                      *)
DraftInOrder(e) ==
  (e.kind = "stage_recorded" /\ e.prev # <<>> /\ e.prev[1].version # NameOnly)
    => IsNextStage(e.prev, e.prev[1].order, e.stage)

DraftInv ==
  \A p \in Proc :
    /\ pc[p] = "gathered" => draft[p].kind = "created"
    /\ pc[p] \in {"built", "locked", "staged"} => DraftInOrder(draft[p])

IInv == TypeOK /\ LockInv /\ PlaceInv /\ LogInv /\ DraftInv /\ StageOrder

-----------------------------------------------------------------------------
(* Types.                                                                  *)

LEMMA DigestType ==
  ASSUME NEW l \in Seq(Events)
  PROVE  Digest(l) \in Seq(Bodies)
<1>1. ASSUME NEW i \in 1..Len(l)
      PROVE  Body(l[i]) \in Bodies
  <2>1. l[i] \in Events
    OBVIOUS
  <2> QED BY <2>1 DEF Events, Bodies, Body
<1>2. Digest(l) \in [1..Len(l) -> Bodies]
  BY <1>1 DEF Digest
<1>3. Len(l) \in Nat
  OBVIOUS
<1> QED BY <1>2, <1>3, SeqDef

LEMMA NewEventType ==
  ASSUME NEW l \in Seq(Events), NEW k \in Kinds
  PROVE  NewEvent(l, k) \in Events
<1>1. VersionFor(l) \in Versions
  <2>1. l # <<>> => l[1] \in Events
    OBVIOUS
  <2> QED BY <2>1 DEF VersionFor, Versions, Events
<1>2. <<>> \in Seq(Stages)
  BY EmptySeq
<1>3. Len(l) \in Nat
  OBVIOUS
<1> QED BY <1>1, <1>2, <1>3, DigestType DEF NewEvent, Events

LEMMA NoEventType == NoEvent \in Events
<1>1. <<>> \in Seq(Events)
  BY EmptySeq
<1>2. NewEvent(<<>>, "created") \in Events
  BY <1>1, NewEventType DEF Kinds, StatusKinds
<1> QED BY <1>2 DEF NoEvent, Events, Versions

LEMMA ChainHeadType ==
  ASSUME NEW c \in Seq(RoleHead)
  PROVE  ChainHead(c) \in RoleHead \union {NoHead}
BY DEF ChainHead

LEMMA GenerationType ==
  ASSUME TypeOK
  PROVE  Generation \in Nat
<1>1. ChainHead(chain) \in RoleHead \union {NoHead}
  BY ChainHeadType DEF TypeOK
<1> QED BY <1>1 DEF Generation, RoleHead, NoHead

LEMMA EventForType ==
  ASSUME TypeOK, NEW c \in Calls, NEW l \in Seq(Events)
  PROVE  EventFor(c, l) \in Events
<1>1. /\ c.kind \in Kinds /\ c.stage \in Stages \union {""}
      /\ c.outcome \in Outcomes \union {""}
  BY DEF Calls, NoCall, Kinds, StatusKinds, Outcomes
<1>2. NewEvent(l, c.kind) \in Events
  BY <1>1, NewEventType
<1>3. goal \in Nat /\ ChainHead(chain) \in RoleHead \union {NoHead}
  BY GoalsAssumption, ChainHeadType DEF TypeOK
<1> QED BY <1>1, <1>2, <1>3 DEF EventFor, Events

LEMMA EndsType ==
  ASSUME TypeOK, NEW p \in Proc, Ends(p)
  PROVE  /\ pc' \in [Proc -> PcValues]
         /\ call' \in [Proc -> Calls \union {NoCall}]
         /\ loaded' \in [Proc -> Seq(Events)]
         /\ draft' \in [Proc -> Events]
         /\ staged' \in [Proc -> Seq(Events)]
BY NoEventType, EmptySeq DEF Ends, Go, TypeOK, PcValues

LEMMA InitType == Init => TypeOK
<1> SUFFICES ASSUME Init PROVE TypeOK
  OBVIOUS
<1>1. <<>> \in Seq(Events) /\ <<>> \in Seq(RoleHead)
  BY EmptySeq
<1>2. log \in Seq(Events)
  BY <1>1, LegacyAssumption DEF Init
<1>3. firm \in 0..Len(log) /\ acked \in 0..Len(log)
  BY <1>2 DEF Init
<1>4. /\ pc \in [Proc -> PcValues]
      /\ call \in [Proc -> Calls \union {NoCall}]
      /\ loaded \in [Proc -> Seq(Events)]
      /\ draft \in [Proc -> Events]
      /\ staged \in [Proc -> Seq(Events)]
  BY <1>1, NoEventType DEF Init, PcValues
<1> QED BY <1>1, <1>2, <1>3, <1>4 DEF Init, TypeOK

LEMMA TypeStep ==
  ASSUME IInv, [Next]_vars
  PROVE  TypeOK'
<1> USE DEF IInv
<1>1. CASE UNCHANGED vars
  BY <1>1 DEF vars, storeVars, procVars, outsideVars, TypeOK
<1>2. ASSUME NEW p \in Proc, BeginCreate(p)
      PROVE  TypeOK'
  <2>1. /\ catalog \in Seq(Stages) /\ goal \in Nat
        /\ ChainHead(chain) \in RoleHead \union {NoHead}
    BY GoalsAssumption, OrdersAssumption, ChainHeadType, EmptySeq DEF TypeOK
  <2>2. NewEvent(<<>>, "created") \in Events
    BY NewEventType, EmptySeq DEF Kinds, StatusKinds
  <2>5. PICK head \in {NoHead, ChainHead(chain)} :
          draft' = [draft EXCEPT ![p] =
                      [NewEvent(<<>>, "created") EXCEPT
                         !.order = catalog, !.goal = goal, !.head = head]]
    BY <1>2 DEF BeginCreate
  <2>6. head \in RoleHead \union {NoHead}
    BY <2>1
  <2>7. [NewEvent(<<>>, "created") EXCEPT
           !.order = catalog, !.goal = goal, !.head = head] \in Events
    BY <2>1, <2>2, <2>6 DEF Events
  <2>3. draft' \in [Proc -> Events]
    BY <2>5, <2>7 DEF TypeOK
  <2>4. pc' \in [Proc -> PcValues]
    BY <1>2 DEF BeginCreate, Go, TypeOK, PcValues
  <2> QED BY <1>2, <2>3, <2>4 DEF BeginCreate, TypeOK, storeVars, outsideVars
<1>3. ASSUME NEW p \in Proc, LoadForCreate(p)
      PROVE  TypeOK'
  <2>1. CASE Ends(p)
    BY <1>3, <2>1, EndsType DEF LoadForCreate, TypeOK, storeVars, outsideVars
  <2>2. CASE Go(p, "built") /\ UNCHANGED <<call, loaded, draft, staged>>
    BY <1>3, <2>2 DEF LoadForCreate, TypeOK, storeVars, outsideVars, Go, PcValues
  <2> QED BY <1>3, <2>1, <2>2 DEF LoadForCreate
<1>4. ASSUME NEW p \in Proc, NEW c \in Calls, Begin(p, c)
      PROVE  TypeOK'
  BY <1>4 DEF Begin, TypeOK, storeVars, outsideVars, Go, PcValues
<1>5. ASSUME NEW p \in Proc, Build(p)
      PROVE  TypeOK'
  <2>1. CASE Ends(p)
    BY <1>5, <2>1, EndsType DEF Build, TypeOK, storeVars, outsideVars
  <2>2. CASE ~Ends(p)
    <3>1. call[p] \in Calls /\ loaded[p] \in Seq(Events)
      BY <1>5 DEF Build, At, PlaceInv, TypeOK
    <3>2. EventFor(call[p], loaded[p]) \in Events
      BY <3>1, EventForType
    <3>3. draft' \in [Proc -> Events]
      BY <1>5, <2>2, <3>2 DEF Build, TypeOK
    <3>6. loaded' = [loaded EXCEPT ![p] = <<>>] /\ <<>> \in Seq(Events)
      BY <1>5, <2>2, EmptySeq DEF Build
    <3>4. loaded' \in [Proc -> Seq(Events)]
      BY <3>6 DEF TypeOK
    <3>5. /\ pc' \in [Proc -> PcValues]
          /\ call' \in [Proc -> Calls \union {NoCall}]
          /\ staged' = staged
      BY <1>5, <2>2 DEF Build, Go, TypeOK, PcValues
    <3> QED BY <1>5, <3>3, <3>4, <3>5 DEF Build, TypeOK, storeVars, outsideVars
  <2> QED BY <2>1, <2>2
<1>6. ASSUME NEW p \in Proc, TakeLock(p)
      PROVE  TypeOK'
  BY <1>6 DEF TakeLock, TypeOK, outsideVars, Go, PcValues
<1>7. ASSUME NEW p \in Proc, Conflict(p) \/ Fail(p) \/ Crash(p)
      PROVE  TypeOK'
  BY <1>7, EndsType DEF Conflict, Fail, Crash, TypeOK, storeVars, outsideVars
<1>8. ASSUME NEW p \in Proc, Stage(p)
      PROVE  TypeOK'
  <2>1. Append(log, draft[p]) \in Seq(Events)
    BY BeforeAppend DEF TypeOK
  <2> QED BY <1>8, <2>1 DEF Stage, TypeOK, storeVars, outsideVars, Go, PcValues
<1>9. ASSUME NEW p \in Proc, Refuse(p) \/ PublishFails(p) \/ FlushFails(p)
      PROVE  TypeOK'
  BY <1>9 DEF Refuse, PublishFails, FlushFails, TypeOK, storeVars, outsideVars, Go, PcValues
<1>10. ASSUME NEW p \in Proc, Publish(p)
       PROVE  TypeOK'
  <2>1. log' = Append(log, draft[p]) /\ log' \in Seq(Events) /\ Len(log') = Len(log) + 1
    BY <1>10, BeforeAppend DEF Publish, At, PlaceInv, TypeOK
  <2>2. firm' \in 0..Len(log') /\ acked' \in 0..Len(log')
    BY <1>10, <2>1 DEF Publish, TypeOK
  <2> QED BY <1>10, <2>1, <2>2 DEF Publish, TypeOK, outsideVars, Go, PcValues
<1>11. ASSUME NEW p \in Proc, FlushDir(p)
       PROVE  TypeOK'
  BY <1>11 DEF FlushDir, TypeOK, outsideVars, Go, PcValues
<1>12. ASSUME NEW p \in Proc, Succeed(p)
       PROVE  TypeOK'
  <2>1. acked' = Len(log)
    BY <1>12 DEF Succeed, At, PlaceInv
  <2> QED BY <1>12, <2>1, EndsType DEF Succeed, TypeOK, outsideVars
<1>13. CASE ChangeGoal \/ ChangeCatalog \/ Damage
  <2>1. changes' \in Nat
    BY <1>13 DEF ChangeGoal, ChangeCatalog, Damage, Change, TypeOK
  <2>2. CASE ChangeGoal
    BY <2>1, <2>2 DEF ChangeGoal, TypeOK, storeVars, procVars
  <2>3. CASE ChangeCatalog
    BY <2>1, <2>3 DEF ChangeCatalog, TypeOK, storeVars, procVars
  <2>4. CASE Damage
    BY <2>1, <2>4 DEF Damage, TypeOK, procVars
  <2> QED BY <1>13, <2>2, <2>3, <2>4
<1>14. CASE GrowChain
  <2>1. Generation \in Nat
    BY GenerationType
  <2>2. [gen |-> IF chain = <<>> THEN 1 ELSE Generation, n |-> Len(chain) + 1] \in RoleHead
    BY <2>1 DEF RoleHead, TypeOK
  <2>3. chain' \in Seq(RoleHead)
    BY <1>14, <2>2, AppendProperties DEF GrowChain, TypeOK
  <2> QED BY <1>14, <2>3 DEF GrowChain, TypeOK, storeVars, procVars
<1>15. CASE ReplaceChain
  <2>1. Generation + 1 \in Nat
    BY GenerationType
  <2>2. PICK n \in 1..Len(chain) :
          chain' = [i \in 1..n |-> [gen |-> Generation + 1, n |-> i]]
    BY <1>15 DEF ReplaceChain
  <2>3. n \in Nat /\ chain' \in [1..n -> RoleHead]
    BY <2>1, <2>2 DEF RoleHead, TypeOK
  <2>4. chain' \in Seq(RoleHead)
    BY <2>3, SeqDef
  <2>5. changes' \in Nat
    BY <1>15 DEF ReplaceChain, Change, TypeOK
  <2>6. UNCHANGED <<storeVars, procVars, goal, catalog>>
    BY <1>15 DEF ReplaceChain
  <2> QED BY <2>4, <2>5, <2>6 DEF TypeOK, storeVars, procVars
<1>16. CASE RestoreFile
  <2>1. PICK n \in 0..Len(log) : log' = SubSeq(log, 1, n) /\ firm' = n /\ acked' = n
    BY <1>16 DEF RestoreFile
  <2>2. log' \in Seq(Events) /\ Len(log') = n
    BY <2>1, VerifiesPrefix DEF TypeOK, LogInv, LogVerifies
  <2>3. firm' \in 0..Len(log') /\ acked' \in 0..Len(log')
    BY <2>1, <2>2
  <2>6. changes' = changes + 1 /\ restores' = restores + 1 /\ damaged' = FALSE
    BY <1>16 DEF RestoreFile, Change
  <2>7. changes \in Nat /\ restores \in Nat
    BY DEF TypeOK
  <2>8. changes' \in Nat
    BY <2>6, <2>7
  <2>9. restores' \in Nat
    BY <2>6, <2>7
  <2>4. damaged' \in BOOLEAN
    BY <2>6, Zenon
  <2>5. UNCHANGED <<lock, procVars, goal, chain, catalog>>
    BY <1>16 DEF RestoreFile
  <2> QED BY <2>2, <2>3, <2>4, <2>5, <2>8, <2>9 DEF TypeOK, procVars
<1>17. CASE PowerLoss
  <2>1. PICK n \in firm..Len(log) : log' = SubSeq(log, 1, n) /\ firm' = n
    BY <1>17 DEF PowerLoss
  <2>2. n \in 0..Len(log)
    BY DEF TypeOK
  <2>3. log' \in Seq(Events) /\ Len(log') = n
    BY <2>1, <2>2, VerifiesPrefix DEF TypeOK, LogInv, LogVerifies
  <2>4. acked' \in 0..n
    BY <1>17, <2>1 DEF PowerLoss, TypeOK, LogInv, AckedIsFirm
  <2>5. /\ pc' \in [Proc -> PcValues]
        /\ call' \in [Proc -> Calls \union {NoCall}]
        /\ loaded' \in [Proc -> Seq(Events)]
        /\ draft' \in [Proc -> Events]
        /\ staged' \in [Proc -> Seq(Events)]
    BY <1>17, NoEventType, EmptySeq DEF PowerLoss, PcValues
  <2> QED BY <1>17, <2>1, <2>2, <2>3, <2>4, <2>5 DEF PowerLoss, Change, TypeOK
<1> QED
  BY <1>1, <1>2, <1>3, <1>4, <1>5, <1>6, <1>7, <1>8, <1>9, <1>10, <1>11,
     <1>12, <1>13, <1>14, <1>15, <1>16, <1>17
     DEF Next, Outside, Start, Continue, AppendStep

-----------------------------------------------------------------------------
(* Every step keeps the lock with the process that is inside an append.    *)
LEMMA LockStep ==
  ASSUME IInv, [Next]_vars
  PROVE  LockInv'
<1> USE DEF IInv
<1>0. None \notin Proc
  BY NoneAssumption
<1>1. CASE UNCHANGED vars
  BY <1>1 DEF vars, storeVars, procVars, LockInv, InFlight
<1>2. ASSUME NEW p \in Proc,
             \/ BeginCreate(p) \/ LoadForCreate(p) \/ Build(p) \/ Conflict(p)
             \/ \E c \in Calls : Begin(p, c)
      PROVE  LockInv'
  <2>1. lock' = lock /\ ~InFlight(p)
    BY <1>2 DEF BeginCreate, LoadForCreate, Build, Conflict, Begin, storeVars, At, InFlight
  <2>2. \E where \in {"idle", "gathered", "loaded", "built"} : Go(p, where)
    BY <1>2 DEF BeginCreate, LoadForCreate, Build, Conflict, Begin, Ends
  <2> QED BY <2>1, <2>2 DEF LockInv, InFlight, Go, TypeOK
<1>3. ASSUME NEW p \in Proc, TakeLock(p)
      PROVE  LockInv'
  BY <1>0, <1>3 DEF TakeLock, LockInv, InFlight, Go, At, TypeOK
<1>4. ASSUME NEW p \in Proc,
             \/ Stage(p) \/ Refuse(p) \/ Publish(p) \/ PublishFails(p)
             \/ FlushDir(p) \/ FlushFails(p)
      PROVE  LockInv'
  <2>1. lock' = lock /\ InFlight(p)
    BY <1>4 DEF Stage, Refuse, Publish, PublishFails, FlushDir, FlushFails, storeVars, At, InFlight
  <2>2. \E where \in {"staged", "renamed", "flushed", "failed"} : Go(p, where)
    BY <1>4 DEF Stage, Refuse, Publish, PublishFails, FlushDir, FlushFails
  <2> QED BY <2>1, <2>2 DEF LockInv, InFlight, Go, TypeOK
<1>5. ASSUME NEW p \in Proc, Succeed(p) \/ Fail(p)
      PROVE  LockInv'
  BY <1>0, <1>5 DEF Succeed, Fail, Ends, Go, At, LockInv, InFlight, TypeOK
<1>6. ASSUME NEW p \in Proc, Crash(p)
      PROVE  LockInv'
  BY <1>0, <1>6 DEF Crash, Ends, Go, At, LockInv, InFlight, TypeOK
<1>7. CASE Outside
  <2>1. CASE PowerLoss
    BY <1>0, <2>1 DEF PowerLoss, LockInv, InFlight
  <2>2. CASE ~PowerLoss
    BY <1>7, <2>2 DEF Outside, ChangeGoal, ChangeCatalog, GrowChain, ReplaceChain,
       Damage, RestoreFile, storeVars, procVars, LockInv, InFlight
  <2> QED BY <2>1, <2>2
<1> QED
  BY <1>1, <1>2, <1>3, <1>4, <1>5, <1>6, <1>7 DEF Next, Start, Continue, AppendStep

-----------------------------------------------------------------------------
(* Every step keeps what processes know true: the file changes only under  *)
(* the lock, and its holder is the only process that knows the file.       *)
LEMMA PlaceStep ==
  ASSUME IInv, [Next]_vars
  PROVE  PlaceInv'
<1> USE DEF IInv
<1>0. \A p, q \in Proc : InFlight(p) /\ InFlight(q) => p = q
  BY DEF LockInv
<1>1. CASE UNCHANGED vars
  BY <1>1 DEF vars, storeVars, procVars, PlaceInv
<1>2. ASSUME NEW p \in Proc, BeginCreate(p)
      PROVE  PlaceInv'
  BY <1>2 DEF BeginCreate, Go, storeVars, PlaceInv, TypeOK
<1>3. ASSUME NEW p \in Proc, LoadForCreate(p)
      PROVE  PlaceInv'
  BY <1>3 DEF LoadForCreate, Ends, Go, storeVars, PlaceInv, TypeOK
<1>4. ASSUME NEW p \in Proc, NEW c \in Calls, Begin(p, c)
      PROVE  PlaceInv'
  BY <1>4 DEF Begin, Owned, Verifies, Go, storeVars, PlaceInv, TypeOK
<1>5. ASSUME NEW p \in Proc, Build(p)
      PROVE  PlaceInv'
  BY <1>5 DEF Build, Ends, Go, storeVars, PlaceInv, TypeOK
<1>6. ASSUME NEW p \in Proc, TakeLock(p)
      PROVE  PlaceInv'
  BY <1>6 DEF TakeLock, Go, PlaceInv, TypeOK
<1>7. ASSUME NEW p \in Proc, Conflict(p) \/ Fail(p) \/ Crash(p)
      PROVE  PlaceInv'
  BY <1>7 DEF Conflict, Fail, Crash, Ends, Go, storeVars, PlaceInv, TypeOK
<1>8. ASSUME NEW p \in Proc, Stage(p)
      PROVE  PlaceInv'
  BY <1>8 DEF Stage, Go, storeVars, PlaceInv, TypeOK
<1>9. ASSUME NEW p \in Proc, Refuse(p) \/ PublishFails(p) \/ FlushFails(p)
      PROVE  PlaceInv'
  BY <1>9 DEF Refuse, PublishFails, FlushFails, Go, storeVars, PlaceInv, TypeOK
<1>10. ASSUME NEW p \in Proc, Publish(p) \/ FlushDir(p)
       PROVE  PlaceInv'
  <2>1. InFlight(p)
    BY <1>10 DEF Publish, FlushDir, At, InFlight
  <2>2. \A q \in Proc \ {p} : ~InFlight(q) /\ pc'[q] = pc[q]
    BY <1>0, <1>10, <2>1 DEF Publish, FlushDir, Go, TypeOK
  <2>3. CASE Publish(p)
    BY <2>2, <2>3 DEF Publish, Go, InFlight, PlaceInv, TypeOK
  <2>4. CASE FlushDir(p)
    BY <2>2, <2>4 DEF FlushDir, Go, At, InFlight, PlaceInv, TypeOK
  <2> QED BY <1>10, <2>3, <2>4
<1>11. ASSUME NEW p \in Proc, Succeed(p)
       PROVE  PlaceInv'
  BY <1>11 DEF Succeed, Ends, Go, PlaceInv, TypeOK
<1>12. CASE ChangeGoal \/ ChangeCatalog \/ GrowChain \/ ReplaceChain \/ Damage
  BY <1>12 DEF ChangeGoal, ChangeCatalog, GrowChain, ReplaceChain, Damage,
     storeVars, procVars, PlaceInv
<1>13. CASE RestoreFile
  <2>1. \A p \in Proc : ~InFlight(p)
    BY <1>13, NoneAssumption DEF RestoreFile, LockInv
  <2> QED BY <1>13, <2>1 DEF RestoreFile, procVars, InFlight, PlaceInv
<1>14. CASE PowerLoss
  BY <1>14 DEF PowerLoss, PlaceInv
<1> QED
  BY <1>1, <1>2, <1>3, <1>4, <1>5, <1>6, <1>7, <1>8, <1>9, <1>10, <1>11,
     <1>12, <1>13, <1>14 DEF Next, Outside, Start, Continue, AppendStep

-----------------------------------------------------------------------------
(* Every step leaves an owned log, and acknowledged events firm.           *)
LEMMA LogStep ==
  ASSUME IInv, [Next]_vars
  PROVE  LogInv'
<1> USE DEF IInv
<1>1. CASE UNCHANGED <<log, firm, acked>>
  BY <1>1 DEF LogInv, LogVerifies, AckedIsFirm
<1>2. ASSUME NEW p \in Proc, Publish(p)
      PROVE  LogInv'
  <2>1. log' = Append(log, draft[p]) /\ AdmitAppend(log, draft[p])
    BY <1>2 DEF Publish, At, PlaceInv
  <2>2. Verifies(log')
    BY <2>1, VerifiesAppend DEF TypeOK, LogInv, LogVerifies
  <2> QED BY <1>2, <2>2 DEF Publish, LogInv, LogVerifies, AckedIsFirm
<1>3. ASSUME NEW p \in Proc, FlushDir(p)
      PROVE  LogInv'
  BY <1>3 DEF FlushDir, LogInv, LogVerifies, AckedIsFirm, TypeOK
<1>4. ASSUME NEW p \in Proc, Succeed(p)
      PROVE  LogInv'
  BY <1>4 DEF Succeed, At, PlaceInv, LogInv, LogVerifies, AckedIsFirm, TypeOK
<1>5. CASE RestoreFile
  <2>1. PICK n \in 0..Len(log) : log' = SubSeq(log, 1, n) /\ firm' = n /\ acked' = n
    BY <1>5 DEF RestoreFile
  <2>2. log' = <<>> \/ Verifies(log')
    BY <2>1, VerifiesPrefix DEF TypeOK, LogInv, LogVerifies
  <2> QED BY <2>1, <2>2 DEF LogInv, LogVerifies, AckedIsFirm
<1>6. CASE PowerLoss
  <2>1. PICK n \in firm..Len(log) : log' = SubSeq(log, 1, n) /\ firm' = n
    BY <1>6 DEF PowerLoss
  <2>2. n \in 0..Len(log)
    BY DEF TypeOK
  <2>3. log' = <<>> \/ Verifies(log')
    BY <2>1, <2>2, VerifiesPrefix DEF TypeOK, LogInv, LogVerifies
  <2>4. acked' <= firm'
    BY <1>6, <2>1 DEF PowerLoss, TypeOK, LogInv, AckedIsFirm
  <2> QED BY <2>3, <2>4 DEF LogInv, LogVerifies, AckedIsFirm
<1>7. ASSUME NEW p \in Proc,
             \/ LoadForCreate(p) \/ Build(p) \/ TakeLock(p) \/ Conflict(p)
             \/ Stage(p) \/ Refuse(p) \/ PublishFails(p) \/ FlushFails(p)
             \/ Fail(p) \/ Crash(p) \/ Start(p)
      PROVE  UNCHANGED <<log, firm, acked>>
  BY <1>7 DEF LoadForCreate, Build, TakeLock, Conflict, Stage, Refuse,
     PublishFails, FlushFails, Fail, Crash, Start, BeginCreate, Begin, storeVars
<1>8. CASE ChangeGoal \/ ChangeCatalog \/ GrowChain \/ ReplaceChain \/ Damage
  BY <1>1, <1>8 DEF ChangeGoal, ChangeCatalog, GrowChain, ReplaceChain, Damage, storeVars
<1>9. CASE UNCHANGED vars
  BY <1>1, <1>9 DEF vars, storeVars
<1> QED
  BY <1>1, <1>2, <1>3, <1>4, <1>5, <1>6, <1>7, <1>8, <1>9
     DEF Next, Outside, Continue, AppendStep

-----------------------------------------------------------------------------
(* The order of stages.                                                    *)

(* A digest pins what the order of stages depends on.                      *)
LEMMA DigestStages ==
  ASSUME NEW l \in Seq(Events)
  PROVE  /\ Len(Digest(l)) = Len(l)
         /\ Digest(l) = <<>> <=> l = <<>>
         /\ l # <<>> => /\ Digest(l)[1].version = l[1].version
                        /\ Digest(l)[1].order = l[1].order
         /\ StageEvents(Digest(l)) = StageEvents(l)
         /\ Recorded(Digest(l)) = Recorded(l)
<1>1. Digest(l) \in Seq(Bodies) /\ Len(l) \in Nat
  BY DigestType
<1>2. Len(Digest(l)) = Len(l)
  BY <1>1 DEF Digest
<1>3. ASSUME NEW i \in 1..Len(l)
      PROVE  /\ Digest(l)[i].kind = l[i].kind
             /\ Digest(l)[i].version = l[i].version
             /\ Digest(l)[i].order = l[i].order
  BY DEF Digest, Body
<1>4. StageEvents(Digest(l)) = StageEvents(l)
  BY <1>2, <1>3 DEF StageEvents
<1>5. Digest(l) = <<>> <=> l = <<>>
  BY <1>1, <1>2
<1> QED BY <1>2, <1>3, <1>4, <1>5 DEF Recorded

LEMMA StagesFinite ==
  ASSUME NEW l \in Seq(Events)
  PROVE  IsFiniteSet(StageEvents(l)) /\ Recorded(l) \in Nat
<1>1. IsFiniteSet(1..Len(l))
  BY FS_Interval
<1>2. StageEvents(l) \subseteq 1..Len(l)
  BY DEF StageEvents
<1>3. IsFiniteSet(StageEvents(l))
  BY <1>1, <1>2, FS_Subset
<1> QED BY <1>3, FS_CardinalityType DEF Recorded

(* The stage events of an extended log are those of the log, and the new   *)
(* one if it is one; their places do not change.                           *)
LEMMA StagesAppend ==
  ASSUME NEW l \in Seq(Events), NEW e \in Events,
         NEW order \in Seq(Stages), StagesFollow(l, order),
         e.kind = "stage_recorded" => IsNextStage(l, order, e.stage)
  PROVE  StagesFollow(Append(l, e), order)
<1> DEFINE m == Append(l, e)
           n == Len(l) + 1
           UpTo(k, i) == {j \in StageEvents(k) : j <= i}
<1>1. /\ Len(l) \in Nat /\ Len(m) = n /\ m[n] = e
      /\ \A i \in 1..Len(l) : m[i] = l[i]
  BY BeforeAppend
<1> HIDE DEF m
<1>2. StageEvents(m) = IF e.kind = "stage_recorded"
                       THEN StageEvents(l) \union {n} ELSE StageEvents(l)
  BY <1>1 DEF StageEvents
<1>3. StageEvents(l) \subseteq 1..Len(l)
  BY DEF StageEvents
<1>4. ASSUME NEW i \in StageEvents(l)
      PROVE  UpTo(m, i) = UpTo(l, i) /\ m[i] = l[i]
  BY <1>1, <1>2, <1>3
<1>5. ASSUME e.kind = "stage_recorded"
      PROVE  Cardinality(UpTo(m, n)) = Recorded(l) + 1
  <2>1. UpTo(m, n) = StageEvents(l) \union {n}
    BY <1>1, <1>2, <1>3, <1>5
  <2>2. n \notin StageEvents(l)
    BY <1>1, <1>3
  <2>3. IsFiniteSet(StageEvents(l))
    BY StagesFinite
  <2> QED BY <2>1, <2>2, <2>3, FS_AddElement DEF Recorded
<1>6. Recorded(l) \in Nat
  BY StagesFinite
<1>7. ASSUME NEW i \in StageEvents(m)
      PROVE  /\ Cardinality(UpTo(m, i)) <= Len(order)
             /\ m[i].stage = order[Cardinality(UpTo(m, i))]
  <2>1. CASE i \in StageEvents(l)
    BY <1>4, <2>1 DEF StagesFollow
  <2>2. CASE i \notin StageEvents(l)
    <3>1. e.kind = "stage_recorded" /\ i = n
      BY <1>2, <1>7, <2>2
    <3>2. Recorded(l) < Len(order) /\ e.stage = order[Recorded(l) + 1]
      BY <3>1 DEF IsNextStage
    <3>3. Cardinality(UpTo(m, i)) = Recorded(l) + 1 /\ m[i].stage = e.stage
      BY <1>1, <1>5, <3>1
    <3>4. ASSUME NEW a, a < Len(order), a = Recorded(l)
          PROVE  a + 1 <= Len(order)
      BY <1>6, <3>4
    <3> QED BY <3>2, <3>3, <3>4
  <2> QED BY <2>1, <2>2
<1> QED BY <1>7 DEF StagesFollow, m

(* What is left of a log whose stages are in order has them in order.      *)
LEMMA StagesPrefix ==
  ASSUME NEW l \in Seq(Events), NEW n \in 0..Len(l), NEW order,
         StagesFollow(l, order)
  PROVE  StagesFollow(SubSeq(l, 1, n), order)
<1> DEFINE m == SubSeq(l, 1, n)
           UpTo(k, i) == {j \in StageEvents(k) : j <= i}
<1>1. /\ Len(l) \in Nat /\ Len(m) = n
      /\ \A i \in 1..n : m[i] = l[i]
  OBVIOUS
<1> HIDE DEF m
<1>2. ASSUME NEW i \in StageEvents(m)
      PROVE  i \in StageEvents(l) /\ m[i] = l[i] /\ UpTo(m, i) = UpTo(l, i)
  <2>1. i \in 1..n
    BY <1>1 DEF StageEvents
  <2> QED BY <1>1, <2>1 DEF StageEvents
<1> QED BY <1>2 DEF StagesFollow, m

(* An admitted event is in its place: if it is a stage, its draft was      *)
(* checked against the very log it is appended to.                         *)
LEMMA AdmittedInOrder ==
  ASSUME NEW l \in Seq(Events), l # <<>>, l[1].version # NameOnly,
         NEW e \in Events, AdmitAppend(l, e), DraftInOrder(e),
         e.kind = "stage_recorded"
  PROVE  IsNextStage(l, l[1].order, e.stage)
<1>1. e.prev = Digest(l)
  BY DEF AdmitAppend
<1>2. IsNextStage(e.prev, e.prev[1].order, e.stage)
  BY <1>1, DigestStages DEF DraftInOrder
<1> QED BY <1>1, <1>2, DigestStages DEF IsNextStage

(* Every step leaves the drafts of stages in order.                        *)
LEMMA DraftStep ==
  ASSUME IInv, [Next]_vars
  PROVE  DraftInv'
<1> USE DEF IInv
<1>1. CASE UNCHANGED procVars
  BY <1>1 DEF procVars, DraftInv
<1>2. ASSUME NEW p \in Proc, BeginCreate(p)
      PROVE  DraftInv'
  <2>1. PICK head \in {NoHead, ChainHead(chain)} :
          draft' = [draft EXCEPT ![p] =
                      [NewEvent(<<>>, "created") EXCEPT
                         !.order = catalog, !.goal = goal, !.head = head]]
    BY <1>2 DEF BeginCreate
  <2>2. draft'[p].kind = "created"
    BY <2>1 DEF TypeOK, NewEvent
  <2>3. \A q \in Proc \ {p} : draft'[q] = draft[q] /\ pc'[q] = pc[q]
    BY <1>2, <2>1 DEF BeginCreate, Go, TypeOK
  <2>4. pc'[p] = "gathered"
    BY <1>2 DEF BeginCreate, Go, TypeOK
  <2> QED BY <2>2, <2>3, <2>4 DEF DraftInv
<1>3. ASSUME NEW p \in Proc, LoadForCreate(p)
      PROVE  DraftInv'
  <2>1. CASE Ends(p)
    BY <2>1 DEF Ends, Go, DraftInv, TypeOK
  <2>2. CASE Go(p, "built") /\ UNCHANGED draft
    BY <1>3, <2>2 DEF LoadForCreate, At, Go, DraftInv, DraftInOrder, TypeOK
  <2> QED BY <1>3, <2>1, <2>2 DEF LoadForCreate
<1>4. ASSUME NEW p \in Proc, NEW c \in Calls, Begin(p, c)
      PROVE  DraftInv'
  BY <1>4 DEF Begin, Go, DraftInv, TypeOK
<1>5. ASSUME NEW p \in Proc, Build(p)
      PROVE  DraftInv'
  <2>1. CASE Ends(p)
    BY <2>1 DEF Ends, Go, DraftInv, TypeOK
  <2>2. CASE ~Ends(p)
    <3> DEFINE l == loaded[p]
               c == call[p]
    <3>1. /\ Proceeds(c, l)
          /\ draft' = [draft EXCEPT ![p] = EventFor(c, l)]
          /\ Go(p, "built")
      BY <1>5, <2>2 DEF Build
    <3>2. l \in Seq(Events)
      BY DEF TypeOK
    <3>3. /\ EventFor(c, l).kind = c.kind /\ EventFor(c, l).stage = c.stage
          /\ EventFor(c, l).prev = Digest(l)
      BY DEF EventFor, NewEvent
    <3> HIDE DEF l, c
    <3>4. ASSUME c.kind = "stage_recorded", Digest(l) # <<>>,
                 Digest(l)[1].version # NameOnly
          PROVE  IsNextStage(Digest(l), Digest(l)[1].order, c.stage)
      <4>1. l # <<>> /\ l[1].version # NameOnly
        BY <3>2, <3>4, DigestStages
      <4>2. IsNextStage(l, l[1].order, c.stage)
        BY <3>1, <3>4, <4>1 DEF Proceeds, OrderFor
      <4> QED BY <3>2, <4>1, <4>2, DigestStages DEF IsNextStage
    <3>5. DraftInOrder(EventFor(c, l))
      BY <3>3, <3>4 DEF DraftInOrder
    <3> QED BY <3>1, <3>5 DEF Go, DraftInv, TypeOK
  <2> QED BY <2>1, <2>2
<1>6. ASSUME NEW p \in Proc,
             \/ TakeLock(p) \/ Stage(p) \/ Refuse(p) \/ Publish(p)
             \/ PublishFails(p) \/ FlushDir(p) \/ FlushFails(p)
      PROVE  DraftInv'
  <2>1. /\ draft' = draft
        /\ pc[p] \in {"built", "locked"} \/ pc'[p] \in {"renamed", "flushed", "failed"}
        /\ pc'[p] # "gathered"
        /\ \A q \in Proc \ {p} : pc'[q] = pc[q]
    BY <1>6 DEF TakeLock, Stage, Refuse, Publish, PublishFails, FlushDir,
       FlushFails, At, Go, TypeOK
  <2> QED BY <2>1 DEF DraftInv
<1>7. ASSUME NEW p \in Proc, Conflict(p) \/ Succeed(p) \/ Fail(p) \/ Crash(p)
      PROVE  DraftInv'
  BY <1>7 DEF Conflict, Succeed, Fail, Crash, Ends, Go, DraftInv, TypeOK
<1>8. CASE Outside
  <2>1. CASE PowerLoss
    BY <2>1 DEF PowerLoss, DraftInv
  <2>2. CASE ~PowerLoss
    BY <1>1, <1>8, <2>2 DEF Outside, ChangeGoal, ChangeCatalog, GrowChain,
       ReplaceChain, Damage, RestoreFile, procVars
  <2> QED BY <2>1, <2>2
<1>9. CASE UNCHANGED vars
  BY <1>1, <1>9 DEF vars
<1> QED
  BY <1>2, <1>3, <1>4, <1>5, <1>6, <1>7, <1>8, <1>9
     DEF Next, Start, Continue, AppendStep

(* What every step does to the log: it extends it by an admitted event,    *)
(* keeps a first part of it, or leaves it alone.                           *)
LEMMA LogChanges ==
  ASSUME IInv, [Next]_vars
  PROVE  \/ log' = log
         \/ \E p \in Proc : Publish(p) /\ log' = Append(log, draft[p])
                            /\ AdmitAppend(log, draft[p])
         \/ RestoreFile \/ PowerLoss
<1> USE DEF IInv
<1>1. ASSUME NEW p \in Proc, Publish(p)
      PROVE  log' = Append(log, draft[p]) /\ AdmitAppend(log, draft[p])
  BY <1>1 DEF Publish, At, PlaceInv
<1>2. ASSUME NEW p \in Proc,
             \/ LoadForCreate(p) \/ Build(p) \/ TakeLock(p) \/ Conflict(p)
             \/ Stage(p) \/ Refuse(p) \/ PublishFails(p) \/ FlushFails(p)
             \/ FlushDir(p) \/ Succeed(p) \/ Fail(p) \/ Crash(p) \/ Start(p)
      PROVE  log' = log
  BY <1>2 DEF LoadForCreate, Build, TakeLock, Conflict, Stage, Refuse,
     PublishFails, FlushFails, FlushDir, Succeed, Fail, Crash, Start,
     BeginCreate, Begin, storeVars
<1>3. CASE ChangeGoal \/ ChangeCatalog \/ GrowChain \/ ReplaceChain \/ Damage
  BY <1>3 DEF ChangeGoal, ChangeCatalog, GrowChain, ReplaceChain, Damage, storeVars
<1>4. CASE UNCHANGED vars
  BY <1>4 DEF vars, storeVars
<1> QED BY <1>1, <1>2, <1>3, <1>4 DEF Next, Outside, Continue, AppendStep

(* Every step keeps the recorded stages in the order of the profile.       *)
LEMMA StageOrderStep ==
  ASSUME IInv, [Next]_vars
  PROVE  StageOrder'
<1> USE DEF IInv
<1>1. CASE log' = log
  BY <1>1 DEF StageOrder
<1>2. ASSUME NEW p \in Proc, Publish(p), log' = Append(log, draft[p]),
             AdmitAppend(log, draft[p])
      PROVE  StageOrder'
  <2> DEFINE e == draft[p]
  <2>1. e \in Events /\ DraftInOrder(e) /\ log \in Seq(Events)
    BY <1>2 DEF Publish, At, DraftInv, TypeOK
  <2> HIDE DEF e
  <2>2. CASE log = <<>>
    <3>1. e.kind # "stage_recorded"
      BY <1>2, <2>2 DEF AdmitAppend, CheckTransition, Status, MayBeFirst, e
    <3>2. Len(log') = 1 /\ log'[1] = e
      BY <1>2, <2>1, <2>2, BeforeAppend DEF e
    <3>3. StageEvents(log') = {}
      BY <3>1, <3>2 DEF StageEvents
    <3> QED BY <3>3 DEF StageOrder, StagesFollow
  <2>3. CASE log # <<>>
    <3>1. log'[1] = log[1] /\ log[1] \in Events
      BY <1>2, <2>1, <2>3, BeforeAppend DEF e
    <3>2. ASSUME log[1].version # NameOnly
          PROVE  StagesFollow(log', log[1].order)
      <4>1. StagesFollow(log, log[1].order)
        BY <2>3, <3>2 DEF StageOrder
      <4>2. e.kind = "stage_recorded" => IsNextStage(log, log[1].order, e.stage)
        BY <1>2, <2>1, <2>3, <3>2, AdmittedInOrder DEF e
      <4>3. log[1].order \in Seq(Stages)
        BY <3>1 DEF Events
      <4> QED BY <1>2, <2>1, <4>1, <4>2, <4>3, StagesAppend DEF e
    <3> QED BY <3>1, <3>2 DEF StageOrder
  <2> QED BY <2>2, <2>3
<1>3. CASE RestoreFile \/ PowerLoss
  <2>1. PICK n \in 0..Len(log) : log' = SubSeq(log, 1, n)
    BY <1>3 DEF RestoreFile, PowerLoss, TypeOK
  <2>2. log \in Seq(Events) /\ log' \in Seq(Events) /\ Len(log') = n
    BY <2>1, VerifiesPrefix DEF TypeOK, LogInv, LogVerifies
  <2>3. log' # <<>> => log # <<>> /\ log'[1] = log[1]
    BY <2>1, <2>2
  <2> QED BY <2>1, <2>2, <2>3, StagesPrefix DEF StageOrder
<1> QED BY <1>1, <1>2, <1>3, LogChanges

-----------------------------------------------------------------------------
LEMMA InitInv == Init => IInv
<1> SUFFICES ASSUME Init PROVE IInv
  OBVIOUS
<1>1. TypeOK
  BY InitType
<1>2. LockInv
  BY NoneAssumption DEF Init, LockInv, InFlight
<1>3. PlaceInv
  BY DEF Init, PlaceInv
<1>4. LogInv
  <2>1. Len(log) \in Nat
    BY <1>1 DEF TypeOK
  <2> QED BY <2>1, LegacyAssumption DEF Init, LogInv, LogVerifies, AckedIsFirm
<1>5. DraftInv
  BY DEF Init, DraftInv
<1>6. StageOrder
  BY LegacyAssumption DEF Init, StageOrder
<1> QED BY <1>1, <1>2, <1>3, <1>4, <1>5, <1>6 DEF IInv

(* The invariant the other theorems rest on holds in every behaviour.      *)
THEOREM SpecInv == Spec => []IInv
<1>1. Init => IInv
  BY InitInv
<1>2. IInv /\ [Next]_vars => IInv'
  BY TypeStep, LockStep, PlaceStep, LogStep, DraftStep, StageOrderStep DEF IInv
<1> QED BY <1>1, <1>2, PTL DEF Spec

(* Every variable keeps its type; in particular no more events are firm or *)
(* acknowledged than the log has.                                          *)
THEOREM SpecTypeOK == Spec => []TypeOK
<1>1. IInv => TypeOK
  BY DEF IInv
<1> QED BY <1>1, SpecInv, PTL

(* For any number of processes crashing anywhere, with power losses and    *)
(* restored files, the log is always absent or owned (ClassifyLog): no     *)
(* interleaving of operations leaves a log that the next one refuses.      *)
THEOREM SpecLogVerifies == Spec => []LogVerifies
<1>1. IInv => LogVerifies
  BY DEF IInv, LogInv
<1> QED BY <1>1, SpecInv, PTL

(* A process about to rename holds the current log and one event more, and *)
(* no other process is inside an append (filelog.Store.Append).            *)
THEOREM SpecStagedIsCurrent == Spec => []StagedIsCurrent
<1>1. IInv => StagedIsCurrent
  BY DEF IInv, LockInv, PlaceInv, StagedIsCurrent, InFlight
<1> QED BY <1>1, SpecInv, PTL

(* An event reported as appended survives a power loss (atomicfile flushes *)
(* the directory before Append returns).                                   *)
THEOREM SpecAckedIsFirm == Spec => []AckedIsFirm
<1>1. IInv => AckedIsFirm
  BY DEF IInv, LogInv
<1> QED BY <1>1, SpecInv, PTL

(* The stages a log with a snapshot records are a first part of it, though *)
(* no append checks it: the digest a draft carries does (RecordStage).     *)
THEOREM SpecStageOrder == Spec => []StageOrder
<1>1. IInv => StageOrder
  BY DEF IInv
<1> QED BY <1>1, SpecInv, PTL

(* No step takes an event back or changes one, but for a power loss, which *)
(* keeps what is firm, and a restored file (filelog.Store.Append).         *)
THEOREM SpecAppendOnly == Spec => AppendOnly
<1> DEFINE A == \/ IsPrefixOf(log, log') /\ Len(log') <= Len(log) + 1
                \/ /\ IsPrefixOf(log', log) /\ Len(log') >= firm
                   /\ \A p \in Proc : pc'[p] = "idle"
                \/ restores' # restores
<1>1. ASSUME IInv, [Next]_vars
      PROVE  A
  <2>1. log \in Seq(Events) /\ Len(log) \in Nat
    BY <1>1 DEF IInv, TypeOK
  <2>2. CASE log' = log
    BY <2>1, <2>2, SubSeqFull DEF IsPrefixOf
  <2>3. ASSUME NEW p \in Proc, log' = Append(log, draft[p])
        PROVE  A
    <3>1. draft[p] \in Events
      BY <1>1 DEF IInv, TypeOK
    <3>2. Before(log', Len(log) + 1) = log /\ Len(log') = Len(log) + 1
      BY <2>1, <2>3, <3>1, BeforeAppend
    <3>3. SubSeq(log', 1, Len(log)) = log
      BY <2>1, <3>2 DEF Before
    <3> QED BY <2>1, <3>2, <3>3 DEF IsPrefixOf
  <2>4. CASE RestoreFile
    BY <1>1, <2>4 DEF RestoreFile, IInv, TypeOK
  <2>5. CASE PowerLoss
    <3>1. PICK n \in firm..Len(log) : log' = SubSeq(log, 1, n)
      BY <2>5 DEF PowerLoss
    <3>2. n \in 0..Len(log) /\ firm \in Nat
      BY <1>1 DEF IInv, TypeOK
    <3>3. Len(log') = n
      BY <2>1, <3>1, <3>2
    <3>4. \A p \in Proc : pc'[p] = "idle"
      BY <2>5 DEF PowerLoss
    <3> QED BY <2>1, <3>1, <3>2, <3>3, <3>4 DEF IsPrefixOf
  <2> QED BY <1>1, <2>2, <2>3, <2>4, <2>5, LogChanges
<1>2. IInv /\ [Next]_vars => [A]_log
  BY <1>1
<1> QED BY <1>2, SpecInv, PTL DEF Spec, AppendOnly

(* A process that will rename read a file that the program accepts, and it *)
(* is that file still: nobody else writes the log while it holds the lock. *)
StagedAccepted == \A p \in Proc : pc[p] = "staged" => Accepted

LEMMA StagedAcceptedStep ==
  ASSUME IInv, StagedAccepted, [Next]_vars
  PROVE  StagedAccepted'
<1> USE DEF IInv, StagedAccepted, Accepted
<1>0. \A p, q \in Proc : InFlight(p) /\ InFlight(q) => p = q
  BY DEF LockInv
<1>1. ASSUME NEW p \in Proc, Stage(p)
      PROVE  StagedAccepted'
  BY <1>1 DEF Stage, storeVars, Go, TypeOK
<1>2. ASSUME NEW p \in Proc, Publish(p)
      PROVE  StagedAccepted'
  BY <1>0, <1>2 DEF Publish, Go, At, InFlight, TypeOK
<1>3. ASSUME NEW p \in Proc,
             \/ LoadForCreate(p) \/ Build(p) \/ TakeLock(p) \/ Conflict(p)
             \/ Refuse(p) \/ PublishFails(p) \/ FlushDir(p) \/ FlushFails(p)
             \/ Succeed(p) \/ Fail(p) \/ Crash(p) \/ Start(p)
      PROVE  StagedAccepted'
  <2>1. UNCHANGED <<log, damaged>>
    BY <1>3 DEF LoadForCreate, Build, TakeLock, Conflict, Refuse, PublishFails,
       FlushDir, FlushFails, Succeed, Fail, Crash, Start, BeginCreate, Begin,
       storeVars
  <2>2. \E where \in PcValues \ {"staged"} : Go(p, where)
    BY <1>3 DEF LoadForCreate, Build, TakeLock, Conflict, Refuse, PublishFails,
       FlushDir, FlushFails, Succeed, Fail, Crash, Start, BeginCreate, Begin,
       Ends, PcValues
  <2>3. \A q \in Proc : pc'[q] = "staged" => pc[q] = "staged"
    BY <2>2 DEF Go, TypeOK
  <2> QED BY <2>1, <2>3
<1>4. CASE Damage \/ RestoreFile
  BY <1>4, NoneAssumption DEF Damage, RestoreFile, procVars, LockInv, InFlight
<1>5. CASE PowerLoss
  BY <1>5 DEF PowerLoss
<1>6. CASE ChangeGoal \/ ChangeCatalog \/ GrowChain \/ ReplaceChain
  BY <1>6 DEF ChangeGoal, ChangeCatalog, GrowChain, ReplaceChain, storeVars, procVars
<1>7. CASE UNCHANGED vars
  BY <1>7 DEF vars, storeVars, procVars
<1> QED
  BY <1>1, <1>2, <1>3, <1>4, <1>5, <1>6, <1>7
     DEF Next, Outside, Continue, AppendStep

(* No operation writes over a file that is not a log of ours or is too     *)
(* large to be read (filelog.Store.Append classifies under the lock).      *)
THEOREM SpecRefusedIsLeftAlone == Spec => RefusedIsLeftAlone
<1> DEFINE A == ~Accepted => (log' = log /\ damaged' = damaged) \/ changes' # changes
<1>1. Init => StagedAccepted
  BY DEF Init, StagedAccepted
<1>2. IInv /\ StagedAccepted /\ [Next]_vars => StagedAccepted'
  BY StagedAcceptedStep
<1>3. ASSUME IInv, StagedAccepted, [Next]_vars
      PROVE  A
  <2>1. ASSUME NEW p \in Proc, Publish(p)
        PROVE  Accepted
    BY <1>3, <2>1 DEF Publish, At, StagedAccepted
  <2>2. ASSUME NEW p \in Proc,
               \/ LoadForCreate(p) \/ Build(p) \/ TakeLock(p) \/ Conflict(p)
               \/ Stage(p) \/ Refuse(p) \/ PublishFails(p) \/ FlushDir(p)
               \/ FlushFails(p) \/ Succeed(p) \/ Fail(p) \/ Crash(p) \/ Start(p)
        PROVE  UNCHANGED <<log, damaged>>
    BY <2>2 DEF LoadForCreate, Build, TakeLock, Conflict, Stage, Refuse,
       PublishFails, FlushDir, FlushFails, Succeed, Fail, Crash, Start,
       BeginCreate, Begin, storeVars
  <2>3. CASE ChangeGoal \/ ChangeCatalog \/ ReplaceChain \/ Damage \/ RestoreFile
             \/ PowerLoss
    <3>1. changes' = changes + 1 /\ changes \in Nat
      BY <1>3, <2>3 DEF ChangeGoal, ChangeCatalog, ReplaceChain, Damage,
         RestoreFile, PowerLoss, Change, IInv, TypeOK
    <3> QED BY <3>1
  <2>4. CASE GrowChain
    BY <2>4 DEF GrowChain, storeVars
  <2>5. CASE UNCHANGED vars
    BY <2>5 DEF vars, storeVars
  <2> QED
    BY <1>3, <2>1, <2>2, <2>3, <2>4, <2>5 DEF Next, Outside, Continue, AppendStep
<1>4. IInv /\ StagedAccepted /\ [Next]_vars => [A]_<<log, damaged>>
  BY <1>3
<1> QED BY <1>1, <1>2, <1>4, SpecInv, PTL DEF Spec, RefusedIsLeftAlone

-----------------------------------------------------------------------------
(* WorkflowLog implements WorkflowLedger.                                  *)

(* The ledger's copy of the rules is the rules.                            *)
LEMMA SameStatus ==
  ASSUME NEW l
  PROVE  Ledger!Status(l) = Status(l)
BY Zenon DEF Ledger!Status, Status,
   Ledger!StatusAfter, StatusAfter, Ledger!LastStatusEvent, LastStatusEvent,
   Ledger!SetsStatus, SetsStatus, Ledger!StatusKinds, StatusKinds

LEMMA SameStages ==
  ASSUME NEW l
  PROVE  /\ Ledger!Recorded(l) = Recorded(l)
         /\ \A s : Ledger!HasStage(l, s) <=> HasStage(l, s)
<1>1. Ledger!StageEvents(l) = StageEvents(l)
  BY Zenon DEF Ledger!StageEvents, StageEvents
<1>2. ASSUME NEW S
      PROVE  Ledger!Cardinality(S) = Cardinality(S)
  BY Zenon DEF Ledger!Cardinality, Cardinality, Ledger!IsFiniteSet, IsFiniteSet
<1> QED BY <1>1, <1>2 DEF Ledger!HasStage, HasStage, Ledger!Recorded, Recorded

LEMMA SameTransition ==
  ASSUME NEW l, NEW e
  PROVE  Ledger!CheckTransition(l, e) <=> CheckTransition(l, e)
<1>1. Ledger!MayBeFirst(e) <=> MayBeFirst(e)
  BY DEF Ledger!MayBeFirst, MayBeFirst
<1>2. Ledger!NoHead = NoHead /\ Ledger!LastKind(l) = LastKind(l)
  BY DEF Ledger!NoHead, NoHead, Ledger!LastKind, LastKind
<1>3. Ledger!MayFollow(l, e) <=> MayFollow(l, e)
  BY <1>2, SameStatus, SameStages DEF Ledger!MayFollow, MayFollow
<1> QED BY <1>1, <1>3, SameStatus DEF Ledger!CheckTransition, CheckTransition

LEMMA SameAdmission ==
  ASSUME NEW l, NEW e
  PROVE  Ledger!AdmitAppend(l, e) <=> AdmitAppend(l, e)
<1>1. Ledger!ValidEvent(e) <=> ValidEvent(e)
  BY DEF Ledger!ValidEvent, ValidEvent, Ledger!NameOnly, NameOnly,
     Ledger!Narrowers, Narrowers
<1>2. Ledger!Digest(l) = Digest(l)
  BY Zenon DEF Ledger!Digest, Digest, Ledger!Body, Body
<1> QED BY <1>1, <1>2, SameTransition DEF Ledger!AdmitAppend, AdmitAppend

LEMMA SameVerifies ==
  ASSUME NEW l
  PROVE  Ledger!Verifies(l) <=> Verifies(l)
<1>1. Ledger!Chained(l) <=> Chained(l)
  BY DEF Ledger!Chained, Chained, Ledger!Before, Before, Ledger!Digest, Digest,
     Ledger!Body, Body
<1>2. \A e : Ledger!ValidEvent(e) <=> ValidEvent(e)
  BY DEF Ledger!ValidEvent, ValidEvent, Ledger!NameOnly, NameOnly,
     Ledger!Narrowers, Narrowers
<1>3. \A i : Ledger!Before(l, i) = Before(l, i)
  BY DEF Ledger!Before, Before
<1>4. Ledger!Replays(l) <=> Replays(l)
  BY <1>2, <1>3, SameTransition DEF Ledger!Replays, Replays
<1> QED BY <1>1, <1>4 DEF Ledger!Verifies, Verifies

(* Every step of the log is a step of the ledger: the rename extends it,   *)
(* the flush of the directory settles it, a power loss loses from it, a    *)
(* restored file restores it, and every other step leaves it alone.        *)
LEMMA LedgerStep ==
  ASSUME IInv, [Next]_vars
  PROVE  [Ledger!LedgerNext]_(Ledger!ledgerVars)
<1> USE DEF IInv, Ledger!LedgerNext, Ledger!ledgerVars
<1>1. CASE UNCHANGED <<log, firm, restores>>
  BY <1>1
<1>2. ASSUME NEW p \in Proc, Publish(p)
      PROVE  Ledger!Extend
  <2>1. /\ log' = Append(log, draft[p]) /\ AdmitAppend(log, draft[p])
        /\ UNCHANGED <<firm, restores>>
    BY <1>2 DEF Publish, At, PlaceInv
  <2>2. draft[p] \in Events /\ log \in Seq(Events) /\ DraftInOrder(draft[p])
    BY <1>2 DEF Publish, At, DraftInv, TypeOK
  <2>3. log' # <<>> /\ log'[Len(log')] = draft[p]
    BY <2>1, <2>2, BeforeAppend
  <2>4. Ledger!InOrder(log, draft[p])
    <3> SUFFICES ASSUME draft[p].kind = "stage_recorded", log[1].version # NameOnly
                 PROVE  IsNextStage(log, log[1].order, draft[p].stage)
      BY SameStages DEF Ledger!InOrder, Ledger!IsNextStage, IsNextStage,
         Ledger!NameOnly, NameOnly
    <3>1. log # <<>>
      BY <2>1 DEF AdmitAppend, CheckTransition, Status, MayBeFirst
    <3> QED BY <2>1, <2>2, <3>1, AdmittedInOrder
  <2>5. Ledger!AdmitAppend(log, draft[p])
    BY <2>1, SameAdmission
  <2> QED BY <2>1, <2>3, <2>4, <2>5 DEF Ledger!Extend
<1>3. ASSUME NEW p \in Proc, FlushDir(p)
      PROVE  Ledger!Settle
  BY <1>3 DEF FlushDir, Ledger!Settle
<1>4. CASE RestoreFile
  BY <1>4 DEF RestoreFile, Ledger!Restore, Ledger!Rewind
<1>5. CASE PowerLoss
  BY <1>5 DEF PowerLoss, Ledger!Lose, Ledger!Rewind
<1>6. ASSUME NEW p \in Proc,
             \/ LoadForCreate(p) \/ Build(p) \/ TakeLock(p) \/ Conflict(p)
             \/ Stage(p) \/ Refuse(p) \/ PublishFails(p) \/ FlushFails(p)
             \/ Succeed(p) \/ Fail(p) \/ Crash(p) \/ Start(p)
      PROVE  UNCHANGED <<log, firm, restores>>
  BY <1>6 DEF LoadForCreate, Build, TakeLock, Conflict, Stage, Refuse,
     PublishFails, FlushFails, Succeed, Fail, Crash, Start, BeginCreate, Begin,
     storeVars
<1>7. CASE ChangeGoal \/ ChangeCatalog \/ GrowChain \/ ReplaceChain \/ Damage
  BY <1>1, <1>7 DEF ChangeGoal, ChangeCatalog, GrowChain, ReplaceChain, Damage, storeVars
<1>8. CASE UNCHANGED vars
  BY <1>1, <1>8 DEF vars, storeVars
<1> QED
  BY <1>1, <1>2, <1>3, <1>4, <1>5, <1>6, <1>7, <1>8
     DEF Next, Outside, Continue, AppendStep

(* The processes, their locks, temporary files and crashes together are    *)
(* one ledger that legal events are added to one at a time, each stage in  *)
(* its place, and of which no firm event is lost (filelog.Store.Append).   *)
THEOREM SpecImplementsLedger == Spec => ImplementsLedger
<1>1. Init => Ledger!LedgerInit
  <2> SUFFICES ASSUME Init PROVE Ledger!LedgerInit
    OBVIOUS
  <2>1. log = <<>> \/ Verifies(log)
    BY LegacyAssumption DEF Init
  <2> QED BY <2>1, SameVerifies DEF Init, Ledger!LedgerInit
<1>2. IInv /\ [Next]_vars => [Ledger!LedgerNext]_(Ledger!ledgerVars)
  BY LedgerStep
<1> QED BY <1>1, <1>2, SpecInv, PTL DEF Spec, ImplementsLedger, Ledger!LedgerSpec

-----------------------------------------------------------------------------
(* The goal and the chain that events record.                              *)

(* A log that begins with its created event holds no other.                *)
CreatedFirst(l) ==
  /\ l[1].kind = "created"
  /\ \A i \in 1..Len(l) : l[i].kind = "created" => i = 1

(* A nonempty set of places in a log has a last one: of the sets of places *)
(* that come after one of them, a least one is empty.                      *)
LEMMA LastPlace ==
  ASSUME NEW n \in Nat, NEW S \in SUBSET (1..n), S # {}
  PROVE  \E k \in S : \A j \in S : j <= k
<1> DEFINE R == StrictSubsetOrdering(1..n)
           Later(k) == {j \in S : j > k}
           T == {Later(k) : k \in S}
<1>1. IsWellFoundedOn(R, FiniteSubsetsOf(1..n))
  BY FS_StrictSubsetOrderingWellFounded
<1>2. IsFiniteSet(1..n) /\ \A k \in S : Later(k) \in SUBSET (1..n)
  <2>1. IsFiniteSet(1..n)
    BY FS_Interval
  <2>2. \A k \in S : Later(k) \in SUBSET (1..n)
    OBVIOUS
  <2> QED BY <2>1, <2>2
<1>3. \A k \in S : Later(k) \in FiniteSubsetsOf(1..n)
  BY <1>2, FS_Subset DEF FiniteSubsetsOf
<1>4. T \subseteq FiniteSubsetsOf(1..n) /\ T # {}
  BY <1>3
<1>5. PICK t \in T : \A u \in T : ~(<<u, t>> \in R)
  <2> HIDE DEF R, T
  <2> QED BY <1>1, <1>4, WFMin
<1>6. PICK k \in S : t = Later(k)
  OBVIOUS
<1>7. ASSUME NEW j \in S, j > k PROVE FALSE
  <2>1. Later(j) \subseteq Later(k) /\ j \in Later(k) /\ j \notin Later(j)
    <3>1. j \in Int /\ k \in Int /\ \A i \in S : i \in Int
      OBVIOUS
    <3>2. \A i \in S : i > j => i > k
      BY <1>7, <3>1
    <3>3. ~(j > j)
      BY <3>1
    <3> QED BY <1>7, <3>2, <3>3
  <2>2. Later(j) \in SUBSET (1..n) /\ Later(k) \in SUBSET (1..n) /\ Later(j) # Later(k)
    BY <1>2, <2>1
  <2>3. <<Later(j), Later(k)>> \in R
    BY <2>1, <2>2 DEF StrictSubsetOrdering
  <2> QED BY <1>5, <1>6, <2>3
<1>8. \A j \in S : j <= k
  BY <1>7
<1> QED BY <1>8

(* A digest pins the heads and the goal that a log records.                *)
LEMMA DigestInputs ==
  ASSUME NEW l \in Seq(Events), l # <<>>
  PROVE  /\ Digest(l) # <<>> /\ Digest(l)[1].goal = l[1].goal /\ Digest(l)[1].head = l[1].head
         /\ LastRoleChainHead(Digest(l)) = LastRoleChainHead(l)
<1>1. Digest(l) \in Seq(Bodies) /\ Len(l) \in Nat /\ Len(l) # 0 /\ Len(Digest(l)) = Len(l)
  BY DigestType DEF Digest
<1>2. \A i \in 1..Len(l) : /\ Digest(l)[i].kind = l[i].kind /\ Digest(l)[i].goal = l[i].goal
                           /\ Digest(l)[i].head = l[i].head
  BY DEF Digest, Body
<1>3. NarrowEvents(Digest(l)) = NarrowEvents(l)
  BY <1>1, <1>2 DEF NarrowEvents
<1>4. PICK S : S = NarrowEvents(l)
  OBVIOUS
<1>5. S \in SUBSET (1..Len(l))
  BY <1>4 DEF NarrowEvents
<1>6. LastRoleChainHead(Digest(l)) = LastRoleChainHead(l)
  <2>1. CASE S = {}
    BY <1>1, <1>2, <1>3, <1>4, <2>1 DEF LastRoleChainHead
  <2>2. CASE S # {}
    <3>1. PICK k : k = CHOOSE i \in S : \A j \in S : j <= i
      OBVIOUS
    <3>2. k \in S
      BY <1>1, <1>5, <2>2, <3>1, LastPlace
    <3>3. Digest(l)[k].head = l[k].head
      BY <1>2, <1>5, <3>2
    <3> QED BY <1>3, <1>4, <2>2, <3>1, <3>3 DEF LastRoleChainHead
  <2> QED BY <2>1, <2>2
<1> QED BY <1>1, <1>2, <1>6

(* The head a log recorded last is in front of all it recorded.            *)
LEMMA LastHeadLeads ==
  ASSUME NEW l \in Seq(Events), l # <<>>, NarrowingAdvances(l), CreatedFirst(l)
  PROVE  /\ LastRoleChainHead(l) \in RoleHead \union {NoHead}
         /\ \A i \in 1..Len(l) : l[i].kind \in {"created", "narrowed"} =>
              /\ l[i].head.gen = LastRoleChainHead(l).gen
              /\ l[i].head.n <= LastRoleChainHead(l).n
<1>1. Len(l) \in Nat /\ 1 \in 1..Len(l)
  OBVIOUS
<1>2. ASSUME NEW i \in 1..Len(l)
      PROVE  l[i] \in Events /\ l[i].head \in RoleHead \union {NoHead} /\ l[i].head.n \in Nat
  <2>1. l[i] \in Events
    OBVIOUS
  <2>2. l[i].head \in RoleHead \union {NoHead}
    BY <2>1 DEF Events
  <2>3. \A h \in RoleHead \union {NoHead} : h.n \in Nat
    BY DEF RoleHead, NoHead
  <2> QED BY <2>1, <2>2, <2>3
<1>3. PICK S : S = NarrowEvents(l)
  OBVIOUS
<1>4. S \in SUBSET (1..Len(l)) /\ \A i \in 1..Len(l) : i \in S <=> l[i].kind = "narrowed"
  BY <1>3 DEF NarrowEvents
<1>5. CASE S = {}
  <2>1. LastRoleChainHead(l) = l[1].head
    BY <1>3, <1>5 DEF LastRoleChainHead
  <2>2. \A i \in 1..Len(l) : l[i].kind \in {"created", "narrowed"} => i = 1
    BY <1>1, <1>4, <1>5 DEF CreatedFirst
  <2> QED BY <1>1, <1>2, <2>1, <2>2
<1>6. CASE S # {}
  <2>1. PICK k : k = CHOOSE i \in S : \A j \in S : j <= i
    OBVIOUS
  <2>2. k \in S /\ \A j \in S : j <= k
    BY <1>1, <1>4, <1>6, <2>1, LastPlace
  <2>3. LastRoleChainHead(l) = l[k].head
    BY <1>3, <1>6, <2>1 DEF LastRoleChainHead
  <2>4. k \in 1..Len(l) /\ l[k].kind = "narrowed" /\ k # 1
    BY <1>1, <1>4, <2>2 DEF CreatedFirst
  <2>5. ASSUME NEW i \in 1..Len(l), l[i].kind \in {"created", "narrowed"}
        PROVE  l[i].head.gen = l[k].head.gen /\ l[i].head.n <= l[k].head.n
    <3>1. i <= k
      <4>1. CASE l[i].kind = "narrowed"
        BY <1>4, <2>2, <4>1
      <4>2. CASE l[i].kind = "created"
        BY <1>1, <2>4, <4>2 DEF CreatedFirst
      <4> QED BY <2>5, <4>1, <4>2
    <3>2. CASE i = k
      BY <1>2, <2>4, <3>2
    <3>3. CASE i # k
      <4>1. l[k].head.gen = l[i].head.gen /\ l[k].head.n > l[i].head.n
        BY <2>4, <2>5, <3>1, <3>3 DEF NarrowingAdvances
      <4> QED BY <1>2, <2>4, <4>1
    <3> QED BY <3>2, <3>3
  <2> QED BY <1>2, <2>3, <2>4, <2>5
<1> QED BY <1>5, <1>6

(* An owned log begins with its created event and holds no other.          *)
LEMMA OwnedIsCreatedFirst ==
  ASSUME NEW l \in Seq(Events), Verifies(l)
  PROVE  CreatedFirst(l)
<1>1. Len(l) \in Nat /\ 1 \in 1..Len(l)
  BY DEF Verifies
<1>2. l[1].kind = "created"
  <2>1. Before(l, 1) = <<>>
    BY DEF Before
  <2>2. CheckTransition(<<>>, l[1])
    BY <1>1, <2>1 DEF Verifies, Replays
  <2>3. Status(<<>>) = "none"
    BY DEF Status
  <2> QED BY <2>2, <2>3 DEF CheckTransition, MayBeFirst
<1>3. ASSUME NEW i \in 1..Len(l), i # 1 PROVE l[i].kind # "created"
  <2>1. l[i].seq = i - 1 /\ CheckTransition(Before(l, i), l[i])
    BY DEF Verifies, Chained, Replays
  <2>2. l[i].seq # 0
    BY <1>3, <2>1
  <2> QED BY <2>1, <2>2 DEF CheckTransition, MayBeFirst
<1> QED BY <1>2, <1>3 DEF CreatedFirst

-----------------------------------------------------------------------------
(* The chain on disk is the records 1, 2, ... of one generation.           *)
ChainInv ==
  \A i, j \in 1..Len(chain) : chain[i].gen = chain[j].gen /\ chain[i].n = i

(* An event that waits to be appended records a chain that is, or has      *)
(* grown from, the one recorded in the log it was built on.                *)
DraftInputs(e) ==
  /\ (e.kind = "verified" /\ e.prev # <<>>) =>
       /\ e.goal = e.prev[1].goal
       /\ e.head.gen = e.prev[1].head.gen
       /\ e.head.n >= e.prev[1].head.n
  /\ (e.kind = "narrowed" /\ e.prev # <<>>) =>
       /\ e.head.gen = LastRoleChainHead(e.prev).gen
       /\ e.head.n > LastRoleChainHead(e.prev).n

DraftInputsInv ==
  \A p \in Proc :
    pc[p] \in {"built", "locked", "staged"} => DraftInputs(draft[p])

InputInv == ChainInv /\ DraftInputsInv /\ InputsAreOne

LEMMA ChainStep ==
  ASSUME IInv, ChainInv, [Next]_vars
  PROVE  ChainInv'
<1>1. chain \in Seq(RoleHead) /\ Len(chain) \in Nat
  BY DEF IInv, TypeOK
<1>2. CASE UNCHANGED chain
  BY <1>2 DEF ChainInv
<1>3. CASE GrowChain
  <2>1. PICK r : /\ r = [gen |-> IF chain = <<>> THEN 1 ELSE Generation, n |-> Len(chain) + 1]
                 /\ chain' = Append(chain, r)
    BY <1>3 DEF GrowChain
  <2>2. Len(chain') = Len(chain) + 1 /\ r.n = Len(chain) + 1
        /\ \A i \in 1..Len(chain) + 1 : chain'[i] = IF i = Len(chain) + 1 THEN r ELSE chain[i]
    BY <1>1, <2>1
  <2>3. chain # <<>> => Len(chain) \in 1..Len(chain) /\ r.gen = chain[Len(chain)].gen
    BY <1>1, <2>1 DEF Generation, ChainHead
  <2>4. \A i \in 1..Len(chain) : chain[i].gen = r.gen /\ chain[i].n = i
    BY <1>1, <2>3 DEF ChainInv
  <2>5. \A i \in 1..Len(chain) + 1 : chain'[i].gen = r.gen /\ chain'[i].n = i
    BY <1>1, <2>2, <2>4
  <2> QED BY <2>2, <2>5 DEF ChainInv
<1>4. CASE ReplaceChain
  <2>1. PICK n \in 1..Len(chain) : chain' = [i \in 1..n |-> [gen |-> Generation + 1, n |-> i]]
    BY <1>4 DEF ReplaceChain
  <2>2. n \in Nat /\ Len(chain') = n
    BY <1>1, <2>1
  <2>3. \A i \in 1..n : chain'[i].gen = Generation + 1 /\ chain'[i].n = i
    BY <2>1
  <2> QED BY <2>2, <2>3 DEF ChainInv
<1>5. CASE ChangeGoal \/ ChangeCatalog \/ Damage \/ RestoreFile \/ PowerLoss
  BY <1>2, <1>5 DEF ChangeGoal, ChangeCatalog, Damage, RestoreFile, PowerLoss
<1>6. ASSUME NEW p \in Proc, Start(p) \/ Continue(p) \/ Crash(p)
      PROVE  UNCHANGED chain
  <2>1. CASE Start(p)
    BY <2>1 DEF Start, BeginCreate, Begin, outsideVars
  <2>2. CASE LoadForCreate(p) \/ Build(p) \/ Crash(p)
    BY <2>2 DEF LoadForCreate, Build, Crash, outsideVars
  <2>3. CASE AppendStep(p)
    BY <2>3 DEF AppendStep, TakeLock, Conflict, Stage, Refuse, Publish, PublishFails,
       FlushDir, FlushFails, Succeed, Fail, outsideVars
  <2> QED BY <1>6, <2>1, <2>2, <2>3 DEF Continue
<1>7. CASE UNCHANGED vars
  BY <1>2, <1>7 DEF vars, outsideVars
<1> QED BY <1>2, <1>3, <1>4, <1>5, <1>6, <1>7 DEF Next, Outside

(* A chain that holds a record has grown from it.                          *)
LEMMA HeldHead ==
  ASSUME IInv, ChainInv, NEW h, Contains(chain, h)
  PROVE  /\ ChainHead(chain).gen = h.gen /\ ChainHead(chain).n >= h.n
         /\ ChainHead(chain) # h => ChainHead(chain).n > h.n
<1>1. chain \in Seq(RoleHead) /\ Len(chain) \in Nat
  BY DEF IInv, TypeOK
<1>2. PICK i \in 1..Len(chain) : chain[i] = h
  BY DEF Contains
<1>3. Len(chain) \in 1..Len(chain) /\ chain # <<>>
  BY <1>1, <1>2
<1>4. ChainHead(chain) = chain[Len(chain)]
  BY <1>3 DEF ChainHead
<1>5. /\ chain[Len(chain)].gen = h.gen /\ chain[Len(chain)].n = Len(chain)
      /\ h.n = i
  BY <1>2, <1>3 DEF ChainInv
<1>6. i # Len(chain) => Len(chain) > i
  BY <1>1, <1>2
<1> QED BY <1>1, <1>2, <1>4, <1>5, <1>6

(* What an operation builds records the inputs its log allows.             *)
LEMMA BuiltInputs ==
  ASSUME IInv, ChainInv, NEW c \in Calls, NEW l \in Seq(Events), l # <<>>,
         Proceeds(c, l)
  PROVE  DraftInputs(EventFor(c, l))
<1>1. PICK e : e = EventFor(c, l)
  OBVIOUS
<1>2. /\ e.kind = c.kind /\ e.prev = Digest(l)
      /\ e.goal = IF c.kind = "verified" THEN goal ELSE 0
      /\ e.head = IF \/ c.kind = "narrowed"
                     \/ c.kind = "verified" /\ l[1].head # NoHead
                  THEN ChainHead(chain) ELSE NoHead
  BY <1>1 DEF EventFor, NewEvent
<1>3. /\ Digest(l) # <<>> /\ Digest(l)[1].goal = l[1].goal /\ Digest(l)[1].head = l[1].head
      /\ LastRoleChainHead(Digest(l)) = LastRoleChainHead(l)
  BY DigestInputs
<1>4. ASSUME c.kind = "verified"
      PROVE  e.goal = l[1].goal /\ e.head.gen = l[1].head.gen /\ e.head.n >= l[1].head.n
  <2>1. goal = l[1].goal /\ (l[1].head # NoHead => Contains(chain, l[1].head))
    BY <1>4 DEF Proceeds, VerifyMay
  <2>2. CASE l[1].head = NoHead
    BY <1>2, <1>4, <2>1, <2>2 DEF NoHead
  <2>3. CASE l[1].head # NoHead
    BY <1>2, <1>4, <2>1, <2>3, HeldHead
  <2> QED BY <2>2, <2>3
<1>5. ASSUME c.kind = "narrowed"
      PROVE  /\ e.head.gen = LastRoleChainHead(l).gen
             /\ e.head.n > LastRoleChainHead(l).n
  <2>1. Contains(chain, LastRoleChainHead(l)) /\ ChainHead(chain) # LastRoleChainHead(l)
    BY <1>5 DEF Proceeds, NarrowMay
  <2> QED BY <1>2, <1>5, <2>1, HeldHead
<1> QED BY <1>1, <1>2, <1>3, <1>4, <1>5 DEF DraftInputs

LEMMA DraftInputsStep ==
  ASSUME IInv, ChainInv, DraftInputsInv, [Next]_vars
  PROVE  DraftInputsInv'
<1> USE DEF IInv
<1>1. CASE UNCHANGED procVars
  BY <1>1 DEF procVars, DraftInputsInv
<1>2. ASSUME NEW p \in Proc, BeginCreate(p)
      PROVE  DraftInputsInv'
  <2>1. \A q \in Proc \ {p} : draft'[q] = draft[q] /\ pc'[q] = pc[q]
    BY <1>2 DEF BeginCreate, Go, TypeOK
  <2>2. pc'[p] = "gathered"
    BY <1>2 DEF BeginCreate, Go, TypeOK
  <2> QED BY <2>1, <2>2 DEF DraftInputsInv
<1>3. ASSUME NEW p \in Proc, LoadForCreate(p)
      PROVE  DraftInputsInv'
  <2>1. CASE Ends(p)
    BY <2>1 DEF Ends, Go, DraftInputsInv, TypeOK
  <2>2. CASE Go(p, "built") /\ UNCHANGED draft
    <3>1. DraftInputs(draft[p])
      BY <1>3 DEF LoadForCreate, At, DraftInv, DraftInputs
    <3> QED BY <2>2, <3>1 DEF Go, DraftInputsInv, TypeOK
  <2> QED BY <1>3, <2>1, <2>2 DEF LoadForCreate
<1>4. ASSUME NEW p \in Proc, NEW c \in Calls, Begin(p, c)
      PROVE  DraftInputsInv'
  BY <1>4 DEF Begin, Go, DraftInputsInv, TypeOK
<1>5. ASSUME NEW p \in Proc, Build(p)
      PROVE  DraftInputsInv'
  <2>1. CASE Ends(p)
    BY <2>1 DEF Ends, Go, DraftInputsInv, TypeOK
  <2>2. CASE ~Ends(p)
    <3>1. /\ Proceeds(call[p], loaded[p]) /\ pc[p] = "loaded"
          /\ draft' = [draft EXCEPT ![p] = EventFor(call[p], loaded[p])]
          /\ Go(p, "built")
      BY <1>5, <2>2 DEF Build, At
    <3>2. loaded[p] \in Seq(Events) /\ loaded[p] # <<>> /\ call[p] \in Calls
      BY <3>1 DEF TypeOK, PlaceInv
    <3>3. DraftInputs(EventFor(call[p], loaded[p]))
      BY <3>1, <3>2, BuiltInputs
    <3> QED BY <3>1, <3>3 DEF Go, DraftInputsInv, TypeOK
  <2> QED BY <2>1, <2>2
<1>6. ASSUME NEW p \in Proc,
             \/ TakeLock(p) \/ Stage(p) \/ Refuse(p) \/ Publish(p)
             \/ PublishFails(p) \/ FlushDir(p) \/ FlushFails(p)
      PROVE  DraftInputsInv'
  <2>1. /\ draft' = draft
        /\ pc[p] \in {"built", "locked"} \/ pc'[p] \in {"renamed", "flushed", "failed"}
        /\ \A q \in Proc \ {p} : pc'[q] = pc[q]
    BY <1>6 DEF TakeLock, Stage, Refuse, Publish, PublishFails, FlushDir,
       FlushFails, At, Go, TypeOK
  <2> QED BY <2>1 DEF DraftInputsInv
<1>7. ASSUME NEW p \in Proc, Conflict(p) \/ Succeed(p) \/ Fail(p) \/ Crash(p)
      PROVE  DraftInputsInv'
  BY <1>7 DEF Conflict, Succeed, Fail, Crash, Ends, Go, DraftInputsInv, TypeOK
<1>8. CASE Outside
  <2>1. CASE PowerLoss
    BY <2>1 DEF PowerLoss, DraftInputsInv
  <2>2. CASE ~PowerLoss
    BY <1>1, <1>8, <2>2 DEF Outside, ChangeGoal, ChangeCatalog, GrowChain,
       ReplaceChain, Damage, RestoreFile, procVars
  <2> QED BY <2>1, <2>2
<1>9. CASE UNCHANGED vars
  BY <1>1, <1>9 DEF vars
<1> QED
  BY <1>2, <1>3, <1>4, <1>5, <1>6, <1>7, <1>8, <1>9
     DEF Next, Start, Continue, AppendStep

(* An event admitted to a log whose inputs agree agrees with them.         *)
LEMMA InputsAppend ==
  ASSUME NEW l \in Seq(Events), l = <<>> \/ Verifies(l), InputsAgree(l),
         NEW e \in Events, AdmitAppend(l, e), DraftInputs(e)
  PROVE  InputsAgree(Append(l, e))
<1>1. PICK m : m = Append(l, e)
  OBVIOUS
<1>2. /\ Len(l) \in Nat /\ Len(m) = Len(l) + 1 /\ m \in Seq(Events)
      /\ m[Len(l) + 1] = e /\ \A i \in 1..Len(l) : m[i] = l[i]
  BY <1>1
<1>3. CASE l = <<>>
  <2>1. e.kind = "created" /\ Len(m) = 1 /\ m[1] = e
    BY <1>2, <1>3 DEF AdmitAppend, CheckTransition, Status, MayBeFirst
  <2>2. \A i \in 1..Len(m) : m[i].kind = "created"
    BY <2>1
  <2> QED BY <1>1, <2>2 DEF InputsAgree, VerifiedAsBound, NarrowingAdvances
<1>4. CASE l # <<>>
  <2>1. /\ 1 \in 1..Len(l) /\ m[1] = l[1]
    BY <1>2, <1>4
  <2>2. CreatedFirst(l)
    BY <1>4, OwnedIsCreatedFirst
  <2>3. /\ e.prev = Digest(l) /\ e.prev # <<>> /\ e.prev[1].goal = l[1].goal
        /\ e.prev[1].head = l[1].head /\ LastRoleChainHead(e.prev) = LastRoleChainHead(l)
    BY <1>4, DigestInputs DEF AdmitAppend
  <2>4. VerifiedAsBound(m)
    <3>1. \A i \in 1..Len(m) : i = Len(l) + 1 \/ i \in 1..Len(l)
      BY <1>2
    <3>2. e.kind = "verified" =>
            e.goal = l[1].goal /\ e.head.gen = l[1].head.gen /\ e.head.n >= l[1].head.n
      BY <2>3 DEF DraftInputs
    <3>3. VerifiedAsBound(l)
      BY DEF InputsAgree
    <3> QED BY <1>2, <2>1, <3>1, <3>2, <3>3 DEF VerifiedAsBound
  <2>5. NarrowingAdvances(m)
    <3>1. NarrowingAdvances(l)
      BY DEF InputsAgree
    <3>2. ASSUME NEW i \in 1..Len(m), NEW j \in 1..Len(m),
                 i < j, m[j].kind = "narrowed", m[i].kind \in {"created", "narrowed"}
          PROVE  m[j].head.gen = m[i].head.gen /\ m[j].head.n > m[i].head.n
      <4>1. i \in 1..Len(l) /\ (j \in 1..Len(l) \/ j = Len(l) + 1)
        BY <1>2, <3>2
      <4>2. CASE j \in 1..Len(l)
        BY <1>2, <3>1, <3>2, <4>1, <4>2 DEF NarrowingAdvances
      <4>3. CASE j = Len(l) + 1
        <5>1. e.head.gen = LastRoleChainHead(l).gen /\ e.head.n > LastRoleChainHead(l).n
          BY <1>2, <2>3, <3>2, <4>3 DEF DraftInputs
        <5>2. l[i].head.gen = LastRoleChainHead(l).gen /\ l[i].head.n <= LastRoleChainHead(l).n
          BY <1>2, <1>4, <2>2, <3>1, <3>2, <4>1, LastHeadLeads
        <5>3. /\ l[i].head \in RoleHead \union {NoHead} /\ e.head \in RoleHead \union {NoHead}
              /\ LastRoleChainHead(l) \in RoleHead \union {NoHead}
          <6>1. l[i] \in Events
            BY <4>1
          <6>2. LastRoleChainHead(l) \in RoleHead \union {NoHead}
            BY <1>4, <2>2, <3>1, LastHeadLeads
          <6> QED BY <6>1, <6>2 DEF Events
        <5>4. \A h \in RoleHead \union {NoHead} : h.n \in Nat
          BY DEF RoleHead, NoHead
        <5>5. l[i].head.n \in Nat /\ e.head.n \in Nat /\ LastRoleChainHead(l).n \in Nat
          BY <5>3, <5>4
        <5>6. e.head.n > l[i].head.n
          BY <5>1, <5>2, <5>5
        <5> QED BY <1>2, <4>1, <4>3, <5>1, <5>2, <5>6
      <4> QED BY <4>1, <4>2, <4>3
    <3> QED BY <3>2 DEF NarrowingAdvances
  <2> QED BY <1>1, <2>4, <2>5 DEF InputsAgree
<1> QED BY <1>3, <1>4

LEMMA InputsStep ==
  ASSUME IInv, DraftInputsInv, InputsAreOne, [Next]_vars
  PROVE  InputsAreOne'
<1> USE DEF IInv
<1>1. CASE log' = log
  BY <1>1 DEF InputsAreOne, InputsAgree, VerifiedAsBound, NarrowingAdvances
<1>2. ASSUME NEW p \in Proc, Publish(p), log' = Append(log, draft[p]),
             AdmitAppend(log, draft[p])
      PROVE  InputsAreOne'
  <2>1. draft[p] \in Events /\ DraftInputs(draft[p]) /\ log \in Seq(Events)
    BY <1>2 DEF Publish, At, DraftInputsInv, TypeOK
  <2>2. (log = <<>> \/ Verifies(log)) /\ InputsAgree(log)
    BY DEF LogInv, LogVerifies, InputsAreOne
  <2>3. InputsAgree(Append(log, draft[p]))
    BY <1>2, <2>1, <2>2, InputsAppend
  <2>4. PICK m : m = Append(log, draft[p])
    OBVIOUS
  <2>5. InputsAgree(m) /\ log' = m
    BY <1>2, <2>3, <2>4
  <2> QED BY <2>5 DEF InputsAreOne, InputsAgree, VerifiedAsBound, NarrowingAdvances
<1>3. CASE RestoreFile \/ PowerLoss
  <2>1. PICK n \in 0..Len(log) : log' = SubSeq(log, 1, n)
    BY <1>3 DEF RestoreFile, PowerLoss, TypeOK
  <2>2. /\ log \in Seq(Events) /\ Len(log) \in Nat /\ n \in Nat /\ Len(log') = n
        /\ \A i \in 1..n : log'[i] = log[i] /\ i \in 1..Len(log)
    <3>1. log \in Seq(Events) /\ Len(log) \in Nat
      BY DEF TypeOK
    <3>2. n \in Nat /\ n <= Len(log)
      BY <3>1
    <3> QED BY <2>1, <3>1, <3>2
  <2>3. n # 0 => 1 \in 1..n /\ log'[1] = log[1]
    BY <2>2
  <2>4. VerifiedAsBound(log) /\ NarrowingAdvances(log)
    BY DEF InputsAreOne, InputsAgree
  <2>5. VerifiedAsBound(log)'
    <3>1. ASSUME NEW i \in 1..n, log'[i].kind = "verified"
          PROVE  /\ log'[i].goal = log'[1].goal /\ log'[i].head.gen = log'[1].head.gen
                 /\ log'[i].head.n >= log'[1].head.n
      <4>1. n # 0
        BY <2>2
      <4> QED BY <2>2, <2>3, <2>4, <3>1, <4>1 DEF VerifiedAsBound
    <3> QED BY <2>2, <3>1 DEF VerifiedAsBound
  <2>6. NarrowingAdvances(log)'
    BY <2>2, <2>4 DEF NarrowingAdvances
  <2> QED BY <2>5, <2>6 DEF InputsAreOne, InputsAgree
<1> QED BY <1>1, <1>2, <1>3, LogChanges

(* However processes, role handoffs, replaced chains and power losses      *)
(* interleave, what a verified event recorded is the goal and the chain    *)
(* that the workflow was created with, and narrowed events advance along   *)
(* that one chain, although Verify and Narrow read goal and chain without  *)
(* a lock and append later.                                                *)
THEOREM SpecInputsAreOne == Spec => []InputsAreOne
<1>1. Init => InputInv
  <2>1. Init => ChainInv
    BY DEF Init, ChainInv
  <2>2. Init => DraftInputsInv
    BY DEF Init, DraftInputsInv
  <2>3. Init => InputsAreOne
    BY LegacyInputsAssumption
       DEF Init, InputsAreOne, InputsAgree, VerifiedAsBound, NarrowingAdvances
  <2> QED BY <2>1, <2>2, <2>3 DEF InputInv
<1>2. IInv /\ InputInv /\ [Next]_vars => InputInv'
  BY ChainStep, DraftInputsStep, InputsStep DEF InputInv
<1>3. InputInv => InputsAreOne
  BY DEF InputInv
<1> QED BY <1>1, <1>2, <1>3, SpecInv, PTL DEF Spec
=============================================================================
