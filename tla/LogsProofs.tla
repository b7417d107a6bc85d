------------------------------ MODULE LogsProofs ------------------------------
(***************************************************************************)
(* Theorems about the files that are only appended to, the log of memory   *)
(* reads (EvidenceLog) and the log of the sync trigger (SyncTrigger), for  *)
(* any number of sessions and starts and any bounds, and the same for the  *)
(* composition MCLive, in which they run beside the operations on a log.   *)
(***************************************************************************)
EXTENDS MCLive, SequenceTheorems, FiniteSetTheorems, TLAPS

(* The evidence log: who is about to write knows how the file ends, and    *)
(* who has written left a line of its own.                                 *)
Readable(n) == \E k \in 1..Len(sidecar) : LineAt(k, n)

SessionsInv ==
  /\ sidecarLock \in Sessions \union {Nobody}
  /\ session \in [Sessions ->
       [at : {"idle", "waiting", "locked", "writing", "written", "failed"},
        line : 0..MaxLines, torn : BOOLEAN]]
  /\ \A s \in Sessions : sidecarLock = s <=> session[s].at \notin {"idle", "waiting"}
  /\ recorded \subseteq 1..lines
  /\ lines \in 0..MaxLines
  /\ \A s \in Sessions : session[s].line <= lines
  /\ \A s \in Sessions : session[s].at # "idle" => session[s].line # 0

FileInv ==
  /\ \A s \in Sessions : session[s].at = "writing" => session[s].torn = EndsTorn(sidecar)
  /\ \A s \in Sessions : session[s].at = "written" => Readable(session[s].line)
  /\ \A n \in recorded : Readable(n)

EvidenceInv == SessionsInv /\ FileInv /\ sidecar \in Seq(Pieces)

(* The sync trigger: one process at a time rotates the log, the slot above *)
(* the one it moves next is free, and the log it set out to rotate is full *)
(* until it is moved.                                                      *)
Rotates(p) ==
  In(p, "locked") \/ In(p, "rotated") \/ \E i \in 0 .. KeptLogs - 1 : proc[p] = Shift(i)

Phases == {"unborn", "ready", "full", "opening", "locked", "rotated", "open", "syncing",
           "synced", "done"}
ProcStates == (Phases \X {0}) \union ({"shift"} \X (0 .. KeptLogs - 1))

TriggerTypes ==
  /\ slot \in [Slots -> 0 .. Len(logged)]
  /\ logged \in Seq(SUBSET Processes)
  /\ \A n \in 1..Len(logged) : IsFiniteSet(logged[n])
  /\ rotateLock \in Processes \union {NoProcess}
  /\ proc \in [Processes -> ProcStates]
  /\ opened \in [Processes -> 0 .. Len(logged)]

ProcessInv(p) ==
  /\ rotateLock = p <=> Rotates(p)
  /\ p[2] = "trigger" /\ ~In(p, "done") => In(ChildOf(p), "unborn")
  /\ \A i \in 0 .. KeptLogs - 1 : proc[p] = Shift(i) => slot[i + 1] = NoFile /\ Full

TriggerInv == TriggerTypes /\ RotatedWasFull /\ \A p \in Processes : ProcessInv(p)

-----------------------------------------------------------------------------
(* What a line in the file is, piece by piece.                             *)
LEMMA LineMeans ==
  ASSUME NEW f \in Seq(Pieces), NEW k \in 1..Len(f), NEW n \in 1..MaxLines
  PROVE  (k + 2 <= Len(f) /\ SubSeq(f, k, k + 2) = Append(LineBody(n), Newline)) <=>
           /\ k + 2 <= Len(f)
           /\ f[k] = <<n, 1>> /\ f[k + 1] = <<n, 2>> /\ f[k + 2] = Newline
<1>1. CASE k + 2 <= Len(f)
  <2> DEFINE l == SubSeq(f, k, k + 2)
             m == Append(LineBody(n), Newline)
  <2>1. /\ l \in Seq(Pieces) /\ Len(l) = 3
        /\ l[1] = f[k] /\ l[2] = f[k + 1] /\ l[3] = f[k + 2]
    BY <1>1
  <2>2. /\ Len(m) = 3 /\ m[1] = <<n, 1>> /\ m[2] = <<n, 2>> /\ m[3] = Newline
        /\ m \in Seq(Pieces)
    BY DEF LineBody, Newline, Pieces
  <2> HIDE DEF l, m
  <2>3. (l[1] = m[1] /\ l[2] = m[2] /\ l[3] = m[3]) => l = m
    <3>1. ASSUME l[1] = m[1], l[2] = m[2], l[3] = m[3], NEW i \in 1..Len(l)
          PROVE  l[i] = m[i]
      <4>1. i \in {1, 2, 3}
        BY <3>1, <2>1
      <4> QED BY <3>1, <4>1
    <3> QED BY <3>1, <2>1, <2>2, SeqEqual
  <2> QED BY <2>1, <2>2, <2>3, <1>1 DEF l, m
<1>2. CASE ~(k + 2 <= Len(f))
  BY <1>2
<1> QED BY <1>1, <1>2

(* What is appended to a file leaves its lines as they were.               *)
LEMMA AppendKeepsLines ==
  ASSUME sidecar \in Seq(Pieces), NEW g \in Seq(Pieces), sidecar' = sidecar \o g,
         NEW n \in 1..MaxLines, Readable(n)
  PROVE  Readable(n)'
<1>1. PICK k \in 1..Len(sidecar) : LineAt(k, n)
  BY DEF Readable
<1>2. /\ sidecar' \in Seq(Pieces) /\ Len(sidecar') = Len(sidecar) + Len(g)
      /\ \A i \in 1..Len(sidecar) : sidecar'[i] = sidecar[i]
  OBVIOUS
<1>3. k \in 1..Len(sidecar')
  BY <1>2
<1>4. LineAt(k, n)'
  BY <1>1, <1>2, <1>3, LineMeans DEF LineAt
<1> QED BY <1>3, <1>4 DEF Readable

(* What the pieces of a write are.                                         *)
LEMMA DataIs ==
  ASSUME EvidenceInv, NEW s \in Sessions, InPhase(s, "writing")
  PROVE  LET n == session[s].line  d == Data(s) IN
         /\ n \in 1..MaxLines
         /\ d \in Seq(Pieces)
         /\ session[s].torn => Len(d) = 4 /\ d[1] = Newline /\ d[2] = <<n, 1>>
                                /\ d[3] = <<n, 2>> /\ d[4] = Newline
         /\ ~session[s].torn => Len(d) = 3 /\ d[1] = <<n, 1>> /\ d[2] = <<n, 2>>
                                /\ d[3] = Newline
<1>1. /\ session[s].line \in 1..MaxLines
      /\ session[s].torn \in BOOLEAN
  BY MaxLinesAssumption DEF EvidenceInv, SessionsInv, InPhase
<1>2. /\ Newline \in Pieces
      /\ <<session[s].line, 1>> \in Pieces /\ <<session[s].line, 2>> \in Pieces
  BY <1>1 DEF Pieces
<1>3. CASE session[s].torn
  BY <1>1, <1>2, <1>3 DEF Data, LineBody
<1>4. CASE ~session[s].torn
  BY <1>1, <1>2, <1>4 DEF Data, LineBody
<1> QED BY <1>1, <1>3, <1>4

(* A line that was written whole can be read back.                         *)
LEMMA WrittenIsReadable ==
  ASSUME EvidenceInv, NEW s \in Sessions, WriteLine(s)
  PROVE  Readable(session[s].line)'
<1> DEFINE n == session[s].line
           d == Data(s)
           k == Len(sidecar) + (IF session[s].torn THEN 2 ELSE 1)
<1>1. /\ sidecar \in Seq(Pieces) /\ session[s].torn = EndsTorn(sidecar)
      /\ sidecar' = sidecar \o d /\ InPhase(s, "writing")
  BY DEF EvidenceInv, FileInv, WriteLine, InPhase
<1>2. /\ n \in 1..MaxLines /\ d \in Seq(Pieces)
      /\ session[s].torn => Len(d) = 4 /\ d[1] = Newline /\ d[2] = <<n, 1>>
                             /\ d[3] = <<n, 2>> /\ d[4] = Newline
      /\ ~session[s].torn => Len(d) = 3 /\ d[1] = <<n, 1>> /\ d[2] = <<n, 2>>
                             /\ d[3] = Newline
  BY <1>1, DataIs
<1> HIDE DEF n, d
<1>3. /\ sidecar' \in Seq(Pieces) /\ Len(sidecar') = Len(sidecar) + Len(d)
      /\ Len(sidecar) \in Nat
      /\ \A i \in 1..Len(sidecar) : sidecar'[i] = sidecar[i]
      /\ \A i \in 1..Len(d) : sidecar'[Len(sidecar) + i] = d[i]
  BY <1>1, <1>2
<1>4. /\ k \in 1..Len(sidecar') /\ k + 2 <= Len(sidecar')
      /\ sidecar'[k] = <<n, 1>> /\ sidecar'[k + 1] = <<n, 2>> /\ sidecar'[k + 2] = Newline
      /\ k = 1 \/ sidecar'[k - 1] = Newline
  <2>1. CASE session[s].torn
    <3>1. /\ k = Len(sidecar) + 2 /\ Len(d) = 4
          /\ d[1] = Newline /\ d[2] = <<n, 1>> /\ d[3] = <<n, 2>> /\ d[4] = Newline
      BY <2>1, <1>2
    <3>2. /\ sidecar'[Len(sidecar) + 1] = d[1] /\ sidecar'[Len(sidecar) + 2] = d[2]
          /\ sidecar'[Len(sidecar) + 3] = d[3] /\ sidecar'[Len(sidecar) + 4] = d[4]
      BY <3>1, <1>3
    <3>3. /\ k - 1 = Len(sidecar) + 1 /\ k + 1 = Len(sidecar) + 3
          /\ k + 2 = Len(sidecar) + 4
      BY <3>1, <1>3
    <3> HIDE DEF k
    <3> QED BY <3>1, <3>2, <3>3, <1>3
  <2>2. CASE ~session[s].torn
    <3>1. /\ k = Len(sidecar) + 1 /\ Len(d) = 3
          /\ d[1] = <<n, 1>> /\ d[2] = <<n, 2>> /\ d[3] = Newline
      BY <2>2, <1>2
    <3>2. /\ sidecar'[Len(sidecar) + 1] = d[1] /\ sidecar'[Len(sidecar) + 2] = d[2]
          /\ sidecar'[Len(sidecar) + 3] = d[3]
      BY <3>1, <1>3
    <3>3. k = 1 \/ sidecar'[k - 1] = Newline
      <4>1. sidecar = <<>> \/ sidecar[Len(sidecar)] = Newline
        BY <2>2, <1>1 DEF EndsTorn
      <4>2. sidecar # <<>> => Len(sidecar) \in 1..Len(sidecar)
        BY <1>1
      <4>3. k - 1 = Len(sidecar) /\ (sidecar = <<>> => k = 1)
        BY <3>1, <1>3
      <4> QED BY <4>1, <4>2, <4>3, <1>3
    <3>4. k + 1 = Len(sidecar) + 2 /\ k + 2 = Len(sidecar) + 3
      BY <3>1, <1>3
    <3> HIDE DEF k
    <3> QED BY <3>1, <3>2, <3>3, <3>4, <1>3
  <2> QED BY <2>1, <2>2
<1>5. n' = n
  BY <1>1 DEF n, EvidenceInv, SessionsInv, WriteLine, Enters
<1> HIDE DEF k
<1>6. k + 2 <= Len(sidecar') /\ SubSeq(sidecar', k, k + 2) = Append(LineBody(n), Newline)
  BY <1>2, <1>3, <1>4, LineMeans
<1>7. \E i \in 1..Len(sidecar') :
        /\ i + 2 <= Len(sidecar')
        /\ SubSeq(sidecar', i, i + 2) = Append(LineBody(n), Newline)
        /\ i = 1 \/ sidecar'[i - 1] = Newline
  BY <1>4, <1>6
<1> QED BY <1>5, <1>7 DEF Readable, LineAt, n, LineBody, Newline

LEMMA EvidenceInitInv == EvidenceInit => EvidenceInv
BY MaxLinesAssumption, NobodyAssumption
DEF EvidenceInit, EvidenceInv, SessionsInv, FileInv, Silent

(* The file is written by WriteLine and WriteIsCut only, by appending.     *)
LEMMA OnlyAppends ==
  ASSUME EvidenceInv, [EvidenceNext]_evidenceVars
  PROVE  \E g \in Seq(Pieces) : sidecar' = sidecar \o g
<1>0. sidecar \in Seq(Pieces)
  BY DEF EvidenceInv
<1>1. sidecar' = sidecar => sidecar' = sidecar \o <<>> /\ <<>> \in Seq(Pieces)
  BY <1>0
<1>2. ASSUME NEW s \in Sessions, WriteLine(s)
      PROVE  \E g \in Seq(Pieces) : sidecar' = sidecar \o g
  BY <1>2, DataIs DEF WriteLine
<1>3. ASSUME NEW s \in Sessions, WriteIsCut(s)
      PROVE  \E g \in Seq(Pieces) : sidecar' = sidecar \o g
  <2>1. PICK n \in 0..(Len(Data(s)) - 1) : sidecar' = sidecar \o SubSeq(Data(s), 1, n)
    BY <1>3 DEF WriteIsCut
  <2>2. Data(s) \in Seq(Pieces)
    BY <1>3, DataIs DEF WriteIsCut
  <2>3. SubSeq(Data(s), 1, n) \in Seq(Pieces)
    BY <2>2
  <2> QED BY <2>1, <2>3
<1> QED BY <1>1, <1>2, <1>3
    DEF EvidenceNext, EvidenceStep, evidenceVars, BeginAppend, LockSidecar, SidecarBusy,
        OpenSidecar, ReportLine, AppendFails, SessionDies

(* Every step keeps the lock and the sessions in order.                    *)
LEMMA SessionsInvKept ==
  ASSUME SessionsInv, [EvidenceNext]_evidenceVars
  PROVE  SessionsInv'
<1> USE NobodyAssumption, MaxLinesAssumption
<1>1. CASE UNCHANGED evidenceVars
  BY <1>1 DEF evidenceVars, SessionsInv
<1>2. ASSUME NEW s \in Sessions, BeginAppend(s)
      PROVE  SessionsInv'
  BY <1>2 DEF SessionsInv, BeginAppend, InPhase
<1>3. ASSUME NEW s \in Sessions, LockSidecar(s)
      PROVE  SessionsInv'
  BY <1>3 DEF SessionsInv, LockSidecar, InPhase, Enters
<1>4. ASSUME NEW s \in Sessions, SidecarBusy(s)
      PROVE  SessionsInv'
  BY <1>4 DEF SessionsInv, SidecarBusy, InPhase, IsOver, Silent
<1>5. ASSUME NEW s \in Sessions, OpenSidecar(s)
      PROVE  SessionsInv'
  BY <1>5 DEF SessionsInv, OpenSidecar, InPhase, EndsTorn
<1>6. ASSUME NEW s \in Sessions, WriteLine(s)
      PROVE  SessionsInv'
  BY <1>6 DEF SessionsInv, WriteLine, InPhase, Enters
<1>7. ASSUME NEW s \in Sessions, WriteIsCut(s)
      PROVE  SessionsInv'
  BY <1>7 DEF SessionsInv, WriteIsCut, InPhase, Enters
<1>8. ASSUME NEW s \in Sessions, ReportLine(s)
      PROVE  SessionsInv'
  <2>1. session[s].line \in 1..lines
    BY <1>8 DEF SessionsInv, ReportLine, InPhase
  <2>2. recorded' \subseteq 1..lines'
    BY <1>8, <2>1 DEF SessionsInv, ReportLine
  <2> QED BY <1>8, <2>2 DEF SessionsInv, ReportLine, InPhase, IsOver, Silent, Unlock
<1>9. ASSUME NEW s \in Sessions, AppendFails(s)
      PROVE  SessionsInv'
  BY <1>9 DEF SessionsInv, AppendFails, IsOver, Silent, Unlock
<1>10. ASSUME NEW s \in Sessions, SessionDies(s)
       PROVE  SessionsInv'
  BY <1>10 DEF SessionsInv, SessionDies, InPhase, IsOver, Silent
<1> QED
  BY <1>1, <1>2, <1>3, <1>4, <1>5, <1>6, <1>7, <1>8, <1>9, <1>10 DEF EvidenceNext, EvidenceStep

(* Every step keeps what was written, and what the sessions know of it.    *)
LEMMA FileInvKept ==
  ASSUME EvidenceInv, [EvidenceNext]_evidenceVars
  PROVE  FileInv'
<1>1. SessionsInv /\ FileInv /\ SessionsInv'
  BY SessionsInvKept DEF EvidenceInv
<1>2. \A n \in 1..MaxLines : Readable(n) => Readable(n)'
  <2>1. PICK g \in Seq(Pieces) : sidecar' = sidecar \o g
    BY OnlyAppends
  <2> QED BY <2>1, AppendKeepsLines DEF EvidenceInv
<1>3. /\ recorded \subseteq 1..MaxLines
      /\ \A s \in Sessions : session[s].at # "idle" => session[s].line \in 1..MaxLines
  BY <1>1, MaxLinesAssumption DEF SessionsInv
<1>4. CASE UNCHANGED evidenceVars
  BY <1>1, <1>4 DEF evidenceVars, FileInv, Readable, LineAt, EndsTorn
<1>5. ASSUME NEW s \in Sessions, WriteLine(s)
      PROVE  FileInv'
  <2>1. Readable(session[s].line)'
    BY <1>5, WrittenIsReadable
  <2>2. /\ recorded' = recorded /\ sidecarLock = s
        /\ \A t \in Sessions \ {s} : session'[t] = session[t] /\ session[t].at # "writing"
        /\ session'[s].at = "written"
    BY <1>1, <1>5 DEF SessionsInv, WriteLine, InPhase, Enters
  <2> QED BY <1>1, <1>2, <1>3, <2>1, <2>2 DEF FileInv
<1>6. ASSUME NEW s \in Sessions, WriteIsCut(s)
      PROVE  FileInv'
  <2>1. /\ recorded' = recorded /\ sidecarLock = s
        /\ \A t \in Sessions \ {s} : session'[t] = session[t] /\ session[t].at # "writing"
        /\ session'[s].at = "failed"
    BY <1>1, <1>6 DEF SessionsInv, WriteIsCut, InPhase, Enters
  <2> QED BY <1>1, <1>2, <1>3, <2>1 DEF FileInv
<1>7. ASSUME NEW s \in Sessions, OpenSidecar(s)
      PROVE  FileInv'
  <2>1. /\ recorded' = recorded /\ sidecar' = sidecar
        /\ \A t \in Sessions \ {s} : session'[t] = session[t]
        /\ session'[s].at = "writing" /\ session'[s].torn = EndsTorn(sidecar)
    BY <1>1, <1>7 DEF SessionsInv, OpenSidecar
  <2>2. EndsTorn(sidecar)' = EndsTorn(sidecar)
    BY <2>1 DEF EndsTorn
  <2> QED BY <1>1, <1>2, <1>3, <2>1, <2>2 DEF FileInv
<1>8. ASSUME NEW s \in Sessions, ReportLine(s)
      PROVE  FileInv'
  <2>1. /\ recorded' = recorded \union {session[s].line} /\ sidecar' = sidecar
        /\ session[s].at = "written"
        /\ \A t \in Sessions \ {s} : session'[t] = session[t]
        /\ session'[s].at = "idle"
    BY <1>1, <1>8 DEF SessionsInv, ReportLine, InPhase, IsOver, Silent
  <2>2. EndsTorn(sidecar)' = EndsTorn(sidecar)
    BY <2>1 DEF EndsTorn
  <2> QED BY <1>1, <1>2, <1>3, <2>1, <2>2 DEF FileInv
<1>9. ASSUME NEW s \in Sessions,
             BeginAppend(s) \/ LockSidecar(s) \/ SidecarBusy(s) \/ AppendFails(s) \/ SessionDies(s)
      PROVE  FileInv'
  <2>1. /\ recorded' = recorded /\ sidecar' = sidecar
        /\ \A t \in Sessions \ {s} : session'[t] = session[t]
        /\ session'[s].at \in {"idle", "waiting", "locked"}
    BY <1>1, <1>9 DEF SessionsInv, BeginAppend, LockSidecar, SidecarBusy, AppendFails,
                      SessionDies, InPhase, IsOver, Enters, Silent
  <2>2. EndsTorn(sidecar)' = EndsTorn(sidecar)
    BY <2>1 DEF EndsTorn
  <2> QED BY <1>1, <1>2, <1>3, <2>1, <2>2 DEF FileInv
<1> QED BY <1>4, <1>5, <1>6, <1>7, <1>8, <1>9 DEF EvidenceNext, EvidenceStep

LEMMA EvidenceInvKept ==
  ASSUME EvidenceInv, [EvidenceNext]_evidenceVars
  PROVE  EvidenceInv'
<1>1. PICK g \in Seq(Pieces) : sidecar' = sidecar \o g
  BY OnlyAppends
<1>2. sidecar' \in Seq(Pieces)
  BY <1>1 DEF EvidenceInv
<1> QED BY <1>2, SessionsInvKept, FileInvKept DEF EvidenceInv

LEMMA EvidenceInvImplies == EvidenceInv => EvidenceTypeOK /\ RecordedIsReadable
BY DEF EvidenceInv, SessionsInv, FileInv, EvidenceTypeOK, RecordedIsReadable, Readable

(* A read that was reported as recorded can be read back, however many     *)
(* sessions append, fail or die (Log.Append).                              *)
THEOREM EvidenceIsReadable == EvidenceSpec => [](EvidenceTypeOK /\ RecordedIsReadable)
<1>1. EvidenceInit => EvidenceInv
  BY EvidenceInitInv
<1>2. EvidenceInv /\ [EvidenceNext]_evidenceVars => EvidenceInv'
  BY EvidenceInvKept
<1>3. EvidenceInv => EvidenceTypeOK /\ RecordedIsReadable
  BY EvidenceInvImplies
<1> QED BY <1>1, <1>2, <1>3, PTL DEF EvidenceSpec

-----------------------------------------------------------------------------
(* The sync trigger.  Which process is where, and what it changes.         *)
LEMMA PhasesDiffer ==
  /\ \A a, b : Pc(a) = Pc(b) <=> a = b
  /\ \A a, i : a # "shift" => Pc(a) # Shift(i)
  /\ \A i, j : Shift(i) = Shift(j) <=> i = j
  /\ \A i \in 0 .. KeptLogs - 1 : Shift(i) \in ProcStates
  /\ \A a \in Phases : Pc(a) \in ProcStates
BY DEF Pc, Shift, ProcStates

LEMMA TriggerInitInv == TriggerInit => TriggerInv
<1> SUFFICES ASSUME TriggerInit PROVE TriggerInv
  OBVIOUS
<1>1. TriggerTypes
  <2>1. logged = <<>> /\ Len(logged) = 0 /\ logged \in Seq(SUBSET Processes)
    BY DEF TriggerInit
  <2>2. proc \in [Processes -> ProcStates]
    BY PhasesDiffer DEF TriggerInit, Phases
  <2> QED BY <2>1, <2>2 DEF TriggerInit, TriggerTypes, NoFile
<1>2. ASSUME NEW p \in Processes PROVE ProcessInv(p)
  <2>1. proc[p] = Pc(IF p[2] = "trigger" THEN "ready" ELSE "unborn")
    BY DEF TriggerInit
  <2>2. p[2] = "trigger" => ChildOf(p) \in Processes /\ ChildOf(p)[2] = "child"
    BY DEF Processes, ChildOf
  <2>3. p[2] = "trigger" => proc[ChildOf(p)] = Pc("unborn")
    BY <2>2 DEF TriggerInit
  <2>4. ~Rotates(p) /\ rotateLock # p
    BY <2>1, PhasesDiffer, NoProcessAssumption DEF Rotates, In, TriggerInit
  <2> QED BY <2>1, <2>3, <2>4, PhasesDiffer DEF ProcessInv, In
<1>3. RotatedWasFull
  BY KeptLogsAssumption DEF TriggerInit, RotatedWasFull, Slots
<1> QED BY <1>1, <1>2, <1>3 DEF TriggerInv

(* What holds the lock is one process, so who moves at most hands it over. *)
LEMMA OthersKept ==
  ASSUME TriggerInv, NEW p \in Processes, NEW state, GoesTo(p, state),
         ~In(p, "unborn"), ~In(p, "done"),
         rotateLock' = rotateLock \/ (rotateLock \in {p, NoProcess} /\ rotateLock' \in {p, NoProcess}),
         NEW q \in Processes, q # p,
         \A i \in 0 .. KeptLogs - 1 : proc[q] = Shift(i) => slot'[i + 1] = NoFile /\ Full'
  PROVE  ProcessInv(q)'
<1>1. /\ proc \in [Processes -> ProcStates] /\ proc' = [proc EXCEPT ![p] = state]
      /\ ProcessInv(q) /\ q # NoProcess
  BY NoProcessAssumption DEF TriggerInv, TriggerTypes, GoesTo
<1>2. proc'[q] = proc[q]
  BY <1>1
<1>3. (rotateLock = q <=> Rotates(q))'
  BY <1>1, <1>2 DEF ProcessInv, Rotates, In
<1>4. (q[2] = "trigger" /\ ~In(q, "done") => In(ChildOf(q), "unborn"))'
  <2>1. CASE q[2] = "trigger" /\ proc[q] # Pc("done")
    <3>1. In(ChildOf(q), "unborn")
      BY <1>1, <2>1 DEF ProcessInv, In
    <3>2. ChildOf(q) # p /\ ChildOf(q) \in Processes
      BY <3>1 DEF ChildOf, Processes
    <3> QED BY <1>1, <3>1, <3>2 DEF In
  <2> QED BY <2>1, <1>2 DEF In
<1>5. (\A i \in 0 .. KeptLogs - 1 : proc[q] = Shift(i) => slot[i + 1] = NoFile /\ Full)'
  BY <1>2
<1> QED BY <1>3, <1>4, <1>5 DEF ProcessInv

(* A line that is logged only makes a file longer, if there is one.        *)
LEMMA LogsGrow ==
  ASSUME TriggerInv, NEW p \in Processes, Logs(p)
  PROVE  /\ logged' \in Seq(SUBSET Processes) /\ Len(logged') = Len(logged)
         /\ \A n \in 1..Len(logged) :
              IsFiniteSet(logged'[n]) /\ Cardinality(logged'[n]) >= Cardinality(logged[n])
<1> DEFINE f == opened[p]
<1>0. /\ logged \in Seq(SUBSET Processes)
      /\ \A n \in 1..Len(logged) : IsFiniteSet(logged[n]) /\ Cardinality(logged[n]) \in Nat
  BY FS_CardinalityType DEF TriggerInv, TriggerTypes
<1>1. CASE logged' = logged
  BY <1>0, <1>1
<1>2. CASE f # NoFile /\ logged' = [logged EXCEPT ![f] = @ \union {p}]
  <2>1. f \in 1..Len(logged)
    BY <1>2 DEF TriggerInv, TriggerTypes, NoFile
  <2> HIDE DEF f
  <2>2. logged' \in Seq(SUBSET Processes) /\ Len(logged') = Len(logged)
    BY <1>0, <1>2, <2>1
  <2>3. ASSUME NEW n \in 1..Len(logged)
        PROVE  IsFiniteSet(logged'[n]) /\ Cardinality(logged'[n]) >= Cardinality(logged[n])
    <3>1. CASE n = f
      <4>1. logged'[n] = logged[n] \union {p}
        BY <1>0, <1>2, <2>1, <3>1
      <4>2. /\ IsFiniteSet(logged[n] \union {p})
            /\ Cardinality(logged[n] \union {p}) \in {Cardinality(logged[n]), Cardinality(logged[n]) + 1}
        BY <1>0, FS_AddElement
      <4> QED BY <1>0, <4>1, <4>2
    <3>2. CASE n # f
      <4>1. logged'[n] = logged[n]
        BY <1>0, <1>2, <3>2
      <4> QED BY <1>0, <4>1
    <3> QED BY <3>1, <3>2
  <2> QED BY <2>2, <2>3
<1> QED BY <1>1, <1>2 DEF Logs

(* Where the processes are that a step moves.                              *)
LEMMA MovedStates ==
  ASSUME TriggerInv, NEW p \in Processes, NEW state \in ProcStates, GoesTo(p, state)
  PROVE  proc' \in [Processes -> ProcStates] /\ proc'[p] = state
BY DEF TriggerInv, TriggerTypes, GoesTo

(* A process that neither rotates nor logs, or takes or frees the lock.    *)
LEMMA StepAside ==
  ASSUME TriggerInv, NEW p \in Processes, NEW w \in Phases, Goes(p, w),
         ~In(p, "unborn"), ~In(p, "done"), UNCHANGED <<logs, opened>>,
         p[2] = "trigger" /\ w # "done" => In(ChildOf(p), "unborn"),
         \/ w \notin {"locked", "rotated"} /\ rotateLock' = rotateLock /\ ~Rotates(p)
         \/ w \notin {"locked", "rotated"} /\ rotateLock' = NoProcess /\ Rotates(p)
         \/ w = "locked" /\ rotateLock' = p /\ rotateLock = NoProcess
  PROVE  TriggerInv'
<1>0. /\ slot' = slot /\ logged' = logged /\ opened' = opened
      /\ TriggerTypes /\ RotatedWasFull /\ ProcessInv(p) /\ p # NoProcess
  BY NoProcessAssumption DEF logs, TriggerInv
<1>1. proc' \in [Processes -> ProcStates] /\ proc'[p] = Pc(w) /\ GoesTo(p, Pc(w))
  BY MovedStates, PhasesDiffer DEF Goes
<1>2. TriggerTypes'
  BY <1>0, <1>1 DEF TriggerTypes
<1>3. RotatedWasFull' /\ Full' = Full
  BY <1>0 DEF RotatedWasFull, Full
<1>4. ProcessInv(p)'
  <2>1. (rotateLock = p <=> Rotates(p))'
    BY <1>0, <1>1, PhasesDiffer DEF ProcessInv, Rotates, In, Phases
  <2>2. p[2] = "trigger" => ChildOf(p) # p
    BY DEF ChildOf
  <2>3. (p[2] = "trigger" /\ ~In(p, "done") => In(ChildOf(p), "unborn"))'
    <3>1. CASE p[2] = "trigger" /\ w # "done"
      <4>1. ChildOf(p) \in Processes
        BY DEF ChildOf, Processes
      <4> QED BY <1>1, <2>2, <3>1, <4>1 DEF In, GoesTo, TriggerInv, TriggerTypes
    <3> QED BY <3>1, <1>1, PhasesDiffer DEF In
  <2> QED BY <1>0, <1>1, <2>1, <2>3, PhasesDiffer DEF ProcessInv, In, Phases
<1>5. ASSUME NEW q \in Processes, q # p PROVE ProcessInv(q)'
  <2>1. rotateLock' = rotateLock \/ (rotateLock \in {p, NoProcess} /\ rotateLock' \in {p, NoProcess})
    BY <1>0 DEF ProcessInv
  <2>2. \A i \in 0 .. KeptLogs - 1 : proc[q] = Shift(i) => slot'[i + 1] = NoFile /\ Full'
    BY <1>0, <1>3 DEF TriggerInv, ProcessInv
  <2> QED BY <1>0, <1>1, <1>5, <2>1, <2>2, OthersKept
<1> QED BY <1>2, <1>3, <1>4, <1>5 DEF TriggerInv

LEMMA LogsItsLine ==
  ASSUME TriggerInv, NEW p \in Processes, Logs(p), Goes(p, "done"),
         In(p, "open") \/ In(p, "synced"), UNCHANGED <<slot, rotateLock, opened>>
  PROVE  TriggerInv'
<1>0. /\ TriggerTypes /\ RotatedWasFull /\ ProcessInv(p)
      /\ ~Rotates(p) /\ rotateLock # p /\ ~In(p, "unborn") /\ ~In(p, "done")
  BY PhasesDiffer DEF TriggerInv, ProcessInv, Rotates, In
<1>1. /\ logged' \in Seq(SUBSET Processes) /\ Len(logged') = Len(logged)
      /\ \A n \in 1..Len(logged) :
           IsFiniteSet(logged'[n]) /\ Cardinality(logged'[n]) >= Cardinality(logged[n])
  BY <1>0, LogsGrow
<1>2. proc' \in [Processes -> ProcStates] /\ proc'[p] = Pc("done") /\ GoesTo(p, Pc("done"))
  BY MovedStates, PhasesDiffer DEF Goes, Phases
<1>3. TriggerTypes'
  BY <1>0, <1>1, <1>2 DEF TriggerTypes
<1>4. /\ \A n \in 1..Len(logged) : Cardinality(logged[n]) \in Nat /\ Cardinality(logged'[n]) \in Nat
      /\ \A i \in Slots : slot[i] # NoFile => slot[i] \in 1..Len(logged)
  BY <1>0, <1>1, FS_CardinalityType DEF TriggerTypes, NoFile
<1>5. RotatedWasFull' /\ (Full => Full')
  <2>1. /\ LogLimit \in Nat /\ KeptLogs \in Nat /\ slot' = slot
        /\ \A n \in 1..Len(logged) :
             Cardinality(logged[n]) >= LogLimit => Cardinality(logged'[n]) >= LogLimit
    BY <1>1, <1>4, LogLimitAssumption, KeptLogsAssumption
  <2>2. 0 \in Slots /\ 1 .. KeptLogs \subseteq Slots
    BY <2>1 DEF Slots
  <2> QED BY <1>0, <1>4, <2>1, <2>2 DEF RotatedWasFull, Full
<1>6. ProcessInv(p)'
  <2>1. ~Rotates(p)' /\ rotateLock' # p
    BY <1>0, <1>2, PhasesDiffer DEF Rotates, In
  <2> QED BY <1>2, <2>1, PhasesDiffer DEF ProcessInv, In
<1>7. ASSUME NEW q \in Processes, q # p PROVE ProcessInv(q)'
  <2>1. \A i \in 0 .. KeptLogs - 1 : proc[q] = Shift(i) => slot'[i + 1] = NoFile /\ Full'
    BY <1>5 DEF TriggerInv, ProcessInv
  <2> QED BY <1>0, <1>2, <1>7, <2>1, OthersKept
<1> QED BY <1>3, <1>5, <1>6, <1>7 DEF TriggerInv

(* The rotation's own steps: while one moves the logs, no other does.      *)
LEMMA RotationStep ==
  ASSUME TriggerInv, NEW p \in Processes, DropOldest(p) \/ MoveUp(p)
  PROVE  TriggerInv'
<1>0. /\ TriggerTypes /\ RotatedWasFull /\ ProcessInv(p) /\ p # NoProcess
      /\ Rotates(p) /\ rotateLock = p /\ ~In(p, "unborn") /\ ~In(p, "done")
      /\ KeptLogs \in Nat \ {0} /\ slot \in [Slots -> 0 .. Len(logged)]
      /\ UNCHANGED <<logged, rotateLock, opened>>
  BY PhasesDiffer, NoProcessAssumption, KeptLogsAssumption
     DEF TriggerInv, TriggerTypes, ProcessInv, Rotates, In, DropOldest, MoveUp
<1>1. ASSUME NEW q \in Processes, q # p
      PROVE  \A i \in 0 .. KeptLogs - 1 : proc[q] # Shift(i)
  BY <1>0, <1>1 DEF TriggerInv, ProcessInv, Rotates
<1>2. CASE DropOldest(p)
  <2>1. /\ slot' = [slot EXCEPT ![KeptLogs] = NoFile] /\ Full
        /\ GoesTo(p, Shift(KeptLogs - 1)) /\ In(p, "locked")
    BY <1>2 DEF DropOldest, StillFull, FirstShift
  <2>2. /\ proc' \in [Processes -> ProcStates] /\ proc'[p] = Shift(KeptLogs - 1)
        /\ KeptLogs - 1 \in 0 .. KeptLogs - 1
    BY <2>1, <1>0, MovedStates, PhasesDiffer
  <2>3. slot' \in [Slots -> 0 .. Len(logged)] /\ slot'[0] = slot[0] /\ slot'[KeptLogs] = NoFile
    BY <2>1, <1>0 DEF Slots, NoFile
  <2>4. TriggerTypes'
    BY <1>0, <2>2, <2>3 DEF TriggerTypes
  <2>5. RotatedWasFull' /\ Full'
    BY <1>0, <2>1, <2>3 DEF RotatedWasFull, Full, Slots
  <2>6. ProcessInv(p)'
    <3>1. Rotates(p)'
      BY <2>2 DEF Rotates
    <3>2. p[2] = "trigger" /\ ~In(p, "done")' => In(ChildOf(p), "unborn")'
      BY <1>0, <2>1, PhasesDiffer DEF ProcessInv, In, GoesTo, ChildOf, TriggerTypes, Processes
    <3>3. \A i \in 0 .. KeptLogs - 1 : proc'[p] = Shift(i) => i = KeptLogs - 1
      BY <2>2, PhasesDiffer
    <3>4. \A i \in 0 .. KeptLogs - 1 : i = KeptLogs - 1 => slot'[i + 1] = NoFile
      BY <1>0, <2>3
    <3> QED BY <1>0, <2>2, <2>5, <3>1, <3>2, <3>3, <3>4, PhasesDiffer DEF ProcessInv, In
  <2>7. ASSUME NEW q \in Processes, q # p PROVE ProcessInv(q)'
    BY <1>0, <1>1, <2>1, <2>7, OthersKept
  <2> QED BY <2>4, <2>5, <2>6, <2>7 DEF TriggerInv
<1>3. CASE MoveUp(p)
  <2>1. PICK i \in 0 .. KeptLogs - 1 :
          /\ proc[p] = Shift(i) /\ GoesTo(p, NextShift(i))
          /\ slot' = IF slot[i] = NoFile THEN slot
                     ELSE [slot EXCEPT ![i + 1] = slot[i], ![i] = NoFile]
    BY <1>3 DEF MoveUp
  <2>2. NextShift(i) \in ProcStates /\ NextShift(i) = IF i = 0 THEN Pc("rotated") ELSE Shift(i - 1)
    BY <1>0, PhasesDiffer DEF NextShift, Phases
  <2>3. proc' \in [Processes -> ProcStates] /\ proc'[p] = NextShift(i)
    BY <2>1, <2>2, MovedStates
  <2>4. slot[i + 1] = NoFile /\ Full
    BY <1>0, <2>1 DEF ProcessInv
  <2>5. /\ slot' \in [Slots -> 0 .. Len(logged)]
        /\ slot'[i] = NoFile /\ slot'[i + 1] = slot[i]
        /\ \A j \in Slots \ {i, i + 1} : slot'[j] = slot[j]
    BY <1>0, <2>1, <2>4 DEF Slots, NoFile
  <2>6. TriggerTypes'
    BY <1>0, <2>3, <2>5 DEF TriggerTypes
  <2>7. RotatedWasFull'
    <3> SUFFICES ASSUME NEW j \in 1 .. KeptLogs, slot'[j] # NoFile
                 PROVE  Cardinality(logged[slot'[j]]) >= LogLimit
      BY <1>0 DEF RotatedWasFull
    <3>1. CASE j \notin {i, i + 1}
      BY <1>0, <2>5, <3>1 DEF RotatedWasFull, Slots
    <3>2. CASE j = i + 1
      <4>1. CASE i = 0
        BY <2>4, <2>5, <3>2, <4>1 DEF Full
      <4>2. CASE i # 0
        BY <1>0, <2>5, <3>2, <4>2 DEF RotatedWasFull, Slots
      <4> QED BY <4>1, <4>2
    <3> QED BY <2>5, <3>1, <3>2
  <2>8. i # 0 => Full'
    BY <1>0, <2>4, <2>5 DEF Full, Slots
  <2>9. ProcessInv(p)'
    <3>1. Rotates(p)'
      BY <1>0, <2>2, <2>3 DEF Rotates, In
    <3>2. p[2] = "trigger" /\ ~In(p, "done")' => In(ChildOf(p), "unborn")'
      BY <1>0, <2>1, PhasesDiffer DEF ProcessInv, In, GoesTo, ChildOf, TriggerTypes, Processes
    <3>3. \A j \in 0 .. KeptLogs - 1 : proc'[p] = Shift(j) => i # 0 /\ j = i - 1
      BY <2>2, <2>3, PhasesDiffer
    <3>4. \A j \in 0 .. KeptLogs - 1 : j = i - 1 => slot'[j + 1] = NoFile
      BY <1>0, <2>5
    <3> QED BY <1>0, <2>8, <3>1, <3>2, <3>3, <3>4 DEF ProcessInv
  <2>10. ASSUME NEW q \in Processes, q # p PROVE ProcessInv(q)'
    BY <1>0, <1>1, <2>1, <2>10, OthersKept
  <2> QED BY <2>6, <2>7, <2>9, <2>10 DEF TriggerInv
<1> QED BY <1>2, <1>3

LEMMA OpenLogStep ==
  ASSUME TriggerInv, NEW p \in Processes, OpenLog(p)
  PROVE  TriggerInv'
<1>0. /\ TriggerTypes /\ RotatedWasFull /\ ProcessInv(p) /\ p # NoProcess
      /\ ~Rotates(p) /\ rotateLock # p /\ In(p, "opening")
      /\ ~In(p, "unborn") /\ ~In(p, "done") /\ GoesTo(p, Pc("open"))
      /\ KeptLogs \in Nat \ {0} /\ slot \in [Slots -> 0 .. Len(logged)]
      /\ logged \in Seq(SUBSET Processes) /\ rotateLock' = rotateLock
      /\ opened' = [opened EXCEPT ![p] = slot'[0]] /\ opened \in [Processes -> 0 .. Len(logged)]
  <2>1. /\ In(p, "opening") /\ GoesTo(p, Pc("open")) /\ rotateLock' = rotateLock
        /\ opened' = [opened EXCEPT ![p] = slot'[0]]
    BY DEF OpenLog, Goes, mishaps
  <2>2. /\ TriggerTypes /\ RotatedWasFull /\ ProcessInv(p) /\ p # NoProcess
        /\ KeptLogs \in Nat \ {0}
    BY NoProcessAssumption, KeptLogsAssumption DEF TriggerInv
  <2>3. ~In(p, "unborn") /\ ~In(p, "done") /\ ~Rotates(p)
    BY <2>1, PhasesDiffer DEF In, Rotates
  <2> QED BY <2>1, <2>2, <2>3 DEF ProcessInv, TriggerTypes
<1>1. proc' \in [Processes -> ProcStates] /\ proc'[p] = Pc("open")
  BY <1>0, MovedStates, PhasesDiffer DEF Phases
<1>2. /\ logged' \in Seq(SUBSET Processes) /\ Len(logged') >= Len(logged)
      /\ \A n \in 1..Len(logged) : logged'[n] = logged[n]
      /\ \A n \in 1..Len(logged') : IsFiniteSet(logged'[n])
      /\ slot' \in [Slots -> 0 .. Len(logged')] /\ slot'[0] # NoFile
      /\ \A i \in 1 .. KeptLogs : slot'[i] = slot[i]
      /\ slot[0] # NoFile => slot' = slot
  <2>1. CASE slot[0] = NoFile
    <3>1. logged' = Append(logged, {}) /\ slot' = [slot EXCEPT ![0] = Len(logged')]
      BY <2>1 DEF OpenLog
    <3>2. /\ logged' \in Seq(SUBSET Processes) /\ Len(logged') = Len(logged) + 1
          /\ \A n \in 1..Len(logged) : logged'[n] = logged[n]
          /\ logged'[Len(logged) + 1] = {} /\ Len(logged) \in Nat
      BY <1>0, <3>1
    <3>3. \A n \in 1..Len(logged') : IsFiniteSet(logged'[n])
      <4>1. \A n \in 1..Len(logged') : n \in 1..Len(logged) \/ n = Len(logged) + 1
        BY <3>2
      <4> QED BY <1>0, <3>2, <4>1, FS_EmptySet DEF TriggerTypes
    <3>4. slot' \in [Slots -> 0 .. Len(logged')] /\ slot'[0] = Len(logged')
      BY <1>0, <3>1, <3>2 DEF Slots
    <3> QED BY <1>0, <2>1, <3>1, <3>2, <3>3, <3>4 DEF Slots, NoFile
  <2>2. CASE slot[0] # NoFile
    <3>1. logged' = logged /\ slot' = slot
      BY <2>2 DEF OpenLog, logs
    <3> QED BY <1>0, <2>2, <3>1 DEF TriggerTypes, Slots
  <2> QED BY <2>1, <2>2
<1> HIDE DEF OpenLog
<1>3. TriggerTypes'
  <2>1. slot'[0] \in 0 .. Len(logged')
    <3>1. 0 \in Slots
      BY <1>0 DEF Slots
    <3> QED BY <1>2, <3>1
  <2>2. opened' \in [Processes -> 0 .. Len(logged')]
    BY <1>0, <1>2, <2>1
  <2> QED BY <1>0, <1>1, <1>2, <2>2 DEF TriggerTypes
<1>4. RotatedWasFull' /\ (Full => Full')
  <2>1. \A i \in Slots : slot[i] # NoFile => slot[i] \in 1..Len(logged)
    BY <1>0 DEF NoFile
  <2>2. Full => Full'
    <3>1. 0 \in Slots
      BY <1>0 DEF Slots
    <3> QED BY <1>2, <2>1, <3>1 DEF Full
  <2>3. ASSUME NEW i \in 1 .. KeptLogs, slot'[i] # NoFile
        PROVE  Cardinality(logged'[slot'[i]]) >= LogLimit
    <3>1. i \in Slots /\ slot'[i] = slot[i]
      BY <1>0, <1>2 DEF Slots
    <3>2. logged'[slot[i]] = logged[slot[i]]
      BY <1>2, <2>1, <2>3, <3>1
    <3> QED BY <1>0, <2>3, <3>1, <3>2 DEF RotatedWasFull
  <2> QED BY <2>2, <2>3 DEF RotatedWasFull
<1>5. ProcessInv(p)'
  <2>1. ~Rotates(p)' /\ \A i \in 0 .. KeptLogs - 1 : proc'[p] # Shift(i)
    BY <1>1, PhasesDiffer DEF Rotates, In
  <2>2. p[2] = "trigger" => In(ChildOf(p), "unborn")'
    BY <1>0, PhasesDiffer DEF ProcessInv, In, GoesTo, ChildOf, TriggerTypes, Processes
  <2> QED BY <1>0, <2>1, <2>2 DEF ProcessInv
<1>6. ASSUME NEW q \in Processes, q # p PROVE ProcessInv(q)'
  <2>1. \A i \in 0 .. KeptLogs - 1 : proc[q] = Shift(i) => slot[i + 1] = NoFile /\ Full
    BY DEF TriggerInv, ProcessInv
  <2>2. \A i \in 0 .. KeptLogs - 1 : proc[q] = Shift(i) => slot'[i + 1] = NoFile /\ Full'
    <3>1. \A i \in 0 .. KeptLogs - 1 : i + 1 \in 1 .. KeptLogs
      BY <1>0
    <3> QED BY <1>2, <1>4, <2>1, <3>1
  <2> QED BY <1>0, <1>6, <2>2, OthersKept
<1> QED BY <1>3, <1>4, <1>5, <1>6 DEF TriggerInv

(* The trigger is done when its child is started.                          *)
LEMMA DetachStep ==
  ASSUME TriggerInv, NEW p \in Processes, Detach(p)
  PROVE  TriggerInv'
<1> DEFINE c == ChildOf(p)
<1>0. /\ TriggerTypes /\ RotatedWasFull /\ ProcessInv(p) /\ proc[p] = Pc("open")
      /\ proc' = [proc EXCEPT ![p] = Pc("done"), ![c] = Pc("ready")]
      /\ slot' = slot /\ logged' = logged /\ rotateLock' = rotateLock /\ opened' = opened
      /\ p[2] = "trigger" /\ proc \in [Processes -> ProcStates]
  BY DEF TriggerInv, TriggerTypes, Detach, logs, In
<1>1. c \in Processes /\ c[2] = "child" /\ c # p /\ proc[c] = Pc("unborn") /\ ProcessInv(c)
  BY <1>0, PhasesDiffer DEF ChildOf, Processes, ProcessInv, In, TriggerInv
<1>2. /\ proc' \in [Processes -> ProcStates] /\ proc'[p] = Pc("done") /\ proc'[c] = Pc("ready")
      /\ \A q \in Processes \ {p, c} : proc'[q] = proc[q]
  BY <1>0, <1>1, PhasesDiffer DEF Phases
<1>3. TriggerTypes' /\ RotatedWasFull' /\ Full' = Full
  BY <1>0, <1>2 DEF TriggerTypes, RotatedWasFull, Full
<1>4. ASSUME NEW q \in {p, c} PROVE ProcessInv(q)'
  <2>1. q \in Processes /\ proc[q] \in {Pc("open"), Pc("unborn")} /\ ProcessInv(q)
    BY <1>0, <1>1
  <2>2. proc'[q] \in {Pc("done"), Pc("ready")} /\ (q[2] = "trigger" => proc'[q] = Pc("done"))
    BY <1>0, <1>1, <1>2
  <2>3. ~Rotates(q) /\ ~Rotates(q)' /\ rotateLock' # q
    BY <1>0, <2>1, <2>2, PhasesDiffer DEF Rotates, In, ProcessInv
  <2>4. \A i \in 0 .. KeptLogs - 1 : proc'[q] # Shift(i)
    BY <2>3 DEF Rotates
  <2>5. q[2] = "trigger" => In(q, "done")'
    BY <2>2 DEF In
  <2> QED BY <2>3, <2>4, <2>5 DEF ProcessInv
<1>5. ASSUME NEW q \in Processes \ {p, c} PROVE ProcessInv(q)'
  <2>1. ProcessInv(q) /\ proc'[q] = proc[q]
    BY <1>2 DEF TriggerInv
  <2>2. q[2] = "trigger" => ChildOf(q) \in Processes \ {p, c}
    BY <1>0, <1>5 DEF Processes, ChildOf
  <2>3. (q[2] = "trigger" /\ ~In(q, "done") => In(ChildOf(q), "unborn"))'
    BY <1>2, <2>1, <2>2 DEF ProcessInv, In
  <2>4. (rotateLock = q <=> Rotates(q))'
    BY <1>0, <2>1 DEF ProcessInv, In, Rotates
  <2>5. (\A i \in 0 .. KeptLogs - 1 : proc[q] = Shift(i) => slot[i + 1] = NoFile /\ Full)'
    BY <1>0, <1>3, <2>1 DEF ProcessInv
  <2> QED BY <2>3, <2>4, <2>5 DEF ProcessInv
<1> QED BY <1>3, <1>4, <1>5 DEF TriggerInv

LEMMA KillStep ==
  ASSUME TriggerInv, NEW p \in Processes, Kill(p)
  PROVE  TriggerInv'
<1>1. /\ Goes(p, "done") /\ "done" \in Phases /\ ~In(p, "unborn") /\ ~In(p, "done")
      /\ rotateLock' = (IF rotateLock = p THEN NoProcess ELSE rotateLock)
      /\ UNCHANGED <<logs, opened>>
  BY DEF Kill, Phases
<1>2. rotateLock = p <=> Rotates(p)
  BY DEF TriggerInv, ProcessInv
<1> QED BY <1>1, <1>2, StepAside

LEMMA TriggerInvKept ==
  ASSUME TriggerInv, [TriggerNext]_triggerVars
  PROVE  TriggerInv'
<1>1. CASE UNCHANGED triggerVars
  BY <1>1 DEF triggerVars, TriggerInv, TriggerTypes, RotatedWasFull, ProcessInv, Rotates, In, Full
<1>2. ASSUME NEW p \in Processes, TriggerStep(p) \/ SyncEnds(p) \/ Kill(p)
      PROVE  TriggerInv'
  <2>0. ProcessInv(p) /\ p # NoProcess
    BY NoProcessAssumption DEF TriggerInv
  <2>1. CASE LookAtLog(p)
    <3>1. PICK w \in {"full", "opening"} : Goes(p, w)
      BY <2>1 DEF LookAtLog
    <3> QED BY <2>0, <2>1, <3>1, PhasesDiffer, StepAside
        DEF LookAtLog, ProcessInv, In, Rotates, Phases
  <2>2. CASE LockRotation(p)
    BY <2>0, <2>2, PhasesDiffer, StepAside DEF LockRotation, ProcessInv, In, Rotates, Phases
  <2>3. CASE RotationBusy(p)
    BY <2>0, <2>3, PhasesDiffer, StepAside DEF RotationBusy, ProcessInv, In, Rotates, Phases
  <2>4. CASE RotatedMeanwhile(p)
    BY <2>0, <2>4, PhasesDiffer, StepAside
    DEF RotatedMeanwhile, Unlocks, ProcessInv, In, Rotates, Phases
  <2>5. CASE EndRotation(p)
    BY <2>0, <2>5, PhasesDiffer, StepAside DEF EndRotation, ProcessInv, In, Rotates, Phases
  <2>6. CASE StartSync(p)
    BY <2>0, <2>6, PhasesDiffer, StepAside DEF StartSync, ProcessInv, In, Rotates, Phases
  <2>7. CASE SyncTimesOut(p) \/ SyncEnds(p)
    BY <2>0, <2>7, PhasesDiffer, StepAside
    DEF SyncTimesOut, TimeIsUp, SyncEnds, ProcessInv, In, Rotates, Phases
  <2>8. CASE DetachFails(p) \/ NotRun(p) \/ LogOutcome(p)
    BY <2>8, LogsItsLine DEF DetachFails, NotRun, LogOutcome
  <2>9. CASE CannotOpenLog(p)
    BY <2>0, <2>9, PhasesDiffer, StepAside DEF CannotOpenLog, ProcessInv, In, Rotates, Phases
  <2>10. CASE RefusesArguments(p)
    BY <2>0, <2>10, PhasesDiffer, StepAside
    DEF RefusesArguments, ProcessInv, In, Rotates, Phases
  <2> QED BY <1>2, <2>1, <2>2, <2>3, <2>4, <2>5, <2>6, <2>7, <2>8, <2>9, <2>10,
             RotationStep, OpenLogStep, DetachStep, KillStep DEF TriggerStep
<1> QED BY <1>1, <1>2 DEF TriggerNext

LEMMA TriggerInvImplies == TriggerInv => TriggerTypeOK /\ RotatedWasFull
<1> SUFFICES ASSUME TriggerInv PROVE TriggerTypeOK
  BY DEF TriggerInv
<1>1. rotateLock = NoProcess \/ (rotateLock \in Processes /\ Rotates(rotateLock))
  BY DEF TriggerInv, TriggerTypes, ProcessInv
<1>2. 0 .. KeptLogs - 1 \subseteq Slots
  BY KeptLogsAssumption DEF Slots
<1> QED BY <1>1, <1>2 DEF TriggerInv, TriggerTypes, TriggerTypeOK, Rotates

(* What a step does to the kept logs: only the oldest is ever let go.      *)
LEMMA StepKeepsLogs ==
  ASSUME TriggerInv, [TriggerNext]_triggerVars, NEW n \in Kept, n \notin {slot'[i] : i \in Slots}
  PROVE  slot[KeptLogs] = n
<1>1. CASE slot' = slot
  BY <1>1 DEF Kept
<1>2. PICK k \in Slots : slot[k] = n
  BY DEF Kept
<1>3. KeptLogs \in Nat \ {0} /\ slot \in [Slots -> 0 .. Len(logged)] /\ n # NoFile
  BY KeptLogsAssumption DEF TriggerInv, TriggerTypes, Kept
<1>4. ASSUME NEW p \in Processes, DropOldest(p) PROVE slot[KeptLogs] = n
  BY <1>2, <1>3, <1>4 DEF DropOldest, Slots
<1>5. ASSUME NEW p \in Processes, OpenLog(p) PROVE slot[KeptLogs] = n
  BY <1>1, <1>2, <1>3, <1>5 DEF OpenLog, logs
<1>6. ASSUME NEW p \in Processes, MoveUp(p) PROVE slot[KeptLogs] = n
  <2>1. PICK i \in 0 .. KeptLogs - 1 :
          /\ proc[p] = Shift(i)
          /\ slot' = IF slot[i] = NoFile THEN slot
                     ELSE [slot EXCEPT ![i + 1] = slot[i], ![i] = NoFile]
    BY <1>6 DEF MoveUp
  <2>2. slot[i + 1] = NoFile /\ i \in Slots /\ i + 1 \in Slots
    BY <1>3, <2>1 DEF TriggerInv, ProcessInv, Slots
  <2>3. CASE slot[i] # NoFile
    <3>1. slot'[i + 1] = slot[i] /\ \A j \in Slots \ {i, i + 1} : slot'[j] = slot[j]
      BY <1>3, <2>1, <2>2, <2>3
    <3> QED BY <1>2, <1>3, <2>2, <3>1
  <2> QED BY <1>1, <2>1, <2>3
<1> QED BY <1>1, <1>4, <1>5, <1>6
    DEF TriggerNext, TriggerStep, triggerVars, LookAtLog, LockRotation, RotationBusy,
        RotatedMeanwhile, EndRotation, Detach, DetachFails, NotRun, StartSync, SyncTimesOut,
        CannotOpenLog, RefusesArguments, LogOutcome, SyncEnds, Kill, logs

(* Whoever rotates and whenever a process is killed, a log is put away     *)
(* only when it is full, and every file a process has open exists          *)
(* (rotateLog looks again at the log it has locked).                       *)
THEOREM RotationIsSound == TriggerSpec => [](TriggerTypeOK /\ RotatedWasFull)
<1>1. TriggerInit => TriggerInv
  BY TriggerInitInv
<1>2. TriggerInv /\ [TriggerNext]_triggerVars => TriggerInv'
  BY TriggerInvKept
<1>3. TriggerInv => TriggerTypeOK /\ RotatedWasFull
  BY TriggerInvImplies
<1> QED BY <1>1, <1>2, <1>3, PTL DEF TriggerSpec

-----------------------------------------------------------------------------
(* The composition: each part takes its own steps or none.                 *)
LEMMA LivePartsStep ==
  ASSUME [LiveNext]_LiveVars
  PROVE  [EvidenceNext]_evidenceVars /\ [TriggerNext]_triggerVars
BY DEF LiveNext, LiveVars

LEMMA LiveInvariants == LiveSpec => [](EvidenceInv /\ TriggerInv)
<1>1. LiveInit => EvidenceInv /\ TriggerInv
  BY EvidenceInitInv, TriggerInitInv DEF LiveInit
<1>2. EvidenceInv /\ TriggerInv /\ [LiveNext]_LiveVars => EvidenceInv' /\ TriggerInv'
  BY LivePartsStep, EvidenceInvKept, TriggerInvKept
<1> QED BY <1>1, <1>2, PTL DEF LiveSpec

(* Whichever of the parts runs, their types hold.                          *)
THEOREM LiveTypes == LiveSpec => []LiveTypeOK
<1>1. EvidenceInv /\ TriggerInv => LiveTypeOK
  BY EvidenceInvImplies, TriggerInvImplies DEF LiveTypeOK
<1> QED BY <1>1, LiveInvariants, PTL

(* A read that was reported is in the file, and only a full log is rotated *)
(* away, in every behaviour of the composition (Log.Append, rotateLog).    *)
THEOREM LogsStayWhole == LiveSpec => []LogsAreWhole
<1>1. EvidenceInv /\ TriggerInv => LogsAreWhole
  BY EvidenceInvImplies, TriggerInvImplies DEF LogsAreWhole
<1> QED BY <1>1, LiveInvariants, PTL

(* No two rotations lose each other's log: what is no longer kept was the  *)
(* oldest (rotateLog).                                                     *)
THEOREM OldestLeaves == LiveSpec => LeavesAsOldest
<1>1. TriggerInv /\ [LiveNext]_LiveVars =>
        [\A n \in Kept : n \notin {slot'[i] : i \in Slots} => slot[KeptLogs] = n]_triggerVars
  BY LivePartsStep, StepKeepsLogs
<1> QED BY <1>1, LiveInvariants, PTL DEF LiveSpec, LeavesAsOldest
=============================================================================
