---------------------------- MODULE BindingsProofs ----------------------------
(***************************************************************************)
(* Theorems about Bindings, for any number of processes and workflows and  *)
(* any bounds.  ProcInv says what a process knows of the binding and of    *)
(* the workflows where it stands; most of it cannot be made untrue by what *)
(* others do, because a workflow that was seen not to be open is never     *)
(* open again unless it was lost and restored.                             *)
(***************************************************************************)
EXTENDS BindingsProps, TLAPS

Inside == {"locked", "writing", "removing", "renamed"}

(* A workflow that was closed or lost may be restored, but it has not been *)
(* open all along.                                                         *)
Settled == {"closed", "lost", "restored"}

ProcInv(p) ==
  /\ lock = p <=> pc[p] \in Inside
  /\ pc[p] # "idle" => op[p] \in Ops
  /\ pc[p] = "target_judged" => op[p].kind = "bind"
  /\ pc[p] = "loaded" => op[p].kind \in {"replace", "prompt"}
  /\ op[p].kind \in {"replace", "prompt"} =>
       Owned(seen[p]) /\ (pc[p] # "loaded" => status[seen[p].wf] \in Settled)
  /\ Owned(seen[p]) => status[seen[p].wf] # "never"
  /\ op[p].kind \in {"bind", "replace"} => status[op[p].wf] # "never"
  /\ pc[p] = "writing" => Writes(p)
  /\ pc[p] = "removing" => Removes(p)
  /\ pc[p] = "renamed" => Owned(file) /\ file.made = made

(* What was bound at any time was a workflow that had been created.        *)
BoundInv == \A f \in firm : Owned(f) => status[f.wf] # "never"

IInv == TypeOK /\ BoundInv /\ KeptIsFirm /\ \A p \in Proc : ProcInv(p)

-----------------------------------------------------------------------------
(* A file of ours is a binding, and a binding is a file of ours.           *)
LEMMA OwnedIsBinding ==
  ASSUME NEW f \in Files
  PROVE  Owned(f) <=> f \in Binding
BY FilesAssumption DEF Files, Owned, Binding

(* Initially there is no binding and nobody is at work.                    *)
LEMMA InitInv == Init => IInv
<1> SUFFICES ASSUME Init PROVE IInv
  OBVIOUS
<1> USE DEF Init
<1>1. TypeOK
  BY DEF TypeOK, Files, PcValues, Ops, NoOp, Statuses
<1>2. BoundInv /\ KeptIsFirm
  BY DEF BoundInv, KeptIsFirm, Owned
<1>3. ASSUME NEW p \in Proc PROVE ProcInv(p)
  BY <1>3, NoneAssumption DEF ProcInv, Inside, NoOp, Owned
<1> QED BY <1>1, <1>2, <1>3 DEF IInv

(* The types of what a process holds are kept when it moves or ends.       *)
ProcTypes ==
  /\ pc \in [Proc -> PcValues]
  /\ op \in [Proc -> Ops \union {NoOp}]
  /\ seen \in [Proc -> Files]
StoreTypes ==
  /\ file \in Files /\ firm \subseteq Files /\ file \in firm
  /\ kept \in Nat /\ made \in Nat /\ lock \in Proc \union {None}
OutsideTypes ==
  /\ now \in Nat /\ status \in [Workflows -> Statuses]
  /\ hidden \subseteq Workflows /\ changes \in Nat

LEMMA TypeParts == TypeOK <=> ProcTypes /\ StoreTypes /\ OutsideTypes
BY DEF TypeOK, ProcTypes, StoreTypes, OutsideTypes

LEMMA EndsTypes ==
  ASSUME ProcTypes, NEW p \in Proc, Ends(p)
  PROVE  /\ ProcTypes' /\ pc'[p] = "idle" /\ op'[p] = NoOp /\ seen'[p] = Absent
         /\ \A q \in Proc \ {p} :
              pc'[q] = pc[q] /\ op'[q] = op[q] /\ seen'[q] = seen[q]
BY DEF Ends, Go, ProcTypes, PcValues, Files

LEMMA GoTypes ==
  ASSUME ProcTypes, NEW p \in Proc, NEW where \in PcValues, Go(p, where)
  PROVE  /\ pc' \in [Proc -> PcValues] /\ pc'[p] = where
         /\ \A q \in Proc \ {p} : pc'[q] = pc[q]
BY DEF Go, ProcTypes

-----------------------------------------------------------------------------
(* What one process does leaves the others where they were.                *)
Others(p) ==
  \A q \in Proc \ {p} : pc'[q] = pc[q] /\ op'[q] = op[q] /\ seen'[q] = seen[q]

(* Writes and Removes look at the file and at the process alone.           *)
LEMMA OthersKeep ==
  ASSUME NEW p, Others(p), NEW q \in Proc \ {p}, ProcInv(q),
         lock' = q <=> lock = q,
         pc[q] \in Inside => UNCHANGED <<file, made>>,
         UNCHANGED status
  PROVE  ProcInv(q)'
<1>1. pc'[q] = pc[q] /\ op'[q] = op[q] /\ seen'[q] = seen[q]
  BY DEF Others
<1>2. pc[q] \in Inside => (Writes(q)' <=> Writes(q)) /\ (Removes(q)' <=> Removes(q))
  BY <1>1 DEF Writes, Removes, AdmitBind, AdmitReplace, AdmitUnbind, AdmitRemoval,
     Same, Owned
<1> QED BY <1>1, <1>2 DEF ProcInv, Inside, Owned

(* A step of one process that touches neither the file nor the lock.       *)
LEMMA QuietStep ==
  ASSUME IInv, NEW p \in Proc, UNCHANGED <<fileVars, outsideVars>>,
         ProcTypes', Others(p), ProcInv(p)'
  PROVE  IInv'
<1> USE DEF fileVars, outsideVars
<1>1. TypeOK'
  BY TypeParts DEF IInv, TypeOK, ProcTypes
<1>2. BoundInv' /\ KeptIsFirm'
  BY DEF IInv, BoundInv, KeptIsFirm, Owned
<1>3. ASSUME NEW q \in Proc PROVE ProcInv(q)'
  BY OthersKeep DEF IInv
<1> QED BY <1>1, <1>2, <1>3 DEF IInv

(* A process that ends holds nothing any more.                             *)
LEMMA EndedInv ==
  ASSUME NEW p \in Proc, pc'[p] = "idle", op'[p] = NoOp, seen'[p] = Absent,
         lock' # p
  PROVE  ProcInv(p)'
BY DEF ProcInv, Inside, NoOp, Owned

(* An operation that ends outside the lock.                                *)
LEMMA EndsStep ==
  ASSUME IInv, NEW p \in Proc, Ends(p), pc[p] \notin Inside,
         UNCHANGED <<fileVars, outsideVars>>
  PROVE  IInv'
<1>1. ProcTypes
  BY TypeParts DEF IInv
<1>2. /\ ProcTypes' /\ pc'[p] = "idle" /\ op'[p] = NoOp /\ seen'[p] = Absent
      /\ Others(p)
  BY <1>1, EndsTypes DEF Others
<1>3. lock' # p
  BY DEF IInv, ProcInv, fileVars
<1> QED BY <1>2, <1>3, EndedInv, QuietStep

(* A process goes on with what it holds.                                   *)
LEMMA GoesOn ==
  ASSUME IInv, NEW p \in Proc, NEW where \in PcValues, Go(p, where),
         UNCHANGED <<op, seen>>
  PROVE  /\ ProcTypes' /\ Others(p) /\ pc'[p] = where
         /\ op'[p] = op[p] /\ seen'[p] = seen[p]
<1>1. ProcTypes
  BY TypeParts DEF IInv
<1> QED BY <1>1, GoTypes DEF ProcTypes, Others

-----------------------------------------------------------------------------
(* The steps before the lock.                                              *)

LEMMA BeginStep ==
  ASSUME IInv, NEW p \in Proc, Begin(p)
  PROVE  IInv'
<1>1. ProcTypes /\ lock # p /\ file \in Files /\ pc[p] = "idle"
      /\ (Owned(file) => file \in Binding /\ status[file.wf] # "never")
  BY TypeParts, OwnedIsBinding
     DEF IInv, TypeOK, ProcInv, Inside, Begin, BeginBind, BeginUnbind, BeginPrompt,
         At, BoundInv
<1>2. ASSUME NEW w \in Workflows, BeginBind(p, w) PROVE IInv'
  <2>1. [kind |-> "bind", wf |-> w, at |-> 0] \in Ops
    BY DEF Ops
  <2>2. /\ ProcTypes' /\ Others(p) /\ pc'[p] = "target_judged"
        /\ op'[p] = [kind |-> "bind", wf |-> w, at |-> 0] /\ seen'[p] = seen[p]
    BY <1>1, <1>2, <2>1, GoTypes DEF BeginBind, ProcTypes, Others, PcValues
  <2>3. ProcInv(p)'
    BY <1>1, <1>2, <2>1, <2>2
       DEF IInv, ProcInv, BeginBind, Reads, Active, Inside, fileVars, outsideVars, Owned
  <2> QED BY <1>2, <2>2, <2>3, QuietStep DEF BeginBind
<1>3. CASE BeginUnbind(p)
  <2>1. [kind |-> "unbind", wf |-> file.wf, at |-> 0] \in Ops
    BY <1>1, <1>3 DEF BeginUnbind, Ops, Binding
  <2>2. /\ ProcTypes' /\ Others(p) /\ pc'[p] = "waiting"
        /\ op'[p] = [kind |-> "unbind", wf |-> file.wf, at |-> 0] /\ seen'[p] = seen[p]
    BY <1>1, <1>3, <2>1, GoTypes DEF BeginUnbind, ProcTypes, Others, PcValues
  <2>3. ProcInv(p)'
    BY <1>1, <1>3, <2>1, <2>2
       DEF IInv, ProcInv, BeginUnbind, Inside, fileVars, outsideVars, Owned
  <2> QED BY <1>3, <2>2, <2>3, QuietStep DEF BeginUnbind
<1>4. CASE BeginPrompt(p)
  <2>1. [kind |-> "prompt", wf |-> file.wf, at |-> 0] \in Ops
    BY <1>1, <1>4 DEF BeginPrompt, Ops, Binding
  <2>2. /\ ProcTypes' /\ Others(p) /\ pc'[p] = "loaded"
        /\ op'[p] = [kind |-> "prompt", wf |-> file.wf, at |-> 0] /\ seen'[p] = file
    BY <1>1, <1>4, <2>1, GoTypes DEF BeginPrompt, ProcTypes, Others, PcValues
  <2>3. ProcInv(p)'
    BY <1>1, <1>4, <2>1, <2>2
       DEF ProcInv, BeginPrompt, Inside, fileVars, outsideVars, Owned
  <2> QED BY <1>4, <2>2, <2>3, QuietStep DEF BeginPrompt
<1> QED BY <1>2, <1>3, <1>4 DEF Begin

LEMMA LoadCurrentStep ==
  ASSUME IInv, NEW p \in Proc, LoadCurrent(p)
  PROVE  IInv'
<1>1. /\ ProcTypes /\ file \in Files /\ pc[p] = "target_judged" /\ op[p] \in Ops
      /\ lock # p /\ op[p].kind = "bind"
      /\ (Owned(file) => status[file.wf] # "never")
  BY TypeParts DEF IInv, TypeOK, ProcInv, LoadCurrent, At, BoundInv, Inside
<1>2. CASE Owned(file) /\ file.wf # op[p].wf
  <2> DEFINE o == [op[p] EXCEPT !.kind = "replace"]
  <2>1. o \in Ops /\ o.kind = "replace" /\ o.wf = op[p].wf
    BY <1>1 DEF Ops
  <2>2. op' = [op EXCEPT ![p] = o] /\ seen' = [seen EXCEPT ![p] = file]
        /\ Go(p, "loaded") /\ UNCHANGED <<fileVars, outsideVars>>
    BY <1>2 DEF LoadCurrent
  <2> HIDE DEF o
  <2>3. /\ ProcTypes' /\ Others(p) /\ pc'[p] = "loaded"
        /\ op'[p] = o /\ seen'[p] = file
    BY <1>1, <2>1, <2>2, GoTypes DEF ProcTypes, Others, PcValues
  <2>4. ProcInv(p)'
    BY <1>1, <1>2, <2>1, <2>2, <2>3
       DEF IInv, ProcInv, Inside, fileVars, outsideVars, Owned
  <2> QED BY <2>2, <2>3, <2>4, QuietStep
<1>3. CASE ~(Owned(file) /\ file.wf # op[p].wf)
  <2>1. Go(p, "judged") /\ UNCHANGED <<op, seen, fileVars, outsideVars>>
    BY <1>3 DEF LoadCurrent
  <2>2. /\ ProcTypes' /\ Others(p) /\ pc'[p] = "judged"
        /\ op'[p] = op[p] /\ seen'[p] = seen[p]
    BY <2>1, GoesOn DEF PcValues
  <2>3. ProcInv(p)'
    BY <1>1, <2>1, <2>2 DEF IInv, ProcInv, Inside, fileVars, outsideVars, Owned
  <2> QED BY <2>1, <2>2, <2>3, QuietStep
<1> QED BY <1>2, <1>3

(* What was judged not to be open is settled.                              *)
LEMMA JudgeStep ==
  ASSUME IInv, NEW p \in Proc, JudgeCurrent(p) \/ JudgePrompt(p)
  PROVE  IInv'
<1>1. /\ pc[p] = "loaded" /\ op[p] \in Ops /\ lock # p /\ seen[p] \in Files
      /\ op[p].kind \in {"replace", "prompt"} /\ Owned(seen[p])
      /\ status[seen[p].wf] # "never" /\ UNCHANGED <<fileVars, outsideVars>>
  BY DEF IInv, TypeOK, ProcInv, JudgeCurrent, JudgePrompt, At, Inside
<1>2. CASE Ends(p)
  BY <1>1, <1>2, EndsStep DEF Inside
<1>3. CASE ~Ends(p)
  <2>1. Go(p, "judged") /\ UNCHANGED <<op, seen>>
        /\ (Stale(seen[p].wf) \/ AsksUnbind(seen[p].wf))
    BY <1>3 DEF JudgeCurrent, JudgePrompt
  <2>2. status[seen[p].wf] \in Settled
    BY <1>1, <2>1 DEF Stale, AsksUnbind, Reads, Statuses, Active, Settled
  <2>3. /\ ProcTypes' /\ Others(p) /\ pc'[p] = "judged"
        /\ op'[p] = op[p] /\ seen'[p] = seen[p]
    BY <2>1, GoesOn DEF PcValues
  <2>4. ProcInv(p)'
    BY <1>1, <2>2, <2>3 DEF IInv, ProcInv, Inside, fileVars, outsideVars, Owned
  <2> QED BY <1>1, <2>3, <2>4, QuietStep
<1> QED BY <1>2, <1>3

LEMMA EnterStep ==
  ASSUME IInv, NEW p \in Proc, EnterBind(p) \/ EnterUnbind(p)
  PROVE  IInv'
<1>1. /\ pc[p] = "judged" /\ op[p] \in Ops /\ lock # p /\ ProcTypes /\ now \in Nat
      /\ UNCHANGED <<fileVars, outsideVars>>
  BY TypeParts DEF IInv, TypeOK, ProcInv, EnterBind, EnterUnbind, At, Inside
<1>2. CASE Ends(p)
  BY <1>1, <1>2, EndsStep DEF Inside
<1>3. CASE EnterUnbind(p) /\ ~Ends(p)
  <2>1. Go(p, "waiting") /\ UNCHANGED <<op, seen>>
    BY <1>3 DEF EnterUnbind
  <2>2. /\ ProcTypes' /\ Others(p) /\ pc'[p] = "waiting"
        /\ op'[p] = op[p] /\ seen'[p] = seen[p]
    BY <2>1, GoesOn DEF PcValues
  <2>3. ProcInv(p)'
    BY <1>1, <2>2 DEF IInv, ProcInv, Inside, fileVars, outsideVars, Owned
  <2> QED BY <1>1, <2>2, <2>3, QuietStep
<1>4. CASE EnterBind(p) /\ ~Ends(p)
  <2> DEFINE o == [op[p] EXCEPT !.at = now]
  <2>1. o \in Ops /\ o.kind = op[p].kind /\ o.wf = op[p].wf
    BY <1>1 DEF Ops
  <2>2. op' = [op EXCEPT ![p] = o] /\ Go(p, "waiting") /\ UNCHANGED seen
    BY <1>4 DEF EnterBind
  <2> HIDE DEF o
  <2>3. /\ ProcTypes' /\ Others(p) /\ pc'[p] = "waiting"
        /\ op'[p] = o /\ seen'[p] = seen[p]
    BY <1>1, <2>1, <2>2, GoTypes DEF ProcTypes, Others, PcValues
  <2>4. ProcInv(p)'
    BY <1>1, <2>1, <2>3 DEF IInv, ProcInv, Inside, fileVars, outsideVars, Owned
  <2> QED BY <1>1, <2>3, <2>4, QuietStep
<1> QED BY <1>2, <1>3, <1>4

-----------------------------------------------------------------------------
(* The steps under the lock: nobody else is inside.                        *)
LEMMA LockedStep ==
  ASSUME IInv, NEW p \in Proc, lock \in {p, None}, lock' \in {p, None},
         UNCHANGED outsideVars, ProcTypes', StoreTypes', Others(p), ProcInv(p)',
         BoundInv', KeptIsFirm'
  PROVE  IInv'
<1>1. TypeOK'
  BY TypeParts DEF IInv, TypeOK, ProcTypes, StoreTypes, outsideVars
<1>2. ASSUME NEW q \in Proc \ {p} PROVE ProcInv(q)'
  <2>1. ProcInv(q) /\ lock # q /\ lock' # q /\ pc[q] \notin Inside
    BY NoneAssumption DEF IInv, ProcInv
  <2> QED BY <2>1, OthersKeep DEF outsideVars
<1> QED BY <1>1, <1>2 DEF IInv

LEMMA TakeLockStep ==
  ASSUME IInv, NEW p \in Proc, TakeLock(p)
  PROVE  IInv'
<1>1. /\ pc[p] = "waiting" /\ op[p] \in Ops /\ lock = None /\ lock' = p
      /\ UNCHANGED <<file, firm, kept, made, op, seen, outsideVars>> /\ Go(p, "locked")
  BY DEF IInv, ProcInv, TakeLock, At
<1>2. /\ ProcTypes' /\ Others(p) /\ pc'[p] = "locked"
      /\ op'[p] = op[p] /\ seen'[p] = seen[p]
  BY <1>1, GoesOn DEF PcValues
<1>3. ProcInv(p)'
  BY <1>1, <1>2 DEF IInv, ProcInv, Inside, outsideVars, Owned
<1>4. StoreTypes' /\ BoundInv' /\ KeptIsFirm'
  BY <1>1 DEF IInv, TypeOK, StoreTypes, BoundInv, KeptIsFirm, Owned, outsideVars
<1> QED BY <1>1, <1>2, <1>3, <1>4, LockedStep

LEMMA AdmitStep ==
  ASSUME IInv, NEW p \in Proc, Admit(p)
  PROVE  IInv'
<1>1. /\ pc[p] = "locked" /\ lock = p /\ op[p] \in Ops
      /\ UNCHANGED <<fileVars, op, seen, outsideVars>>
  BY DEF IInv, ProcInv, Admit, At, Inside
<1>2. PICK where \in {"writing", "removing"} :
        /\ Go(p, where)
        /\ where = "writing" => Writes(p)
        /\ where = "removing" => Removes(p)
  BY DEF Admit
<1>3. /\ ProcTypes' /\ Others(p) /\ pc'[p] = where
      /\ op'[p] = op[p] /\ seen'[p] = seen[p]
  BY <1>1, <1>2, GoesOn DEF PcValues
<1>4. (Writes(p)' <=> Writes(p)) /\ (Removes(p)' <=> Removes(p))
  BY <1>1, <1>3 DEF Writes, Removes, AdmitBind, AdmitReplace, AdmitUnbind,
     AdmitRemoval, Same, Owned, fileVars
<1>5. ProcInv(p)'
  BY <1>1, <1>2, <1>3, <1>4
     DEF IInv, ProcInv, Inside, fileVars, outsideVars, Owned
<1> QED BY <1>1, <1>3, <1>5, QuietStep

(* A binding that is written names a workflow that had been created.       *)
LEMMA RenameStep ==
  ASSUME IInv, NEW p \in Proc, Rename(p)
  PROVE  IInv'
<1> DEFINE new == [wf |-> op[p].wf, at |-> op[p].at, made |-> made + 1]
<1>1. /\ pc[p] = "writing" /\ lock = p /\ op[p] \in Ops /\ Writes(p)
      /\ made \in Nat /\ firm \subseteq Files
      /\ UNCHANGED <<lock, op, seen, outsideVars>> /\ Go(p, "renamed")
  BY DEF IInv, TypeOK, ProcInv, Rename, At, Inside
<1>2. new \in Binding /\ new \in Files /\ Owned(new)
  BY <1>1, OwnedIsBinding DEF Ops, Binding, Files
<1>3. /\ file' = new /\ made' = made + 1 /\ firm' = firm \union {new} /\ kept' = 0
      /\ new.made = made + 1 /\ new.wf = op[p].wf
  BY DEF Rename
<1>4. /\ ProcTypes' /\ Others(p) /\ pc'[p] = "renamed"
      /\ op'[p] = op[p] /\ seen'[p] = seen[p]
  BY <1>1, GoesOn DEF PcValues
<1> HIDE DEF new
<1>5. ProcInv(p)'
  BY <1>1, <1>2, <1>3, <1>4 DEF IInv, ProcInv, Inside, outsideVars, Owned
<1>6. status[new.wf] # "never"
  BY <1>1, <1>3 DEF IInv, ProcInv, Writes
<1>7. StoreTypes'
  BY <1>1, <1>2, <1>3 DEF StoreTypes, IInv, TypeOK
<1>8. BoundInv' /\ KeptIsFirm'
  BY <1>1, <1>3, <1>6 DEF IInv, BoundInv, KeptIsFirm, Owned, outsideVars
<1> QED BY <1>1, <1>4, <1>5, <1>7, <1>8, LockedStep

(* Releasing the lock, with a flush, a removal or nothing done.            *)
LEMMA ReleaseStep ==
  ASSUME IInv, NEW p \in Proc, lock = p, lock' = None, Ends(p), UNCHANGED outsideVars,
         \/ UNCHANGED <<file, firm, kept, made>>
         \/ Flush(p)
         \/ Remove(p)
  PROVE  IInv'
<1>1. ProcTypes
  BY TypeParts DEF IInv
<1>2. /\ ProcTypes' /\ pc'[p] = "idle" /\ op'[p] = NoOp /\ seen'[p] = Absent
      /\ Others(p)
  BY <1>1, EndsTypes DEF Others
<1>3. ProcInv(p)'
  BY <1>2, EndedInv, NoneAssumption
<1>4. StoreTypes' /\ BoundInv' /\ KeptIsFirm'
  <2>1. CASE UNCHANGED <<file, firm, kept, made>>
    BY <2>1 DEF IInv, TypeOK, StoreTypes, BoundInv, KeptIsFirm, Owned, outsideVars
  <2>2. CASE Flush(p)
    <3>1. Owned(file) /\ file.made = made
      BY <2>2 DEF IInv, ProcInv, Flush, At
    <3> QED BY <2>2, <3>1 DEF Flush, IInv, TypeOK, StoreTypes, BoundInv, KeptIsFirm,
            Owned, outsideVars
  <2>3. CASE Remove(p)
    BY <2>3 DEF Remove, IInv, TypeOK, StoreTypes, BoundInv, KeptIsFirm, Owned,
       Files, outsideVars
  <2> QED BY <2>1, <2>2, <2>3
<1> QED BY <1>2, <1>3, <1>4, LockedStep

LEMMA UnderLockStep ==
  ASSUME IInv, NEW p \in Proc, Release(p) \/ Flush(p) \/ Remove(p)
  PROVE  IInv'
<1>1. lock = p
  BY DEF IInv, ProcInv, Release, Flush, Remove, At, Inside
<1> QED BY <1>1, ReleaseStep DEF Release, Flush, Remove

LEMMA CrashStep ==
  ASSUME IInv, NEW p \in Proc, Crash(p)
  PROVE  IInv'
<1>1. CASE lock = p
  BY <1>1, ReleaseStep DEF Crash
<1>2. CASE lock # p
  <2>1. pc[p] \notin Inside
    BY <1>2 DEF IInv, ProcInv
  <2> QED BY <1>2, <2>1, EndsStep DEF Crash, fileVars
<1> QED BY <1>1, <1>2

-----------------------------------------------------------------------------
(* What happens outside.                                                   *)

(* A workflow may move, but is never again as if it had not been created,  *)
(* nor open as if it had been so all along.                                *)
StatusMoves ==
  \A w \in Workflows :
    /\ status[w] # "never" => status'[w] # "never"
    /\ status[w] \in Settled => status'[w] \in Settled

LEMMA WorkflowStep ==
  ASSUME IInv, UNCHANGED <<fileVars, procVars>>, OutsideTypes', StatusMoves
  PROVE  IInv'
<1> USE DEF fileVars, procVars
<1>1. TypeOK'
  BY TypeParts DEF IInv, TypeOK, OutsideTypes
<1>2. BoundInv' /\ KeptIsFirm'
  <2>1. ASSUME NEW f \in firm, Owned(f) PROVE status'[f.wf] # "never"
    <3>1. f \in Binding /\ f.wf \in Workflows
      BY <2>1, OwnedIsBinding DEF IInv, TypeOK, Binding
    <3> QED BY <2>1, <3>1 DEF IInv, BoundInv, StatusMoves
  <2> QED BY <2>1 DEF IInv, BoundInv, KeptIsFirm, Owned
<1>3. ASSUME NEW p \in Proc PROVE ProcInv(p)'
  <2>1. Owned(seen[p]) => seen[p].wf \in Workflows
    BY OwnedIsBinding DEF IInv, TypeOK, Binding
  <2>2. op[p].kind \in {"bind", "replace"} => op[p].wf \in Workflows
    BY DEF IInv, TypeOK, Ops, NoOp
  <2>3. (Writes(p)' <=> Writes(p)) /\ (Removes(p)' <=> Removes(p))
    BY DEF Writes, Removes, AdmitBind, AdmitReplace, AdmitUnbind, AdmitRemoval, Same, Owned
  <2>4. ProcInv(p)
    BY DEF IInv
  <2> QED BY <2>1, <2>2, <2>3, <2>4 DEF ProcInv, StatusMoves, Owned
<1> QED BY <1>1, <1>2, <1>3 DEF IInv

LEMMA MovesStep ==
  ASSUME IInv, Tick \/ \E w \in Workflows : WorkflowMoves(w)
  PROVE  IInv'
<1> USE DEF IInv, TypeOK, OutsideTypes
<1>1. CASE Tick
  BY <1>1, WorkflowStep DEF Tick, StatusMoves
<1>2. ASSUME NEW w \in Workflows, WorkflowMoves(w)
      PROVE  OutsideTypes' /\ StatusMoves /\ UNCHANGED <<fileVars, procVars>>
  BY <1>2 DEF WorkflowMoves, CreateWorkflow, CloseWorkflow, LoseWorkflow,
     RepairWorkflow, HideWorkflow, Change, StatusMoves, Settled, Statuses, Active
<1> QED BY <1>1, <1>2, WorkflowStep

LEMMA OutsideWriteStep ==
  ASSUME IInv, OutsideWrite
  PROVE  IInv'
<1>1. /\ lock = None /\ UNCHANGED <<made, lock, procVars, now, status, hidden>>
      /\ file' \in {Absent, NotOurs} /\ firm' = {file'} /\ kept' = 0
      /\ changes' = changes + 1
  BY DEF OutsideWrite, Change
<1>2. TypeOK'
  BY <1>1 DEF IInv, TypeOK, Files, procVars
<1>3. BoundInv' /\ KeptIsFirm'
  BY <1>1 DEF BoundInv, KeptIsFirm, Owned
<1>4. ASSUME NEW p \in Proc PROVE ProcInv(p)'
  <2>1. pc[p] \notin Inside /\ ProcInv(p)
    BY <1>1, NoneAssumption DEF IInv, ProcInv
  <2> QED BY <1>1, <2>1 DEF ProcInv, Inside, Owned, procVars
<1> QED BY <1>2, <1>3, <1>4 DEF IInv

LEMMA PowerLossStep ==
  ASSUME IInv, PowerLoss
  PROVE  IInv'
<1>1. PICK f \in firm : file' = f /\ firm' = {f}
  BY DEF PowerLoss
<1>2. /\ UNCHANGED <<kept, made, now, status, hidden>> /\ changes' = changes + 1
      /\ lock' = None
      /\ pc' = [p \in Proc |-> "idle"] /\ op' = [p \in Proc |-> NoOp]
      /\ seen' = [p \in Proc |-> Absent]
  BY DEF PowerLoss, Change
<1>3. TypeOK'
  BY <1>1, <1>2 DEF IInv, TypeOK, Files, PcValues
<1>4. BoundInv' /\ KeptIsFirm'
  BY <1>1, <1>2 DEF IInv, BoundInv, KeptIsFirm, Owned
<1>5. ASSUME NEW p \in Proc PROVE ProcInv(p)'
  BY <1>2, EndedInv, NoneAssumption
<1> QED BY <1>3, <1>4, <1>5 DEF IInv

(* Every step keeps the invariant.                                         *)
LEMMA InvStep == IInv /\ [Next]_vars => IInv'
<1> SUFFICES ASSUME IInv, [Next]_vars PROVE IInv'
  OBVIOUS
<1>1. ASSUME NEW p \in Proc, Begin(p) \/ Crash(p) PROVE IInv'
  BY <1>1, BeginStep, CrashStep
<1>2. ASSUME NEW p \in Proc, Busy(p) PROVE IInv'
  BY <1>2, EndsStep DEF Busy, At, Inside
<1>3. ASSUME NEW p \in Proc, Continue(p), ~Busy(p) PROVE IInv'
  BY <1>3, LoadCurrentStep, JudgeStep, EnterStep, TakeLockStep, AdmitStep,
     RenameStep, UnderLockStep DEF Continue
<1>4. CASE Tick \/ OutsideWrite \/ PowerLoss \/ \E w \in Workflows : WorkflowMoves(w)
  BY <1>4, MovesStep, OutsideWriteStep, PowerLossStep
<1>5. CASE UNCHANGED vars
  <2>1. UNCHANGED <<fileVars, procVars>> /\ OutsideTypes' /\ StatusMoves
    BY <1>5 DEF vars, outsideVars, IInv, TypeOK, OutsideTypes, StatusMoves
  <2> QED BY <2>1, WorkflowStep
<1> QED BY <1>1, <1>2, <1>3, <1>4, <1>5 DEF Next

-----------------------------------------------------------------------------
(* The inductive invariant holds of every behaviour: types, who holds the  *)
(* lock, what each process decided on, and that a workflow it judged not   *)
(* to be open has not been open since (app.BindWorkflow, HookService).     *)
THEOREM SpecInv == Spec => []IInv
<1>1. Init => IInv
  BY InitInv
<1>2. IInv /\ [Next]_vars => IInv'
  BY InvStep
<1> QED BY <1>1, <1>2, PTL DEF Spec

(* Every variable keeps its type (projection.Binding, fsstore.Store).      *)
THEOREM SpecTypeOK == Spec => []TypeOK
<1>1. IInv => TypeOK
  BY DEF IInv
<1> QED BY <1>1, SpecInv, PTL

(* What was decided on under the lock is still so when it is acted on      *)
(* (fsstore.Store).                                                        *)
THEOREM SpecDecisionHolds == Spec => []DecisionHolds
<1>1. IInv => DecisionHolds
  BY DEF IInv, ProcInv, DecisionHolds
<1> QED BY <1>1, SpecInv, PTL

(* A binding whose write was reported survives a power loss (writeBinding).*)
THEOREM SpecKeptIsFirm == Spec => []KeptIsFirm
<1>1. IInv => KeptIsFirm
  BY DEF IInv
<1> QED BY <1>1, SpecInv, PTL

(* The steps that change the file: a write, a removal, or something outside.*)
LEMMA FileChanges ==
  ASSUME [Next]_vars, file' # file
  PROVE  \/ \E p \in Proc : Rename(p) \/ Remove(p)
         \/ Change
<1>1. ASSUME NEW p \in Proc, Begin(p) \/ Crash(p) \/ Continue(p)
      PROVE  Rename(p) \/ Remove(p)
  BY <1>1 DEF Begin, BeginBind, BeginUnbind, BeginPrompt, Crash, Continue,
     LoadCurrent, JudgeCurrent, EnterBind, JudgePrompt, EnterUnbind, TakeLock,
     Busy, Release, Admit, Flush, fileVars
<1>2. ASSUME NEW w \in Workflows, WorkflowMoves(w) PROVE Change
  BY <1>2 DEF WorkflowMoves, CreateWorkflow, CloseWorkflow, LoseWorkflow,
     RepairWorkflow, HideWorkflow, fileVars
<1>3. CASE Tick \/ OutsideWrite \/ PowerLoss
  BY <1>3 DEF Tick, OutsideWrite, PowerLoss, fileVars
<1>4. CASE UNCHANGED vars
  BY <1>4 DEF vars, fileVars
<1> QED BY <1>1, <1>2, <1>3, <1>4 DEF Next

LEMMA ChangeCounts ==
  ASSUME IInv, Change
  PROVE  changes' # changes
BY DEF IInv, TypeOK, Change

(* The repository stays bound to a workflow that has been open all along   *)
(* until a person unbinds it (BindWorkflow.Bind, HookService.OnPrompt).    *)
THEOREM SpecOpenStaysBound == Spec => OpenStaysBound
<1> DEFINE Step == (Owned(file) /\ status[file.wf] = "open")
                      => SomeoneUnbinds \/ changes' # changes
<1>1. ASSUME IInv, [Next]_vars, file' # file PROVE Step
  <2>1. ASSUME NEW p \in Proc, Rename(p), Owned(file), status[file.wf] = "open"
        PROVE  FALSE
    <3>1. Writes(p) /\ ProcInv(p) /\ pc[p] = "writing"
      BY <1>1, <2>1 DEF IInv, ProcInv, Rename, At
    <3>2. op[p].kind = "replace" /\ Same(file, seen[p])
      BY <2>1, <3>1 DEF Writes, AdmitBind, AdmitReplace, Owned
    <3>3. status[seen[p].wf] \in Settled
      BY <3>1, <3>2 DEF ProcInv
    <3> QED BY <2>1, <3>2, <3>3 DEF Same, Settled
  <2>2. ASSUME NEW p \in Proc, Remove(p), Owned(file), status[file.wf] = "open"
        PROVE  SomeoneUnbinds
    <3>1. Removes(p) /\ ProcInv(p) /\ pc[p] = "removing"
      BY <1>1, <2>2 DEF IInv, ProcInv, Remove, At
    <3>2. CASE op[p].kind = "prompt"
      <4>1. Same(file, seen[p]) /\ status[seen[p].wf] \in Settled
        BY <3>1, <3>2 DEF Removes, AdmitRemoval, ProcInv
      <4> QED BY <2>2, <4>1 DEF Same, Settled
    <3>3. CASE op[p].kind = "unbind"
      BY <3>1, <3>3 DEF SomeoneUnbinds
    <3> QED BY <3>1, <3>2, <3>3 DEF Removes
  <2> QED BY <1>1, <2>1, <2>2, FileChanges, ChangeCounts
<1>2. IInv /\ [Next]_vars => [Step]_file
  BY <1>1
<1> QED BY <1>2, SpecInv, PTL DEF Spec, OpenStaysBound

(* No operation writes over or removes a file that is not ours.            *)
THEOREM SpecNotOursLeftAlone == Spec => NotOursLeftAlone
<1> DEFINE Step == file = NotOurs => changes' # changes
<1>1. ASSUME IInv, [Next]_vars, file' # file PROVE Step
  <2>1. ASSUME NEW p \in Proc, Rename(p) \/ Remove(p) PROVE file # NotOurs
    <3>1. Writes(p) \/ Removes(p)
      BY <1>1, <2>1 DEF IInv, ProcInv, Rename, Remove, At
    <3> QED BY <3>1, FilesAssumption DEF Writes, Removes, AdmitBind, AdmitReplace,
            AdmitUnbind, AdmitRemoval, Same, Owned
  <2> QED BY <1>1, <2>1, FileChanges, ChangeCounts
<1>2. IInv /\ [Next]_vars => [Step]_file
  BY <1>1
<1> QED BY <1>2, SpecInv, PTL DEF Spec, NotOursLeftAlone
=============================================================================
