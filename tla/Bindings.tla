------------------------------ MODULE Bindings ------------------------------
(***************************************************************************)
(* Which workflow one repository follows: the binding file of engine/      *)
(* projection/fsstore, and the three operations that processes run on it   *)
(* at the same time (engine/projection/app): Bind and Unbind, which a      *)
(* person asks for, and the prompt hook, which unbinds a closed workflow.  *)
(*                                                                         *)
(* Each operation reads the file and the workflow it names without a lock, *)
(* judges, and then takes the lock, reads the file again and writes or     *)
(* removes it.  The workflow itself is not locked: it may be closed, or    *)
(* become unreadable, at any moment.                                       *)
(***************************************************************************)
EXTENDS Integers, FiniteSets

CONSTANTS
  Proc,        \* processes, each running one operation at a time
  Workflows,   \* the workflows a repository may follow
  None,        \* holds the lock when no process does
  Absent,      \* there is no binding file
  NotOurs,     \* a file that is foreign, malformed or cannot be read
  MaxSeconds,  \* bound on the clock
  MaxMade,     \* bound: a bind begins only when fewer bindings were made
  MaxChanges   \* bound on what changes outside: power losses, foreign files,
               \* workflow logs lost, hidden, shown again and brought back

ASSUME NoneAssumption == None \notin Proc
ASSUME FilesAssumption ==
  /\ Absent # NotOurs
  /\ {Absent, NotOurs} \intersect [wf : Workflows, at : Nat, made : Nat] = {}
ASSUME BoundsAssumption ==
  /\ MaxSeconds \in Nat /\ MaxMade \in Nat /\ MaxChanges \in Nat

VARIABLES
  file,     \* the binding file
  firm,     \* what a power loss may leave of it
  kept,     \* the last binding whose write was reported as done, by its
            \* number, while nothing has replaced or removed it; 0: none
  made,     \* how many bindings were ever written
  lock,     \* the process that holds the repository's lock
  pc,       \* where each process is
  op,       \* the operation it runs
  seen,     \* the binding it read and judged
  now,      \* the clock, in whole seconds
  status,   \* each workflow: never created, open (created, running or
            \* paused), closed, lost (its log is gone, drifted, malformed or
            \* foreign), or restored: open again after it was lost
  hidden,   \* the workflows whose log cannot be read right now
  changes   \* counts the outside changes

fileVars == <<file, firm, kept, made, lock>>
procVars == <<pc, op, seen>>
outsideVars == <<now, status, hidden, changes>>
vars == <<fileVars, procVars, outsideVars>>

(* A binding holds a workflow and the second it was bound at.  made numbers*)
(* the bindings in the order they were written; the program does not know  *)
(* it, and no action compares it.                                          *)
Binding == [wf : Workflows, at : Nat, made : Nat]
Files == Binding \union {Absent, NotOurs}
Owned(f) == f \notin {Absent, NotOurs}

(* UnchangedSince: bindings are equal if all the fields of the file are.   *)
Same(f, g) == Owned(f) /\ Owned(g) /\ f.wf = g.wf /\ f.at = g.at

Ops == [kind : {"bind", "replace", "unbind", "prompt"}, wf : Workflows, at : Nat]
NoOp == [kind |-> "none"]

Active == {"open", "restored"}
Statuses == {"never", "closed", "lost"} \union Active

Init ==
  /\ file = Absent /\ firm = {Absent} /\ kept = 0 /\ made = 0
  /\ lock = None
  /\ pc = [p \in Proc |-> "idle"]
  /\ op = [p \in Proc |-> NoOp]
  /\ seen = [p \in Proc |-> Absent]
  /\ now = 0
  /\ status = [w \in Workflows |-> "never"]
  /\ hidden = {}
  /\ changes = 0

At(p, where) == pc[p] = where
Go(p, where) == pc' = [pc EXCEPT ![p] = where]

Ends(p) ==
  /\ Go(p, "idle")
  /\ op' = [op EXCEPT ![p] = NoOp]
  /\ seen' = [seen EXCEPT ![p] = Absent]

-----------------------------------------------------------------------------
(* Bind.  Its target must be open when it is looked at.                    *)

Reads(w, states) == w \notin hidden /\ status[w] \in states

BeginBind(p, w) ==
  /\ At(p, "idle")
  /\ made < MaxMade
  /\ Reads(w, Active)
  /\ op' = [op EXCEPT ![p] = [kind |-> "bind", wf |-> w, at |-> 0]]
  /\ Go(p, "target_judged")
  /\ UNCHANGED <<fileVars, outsideVars, seen>>

(* A binding to another workflow is judged next; anything else is left to  *)
(* what Bind finds under the lock.                                         *)
LoadCurrent(p) ==
  /\ At(p, "target_judged")
  /\ IF Owned(file) /\ file.wf # op[p].wf
     THEN /\ seen' = [seen EXCEPT ![p] = file]
          /\ op' = [op EXCEPT ![p].kind = "replace"]
          /\ Go(p, "loaded")
     ELSE Go(p, "judged") /\ UNCHANGED <<op, seen>>
  /\ UNCHANGED <<fileVars, outsideVars>>

(* judgeCurrent: only a workflow that is known not to be active is stale.  *)
Stale(w) == Reads(w, Statuses \ Active)

JudgeCurrent(p) ==
  /\ At(p, "loaded")
  /\ op[p].kind = "replace"
  /\ IF Stale(seen[p].wf)
     THEN Go(p, "judged") /\ UNCHANGED <<op, seen>>
     ELSE Ends(p)
  /\ UNCHANGED <<fileVars, outsideVars>>

(* The clock is read, in whole seconds; BindIfUnchanged compares once      *)
(* without the lock.                                                       *)
EnterBind(p) ==
  /\ At(p, "judged")
  /\ op[p].kind \in {"bind", "replace"}
  /\ IF op[p].kind = "replace" /\ ~Same(file, seen[p])
     THEN Ends(p)
     ELSE /\ op' = [op EXCEPT ![p].at = now]
          /\ Go(p, "waiting")
          /\ UNCHANGED seen
  /\ UNCHANGED <<fileVars, outsideVars>>

(* Unbind takes the lock only when there is a binding of ours to remove.   *)
BeginUnbind(p) ==
  /\ At(p, "idle")
  /\ Owned(file)
  /\ op' = [op EXCEPT ![p] = [kind |-> "unbind", wf |-> file.wf, at |-> 0]]
  /\ Go(p, "waiting")
  /\ UNCHANGED <<fileVars, outsideVars, seen>>

-----------------------------------------------------------------------------
(* The prompt hook (OnPrompt) reads the binding, then its workflow, and    *)
(* has the binding of a closed workflow removed (UnbindIfUnchanged).       *)
BeginPrompt(p) ==
  /\ At(p, "idle")
  /\ Owned(file)
  /\ op' = [op EXCEPT ![p] = [kind |-> "prompt", wf |-> file.wf, at |-> 0]]
  /\ seen' = [seen EXCEPT ![p] = file]
  /\ Go(p, "loaded")
  /\ UNCHANGED <<fileVars, outsideVars>>

(* Mutant of AsksUnbind: the wrong workflows are unbound.                  *)
AsksUnbindLost(w) == Reads(w, {"lost"})

(* Project: an unknown state is not a closed workflow.                     *)
AsksUnbind(w) == Reads(w, {"closed"})

JudgePrompt(p) ==
  /\ At(p, "loaded")
  /\ op[p].kind = "prompt"
  /\ IF AsksUnbind(seen[p].wf)
     THEN Go(p, "judged") /\ UNCHANGED <<op, seen>>
     ELSE Ends(p)
  /\ UNCHANGED <<fileVars, outsideVars>>

EnterUnbind(p) ==
  /\ At(p, "judged")
  /\ op[p].kind = "prompt"
  /\ IF Same(file, seen[p])
     THEN Go(p, "waiting") /\ UNCHANGED <<op, seen>>
     ELSE Ends(p)
  /\ UNCHANGED <<fileVars, outsideVars>>

-----------------------------------------------------------------------------
(* Under the lock.                                                         *)

(* Mutant of TakeLock: the lock keeps nobody out.                          *)
TakeLockUnguarded(p) ==
  /\ At(p, "waiting")
  /\ lock' = p
  /\ Go(p, "locked")
  /\ UNCHANGED <<file, firm, kept, made, op, seen, outsideVars>>

TakeLock(p) ==
  /\ At(p, "waiting")
  /\ lock = None
  /\ lock' = p
  /\ Go(p, "locked")
  /\ UNCHANGED <<file, firm, kept, made, op, seen, outsideVars>>

(* Mutant of Busy: there is no bound on waiting for the lock.              *)
BusyWaitsOn(p) == FALSE /\ Ends(p)

(* The lock stayed taken for the whole wait.                               *)
Busy(p) ==
  /\ At(p, "waiting")
  /\ lock # None
  /\ Ends(p)
  /\ UNCHANGED <<fileVars, outsideVars>>

(* AdmitBind without replace, AdmitReplace, AdmitUnbind and AdmitRemoval,  *)
(* on the file as it is read under the lock.                               *)
AdmitBind(f) == f = Absent

(* Mutant of AdmitReplace: whatever is bound by now is replaced.           *)
AdmitReplaceAny(f, expected) == Owned(f)

AdmitReplace(f, expected) == Same(f, expected)
AdmitUnbind(f) == Owned(f)
AdmitRemoval(f, expected) == Same(f, expected)

Writes(p) ==
  \/ op[p].kind = "bind" /\ AdmitBind(file)
  \/ op[p].kind = "replace" /\ AdmitReplace(file, seen[p])

Removes(p) ==
  \/ op[p].kind = "unbind" /\ AdmitUnbind(file)
  \/ op[p].kind = "prompt" /\ AdmitRemoval(file, seen[p])

(* The operation ends with nothing done: what is there is refused, or is   *)
(* what was asked for, or a system call fails.                             *)
Release(p) ==
  /\ pc[p] \in {"locked", "writing", "removing", "renamed"}
  /\ lock' = None
  /\ Ends(p)
  /\ UNCHANGED <<file, firm, kept, made, outsideVars>>

Admit(p) ==
  /\ At(p, "locked")
  /\ \/ Writes(p) /\ Go(p, "writing")
     \/ Removes(p) /\ Go(p, "removing")
  /\ UNCHANGED <<fileVars, op, seen, outsideVars>>

(* Mutant of Rename: the directory is flushed before the rename, not after.*)
RenameAfterFlush(p) ==
  /\ At(p, "writing")
  /\ file' = [wf |-> op[p].wf, at |-> op[p].at, made |-> made + 1]
  /\ made' = made + 1
  /\ firm' = {file}
  /\ kept' = 0
  /\ Go(p, "renamed")
  /\ UNCHANGED <<lock, op, seen, outsideVars>>

(* writeBinding: the temporary file is renamed over the binding, ...       *)
Rename(p) ==
  /\ At(p, "writing")
  /\ file' = [wf |-> op[p].wf, at |-> op[p].at, made |-> made + 1]
  /\ made' = made + 1
  /\ firm' = firm \union {file'}
  /\ kept' = 0
  /\ Go(p, "renamed")
  /\ UNCHANGED <<lock, op, seen, outsideVars>>

(* Mutant of Flush: the write is reported without a flush.                 *)
FlushSkipped(p) ==
  /\ At(p, "renamed")
  /\ kept' = made
  /\ lock' = None
  /\ Ends(p)
  /\ UNCHANGED <<file, made, firm, outsideVars>>

(* ... and the directory flushed.  Bind then reads the file once more, to  *)
(* report what it holds.                                                   *)
Flush(p) ==
  /\ At(p, "renamed")
  /\ firm' = {file}
  /\ kept' = made
  /\ lock' = None
  /\ Ends(p)
  /\ UNCHANGED <<file, made, outsideVars>>

(* removeBinding does not flush the directory.                             *)
Remove(p) ==
  /\ At(p, "removing")
  /\ file' = Absent
  /\ firm' = firm \union {Absent}
  /\ kept' = 0
  /\ lock' = None
  /\ Ends(p)
  /\ UNCHANGED <<made, outsideVars>>

(* A process stops anywhere; the kernel frees its lock.                    *)
Crash(p) ==
  /\ ~At(p, "idle")
  /\ lock' = IF lock = p THEN None ELSE lock
  /\ Ends(p)
  /\ UNCHANGED <<file, firm, kept, made, outsideVars>>

-----------------------------------------------------------------------------
(* What happens outside.                                                   *)

Change == changes < MaxChanges /\ changes' = changes + 1

Tick ==
  /\ now < MaxSeconds
  /\ now' = now + 1
  /\ UNCHANGED <<fileVars, procVars, status, hidden, changes>>

(* A workflow is created, and closed, by its own operations.               *)
CreateWorkflow(w) ==
  /\ status[w] = "never"
  /\ status' = [status EXCEPT ![w] = "open"]
  /\ UNCHANGED <<fileVars, procVars, now, hidden, changes>>

CloseWorkflow(w) ==
  /\ status[w] \in Active
  /\ status' = [status EXCEPT ![w] = "closed"]
  /\ UNCHANGED <<fileVars, procVars, now, hidden, changes>>

LoseWorkflow(w) ==
  /\ Change
  /\ status[w] \in Active \union {"closed"}
  /\ status' = [status EXCEPT ![w] = "lost"]
  /\ UNCHANGED <<fileVars, procVars, now, hidden>>

RepairWorkflow(w) ==
  /\ Change
  /\ status[w] = "lost"
  /\ status' = [status EXCEPT ![w] = "restored"]
  /\ UNCHANGED <<fileVars, procVars, now, hidden>>

HideWorkflow(w) ==
  /\ Change
  /\ hidden' = IF w \in hidden THEN hidden \ {w} ELSE hidden \union {w}
  /\ UNCHANGED <<fileVars, procVars, now, status>>

(* Another program writes or removes the file between two operations: the  *)
(* lock is advisory.                                                       *)
OutsideWrite ==
  /\ Change
  /\ lock = None
  /\ \E f \in {Absent, NotOurs} \ {file} : file' = f /\ firm' = {f}
  /\ kept' = 0
  /\ UNCHANGED <<made, lock, procVars, now, status, hidden>>

PowerLoss ==
  /\ Change
  /\ \E f \in firm : file' = f /\ firm' = {f}
  /\ lock' = None
  /\ pc' = [p \in Proc |-> "idle"]
  /\ op' = [p \in Proc |-> NoOp]
  /\ seen' = [p \in Proc |-> Absent]
  /\ UNCHANGED <<kept, made, now, status, hidden>>

-----------------------------------------------------------------------------
Begin(p) ==
  (\E w \in Workflows : BeginBind(p, w)) \/ BeginUnbind(p) \/ BeginPrompt(p)

Continue(p) ==
  \/ LoadCurrent(p) \/ JudgeCurrent(p) \/ EnterBind(p)
  \/ JudgePrompt(p) \/ EnterUnbind(p)
  \/ TakeLock(p) \/ Busy(p) \/ Release(p)
  \/ Admit(p) \/ Rename(p) \/ Flush(p) \/ Remove(p)

WorkflowMoves(w) ==
  \/ CreateWorkflow(w) \/ CloseWorkflow(w) \/ LoseWorkflow(w)
  \/ RepairWorkflow(w) \/ HideWorkflow(w)

Next ==
  \/ \E p \in Proc : Begin(p) \/ Continue(p) \/ Crash(p)
  \/ \E w \in Workflows : WorkflowMoves(w)
  \/ Tick \/ OutsideWrite \/ PowerLoss

Spec == Init /\ [][Next]_vars

(* Prompts keep coming, and what may go wrong with one does not go wrong   *)
(* with every one of them: now and then a prompt gets the lock, and a      *)
(* removal succeeds.  An operation that has begun goes on unless its process*)
(* stops; waiting for the lock has a bound.                                *)
PromptsFairness ==
  \A p \in Proc :
    /\ WF_vars(Continue(p))
    /\ SF_vars(BeginPrompt(p))
    /\ SF_vars(JudgePrompt(p)) /\ SF_vars(EnterUnbind(p))
    /\ SF_vars(TakeLock(p) /\ op[p].kind = "prompt")
    /\ SF_vars(Admit(p)) /\ SF_vars(Remove(p))

PromptsSpec == Spec /\ PromptsFairness
=============================================================================
