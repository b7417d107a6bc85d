---------------------------- MODULE BindingsProps ----------------------------
(***************************************************************************)
(* The properties of Bindings.                                             *)
(***************************************************************************)
EXTENDS Bindings

PcValues ==
  {"idle", "target_judged", "loaded", "judged", "waiting", "locked",
   "writing", "removing", "renamed"}

(* Every variable has its type (projection.Binding, fsstore.Store).        *)
TypeOK ==
  /\ file \in Files /\ firm \subseteq Files /\ file \in firm
  /\ kept \in Nat /\ made \in Nat
  /\ lock \in Proc \union {None}
  /\ pc \in [Proc -> PcValues]
  /\ op \in [Proc -> Ops \union {NoOp}]
  /\ seen \in [Proc -> Files]
  /\ now \in Nat
  /\ status \in [Workflows -> Statuses]
  /\ hidden \subseteq Workflows
  /\ changes \in Nat

(* What a process decided on under the lock is still so when it writes or  *)
(* removes: no other process can have changed the file (fsstore.Store).    *)
DecisionHolds ==
  \A p \in Proc :
    /\ pc[p] = "writing" => Writes(p)
    /\ pc[p] = "removing" => Removes(p)

(* The repository stays bound to a workflow that has been open all along,  *)
(* whatever binds and prompts run at the same time and however stale what  *)
(* they read is, until a person unbinds it (app.BindWorkflow.Bind,         *)
(* HookService.OnPrompt).  Of a workflow that was lost and is restored it  *)
(* says nothing: a bind that judged it while it was lost replaces it.      *)
SomeoneUnbinds == \E p \in Proc : pc[p] = "removing" /\ op[p].kind = "unbind"
OpenStaysBound ==
  [][ (Owned(file) /\ status[file.wf] = "open")
        => SomeoneUnbinds \/ changes' # changes ]_file

(* A binding whose write was reported as done survives a power loss; only  *)
(* a removal, or a write that was not reported as done, may be undone.     *)
KeptIsFirm == kept # 0 => firm = {file} /\ Owned(file) /\ file.made = kept

(* No operation touches a binding file that is not ours.                   *)
NotOursLeftAlone == [][ file = NotOurs => changes' # changes ]_file

(* UnbindIfUnchanged never removes a binding made after the one it saw     *)
(* (fsstore.Store).                                                        *)
RemovesWhatItSaw ==
  \A p \in Proc :
    (pc[p] = "removing" /\ op[p].kind = "prompt") => file.made = seen[p].made

(* An operation that has begun ends: it never waits for a lock for ever.   *)
OperationsEnd == \A p \in Proc : (pc[p] # "idle") ~> (pc[p] = "idle")

(* A repository does not stay bound to a closed workflow that can be read: *)
(* some prompt unbinds it, or it is bound anew (HookService.OnPrompt).     *)
BoundToClosed(w) == Owned(file) /\ file.wf = w /\ Reads(w, {"closed"})
ClosedIsUnbound == \A w \in Workflows : BoundToClosed(w) ~> ~BoundToClosed(w)
=============================================================================
