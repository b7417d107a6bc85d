------------------------------- MODULE MCLive -------------------------------
(***************************************************************************)
(* Processes that wait for each other's locks, checked in one run: the     *)
(* operations on a workflow's log (WorkflowLog), the sessions that append  *)
(* evidence (EvidenceLog) and the starts of the sync trigger (SyncTrigger).*)
(* They share no state, so a behaviour is one of theirs, told by `part`;   *)
(* only its processes are scheduled.                                       *)
(***************************************************************************)
EXTENDS WorkflowLogProps, EvidenceLog, SyncTrigger

VARIABLE part

LiveStages == {"s1", "s2"}
LiveOrders == {<<"s1", "s2">>}
NoLegacyLogs == {}

LiveInit ==
  /\ part \in {"workflow", "evidence", "trigger"}
  /\ Init /\ EvidenceInit /\ TriggerInit

LiveNext ==
  /\ \/ part = "workflow" /\ Next /\ UNCHANGED <<evidenceVars, triggerVars>>
     \/ part = "evidence" /\ EvidenceNext /\ UNCHANGED <<vars, triggerVars>>
     \/ part = "trigger" /\ TriggerNext /\ UNCHANGED <<vars, evidenceVars>>
  /\ UNCHANGED part

LiveVars == <<vars, evidenceVars, triggerVars, part>>

(* The fairness of every module, for the one that runs.                    *)
LiveFairness ==
  /\ \A p \in Proc : WF_LiveVars(
       part = "workflow" /\ Continue(p)
         /\ UNCHANGED <<evidenceVars, triggerVars, part>>)
  /\ \A s \in Sessions : WF_LiveVars(
       part = "evidence" /\ EvidenceStep(s)
         /\ UNCHANGED <<vars, triggerVars, part>>)
  /\ \A p \in Processes : WF_LiveVars(
       part = "trigger" /\ TriggerStep(p)
         /\ UNCHANGED <<vars, evidenceVars, part>>)

LiveSpec == LiveInit /\ [][LiveNext]_LiveVars /\ LiveFairness

LiveTypeOK == EvidenceTypeOK /\ TriggerTypeOK

(* The files that are only appended to: a line that was reported is there, *)
(* and a log is only put away when it is full (Log.Append, rotateLog).     *)
LogsAreWhole == RecordedIsReadable /\ RotatedWasFull

(* Every operation on a workflow ends, and every lock comes free, whatever *)
(* stops or fails (filelog.Store.Append, evidencelog.Log.Append).          *)
EverythingEnds == OperationsEnd /\ LockComesFree /\ SidecarComesFree
=============================================================================
