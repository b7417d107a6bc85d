--------------------------- MODULE LifecycleRules ---------------------------
(***************************************************************************)
(* The pure half of engine/workflow: what an event of a workflow's log is, *)
(* what state a log replays to, which event may follow a log               *)
(* (CheckTransition), when a log is ours (ClassifyLog) and when an event   *)
(* may be appended to it (AdmitAppend).                                    *)
(*                                                                         *)
(* A log is a sequence of events.  State is never stored by the program:   *)
(* it is replayed from the log, so every part of it is an operator on the  *)
(* log here.  The operators give what the fold of applyEvent gives without *)
(* recursion: the status is that of the last event that sets one.          *)
(***************************************************************************)
EXTENDS Integers, Sequences, FiniteSets

CONSTANTS
  Stages,     \* the names of the stages a profile may declare
  MaxStages,  \* how many stages one workflow may record (256 in the code)
  MaxLogEvents \* how many events fit in the largest log that is read (16 MiB
              \* in the code, with events of one size here)

ASSUME MaxStagesAssumption == MaxStages \in Nat \ {0}
ASSUME MaxLogEventsAssumption == MaxLogEvents \in Nat \ {0}

NameOnly  == 1   \* EventVersionNameOnly: the created event names its profile
Snapshot  == 2   \* EventVersionSnapshot: it also holds the profile's stages
Narrowers == 3   \* EventVersionNarrowers: narrowed events exist

Versions == {NameOnly, Snapshot, Narrowers}
StatusKinds == {"created", "started", "paused", "resumed", "closed"}
Kinds == StatusKinds \union {"stage_recorded", "verified", "narrowed"}
Outcomes == {"completed", "abandoned"}

(* A record of the bound role handoff chain: the gen-th chain to be put at *)
(* the chain's id, and the n-th record of it.  NoHead: no chain is bound.  *)
RoleHead == [gen : Nat, n : Nat \ {0}]
NoHead == [gen |-> 0, n |-> 0]

(* What an event says, apart from its place in the log.  One record serves *)
(* every kind, as one struct does in the code; the fields a kind does not  *)
(* use have their zero value.  goal and head are, in a created event, the  *)
(* digests bound at creation, in a verified event the digests checked, and *)
(* in a narrowed event head is the head recorded.  order is the snapshot.  *)
Bodies ==
  [kind : Kinds, version : Versions, order : Seq(Stages), goal : Nat,
   head : RoleHead \union {NoHead}, stage : Stages \union {""},
   outcome : Outcomes \union {""}]

Body(e) ==
  [kind |-> e.kind, version |-> e.version, order |-> e.order,
   goal |-> e.goal, head |-> e.head, stage |-> e.stage,
   outcome |-> e.outcome]

(* The digest of the last event of a log.  An event's digest covers its    *)
(* prev_digest, so it stands for every event up to it: SHA-256 is taken to *)
(* have no collisions, and the digest of the last event is then as good as *)
(* the contents of the whole log.  "" for no event is the empty sequence.  *)
Digest(log) == [i \in 1..Len(log) |-> Body(log[i])]

Before(log, i) == SubSeq(log, 1, i - 1)

Events ==
  [kind : Kinds, version : Versions, order : Seq(Stages), goal : Nat,
   head : RoleHead \union {NoHead}, stage : Stages \union {""},
   outcome : Outcomes \union {""}, seq : Nat, prev : Seq(Bodies)]

-----------------------------------------------------------------------------
(* The state a log replays to.                                             *)

StatusAfter ==
  [created |-> "created", started |-> "running", resumed |-> "running",
   paused  |-> "paused",  closed  |-> "closed"]

SetsStatus(log, i) == log[i].kind \in StatusKinds

LastStatusEvent(log) ==
  CHOOSE i \in 1..Len(log) :
    /\ SetsStatus(log, i)
    /\ \A j \in (i + 1)..Len(log) : ~SetsStatus(log, j)

Status(log) ==
  IF \E i \in 1..Len(log) : SetsStatus(log, i)
  THEN StatusAfter[log[LastStatusEvent(log)].kind]
  ELSE "none"

StageEvents(log) == {i \in 1..Len(log) : log[i].kind = "stage_recorded"}
Recorded(log) == Cardinality(StageEvents(log))
HasStage(log, s) == \E i \in StageEvents(log) : log[i].stage = s

NarrowEvents(log) == {i \in 1..Len(log) : log[i].kind = "narrowed"}

(* State.LastRoleChainHead: the head of the latest narrowed event or,      *)
(* before any, the one bound at creation.                                  *)
LastRoleChainHead(log) ==
  IF NarrowEvents(log) = {}
  THEN log[1].head
  ELSE LET last == CHOOSE i \in NarrowEvents(log) :
                     \A j \in NarrowEvents(log) : j <= i
       IN  log[last].head

LastKind(log) == log[Len(log)].kind

-----------------------------------------------------------------------------
(* CheckTransition: may e follow log?  One disjunct per kind.              *)

MayBeFirst(e) == e.kind = "created" /\ e.seq = 0

MayFollow(log, e) ==
  \/ e.kind = "started" /\ Status(log) = "created"
  \/ e.kind = "paused"  /\ Status(log) = "running"
  \/ e.kind = "resumed" /\ Status(log) = "paused"
  \/ /\ e.kind = "stage_recorded"
     /\ Status(log) = "running"
     /\ ~HasStage(log, e.stage)
     /\ Recorded(log) < MaxStages
  \/ e.kind = "verified"
  \/ e.kind = "narrowed" /\ log[1].head # NoHead
  \/ /\ e.kind = "closed"
     /\ \/ e.outcome = "completed" /\ LastKind(log) = "verified"
        \/ e.outcome = "abandoned"

CheckTransition(log, e) ==
  IF Status(log) = "none"
  THEN MayBeFirst(e)
  ELSE /\ Status(log) # "closed"
       /\ e.kind # "created"
       /\ e.version = log[1].version
       /\ MayFollow(log, e)

(* WorkflowEvent.Validate, as far as the kinds differ by version.          *)
ValidEvent(e) ==
  /\ e.kind = "narrowed" => e.version = Narrowers
  /\ e.kind = "created" => (e.version = NameOnly <=> e.order = <<>>)
  /\ e.kind = "stage_recorded" => e.stage # ""
  /\ e.kind = "closed" => e.outcome # ""

(* VerifyEvents: the seqs count from 0 and each event chains to the last.  *)
Chained(log) ==
  \A i \in 1..Len(log) :
    /\ log[i].seq = i - 1
    /\ log[i].prev = Digest(Before(log, i))

(* Replay succeeds: every event was a legal successor of the ones before.  *)
Replays(log) ==
  \A i \in 1..Len(log) :
    ValidEvent(log[i]) /\ CheckTransition(Before(log, i), log[i])

Verifies(log) == log # <<>> /\ Chained(log) /\ Replays(log)

(* ClassifyLog answers owned for a log of our events.                      *)
Owned(log) == Verifies(log) /\ Len(log) <= MaxLogEvents

(* Mutant of AdmitAppend: the event need not continue this very log.       *)
AdmitAppendUnchained(log, e) ==
  ValidEvent(e) /\ CheckTransition(log, e)

(* AdmitAppend, for a log that is absent (<<>>) or owned.  What the log's  *)
(* size will be does not matter to it.                                     *)
AdmitAppend(log, e) ==
  /\ ValidEvent(e)
  /\ e.seq = Len(log)
  /\ e.prev = Digest(log)
  /\ CheckTransition(log, e)

-----------------------------------------------------------------------------
(* The event an operation builds on the log it loaded (withHeader): the    *)
(* next seq, the digest of the last event, and the log's own version.      *)

VersionFor(log) == IF log = <<>> THEN Narrowers ELSE log[1].version

NewEvent(log, kind) ==
  [kind |-> kind, version |-> VersionFor(log), order |-> <<>>, goal |-> 0,
   head |-> NoHead, stage |-> "", outcome |-> "",
   seq |-> Len(log), prev |-> Digest(log)]

(* CheckStagePrefix on the stages a log recorded, and NextStage.           *)
StagesFollow(log, order) ==
  \A i \in StageEvents(log) :
    LET nth == Cardinality({j \in StageEvents(log) : j <= i})
    IN  nth <= Len(order) /\ log[i].stage = order[nth]

IsNextStage(log, order, s) ==
  Recorded(log) < Len(order) /\ s = order[Recorded(log) + 1]
=============================================================================
