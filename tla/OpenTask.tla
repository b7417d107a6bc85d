------------------------------- MODULE OpenTask -------------------------------
(***************************************************************************)
(* Opening the workflow of a task (engine/workflow/app, Open), and the     *)
(* guard that lets a builder be launched inside an opened one (engine/     *)
(* oddtask and its app).  Opening writes two role records, a workflow, its *)
(* start, its first stages and a binding, one store after another with no  *)
(* transaction around them; the guard reads the same stores one after      *)
(* another.  Each call of a store is one step here: RoleChain, WorkflowLog *)
(* and Bindings model what is inside it.                                   *)
(*                                                                         *)
(* The same stores are written by hand meanwhile, another opener may run,  *)
(* the document may be edited, and a call may fail after it wrote.         *)
(***************************************************************************)
EXTENDS RoleRules

CONSTANTS
  Actors,     \* processes that open tasks or launch builders
  Tasks,      \* tasks, each of a feature of its own
  NoTask,     \* the repository is bound to no workflow
  PreWork,    \* how many stages opening records (5 in the code)
  MaxDocs,    \* bound on the versions of a document
  MaxHops,    \* bound on the length of a chain
  MaxOpens,   \* bound: an opener begins only when fewer have begun
  MaxByHand   \* bound on steps taken by hand

ASSUME TasksAssumption == NoTask \notin Tasks
ASSUME OpenBoundsAssumption ==
  /\ PreWork \in Nat \ {0} /\ MaxDocs \in Nat \ {0} /\ MaxHops \in Nat
  /\ MaxOpens \in Nat /\ MaxByHand \in Nat

VARIABLES
  doc,      \* the version of each task's document
  hops,     \* each task's role chain
  flow,     \* each task's workflow: its status and how many stages it has
  boundTo,  \* the task whose workflow the repository is bound to
  actor,    \* each process: where it is, on what task, what it read and did
  opened,   \* how often a task was reported opened
  begun,    \* counts the openers
  byHand    \* counts the steps by hand

openVars == <<doc, hops, flow, boundTo, actor, opened, begun, byHand>>

NoFlow == [status |-> "none", stages |-> 0]
Idle == [at |-> "idle", task |-> NoTask, doc |-> 0, done |-> {}, seen |-> NoTask]

(* A record says whom it hands to; an opener's tells the document's bytes, *)
(* one written by hand (document 0) is never byte for byte the same.       *)
Hop(to, d) == [to |-> to, doc |-> d]
Design(d) == <<Hop("estimator", d), Hop("builder", d)>>

OpenInit ==
  /\ doc = [t \in Tasks |-> 1]
  /\ hops = [t \in Tasks |-> <<>>]
  /\ flow = [t \in Tasks |-> NoFlow]
  /\ boundTo = NoTask
  /\ actor = [a \in Actors |-> Idle]
  /\ opened = [t \in Tasks |-> 0]
  /\ begun = 0 /\ byHand = 0

Is(a, where) == actor[a].at = where
Moves(a, where) == actor' = [actor EXCEPT ![a].at = where]
Leaves(a) == actor' = [actor EXCEPT ![a] = Idle]

(* A step done is named in what the opener reports, and the next begins.   *)
Did(a, step, next) ==
  actor' = [actor EXCEPT ![a].at = next, ![a].done = @ \union {step}]

stores == <<hops, flow, boundTo>>
bounds == <<doc, opened, begun, byHand>>

-----------------------------------------------------------------------------
(* Open: the document is read once, then the stores are looked at.         *)

BeginOpen(a, t) ==
  /\ Is(a, "idle")
  /\ begun < MaxOpens
  /\ begun' = begun + 1
  /\ actor' = [actor EXCEPT ![a] = [Idle EXCEPT !.at = "checking", !.task = t, !.doc = doc[t]]]
  /\ UNCHANGED <<stores, doc, opened, byHand>>

(* checkFree: the chain is empty, and then no workflow is there.           *)
CheckChain(a) ==
  /\ Is(a, "checking")
  /\ IF hops[actor[a].task] = <<>> THEN Moves(a, "chain_free") ELSE Leaves(a)
  /\ UNCHANGED <<stores, bounds>>

CheckFlow(a) ==
  /\ Is(a, "chain_free")
  /\ IF flow[actor[a].task].status = "none" THEN Moves(a, "first") ELSE Leaves(a)
  /\ UNCHANGED <<stores, bounds>>

(* A call of a store does what it was asked to, or fails having done       *)
(* nothing, or fails having done it: its last flush failed.                *)
Outcome(a, step, next) == Did(a, step, next) \/ Moves(a, "failed")
CallFails(a) ==
  /\ actor[a].at \in {"first", "second", "create", "start", "stages", "bind"}
  /\ Moves(a, "failed")
  /\ UNCHANGED <<stores, bounds>>

(* Mutant of Appends: a record of a seq that is taken is taken for ours.   *)
AppendsBlindly(t, n, r) == n <= Len(hops[t]) \/ hops[t] = SubSeq(hops[t], 1, n - 1)

(* chains.Append of the record r as the n-th: admitted as the next one if  *)
(* it names the record before it, or as the one that is there already.     *)
Appends(t, n, r) ==
  IF n <= Len(hops[t])
  THEN hops[t][n] = r
  ELSE hops[t] = SubSeq(Design(r.doc), 1, n - 1)

AppendRecord(a, n, step, next) ==
  LET t == actor[a].task
      r == Design(actor[a].doc)[n]
  IN  /\ Is(a, step)
      /\ IF Appends(t, n, r)
         THEN /\ hops' = IF n <= Len(hops[t]) THEN hops
                         ELSE [hops EXCEPT ![t] = Append(@, r)]
              /\ Outcome(a, <<step>>, next)
         ELSE Moves(a, "failed") /\ UNCHANGED hops
      /\ UNCHANGED <<flow, boundTo, bounds>>

AppendFirst(a) == AppendRecord(a, 1, "first", "second")
AppendSecond(a) == AppendRecord(a, 2, "second", "create")

(* Mutant of Creates: a workflow that is there is made anew.               *)
CreatesAnew(t) == TRUE

(* Lifecycle.Create refuses a workflow that exists.                        *)
Creates(t) == flow[t].status = "none"

Create(a) ==
  LET t == actor[a].task
  IN  /\ Is(a, "create")
      /\ Creates(t)
      /\ flow' = [flow EXCEPT ![t] = [status |-> "created", stages |-> 0]]
      /\ Outcome(a, <<"create">>, "start")
      /\ UNCHANGED <<hops, boundTo, bounds>>

(* Lifecycle.Start, and RecordStage for each stage in turn.                *)
Start(a) ==
  LET t == actor[a].task
  IN  /\ Is(a, "start")
      /\ flow[t].status = "created"
      /\ flow' = [flow EXCEPT ![t].status = "running"]
      /\ Outcome(a, <<"start">>, "stages")
      /\ UNCHANGED <<hops, boundTo, bounds>>

(* Mutants of LastStage: the loop ends one stage early, or one late.       *)
LastStageEarly(n) == n + 1 >= PreWork
LastStageLate(n) == n > PreWork

LastStage(n) == n = PreWork

(* The opener names the stages in their order: each must be the workflow's *)
(* next one.                                                               *)
Stage(n) == <<"stage", n>>
Recorded(a) == Cardinality({n \in 1..PreWork : Stage(n) \in actor[a].done})

RecordPreWork(a) ==
  LET t == actor[a].task
      n == Recorded(a) + 1
  IN  /\ Is(a, "stages")
      /\ flow[t].status = "running"
      /\ flow[t].stages + 1 = n
      /\ flow' = [flow EXCEPT ![t].stages = n]
      /\ \/ Did(a, Stage(n), IF LastStage(n) THEN "bind" ELSE "stages")
         \/ Moves(a, "failed")
      /\ UNCHANGED <<hops, boundTo, bounds>>

(* Bind: the target is not closed; another workflow gives way only if it   *)
(* is closed, and one bound already is refused.                            *)
Binds(t) ==
  /\ flow[t].status \notin {"none", "closed"}
  /\ boundTo # NoTask => boundTo # t /\ flow[boundTo].status \in {"none", "closed"}

Bind(a) ==
  /\ Is(a, "bind")
  /\ Binds(actor[a].task)
  /\ boundTo' = actor[a].task
  /\ Moves(a, "read_back") \/ Moves(a, "failed")
  /\ UNCHANGED <<hops, flow, bounds>>

(* Bind reads back what it wrote: a binding that is gone by then fails.    *)
Report(a) ==
  LET t == actor[a].task
  IN  /\ Is(a, "read_back")
      /\ IF boundTo = t
         THEN Did(a, <<"bind">>, "reported") /\ opened' = [opened EXCEPT ![t] = @ + 1]
         ELSE Moves(a, "failed") /\ UNCHANGED opened
      /\ UNCHANGED <<stores, doc, begun, byHand>>

-----------------------------------------------------------------------------
(* The guard on launching a builder (CheckLaunch): the binding is read,    *)
(* then its workflow, then its chain.                                      *)

(* DecideWorkflow, in its order: the first thing wrong is the reason.      *)
BeginLaunch(a, t) ==
  /\ Is(a, "idle")
  /\ actor' = [actor EXCEPT ![a] =
       [Idle EXCEPT !.at = IF boundTo = NoTask THEN "told_to_open" ELSE "bound",
                    !.task = t, !.seen = boundTo]]
  /\ UNCHANGED <<stores, bounds>>

(* Mutant of InForce: a workflow that was only created will do.            *)
InForceUnstarted(t, b) == flow[b].status \in {"created", "running"} /\ b = t

InForce(t, b) == flow[b].status = "running" /\ b = t

ReadFlow(a) ==
  /\ Is(a, "bound")
  /\ Moves(a, IF InForce(actor[a].task, actor[a].seen) THEN "in_force" ELSE "told_to_open")
  /\ UNCHANGED <<stores, bounds>>

(* The chain's role (Resume, of completed records): the builder's turn, or *)
(* a hop that is due (WaitsForHop), or neither.                            *)
RoleOf(t) == IF hops[t] = <<>> THEN "none" ELSE hops[t][Len(hops[t])].to

Verdict(role) ==
  CASE role = "builder" -> "launched"
    [] role \in Roles \ {"builder", "delivery"} -> "told_to_hop"
    [] OTHER -> "told_to_open"

ReadRole(a) ==
  /\ Is(a, "in_force")
  /\ Moves(a, Verdict(RoleOf(actor[a].task)))
  /\ UNCHANGED <<stores, bounds>>

-----------------------------------------------------------------------------
(* By hand: the same operations of the stores, each from its own command.  *)

HandHop(t) ==
  /\ Len(hops[t]) < MaxHops
  /\ \E to \in (IF hops[t] = <<>> THEN {"estimator"} ELSE NextRoles(RoleOf(t))) :
       /\ RoleOf(t) # "delivery"
       /\ hops' = [hops EXCEPT ![t] = Append(@, Hop(to, 0))]
  /\ UNCHANGED <<flow, boundTo>>

HandFlow(t) ==
  /\ \/ /\ Creates(t)
        /\ flow' = [flow EXCEPT ![t] = [status |-> "created", stages |-> 0]]
     \/ \E move \in {<<"created", "running">>, <<"running", "paused">>, <<"paused", "running">>,
                     <<"created", "closed">>, <<"running", "closed">>, <<"paused", "closed">>} :
          /\ flow[t].status = move[1]
          /\ flow' = [flow EXCEPT ![t].status = move[2]]
     \/ /\ flow[t].status = "running" /\ flow[t].stages <= PreWork
        /\ flow' = [flow EXCEPT ![t].stages = @ + 1]
  /\ UNCHANGED <<hops, boundTo>>

HandBinding ==
  /\ \/ \E t \in Tasks : Binds(t) /\ boundTo' = t
     \/ boundTo # NoTask /\ boundTo' = NoTask
  /\ UNCHANGED <<hops, flow>>

ByHand ==
  /\ byHand < MaxByHand
  /\ byHand' = byHand + 1
  /\ HandBinding \/ \E t \in Tasks : HandHop(t) \/ HandFlow(t)
  /\ UNCHANGED <<doc, actor, opened, begun>>

EditDocument(t) ==
  /\ doc[t] < MaxDocs
  /\ doc' = [doc EXCEPT ![t] = @ + 1]
  /\ UNCHANGED <<stores, actor, opened, begun, byHand>>

(* A crash, or the end of a process that has printed what it found.        *)
Quit(a) ==
  /\ ~Is(a, "idle")
  /\ Leaves(a)
  /\ UNCHANGED <<stores, bounds>>

OpenNext ==
  \/ \E a \in Actors :
       \/ \E t \in Tasks : BeginOpen(a, t) \/ BeginLaunch(a, t)
       \/ CheckChain(a) \/ CheckFlow(a) \/ AppendFirst(a) \/ AppendSecond(a)
       \/ Create(a) \/ Start(a) \/ RecordPreWork(a) \/ Bind(a) \/ Report(a)
       \/ CallFails(a) \/ ReadFlow(a) \/ ReadRole(a) \/ Quit(a)
  \/ \E t \in Tasks : EditDocument(t)
  \/ ByHand

OpenSpec == OpenInit /\ [][OpenNext]_openVars
-----------------------------------------------------------------------------
OpenTypeOK ==
  /\ doc \in [Tasks -> 1..MaxDocs]
  /\ \A t \in Tasks : hops[t] \in Seq([to : Roles, doc : 0..MaxDocs])
  /\ flow \in [Tasks -> [status : {"none", "created", "running", "paused", "closed"},
                         stages : 0..(PreWork + 1)]]
  /\ boundTo \in Tasks \union {NoTask}
  /\ \A a \in Actors :
       /\ actor[a].task \in Tasks \union {NoTask}
       /\ actor[a].done \subseteq
            {<<step>> : step \in {"first", "second", "create", "start", "bind"}}
              \union {Stage(n) : n \in 1..PreWork}

(* A task is reported opened at most once, whatever openers run at the     *)
(* same time, fail or crash (Open, checkFree, Lifecycle.Create).           *)
OpenedOnce == \A t \in Tasks : opened[t] <= 1

(* A task reported opened has its design handed to the builder, by two     *)
(* records of one document, and a workflow with all the stages that come   *)
(* before the work, though others wrote the same stores (Open).            *)
OpenedIsWhole ==
  \A t \in Tasks : opened[t] > 0 =>
    /\ \E d \in 1..MaxDocs : Len(hops[t]) >= 2 /\ SubSeq(hops[t], 1, 2) = Design(d)
    /\ flow[t].status \notin {"none", "created"} /\ flow[t].stages >= PreWork

(* What an opener's error says was done was done, and by no other record   *)
(* than its own (StepError.Done).                                          *)
ReportedIsTrue ==
  \A a \in Actors :
    LET t == actor[a].task
        Wrote(n) == Len(hops[t]) >= n /\ hops[t][n] = Design(actor[a].doc)[n]
        done == actor[a].done
    IN  /\ <<"first">> \in done => Wrote(1)
        /\ <<"second">> \in done => Wrote(2)
        /\ <<"create">> \in done => flow[t].status # "none"
        /\ <<"start">> \in done => flow[t].status # "created"
        /\ \A n \in 1..PreWork : Stage(n) \in done => flow[t].stages >= n

(* A builder is launched only into a task whose workflow was started and   *)
(* whose chain handed the work to a builder (DecideWorkflow).              *)
LaunchedInside ==
  \A a \in Actors : Is(a, "launched") =>
    LET t == actor[a].task
    IN  /\ flow[t].status \notin {"none", "created"}
        /\ \E i \in 1..Len(hops[t]) : hops[t][i].to = "builder"

(* However openings of a task interleave with each other, with what people *)
(* do by hand and with calls that fail after they wrote, and at whatever   *)
(* step they stop (Open.Open, CheckLaunch).                                *)
OpeningIsSound == OpenedOnce /\ OpenedIsWhole /\ ReportedIsTrue /\ LaunchedInside
=============================================================================
