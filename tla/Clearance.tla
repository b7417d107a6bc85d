----------------------------- MODULE Clearance -----------------------------
(***************************************************************************)
(* Clearing a plan: `shaper assess` judges a handoff and the goal it is for*)
(* (engine/shaper), /shaper-clear shows a person what would be cleared and *)
(* takes an answer, and `shaper clearance record` keeps it under the digest*)
(* of the handoff.  The documents and the worktree are edited all along.   *)
(*                                                                         *)
(* A document goes by a name, which stands for its digest; Plans and Goals *)
(* give the record of what its bytes say.  A text is a member of a small   *)
(* set, some of them blank, some with characters a terminal does not show. *)
(***************************************************************************)
EXTENDS Integers, Sequences, FiniteSets, Functions

CONSTANTS
  Plans,         \* the handoffs that may be on disk, by name
  Goals,         \* the goals that may be on disk, by name
  Trees,         \* what git may observe of the worktree
  Root,          \* the worktree root the commands are given
  BlankTexts,    \* texts of white space only
  HiddenTexts,   \* texts with a control or an invisible character, escaped
  Dialogs,       \* the sessions in which a person may run /shaper-clear
  Assessors,     \* the processes that ask `shaper assess`
  Nothing,       \* no document, observation, record or subject
  MaxEdits,      \* bound on the edits of the documents and the worktree
  MaxDialogs     \* bound on the dialogs asked

VARIABLES
  disk,          \* the handoff and the goal on disk, and the worktree
  runs,          \* the command each session and assessor is running
  dialogs,       \* what each dialog has been told and has been answered
  clearances,    \* the record kept under each handoff
  answers,       \* history: what people answered, and to what they did
  edits, asked   \* the edits made and the dialogs opened so far

clearanceVars == <<disk, runs, dialogs, clearances, answers, edits, asked>>

Callers == Dialogs \union Assessors

ASSUME CallersAssumption == Dialogs \intersect Assessors = {}

-----------------------------------------------------------------------------
(* The documents *)

(* What a handoff lists comes in order, and estimates are whole numbers.   *)
ASSUME DocumentsAssumption ==
  \A h \in Range(Plans) :
    /\ h.stages \in Seq(Range(h.stages)) /\ h.estimates \in Seq(Range(h.estimates))
    /\ \A e \in Range(h.estimates) : e.low \in Int /\ e.high \in Int

CoreFields == {"version", "project_id", "goal_id", "architecture", "stages",
               "acceptance", "out_of_scope"}
PlanFields == {"roles", "tests", "risks", "estimates", "delivery_limit"}

AllowedFields(version) ==
  CASE version = 3 -> CoreFields \union PlanFields \union {"memory_scope"}
    [] version = 4 -> CoreFields \union PlanFields \union {"memory_directive"}
    [] OTHER -> CoreFields

Says(text) == text \notin BlankTexts

StringArray(d, field, texts, least) ==
  /\ field \in d.members
  /\ Len(texts) >= least
  /\ \A text \in Range(texts) : Says(text)

(* The texts of a list of records.                                         *)
Each(items, field) == [i \in DOMAIN items |-> items[i][field]]

(* Exactly one way to verify a criterion, and it says something.           *)
Verifiable(item) ==
  \E way \in {"check", "adjudication"} :
    DOMAIN item.ways = {way} /\ Says(item.ways[way])

(* The lists of a handoff that must not hold what it puts out of scope or  *)
(* what its goal excludes.                                                 *)
CommittedLists(h) ==
  [stages |-> h.stages, acceptance |-> Each(h.acceptance, "criterion")]

PlannedLists(h) == [tests |-> h.tests, duties |-> Each(h.roles, "duty")]

HoldsNone(lists, excluded) ==
  \A field \in DOMAIN lists : Range(lists[field]) \intersect Range(excluded) = {}

RolesDiffer(h) ==
  /\ "roles" \in h.members /\ h.roles # <<>>
  /\ \A i \in DOMAIN h.roles : Says(h.roles[i].role) /\ Says(h.roles[i].duty)
  /\ IsInjective(Each(h.roles, "role"))

RisksMitigated(h) ==
  "risks" \in h.members /\ \A r \in Range(h.risks) : Says(r.risk) /\ Says(r.mitigation)

(* Mutant: a stage may be estimated twice, and another not at all.         *)
EstimatesCounted(h) ==
  /\ "estimates" \in h.members
  /\ Len(h.estimates) = Len(h.stages)
  /\ Range(Each(h.estimates, "stage")) \subseteq Range(h.stages)
  /\ \A e \in Range(h.estimates) : 0 < e.low /\ 0 < e.high /\ e.low <= e.high

(* One estimate for each stage, from a positive low to a high.             *)
EstimatesFit(h) ==
  /\ "estimates" \in h.members
  /\ Len(h.estimates) = Len(h.stages)
  /\ Range(Each(h.estimates, "stage")) \subseteq Range(h.stages)
  /\ IsInjective(Each(h.estimates, "stage"))
  /\ \A e \in Range(h.estimates) : 0 < e.low /\ 0 < e.high /\ e.low <= e.high

ValidCore(h) ==
  /\ Says(h.project) /\ Says(h.goal) /\ Says(h.architecture)
  /\ StringArray(h, "stages", h.stages, 1)
  /\ "acceptance" \in h.members /\ h.acceptance # <<>>
  /\ \A item \in Range(h.acceptance) : Says(item.criterion)
  /\ StringArray(h, "out_of_scope", h.outOfScope, 0)
  /\ HoldsNone(CommittedLists(h), h.outOfScope)

ValidCriteria(h) ==
  /\ h.shape = (IF h.version = 1 THEN "strings" ELSE "items")
  /\ h.version > 1 => \A item \in Range(h.acceptance) : Verifiable(item)

ValidPlan(h) ==
  /\ RolesDiffer(h)
  /\ StringArray(h, "tests", h.tests, 1)
  /\ RisksMitigated(h)
  /\ EstimatesFit(h)
  /\ IF h.version = 3 THEN Says(h.memory) ELSE "memory_directive" \in h.members
  /\ Says(h.deliveryLimit)
  /\ HoldsNone(PlannedLists(h), h.outOfScope)

(* Well formed: UTF-8, no key twice, every value of its type.              *)
ParsesHandoff(h) ==
  /\ h.raw # "broken"
  /\ h.version \in 1..4
  /\ h.members \subseteq AllowedFields(h.version)
  /\ ValidCore(h) /\ ValidCriteria(h)
  /\ h.version >= 3 => ValidPlan(h)

WellFormed == {name \in DOMAIN Plans : ParsesHandoff(Plans[name])}

GoalFields(version) ==
  {"version", "project_id", "objective", "scope", "constraints", "non_goals",
   "acceptance_criteria", "runtime_scope", "delivery_boundary"}
    \union (IF version = 1 THEN {} ELSE {"goal_id"})
    \union (IF version = 3 THEN {"memory_directive"} ELSE {"memory_scope"})

ParsesGoal(g) ==
  /\ g.raw # "broken"
  /\ g.version \in 1..3
  /\ g.members = GoalFields(g.version)
  /\ g.version >= 2 => Says(g.goal)
  /\ Says(g.project) /\ Says(g.scope)
  /\ \A text \in Range(g.nonGoals) : Says(text)

PairedGoalVersion(version) == IF version = 4 THEN 3 ELSE 2

Pairs(h, g) == <<h.project, h.goal>> = <<g.project, g.goal>>

BindsGoal(h, g) ==
  ParsesGoal(g) /\ g.version = PairedGoalVersion(h.version) /\ Pairs(h, g)

-----------------------------------------------------------------------------
(* Judging them.  An input is a handoff, and the goal and the observation  *)
(* of the worktree that were read with it, or Nothing for one that was not.*)

(* Where a list of the handoff holds what the goal excludes.               *)
ExcludedIn(lists, g) ==
  UNION {{field} \X {i \in DOMAIN lists[field] : lists[field][i] \in Range(g.nonGoals)} :
           field \in DOMAIN lists}

HandoffOf(in) == Plans[in.handoff]
GoalOf(in) == Goals[in.goal]

Bound(in) == in.goal # Nothing /\ BindsGoal(HandoffOf(in), GoalOf(in))

(* In a handoff of version 1 or 2 an overlap is a flag a person resolves.  *)
Flags(in) ==
  IF Bound(in) /\ HandoffOf(in).version < 3
  THEN ExcludedIn(CommittedLists(HandoffOf(in)), GoalOf(in)) ELSE {}

(* Mutant: only the stages and the criteria are held against the goal.     *)
CoreOverlaps(h, g) == ExcludedIn(CommittedLists(h), g)

(* From version 3 on it is refused.                                        *)
PlanOverlaps(h, g) ==
  ExcludedIn(CommittedLists(h), g) \union ExcludedIn(PlannedLists(h), g)

OverlapBlockers(in) ==
  IF Bound(in) /\ HandoffOf(in).version >= 3 /\ PlanOverlaps(HandoffOf(in), GoalOf(in)) # {}
  THEN {"goal_non_goal_overlap"} ELSE {}

GoalRefusals(in) ==
  IF in.goal = Nothing THEN {"goal_unbound"}
  ELSE IF ~ParsesGoal(GoalOf(in))
            \/ GoalOf(in).version # PairedGoalVersion(HandoffOf(in).version)
       THEN {"goal_invalid"}
  ELSE IF ~Pairs(HandoffOf(in), GoalOf(in)) THEN {"goal_identity_mismatch"}
  ELSE {}

TreeRefusals(in) ==
  IF in.tree = Nothing THEN {"worktree_provenance_unobserved"}
  ELSE IF "" \in Range(in.tree) THEN {"worktree_provenance_incomplete"}
  ELSE IF in.tree.toplevel # Root THEN {"worktree_provenance_mismatch"}
  ELSE {}

(* What the view shows apart from the bytes of both documents.             *)
ItemTexts(item) == {item.criterion} \union Range(item.ways)

PlanTexts(h, g) ==
  {h.memory, g.memory, h.deliveryLimit} \union Range(h.tests)
    \union UNION {Range(r) : r \in Range(h.roles) \union Range(h.risks)}
    \union Range(Each(h.estimates, "stage"))

FlaggedTexts(in) ==
  {CommittedLists(HandoffOf(in))[flag[1]][flag[2]] : flag \in Flags(in)}

ShownTexts(in) ==
  LET h == HandoffOf(in) g == GoalOf(in)
  IN  {g.scope} \union Range(g.nonGoals) \union Range(h.outOfScope)
        \union (IF h.version > 1
                THEN UNION {ItemTexts(item) : item \in Range(h.acceptance)} ELSE {})
        \union (IF h.version > 2 THEN PlanTexts(h, g) ELSE {})
        \union FlaggedTexts(in)

(* Mutant: only the bytes of the documents are looked at.                  *)
BytesPresentable(in) == HandoffOf(in).raw = "plain" /\ GoalOf(in).raw = "plain"

Presentable(in) ==
  /\ HandoffOf(in).raw = "plain" /\ GoalOf(in).raw = "plain"
  /\ ShownTexts(in) \intersect HiddenTexts = {}

Refusals(in) == GoalRefusals(in) \union TreeRefusals(in)

(* What a clearance is of, and what a person is shown of it.               *)
Subject(in) ==
  IF Refusals(in) = {} /\ Presentable(in)
  THEN [project |-> HandoffOf(in).project, goalId |-> HandoffOf(in).goal,
        handoff |-> in.handoff, goal |-> in.goal, tree |-> in.tree]
  ELSE Nothing

View(in) ==
  IF Subject(in) = Nothing THEN Nothing
  ELSE [goal |-> in.goal, plan |-> in.handoff, flags |-> Flags(in)]

ClearanceMatches(in, cleared) ==
  /\ cleared.subject = Subject(in) /\ cleared.view = View(in)
  /\ cleared.resolved = Flags(in)

ClearanceBlockers(in, cleared) ==
  IF cleared = Nothing THEN {"clearance_missing"}
  ELSE IF Subject(in) = Nothing THEN {"clearance_unverified"}
  ELSE IF ~ClearanceMatches(in, cleared) THEN {"clearance_mismatch"}
  ELSE {}

Blockers(in, cleared) ==
  LET judged == ClearanceBlockers(in, cleared)
  IN  Refusals(in) \union OverlapBlockers(in) \union judged
        \union (IF Refusals(in) = {} /\ ~Presentable(in)
                THEN {"view_unpresentable"} ELSE {})
        \union (IF Flags(in) # {} /\ judged # {} THEN {"flags_unresolved"} ELSE {})
        \union (IF HandoffOf(in).version = 1
                THEN {"acceptance_verification_unrepresentable"} ELSE {})

Evaluate(in, cleared) ==
  IF ~ParsesHandoff(HandoffOf(in))
  THEN [blockers |-> {"handoff_invalid"}, flags |-> {}, subject |-> Nothing, view |-> Nothing]
  ELSE [blockers |-> Blockers(in, cleared), flags |-> Flags(in),
        subject |-> Subject(in), view |-> View(in)]

(* The state a verdict gives a plan.                                       *)
State(verdict) ==
  CASE verdict.blockers = {} -> "ready"
    [] "handoff_invalid" \in verdict.blockers -> "invalid"
    [] OTHER -> "draft"

(* What is judged of what can be read, with no clearance given.            *)
Inputs ==
  [handoff : DOMAIN Plans, goal : DOMAIN Goals \union {Nothing},
   tree : Trees \union {Nothing}]
FirstVerdict == [in \in Inputs |-> Evaluate(in, Nothing)]

(* Mutant: the worktree it was given in is not compared.                   *)
BindsDocuments(record, verdict) ==
  record.view = verdict.view /\ record.resolved = verdict.flags

(* A record speaks of what is on disk, digest for digest, and resolves the *)
(* flags that are raised, and no other.                                    *)
BindsRecord(record, verdict) ==
  /\ record.subject = verdict.subject /\ record.view = verdict.view
  /\ record.resolved = verdict.flags

Affirmed(record) == record.decision = "affirm"

(* Mutant: a decline verifies as well.                                     *)
VerifyAnswer(record, verdict) ==
  IF BindsRecord(record, verdict)
  THEN [subject |-> verdict.subject, view |-> verdict.view, resolved |-> record.resolved]
  ELSE Nothing

Verify(record, verdict) ==
  IF Affirmed(record) /\ BindsRecord(record, verdict)
  THEN [subject |-> verdict.subject, view |-> verdict.view, resolved |-> record.resolved]
  ELSE Nothing

-----------------------------------------------------------------------------
(* Keeping a record.  Its key is the project, the goal and the digest of   *)
(* the handoff, all of which the handoff has.                              *)

KeyOf(subject) == subject.handoff

(* Mutant: the later record takes the place of the earlier.                *)
Replace(record) == [clearances EXCEPT ![KeyOf(record.subject)] = record]

(* Published by a link, which replaces nothing: the same bytes are in place*)
(* already, and others are refused.                                        *)
Put(record) ==
  IF clearances[KeyOf(record.subject)] = Nothing
  THEN [clearances EXCEPT ![KeyOf(record.subject)] = record] ELSE clearances

Filed(record) == clearances[KeyOf(record.subject)] \in {Nothing, record}

LookUp(verdict) ==
  IF verdict.subject = Nothing \/ clearances[KeyOf(verdict.subject)] = Nothing
  THEN Nothing ELSE Verify(clearances[KeyOf(verdict.subject)], verdict)

-----------------------------------------------------------------------------
(* A command reads the handoff, the goal and the worktree, in this order.  *)

NoRun == [step |-> "idle", verb |-> "", in |-> Nothing, paper |-> Nothing,
          verdict |-> Nothing]
NoInput == [handoff |-> Nothing, goal |-> Nothing, tree |-> Nothing]

Running(verb, paper) ==
  [step |-> "handoff", verb |-> verb, in |-> NoInput, paper |-> paper,
   verdict |-> Nothing]

Read(c, field, next) ==
  runs' = [runs EXCEPT ![c].in[field] = disk[field], ![c].step = next]

(* What a command knew is gone when it ends without a verdict.             *)
EndsAs(c, step) == runs' = [runs EXCEPT ![c] = [NoRun EXCEPT !.step = step]]

Fail(c) == EndsAs(c, "failed")

RunsOnly ==
  UNCHANGED <<disk, dialogs, clearances, answers, edits, asked>>

(* A handoff that does not parse is read again, for its bytes; the second  *)
(* read may find another, and no goal is read for it.                      *)
ReadHandoff(c) ==
  /\ runs[c].step = "handoff"
  /\ IF disk.handoff \in WellFormed
     THEN Read(c, "handoff", "goal")
     ELSE runs' = [runs EXCEPT ![c].step = "handoff again"]
  /\ RunsOnly

ReadHandoffAgain(c) ==
  /\ runs[c].step = "handoff again"
  /\ IF disk.handoff = Nothing THEN Fail(c) ELSE Read(c, "handoff", "judge")
  /\ RunsOnly

ReadGoal(c) ==
  /\ runs[c].step = "goal"
  /\ IF disk.goal # Nothing /\ BindsGoal(HandoffOf(runs[c].in), Goals[disk.goal])
     THEN Read(c, "goal", "tree")
     ELSE runs' = [runs EXCEPT ![c].step = "goal again"]
  /\ RunsOnly

ReadGoalAgain(c) ==
  /\ runs[c].step = "goal again"
  /\ IF disk.goal = Nothing THEN Fail(c) ELSE Read(c, "goal", "tree")
  /\ RunsOnly

Observe(c) ==
  /\ runs[c].step = "tree"
  /\ Read(c, "tree", "judge")
  /\ RunsOnly

(* `shaper assess`: the verdict, or with a clearance verified against it   *)
(* the verdict that clearance gives.                                       *)
Assess(c) ==
  /\ runs[c].step = "judge" /\ runs[c].verb \in {"assess", "view"}
  /\ \E first \in {FirstVerdict[runs[c].in]} : \E cleared \in {LookUp(first)} :
       runs' = [runs EXCEPT ![c].step = "done",
                  ![c].verdict = IF cleared = Nothing THEN first
                                 ELSE Evaluate(runs[c].in, cleared)]
  /\ RunsOnly

(* `shaper clearance record` derives the subject from disk once more.      *)
Check(c) ==
  /\ runs[c].step = "judge" /\ runs[c].verb = "record"
  /\ \E verdict \in {FirstVerdict[runs[c].in]} :
       IF verdict.subject # Nothing /\ BindsRecord(runs[c].paper, verdict)
       THEN runs' = [runs EXCEPT ![c].step = "publish", ![c].verdict = verdict]
       ELSE Fail(c)
  /\ RunsOnly

Publish(c) ==
  /\ runs[c].step = "publish"
  /\ clearances' = Put(runs[c].paper)
  /\ EndsAs(c, IF Filed(runs[c].paper) THEN "done" ELSE "failed")
  /\ UNCHANGED <<disk, dialogs, answers, edits, asked>>

(* It can be killed at any step; a record is linked in whole or not at all.*)
Interrupt(c) ==
  /\ runs[c].step \notin {"idle", "done", "failed"}
  /\ Fail(c) /\ RunsOnly

StartAssessing(c) ==
  /\ c \in Assessors /\ runs[c].step \in {"idle", "done", "failed"}
  /\ runs' = [runs EXCEPT ![c] = Running("assess", Nothing)]
  /\ RunsOnly

-----------------------------------------------------------------------------
(* /shaper-clear.  It assesses, then asks for the view, and shows it if its*)
(* digest is the one the assessment gave.                                  *)

Closed == [step |-> "closed", subject |-> Nothing, view |-> Nothing, flags |-> {}]

OpenDialog(d) ==
  /\ d \in Dialogs /\ dialogs[d].step = "closed" /\ asked < MaxDialogs
  /\ asked' = asked + 1
  /\ dialogs' = [dialogs EXCEPT ![d].step = "assessing"]
  /\ runs' = [runs EXCEPT ![d] = Running("assess", Nothing)]
  /\ UNCHANGED <<disk, clearances, answers, edits>>

CloseDialog(d) ==
  /\ dialogs' = [dialogs EXCEPT ![d] = Closed]
  /\ runs' = [runs EXCEPT ![d] = NoRun]
  /\ UNCHANGED <<disk, clearances, answers, edits, asked>>

(* The code a command exits with says the state: 1 is for a failure.       *)
ExitCode(state) == CASE state = "ready" -> 0 [] state = "draft" -> 3 [] OTHER -> 2

Told(d) == runs[d].step = "done" /\ ExitCode(State(runs[d].verdict)) \in {0, 3}

TakeAssessment(d) ==
  /\ d \in Dialogs /\ dialogs[d].step = "assessing"
  /\ Told(d) /\ runs[d].verdict.subject # Nothing
  /\ dialogs' = [dialogs EXCEPT ![d] =
        [step |-> "viewing", subject |-> runs[d].verdict.subject,
         view |-> runs[d].verdict.view, flags |-> runs[d].verdict.flags]]
  /\ runs' = [runs EXCEPT ![d] = Running("view", Nothing)]
  /\ UNCHANGED <<disk, clearances, answers, edits, asked>>

(* Mutant: any view that is printed is shown.                              *)
ViewIsPrinted(d) == runs[d].verdict.view # Nothing

ViewIsAssessed(d) == runs[d].verdict.view = dialogs[d].view

Show(d) ==
  /\ d \in Dialogs /\ dialogs[d].step = "viewing"
  /\ Told(d) /\ runs[d].verdict.view # Nothing /\ ViewIsAssessed(d)
  /\ dialogs' = [dialogs EXCEPT ![d].step = "shown"]
  /\ UNCHANGED <<disk, runs, clearances, answers, edits, asked>>

(* A person gives a reason and evidence for every flag, and decides.       *)
Answer(d, decision) ==
  /\ d \in Dialogs /\ dialogs[d].step = "shown"
  /\ LET record == [subject |-> dialogs[d].subject, view |-> dialogs[d].view,
                    resolved |-> dialogs[d].flags, decision |-> decision]
     IN  /\ runs' = [runs EXCEPT ![d] = Running("record", record)]
         /\ answers' = answers \union {[saw |-> runs[d].verdict.view, told |-> record]}
  /\ dialogs' = [dialogs EXCEPT ![d].step = "recording"]
  /\ UNCHANGED <<disk, clearances, edits, asked>>

(* A command that failed, a verdict without subject, a view that is not the*)
(* one assessed, a person who does not answer, another session: it ends.   *)
Abandon(d) ==
  /\ d \in Dialogs
  /\ \/ dialogs[d].step = "shown"
     \/ dialogs[d].step # "closed" /\ runs[d].step \in {"done", "failed"}
  /\ CloseDialog(d)

-----------------------------------------------------------------------------
(* The documents are edited, and the worktree made again elsewhere.        *)
Edit(field, value) ==
  /\ edits < MaxEdits /\ disk[field] # value
  /\ edits' = edits + 1
  /\ disk' = [disk EXCEPT ![field] = value]
  /\ UNCHANGED <<runs, dialogs, clearances, answers, asked>>

ClearanceInit ==
  /\ disk \in [handoff : DOMAIN Plans, goal : DOMAIN Goals, tree : Trees]
  /\ runs = [c \in Callers |-> NoRun]
  /\ dialogs = [d \in Dialogs |-> Closed]
  /\ clearances = [name \in DOMAIN Plans |-> Nothing]
  /\ answers = {} /\ edits \in 0..MaxEdits /\ asked \in 0..MaxDialogs

ClearanceNext ==
  \/ \E c \in Callers :
       \/ StartAssessing(c) \/ Interrupt(c)
       \/ ReadHandoff(c) \/ ReadHandoffAgain(c) \/ ReadGoal(c) \/ ReadGoalAgain(c)
       \/ Observe(c) \/ Assess(c) \/ Check(c) \/ Publish(c)
  \/ \E d \in Dialogs :
       \/ OpenDialog(d) \/ TakeAssessment(d) \/ Show(d) \/ Abandon(d)
       \/ \E decision \in {"affirm", "decline"} : Answer(d, decision)
  \/ \E value \in DOMAIN Plans \union {Nothing} : Edit("handoff", value)
  \/ \E value \in DOMAIN Goals \union {Nothing} : Edit("goal", value)
  \/ \E value \in Trees : Edit("tree", value)

ClearanceTypeOK ==
  /\ DOMAIN runs = Callers /\ DOMAIN dialogs = Dialogs
  /\ \A name \in DOMAIN Plans :
       clearances[name] = Nothing \/ clearances[name].subject.handoff = name
  /\ edits \in 0..MaxEdits /\ asked \in 0..MaxDialogs

-----------------------------------------------------------------------------
(* What must hold. *)

(* The lists a plan of this version commits to, item by item.              *)
CommittedItems(h) ==
  Range(h.stages) \union Range(Each(h.acceptance, "criterion"))
    \union (IF h.version > 2 THEN Range(h.tests) \union Range(Each(h.roles, "duty")) ELSE {})

Judged(c) == runs[c].step = "done" /\ runs[c].verb \in {"assess", "view"}
SaidReady(c) == Judged(c) /\ State(runs[c].verdict) = "ready"

(* A plan is ready only when a person was shown these very documents, and  *)
(* affirmed them in this worktree; what the goal excludes was resolved item*)
(* by item, and is no part of a plan of the later versions.                *)
ReadyIsAffirmed ==
  \A c \in Callers : SaidReady(c) =>
    LET in == runs[c].in
        h == HandoffOf(in)
        excluded == Range(GoalOf(in).nonGoals)
    IN  /\ h.version > 1 /\ in.tree.toplevel = Root
        /\ h.version > 2 => CommittedItems(h) \intersect excluded = {}
        /\ \E a \in answers :
             /\ Affirmed(a.told) /\ a.saw.plan = in.handoff /\ a.saw.goal = in.goal
             /\ a.told.subject.tree = in.tree
             /\ \A i \in DOMAIN h.stages :
                  h.stages[i] \in excluded => <<"stages", i>> \in a.told.resolved

(* A handoff that was ever said ready has no decline on record: the first  *)
(* record of a handoff stays.                                              *)
DeclineStands ==
  \A c \in Callers : SaidReady(c) => Affirmed(clearances[runs[c].in.handoff])

(* A record on file is an answer of a person who saw what it is bound to,  *)
(* with nothing in it that a terminal hides.                               *)
RecordsArePeoples ==
  \A name \in DOMAIN Plans : clearances[name] # Nothing =>
    LET h == Plans[name]
    IN  \E a \in answers :
          /\ a.told = clearances[name]
          /\ a.saw.plan = name /\ a.saw.goal = a.told.subject.goal
          /\ h.raw = "plain" /\ Goals[a.saw.goal].raw = "plain"
          /\ h.version > 1 =>
               Range(Each(h.acceptance, "criterion")) \intersect HiddenTexts = {}
          /\ \A flag \in a.saw.flags :
               CommittedLists(h)[flag[1]][flag[2]] \notin HiddenTexts

(* What an affirmation is of.                                              *)
ClearanceOf(verdict) ==
  [subject |-> verdict.subject, view |-> verdict.view, resolved |-> verdict.flags]
InputOf(subject) ==
  [handoff |-> subject.handoff, goal |-> subject.goal, tree |-> subject.tree]

(* A clearance is not mistaken for none.                                   *)
ASSUME NothingAssumption == \A in \in Inputs : ClearanceOf(FirstVerdict[in]) # Nothing

(* An affirmation that was recorded clears the documents it was given for: *)
(* it verifies, and nothing that is left to block them is about one.       *)
AffirmationClears ==
  \A name \in DOMAIN Plans :
    clearances[name] # Nothing /\ Affirmed(clearances[name]) =>
      \E in \in {InputOf(clearances[name].subject)} : \E first \in {FirstVerdict[in]} :
         \E cleared \in {LookUp(first)} :
           /\ cleared = ClearanceOf(first)
           /\ Evaluate(in, cleared).blockers
                = first.blockers \ {"clearance_missing", "flags_unresolved"}

(* A plan that was judged well formed is whole: each criterion has one way *)
(* to verify it, no list holds what is out of scope, and from version 3 on *)
(* each stage has one estimate, in either direction.                       *)
IsWhole(h) ==
  /\ h.version > 1 => \A item \in Range(h.acceptance) : Cardinality(DOMAIN item.ways) = 1
  /\ CommittedItems(h) \intersect Range(h.outOfScope) = {}
  /\ h.version > 2 =>
       /\ \A i \in DOMAIN h.stages :
            Cardinality({j \in DOMAIN h.estimates : h.estimates[j].stage = h.stages[i]}) = 1
       /\ \A e \in Range(h.estimates) : e.low \in 1..e.high

PlansAreWhole ==
  \A c \in Callers : Judged(c) /\ State(runs[c].verdict) # "invalid" =>
    IsWhole(HandoffOf(runs[c].in))

ClearanceIsSound ==
  ReadyIsAffirmed /\ DeclineStands /\ RecordsArePeoples /\ AffirmationClears
    /\ PlansAreWhole
=============================================================================
