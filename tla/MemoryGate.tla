------------------------------ MODULE MemoryGate ------------------------------
(***************************************************************************)
(* Which memory a session may read while its repository follows a          *)
(* workflow.  The directives a workflow records narrow the ceiling of its  *)
(* profile to a plan (engine/memoryscope, PlanOf of engine/workflow); the  *)
(* lifecycle records none that widens it; and the hooks hold every tool    *)
(* call against the plan in force before it, and note the reads among them *)
(* after it (Gate and Evidence of engine/projection).                      *)
(***************************************************************************)
EXTENDS Integers, Sequences, FiniteSets

CONSTANTS
  MemorySources,  \* what memory may be read from
  Procedural,     \* the one of them that is read as skills
  MaxNarrowed     \* bound on how often a workflow is narrowed

ASSUME ProceduralAssumption == Procedural \in MemorySources
ASSUME MaxNarrowedAssumption == MaxNarrowed \in Nat

VARIABLES
  state,    \* the workflow the repository is bound to: its status, and whether
            \* it recorded its project, and that project has a name in Engram
  memory,   \* the directives it recorded
  narrowed  \* counts the narrowings

memoryVars == <<state, memory, narrowed>>

-----------------------------------------------------------------------------
(* Directives and plans.                                                   *)

Scopes == <<"none", "goal", "project">>
Wide(scope) == CHOOSE i \in 1..3 : Scopes[i] = scope

AnyDirective == [scope : {Scopes[i] : i \in 1..3}, sources : SUBSET MemorySources]

(* Directive.Validate: the scope none has no sources.  (Mutant: any has.)  *)
Directive == {d \in AnyDirective : d.scope = "none" => d.sources = {}}
Undirected == [scope |-> "undirected", sources |-> {}]
Present(d) == d # Undirected

(* CheckNarrows.                                                           *)
Narrows(running, d) ==
  Wide(d.scope) <= Wide(running.scope) /\ d.sources \subseteq running.sources

(* Resolve: each directive there is narrows the one before it, and the last*)
(* one rules; or the plan is refused.                                      *)
AsList(d) == IF Present(d) THEN <<d>> ELSE <<>>
InOrder(m) == AsList(m.ceiling) \o AsList(m.goal) \o AsList(m.handoff) \o AsList(m.role)
Resolves(m) ==
  \A i \in 1..(Len(InOrder(m)) - 1) : Narrows(InOrder(m)[i], InOrder(m)[i + 1])
PlanOf(m) == InOrder(m)[Len(InOrder(m))]

(* Mutant of WithRole: a later role stacks on the one before it.           *)
WithRoleStacked(m, d) ==
  [m EXCEPT !.handoff = IF Present(m.role) THEN m.role ELSE @, !.role = d]

(* RoleDirectiveInForce: a later role's directive replaces an earlier one. *)
WithRole(m, d) == [m EXCEPT !.role = d]

-----------------------------------------------------------------------------
(* Tool calls, as the gate tells them apart: an edit; a read of memory by  *)
(* the project (and goal) it names or by the id of a record; the use of a  *)
(* skill that is in the repository's lock, is not, or may be, the lock     *)
(* being unreadable; anything else.                                        *)

ProjectArgs == {"right", "wrong", "missing", "every", "unreadable"}
GoalArgs == {"right", "wrong", "missing"}
Reads ==
  [kind : {"read"}, source : MemorySources \ {Procedural}, byId : BOOLEAN,
   project : ProjectArgs, goal : GoalArgs]
Calls ==
  Reads \union
  {[kind |-> k] : k \in {"edit", "skill", "other_skill", "unknown_skill", "other"}}

ReadsMemory(c) == c.kind \in {"read", "skill"}
SourceOf(c) == IF c.kind = "read" THEN c.source ELSE Procedural
NamesGoal(c) == c.source = "longterm-mem"
Identities == {"none", "unnamed", "named"}
IsOpen(s) == s.status \in {"created", "running", "paused"}

Answers == {"allow", "warn", "deny"}

(* Mutant of NamesProject: a query that names no project is let through.   *)
NamesProjectOrNone(c) == c.project \in {"right", "missing"} \/ (NamesGoal(c) /\ c.project = "every")

(* Only Engram can be asked for every project, whatever project is named.  *)
NamesProject(c) == c.project = "right" \/ (NamesGoal(c) /\ c.project = "every")

(* longtermProjectGate, longtermGoalGate and engramProjectGate.            *)
ProjectGate(s, plan, c) ==
  IF c.project = "unreadable" \/ (~NamesGoal(c) /\ s.identity = "unnamed") THEN "warn"
  ELSE IF NamesProject(c) /\ (NamesGoal(c) /\ plan.scope = "goal" => c.goal = "right")
       THEN "allow" ELSE "deny"

(* memoryGate: a plan that cannot be computed denies nothing.              *)
PlanGate(s, m, c) ==
  LET plan == PlanOf(m)
  IN  IF ~Resolves(m) THEN "warn"
      ELSE IF plan.scope = "none" \/ SourceOf(c) \notin plan.sources THEN "deny"
      ELSE IF c.kind = "skill" \/ c.byId THEN "allow"
      ELSE IF s.identity = "none" THEN "warn"
      ELSE ProjectGate(s, plan, c)

(* proceduralGate, when the lock that says which skills are procedural     *)
(* cannot be read.                                                         *)
UnknownSkillGate(m) ==
  IF Resolves(m) /\ PlanOf(m).scope # "none" /\ Procedural \in PlanOf(m).sources
  THEN "allow" ELSE "warn"

(* Gate, in a repository bound to a workflow that can be read.             *)
Gate(s, m, c) ==
  CASE IsOpen(s) /\ c.kind = "edit" /\ s.status = "paused" -> "deny"
    [] IsOpen(s) /\ ReadsMemory(c) -> PlanGate(s, m, c)
    [] IsOpen(s) /\ c.kind = "unknown_skill" -> UnknownSkillGate(m)
    [] OTHER -> "allow"

(* Mutant of Evidence: reads of a paused workflow are not noted.           *)
EvidenceUnlessPaused(s, c) == s.status \in {"created", "running"} /\ ReadsMemory(c)

(* Evidence: is the call, once it has come back, noted?                    *)
Evidence(s, c) == IsOpen(s) /\ ReadsMemory(c)

-----------------------------------------------------------------------------
MemoryInit ==
  /\ state = [status |-> "none", identity |-> "none"]
  /\ memory = [ceiling |-> Undirected, goal |-> Undirected, handoff |-> Undirected,
               role |-> Undirected]
  /\ narrowed = 0

(* Mutant of Admits: only a narrower that adds sources is refused.         *)
AdmitsWiderScope(m) ==
  \A i \in 1..(Len(InOrder(m)) - 1) : InOrder(m)[i + 1].sources \subseteq InOrder(m)[i].sources

(* Create and Narrow ask for the plan before they write.                   *)
Admits(m) == Resolves(m)

(* The profile in the catalogue has a valid default; the goal, a handoff of*)
(* the shaper and the last record of the role chain may each narrow it.    *)
CreateWorkflow ==
  /\ state.status = "none"
  /\ \E c \in Directive, g, h, r \in Directive \union {Undirected} :
       /\ memory' = [ceiling |-> c, goal |-> g, handoff |-> h, role |-> r]
       /\ Admits(memory')
  /\ \E known \in Identities : state' = [status |-> "created", identity |-> known]
  /\ UNCHANGED narrowed

(* Narrow, by the record that is now the last of the role chain.           *)
NarrowTo(d) ==
  /\ IsOpen(state)
  /\ narrowed < MaxNarrowed
  /\ narrowed' = narrowed + 1
  /\ memory' = WithRole(memory, d)
  /\ Admits(memory')
  /\ UNCHANGED state

MoveTo(status) ==
  /\ <<state.status, status>> \in
       {<<"created", "running">>, <<"running", "paused">>, <<"paused", "running">>,
        <<"created", "closed">>, <<"running", "closed">>, <<"paused", "closed">>}
  /\ state' = [state EXCEPT !.status = status]
  /\ UNCHANGED <<memory, narrowed>>

MemoryNext ==
  \/ CreateWorkflow
  \/ \E d \in Directive \union {Undirected} : NarrowTo(d)
  \/ \E status \in {"running", "paused", "closed"} : MoveTo(status)

MemorySpec == MemoryInit /\ [][MemoryNext]_memoryVars

-----------------------------------------------------------------------------
MemoryTypeOK ==
  /\ state \in [status : {"none", "created", "running", "paused", "closed"},
                identity : Identities]
  /\ memory.ceiling \in AnyDirective \union {Undirected}
  /\ {memory.goal, memory.handoff, memory.role} \subseteq AnyDirective \union {Undirected}
  /\ \A d \in {memory.ceiling, memory.goal, memory.handoff, memory.role} :
       d.scope = "none" => d.sources = {}
  /\ narrowed \in 0..MaxNarrowed

Directives == {d \in {memory.ceiling, memory.goal, memory.handoff, memory.role} : Present(d)}

(* A log that the lifecycle wrote always has a plan, and no directive it   *)
(* recorded is wider than that plan in any way, so no session is let read  *)
(* more than each of them permits (PlanOf, Create, Narrow).                *)
PlanIsNarrowest ==
  state.status # "none" =>
    /\ Resolves(memory)
    /\ \A d \in Directives : Narrows(d, PlanOf(memory))

(* What one role's handoff narrowed, a later role's may have back: every   *)
(* directive within what the goal, the profile and the shaper permit is    *)
(* admitted at any time (RoleDirectiveInForce: it never stacks).           *)
Base == [memory EXCEPT !.role = Undirected]
NarrowingIsNotForGood ==
  IsOpen(state) =>
    \A d \in Directive :
      Narrows(PlanOf(Base), d) => Admits(WithRole(memory, d)) /\ PlanOf(WithRole(memory, d)) = d

(* The gate lets a read through without a word only if every directive on  *)
(* record permits it, and denies none that they all permit (Gate).         *)
Permits(d, c) ==
  /\ d.scope # "none" /\ SourceOf(c) \in d.sources
  /\ c.kind = "read" /\ ~c.byId =>
       /\ NamesGoal(c) => c.project \in {"right", "every"}
       /\ ~NamesGoal(c) => c.project = "right"
       /\ NamesGoal(c) /\ d.scope = "goal" => c.goal = "right"
GateIsThePlan ==
  IsOpen(state) =>
    \A c \in Calls : ReadsMemory(c) =>
      /\ Gate(state, memory, c) = "allow" => \A d \in Directives : Permits(d, c)
      /\ Gate(state, memory, c) = "deny" => \E d \in Directives : ~Permits(d, c)

(* The reads that are noted are those that a plan can deny: no read is     *)
(* held against a plan without a trace, and nothing else is traced.        *)
NoMemory == [memory EXCEPT !.ceiling = [scope |-> "none", sources |-> {}], !.goal = Undirected,
                           !.handoff = Undirected, !.role = Undirected]
EvidenceIsOfGatedReads ==
  \A c \in Calls \ {[kind |-> "edit"]} :
    Evidence(state, c) <=> Gate(state, NoMemory, c) = "deny"

(* What may be read is what every directive on record permits, at the gate *)
(* and in what the gate leaves a trace of, and comes back with the role    *)
(* that had it (memoryscope.Resolve, Gate, Evidence).                      *)
MemoryIsNarrowest ==
  PlanIsNarrowest /\ NarrowingIsNotForGood /\ GateIsThePlan /\ EvidenceIsOfGatedReads
=============================================================================
