------------------------------- MODULE MCReads -------------------------------
(***************************************************************************)
(* Decisions taken from files that others write meanwhile, checked in one  *)
(* run: a repository's binding as binds, unbinds and prompts find it       *)
(* (Bindings), the embedding index as queries find it (VectorIndex), a plan*)
(* and its goal as a clearance finds them (Clearance), and a document that *)
(* must lie in the worktree (ContainedRead).  The parts share no state     *)
(* here, so a behaviour is one of theirs, told by `part`.                  *)
(***************************************************************************)
EXTENDS BindingsProps, VectorIndex, Clearance, ContainedRead, TLC

VARIABLE part

(* The first observation is of a goal's topic, the second of none.         *)
MCTopicGoal == [o \in Observations |-> IF o = 1 THEN "g1" ELSE NoGoal]

(* The documents of the clearance: a plan of each version, one that commits*)
(* to what a goal excludes as a stage or as a duty, one with an invisible  *)
(* criterion, and one that estimates a stage twice.                        *)
Criterion(text) == [criterion |-> text, ways |-> [check |-> "t"]]

Versions ==
  [criteria |-> 1, flagged |-> 2, directed |-> 4, clean |-> 2, unseen |-> 2,
   estimated |-> 3, dutiful |-> 3]

Stages(name) ==
  CASE name = "clean" -> <<"s">> [] name = "dutiful" -> <<"s", "y">> [] OTHER -> <<"s", "x">>

APlan(name, v) ==
  [version |-> v, raw |-> "plain", project |-> "p", goal |-> "g", architecture |-> "a",
   members |-> AllowedFields(v), shape |-> IF v = 1 THEN "strings" ELSE "items",
   stages |-> Stages(name), outOfScope |-> <<"o">>,
   acceptance |-> <<Criterion(IF name = "unseen" THEN "hidden" ELSE "c")>>,
   roles |-> <<[role |-> "r", duty |-> IF name = "dutiful" THEN "x" ELSE "d"]>>,
   tests |-> <<"t">>, risks |-> <<>>,
   estimates |-> [i \in 1..2 |->
     [stage |-> CASE i = 2 \/ name = "estimated" -> "s" [] i = 1 /\ name = "dutiful" -> "y"
                  [] OTHER -> "x",
      low |-> i, high |-> 2]],
   memory |-> "m", deliveryLimit |-> "l"]

AllPlans == [name \in DOMAIN Versions |-> APlan(name, Versions[name])]

AGoal(v, nonGoal) ==
  [version |-> v, raw |-> "plain", members |-> GoalFields(v), project |-> "p",
   goal |-> "g", scope |-> "s", nonGoals |-> <<nonGoal>>, memory |-> "m"]

AllGoals == [excluding |-> AGoal(2, "x"), other |-> AGoal(3, "n")]

TreeOf(top, dir) == [toplevel |-> top, gitDir |-> dir, commonDir |-> "d"]

AllTrees == {TreeOf("w", "d1"), TreeOf("w", "d2"), TreeOf("v", "d1"), Nothing}

-----------------------------------------------------------------------------
(* A clearance begins with a plan that raises a flag, and is bounded by one*)
(* edit and two dialogs, or by two edits and one dialog.  The parts that do*)
(* not move begin in one state, and stand still.                           *)
ReadsInit ==
  /\ part \in {"binding", "index", "clearing", "reading"}
  /\ Init /\ IndexInit /\ ClearanceInit /\ ContainedInit
  /\ part # "index" => memory = [o \in Observations |-> NotThere]
  /\ disk = [handoff |-> "flagged", goal |-> "excluding", tree |-> TreeOf("w", "d1")]
  /\ edits + asked = 1 /\ (part # "clearing" => edits = 1)
  /\ part # "reading" => place = CHOOSE p \in [RegularFiles -> Sides] : IsInjective(p)

readsVars == <<vars, indexVars, clearanceVars, containedVars, part>>

ReadsStill ==
  /\ part # "binding" => UNCHANGED vars
  /\ part # "index" => UNCHANGED indexVars
  /\ part # "clearing" => UNCHANGED clearanceVars
  /\ part # "reading" => UNCHANGED containedVars

ReadsNext ==
  /\ UNCHANGED part
  /\ \/ part = "binding" /\ Next
     \/ part = "index" /\ IndexNext
     \/ part = "clearing" /\ ClearanceNext
     \/ part = "reading" /\ ContainedNext
  /\ ReadsStill

ReadsSpec == ReadsInit /\ [][ReadsNext]_readsVars

Symmetry == Permutations(Proc) \union Permutations(Workflows)

(* The promises of the part that moves; the rest stands still.             *)
IndexHolds == part = "index" => IndexTypeOK /\ RecallHolds
ClearingHolds ==
  CASE part = "clearing" -> ClearanceIsSound
    [] part = "reading" -> ReadsStayInside
    [] OTHER -> TRUE
=============================================================================
