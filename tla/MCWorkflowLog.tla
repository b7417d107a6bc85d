---------------------------- MODULE MCWorkflowLog ----------------------------
(***************************************************************************)
(* Instances of WorkflowLog for TLC: two stages, two orders of them, and a *)
(* log of the oldest version left on disk.                                 *)
(***************************************************************************)
EXTENDS WorkflowLogProps, TLC

MCStages == {"s1", "s2"}
MCOrders == {<<"s1", "s2">>, <<"s2", "s1">>}
MCGoals == {1, 2}
OneGoal == {1}
OneOrder == {<<"s1", "s2">>}

LegacyCreated ==
  [NewEvent(<<>>, "created") EXCEPT !.version = NameOnly, !.goal = 1]
LegacyStarted ==
  [NewEvent(<<LegacyCreated>>, "started") EXCEPT !.version = NameOnly]
MCLegacyLogs == {<<LegacyCreated, LegacyStarted>>}
NoLegacyLogs == {}

Symmetry == Permutations(Proc)
=============================================================================
