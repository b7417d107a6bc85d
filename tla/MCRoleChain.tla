----------------------------- MODULE MCRoleChain -----------------------------
(***************************************************************************)
(* Instances of RoleChain for TLC: a few handoffs of both versions and     *)
(* both outcomes, to race with.                                            *)
(***************************************************************************)
EXTENDS RoleChainProps, TLC

FewHandoffs ==
  {h \in Handoff :
     /\ h.payload = "work"
     /\ <<h.from, h.to>> \in {<<"prototyper", "shaper">>, <<"shaper", "estimator">>}
     /\ h.status = "interrupted" <=> h.version = 1}

Symmetry == Permutations(Proc) \union Permutations(Contents)
=============================================================================
