----------------------------- MODULE MCBindings -----------------------------
(***************************************************************************)
(* Instances of Bindings for TLC.                                          *)
(***************************************************************************)
EXTENDS BindingsProps, TLC

Symmetry == Permutations(Proc) \union Permutations(Workflows)

(* Prompts do not look at the clock, which stands still in their run.      *)
PromptsNext == Next /\ UNCHANGED now

PromptsInstance == Init /\ [][PromptsNext]_vars /\ PromptsFairness
=============================================================================
