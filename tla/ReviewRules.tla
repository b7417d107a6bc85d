---------------------------- MODULE ReviewRules ----------------------------
(***************************************************************************)
(* What the review engine decides from a history of commits and the files  *)
(* stored for one feature: whether a finding blocks, what a commit lacks,  *)
(* whether a head is cleared and a chain of reviews covers a delivery,     *)
(* which commit the stop hook asks about, and whether a merge lands what   *)
(* was reviewed.                                                           *)
(*                                                                         *)
(* A history g is a record, told by git: line (for each commit, it and its *)
(* first parents upwards), ancestors (for each commit, it and all commits  *)
(* before it), risk (what its Risk trailer declares), passive (the commits *)
(* that only touch tasks, results and receipts), sweeping (those whose     *)
(* subject starts "chore(sweep)"), main (the tip of the default branch),   *)
(* head (HEAD), stored (the files there were before) and bounds (how many  *)
(* more files are stored, and how often the agent stops).                  *)
(* Commits never change, so a stored binding always holds to git again.    *)
(*                                                                         *)
(* A stored file is a record: kind and head and n are its name; base is    *)
(* the base of its binding; says and also are its content; of is the       *)
(* number of the sweep a sweeper record answers.  The findings of a result *)
(* are told apart by the worst of them: none that is severe, a severe one  *)
(* the candidate brought, or a severe one in doubt.                        *)
(***************************************************************************)
EXTENDS Naturals, Sequences, FiniteSets

CONSTANTS
  Commits,   \* the commits there are
  NoCommit   \* the parent of a first commit, and a sweeper record that names none

ASSUME NoCommitIsNone == NoCommit \notin Commits
ASSUME CommitsAssumption == IsFiniteSet(Commits)

Findings == {"none", "severe", "doubted"}
Reproductions == {"reproduced", "not-reproduced", "not-run"}
Kinds == {"result", "verdict", "exempt", "sweep", "sweeper", "polisher"}

----------------------------------------------------------------------------
(* The history.                                                            *)
Steps == 0 .. Cardinality(Commits)
Parent(g, c) == IF Len(g.line[c]) > 1 THEN g.line[c][2] ELSE NoCommit
FirstLine(g, c) == IF c = NoCommit THEN {} ELSE {g.line[c][i] : i \in DOMAIN g.line[c]}
Before(g, first, start) == {c \in FirstLine(g, first) : start # c /\ start \in FirstLine(g, c)}

MergeBases(g, x, y) ==
  LET common == g.ancestors[x] \intersect g.ancestors[y]
  IN {c \in common : ~\E d \in common \ {c} : c \in g.ancestors[d]}

(* The branch: the first-parent line of HEAD that the default branch has   *)
(* not, oldest first.                                                      *)
Branch(g) ==
  LET n == Cardinality(FirstLine(g, g.head) \ g.ancestors[g.main])
  IN [i \in 1 .. n |-> g.line[g.head][n + 1 - i]]

----------------------------------------------------------------------------
(* The files of a feature.                                                 *)
OfHead(F, kind, head) == {f \in F : f.kind = kind /\ f.head = head}
Lowest(S) == CHOOSE f \in S : \A e \in S : f.n <= e.n
Highest(S) == CHOOSE f \in S : \A e \in S : f.n >= e.n
Taken(F, kind, head, n) == \E f \in OfHead(F, kind, head) : f.n = n

NumbersOf(F, head) == {f.n : f \in {e \in F : e.head = head}}
NextNumber(F, head) ==
  1 + (IF NumbersOf(F, head) = {} THEN 0 ELSE CHOOSE n \in NumbersOf(F, head) : \A m \in NumbersOf(F, head) : m <= n)

VerdictsOf(F, r) == {v \in OfHead(F, "verdict", r.head) : v.n = r.n}

(* What comes of the worst finding of a result under a verdict: a finding  *)
(* in doubt that the base has too is of the base, and is carried.          *)
FindingFate(says, v) ==
  IF says = "doubted" /\ v.says # "not-reproduced" /\ v.also # "not-reproduced"
  THEN IF v.also = "reproduced" THEN "of-the-base" ELSE "unchecked"
  ELSE CASE v.says = "reproduced" -> "blocks"
         [] v.says = "not-reproduced" -> "refuted"
         [] OTHER -> "unchecked"

DecideWith(says, v) ==
  IF says = "none" THEN "clear"
  ELSE CASE FindingFate(says, v) = "blocks" -> "blocks"
         [] FindingFate(says, v) = "unchecked" -> "unverified"
         [] OTHER -> "clear"

Unanswered == [says |-> "not-run", also |-> "not-run"]
Decide(F, r) ==
  DecideWith(r.says, IF VerdictsOf(F, r) = {} THEN Unanswered ELSE CHOOSE v \in VerdictsOf(F, r) : TRUE)

----------------------------------------------------------------------------
(* What a commit lacks.                                                    *)
Passive(g, c) == g.risk[c] = "none" /\ c \in g.passive

Sweeps(F, c) == OfHead(F, "sweep", c)
LatestSweep(F, c) == Highest(Sweeps(F, c))

(* Mutant of Answered: an answer to any sweep of the head will do.         *)
AnsweredAny(F, c) == OfHead(F, "sweeper", c) # {}

Answered(F, c) == \E f \in OfHead(F, "sweeper", c) : f.of = LatestSweep(F, c).n
Polished(F, c) == OfHead(F, "polisher", c) # {}

IsSweepCommit(g, head, c) == Parent(g, c) = head /\ c \in g.sweeping
NamedBySweeper(g, F, c) ==
  /\ Parent(g, c) # NoCommit
  /\ IsSweepCommit(g, Parent(g, c), c)
  /\ \E f \in OfHead(F, "sweeper", Parent(g, c)) : f.says = c

SweepNeed(g, F, c) ==
  CASE Sweeps(F, c) = {} /\ ~NamedBySweeper(g, F, c) -> {"sweep"}
    [] g.risk[c] # "unreadable" /\ Sweeps(F, c) # {} /\ LatestSweep(F, c).says = "fired" /\ ~Answered(F, c) -> {"sweeper"}
    [] OTHER -> {}

(* A commit that does not declare its risk is asked for that and its sweep *)
(* alone.  `coverage` says whether its review is asked for too.            *)
Needs(g, F, c, coverage) ==
  CASE Passive(g, c) -> {}
    [] g.risk[c] = "unreadable" -> {"risk"} \union SweepNeed(g, F, c)
    [] OTHER ->
         SweepNeed(g, F, c)
           \union (IF g.risk[c] = "named" /\ ~Polished(F, c) THEN {"polisher"} ELSE {})
           \union (IF coverage THEN {"review"} ELSE {})

----------------------------------------------------------------------------
(* Whether a head, a chain and a landing clear.                            *)

(* Mutant of ClearedBy: an exemption is enough beside a result.            *)
ClearedByExemption(F, results, exempts) ==
  exempts # {} \/ (results # {} /\ \A r \in results : Decide(F, r) = "clear")

(* A head with a result is decided by its results alone.                   *)
ClearedBy(F, results, exempts) ==
  \/ results = {} /\ exempts # {}
  \/ results # {} /\ \A r \in results : Decide(F, r) = "clear"

Cleared(g, F, c) ==
  LET results == OfHead(F, "result", c)
      exempts == OfHead(F, "exempt", c)
  IN /\ Needs(g, F, c, FALSE) = {}
     /\ exempts # {} => g.risk[c] # "named"
     /\ \/ Passive(g, c) /\ results = {} /\ exempts = {}
        \/ ClearedBy(F, results, exempts)

(* The base of the range a chain follows from c.                           *)
Start(g, F, c) ==
  IF OfHead(F, "result", c) # {} THEN Lowest(OfHead(F, "result", c)).base
  ELSE IF OfHead(F, "exempt", c) # {} THEN Lowest(OfHead(F, "exempt", c)).base
  ELSE Parent(g, c)

(* Mutant of InsideRange: the commits inside a range lack nothing.         *)
InsideRangeOpen(g, F, first, start) == start \in FirstLine(g, first)

(* The commits a range covers besides its head lack nothing but a review,  *)
(* and the walk by first parents down to its start gets there.             *)
InsideRange(g, F, first, start) ==
  /\ start \in FirstLine(g, first)
  /\ \A c \in Before(g, first, start) : Needs(g, F, c, FALSE) = {}

Follows(g, F, c) == Cleared(g, F, c) /\ InsideRange(g, F, Parent(g, c), Start(g, F, c))

(* The points the walk back from head stops at, NoCommit once it is        *)
(* refused.  A range that is followed starts at a first parent further     *)
(* down, so the walk never comes back to a point it passed.                *)
Walk(g, F, base, head) ==
  LET walk[i \in Steps] ==
        IF i = 0 THEN head
        ELSE LET point == walk[i - 1] IN
             CASE point = NoCommit -> NoCommit
               [] i > 1 /\ point = base -> base
               [] OTHER -> IF Follows(g, F, point) THEN Start(g, F, point) ELSE NoCommit
  IN walk
ChainClears(g, F, base, head) == \E i \in Steps \ {0} : Walk(g, F, base, head)[i] = base

(* Mutant of TreeLands: what the merge lands is not looked at.             *)
TreeLandsAny(g, merge) == TRUE

(* A merge is [first, head, edited]: its tree holds what both parents      *)
(* hold, and a change of its own when it was edited.                       *)
TreeLands(g, merge) ==
  /\ ~merge.edited
  /\ g.ancestors[merge.first] \subseteq g.ancestors[merge.head]

Lands(g, F, merge) ==
  \E base \in Commits :
    /\ MergeBases(g, merge.first, merge.head) = {base}
    /\ ChainClears(g, F, base, merge.head)
    /\ TreeLands(g, merge)

----------------------------------------------------------------------------
(* What the stop hook asks.                                                *)
Links(g, F) ==
  LET own == {Branch(g)[i] : i \in DOMAIN Branch(g)}
  IN {<<f.base, f.head>> : f \in {e \in F : e.kind \in {"result", "exempt"} /\ e.head \in own}}
       \union {<<Parent(g, c), c>> : c \in {d \in own : Passive(g, d)}}

Reached(g, F) ==
  LET links == Links(g, F)
      of[i \in Steps] ==
        IF i = 0 THEN {Parent(g, Branch(g)[1])}
        ELSE LET before == of[i - 1] IN before \union {l[2] : l \in {k \in links : k[1] \in before}}
  IN of[Cardinality(Commits)]

(* The place of the first commit after the last one a review reaches.      *)
FirstUnreviewed(g, F) ==
  LET reached == {i \in DOMAIN Branch(g) : Branch(g)[i] \in Reached(g, F)}
  IN IF reached = {} THEN 1 ELSE 1 + (CHOOSE i \in reached : \A j \in reached : j <= i)

NeedsAt(g, F, i) == Needs(g, F, Branch(g)[i], i = FirstUnreviewed(g, F))

(* The first commit of the branch that lacks anything, and what: none, as  *)
(* no head, when nothing does.                                             *)
NextUnreviewed(g, F) ==
  LET lacking == {i \in DOMAIN Branch(g) : NeedsAt(g, F, i) # {}}
      i == CHOOSE j \in lacking : \A k \in lacking : j <= k
  IN IF Branch(g) = <<>> \/ Parent(g, Branch(g)[1]) = NoCommit \/ lacking = {}
     THEN [head |-> NoCommit, needs |-> {}]
     ELSE [head |-> Branch(g)[i], needs |-> NeedsAt(g, F, i)]
=============================================================================
