------------------------------ MODULE MCStores ------------------------------
(***************************************************************************)
(* What keeps work for later, checked in one run: the pages of the vault   *)
(* (Promotion) and the review of a feature (ReviewStore).  They share no   *)
(* state, so a behaviour is one of theirs, told by `part`.  The first of   *)
(* two observations may be superseded by the second.  Each history of the  *)
(* reviews is a case of its own, with bounds that let it happen.           *)
(***************************************************************************)
EXTENDS Promotion, ReviewStore

CONSTANTS o1, o2, Parts

VARIABLE part

MCSuccessor == (o1 :> o2) @@ (o2 :> NoObservation)

----------------------------------------------------------------------------
(* Two commits a and b of a branch that left m, and n, which was added to  *)
(* the default branch since.                                               *)
File(kind, head, n, base, says) ==
  [kind |-> kind, head |-> head, n |-> n, base |-> base, says |-> says, also |-> "", of |-> 0]
History(riskOfA, riskOfB, passive, sweeping, stored, more, stopped) ==
  [line |-> "m" :> <<"m">> @@ "n" :> <<"n", "m">> @@ "a" :> <<"a", "m">> @@ "b" :> <<"b", "a", "m">>,
   ancestors |-> "m" :> {"m"} @@ "n" :> {"n", "m"} @@ "a" :> {"a", "m"} @@ "b" :> {"b", "a", "m"},
   risk |-> "m" :> "unreadable" @@ "n" :> "unreadable" @@ "a" :> riskOfA @@ "b" :> riskOfB,
   passive |-> passive, sweeping |-> sweeping, main |-> "n", head |-> "b",
   stored |-> stored, bounds |-> [files |-> more, stops |-> stopped]]

SweptA == File("sweep", "a", 1, "m", "clean")
SweptB == File("sweep", "b", 1, "a", "clean")
FiredA == File("sweep", "a", 1, "m", "fired")

MCHistories == {
  History("none", "none", {}, {"b"}, {FiredA}, 2, 0),
  History("none", "none", {}, {"b"}, {FiredA, File("result", "b", 1, "m", "none")}, 1, 2),
  History("none", "none", {}, {}, {SweptA, SweptB}, 2, 0),
  History("none", "named", {}, {}, {SweptA, SweptB, File("result", "b", 2, "m", "severe")}, 2, 0),
  History("named", "none", {"b"}, {}, {SweptA, File("polisher", "a", 2, "m", "")}, 1, 1),
  History("unreadable", "none", {}, {}, {SweptB}, 1, 1),
  History("none", "none", {}, {},
          {File("result", "a", 1, "m", "severe"), File("result", "b", 1, "m", "doubted")}, 2, 0) }

----------------------------------------------------------------------------
StoresInit ==
  /\ part \in Parts
  /\ PromotionInit /\ ReviewInit
  /\ part # "pages" => pages = <<>> /\ memory[o1].project = CHOOSE q \in Projects : TRUE
  /\ part # "reviews" => git = CHOOSE g \in Histories : TRUE

StoresNext ==
  /\ \/ part = "pages" /\ PromotionNext /\ UNCHANGED reviewVars
     \/ part = "reviews" /\ ReviewNext /\ UNCHANGED promotionVars
  /\ UNCHANGED part

StoresSpec == StoresInit /\ [][StoresNext]_<<promotionVars, reviewVars, part>>

Symmetry == Permutations(Reviewers)

StoresTypeOK == PromotionTypeOK /\ ReviewTypeOK

(* The promises of the part that moves; the rest stands still.             *)
PagesHold == part = "pages" => PagesAreSound
StoredHold == part = "reviews" => StoredAreSound
ReviewsHold == part = "reviews" => ReviewsAreSound
=============================================================================
