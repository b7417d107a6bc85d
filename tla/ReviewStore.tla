---------------------------- MODULE ReviewStore ----------------------------
(***************************************************************************)
(* The review engine at work on one feature: processes that store results, *)
(* verdicts, exemptions and role records beside each other, and the stop   *)
(* hook, which blocks the agent on what a commit lacks.                    *)
(*                                                                         *)
(* A file takes the next free number of its head in two steps, a listing   *)
(* and a create that never replaces, so two writers may want one name.  A  *)
(* verdict that blocks is checked and stored under the lock of the feature;*)
(* a sweep holds the lock of its repository from before its checks until   *)
(* its record is stored.  A process may stop between any two steps; the    *)
(* kernel then frees its locks.  Files are never removed here.             *)
(***************************************************************************)
EXTENDS ReviewRules, TLC

CONSTANTS
  Reviewers,          \* the processes that store files
  Sessions,           \* the sessions of the agent
  Histories,          \* the histories a repository may have, each with its bounds
  MaxNumberAttempts,  \* how often a number is tried
  NoReviewer

ASSUME NoReviewerAssumption == NoReviewer \notin Reviewers

VARIABLES
  git,       \* the history
  files,     \* the files of the feature
  seat,      \* what each process is doing
  sweepLock, \* who sweeps the repository
  roundLock, \* who stores a blocking verdict
  asked,     \* the questions recorded as put, in each session
  put,       \* the questions that blocked a stop
  stops,     \* how often a stop was blocked, and how often it was asked
  hook       \* the stop hook at work

reviewVars == <<git, files, seat, sweepLock, roundLock, asked, put, stops, hook>>
hookVars == <<asked, put, stops, hook>>

NoSeat == [at |-> "idle", kind |-> "result", head |-> NoCommit, base |-> NoCommit, n |-> 0,
           says |-> "", also |-> "", of |-> 0, tries |-> 0]
NoHook == [at |-> "idle", session |-> NoReviewer, keys |-> {}, missing |-> {}]

ReviewInit ==
  /\ git \in Histories
  /\ files = git.stored
  /\ seat = [p \in Reviewers |-> NoSeat]
  /\ sweepLock = NoReviewer /\ roundLock = NoReviewer
  /\ asked = {} /\ put = {} /\ stops = [blocked |-> 0, asked |-> 0]
  /\ hook = NoHook

SeatAt(p, step) == seat[p].at = step
SeatMoves(p, step) == seat' = [seat EXCEPT ![p].at = step]
Ends(p) ==
  /\ seat' = [seat EXCEPT ![p] = NoSeat]
  /\ sweepLock' = IF sweepLock = p THEN NoReviewer ELSE sweepLock
  /\ roundLock' = IF roundLock = p THEN NoReviewer ELSE roundLock

(* What a process knows of its file when it begins.                        *)
Begun(step, file) ==
  [x \in DOMAIN NoSeat |->
     IF x = "at" THEN step ELSE IF x \in DOMAIN file THEN file[x] ELSE NoSeat[x]]
Starts(p, step, file) ==
  /\ SeatAt(p, "idle")
  /\ Cardinality(files \ git.stored) < git.bounds.files
  /\ seat' = [seat EXCEPT ![p] = Begun(step, file)]

OneCommit(head) == Parent(git, head) # NoCommit
Candidates == {git.head} \union {Branch(git)[i] : i \in DOMAIN Branch(git)}

----------------------------------------------------------------------------
(* What is asked for.  A reply that does not hold to its contract is       *)
(* refused before anything is listed, and changes nothing.  What comes     *)
(* before the listing reads git alone, which does not change, so the       *)
(* listing is the first step of most of them.                              *)
Record(p, head, base, says) ==
  /\ base \in git.ancestors[head] \ {head}
  /\ Starts(p, "creating", [kind |-> "result", head |-> head, base |-> base, n |-> NextNumber(files, head), says |-> says])
  /\ UNCHANGED <<git, files, sweepLock, roundLock, hookVars>>

Exempt(p, head) ==
  /\ OneCommit(head) /\ git.risk[head] = "none"
  /\ Starts(p, "creating", [kind |-> "exempt", head |-> head, base |-> Parent(git, head), n |-> NextNumber(files, head)])
  /\ UNCHANGED <<git, files, sweepLock, roundLock, hookVars>>

RecordPolisher(p, head) ==
  /\ OneCommit(head)
  /\ Starts(p, "creating", [kind |-> "polisher", head |-> head, base |-> Parent(git, head), n |-> NextNumber(files, head)])
  /\ UNCHANGED <<git, files, sweepLock, roundLock, hookVars>>

FiredSweeps(head) == {f \in Sweeps(files, head) : f.says = "fired"}

(* The report answers the latest sweep of the head that fired, and the     *)
(* commit it names is the sweep commit on top of it.                       *)
RecordSweeper(p, head, commit) ==
  /\ OneCommit(head) /\ FiredSweeps(head) # {}
  /\ commit # NoCommit => IsSweepCommit(git, head, commit)
  /\ Starts(p, "listing", [kind |-> "sweeper", head |-> head, base |-> Parent(git, head),
                           says |-> commit, of |-> Highest(FiredSweeps(head)).n])
  /\ UNCHANGED <<git, files, sweepLock, roundLock, hookVars>>

(* A second sweep of the repository does not wait.                         *)
Sweep(p, head) ==
  /\ OneCommit(head) /\ sweepLock = NoReviewer
  /\ Starts(p, "sweeping", [kind |-> "sweep", head |-> head, base |-> Parent(git, head)])
  /\ sweepLock' = p
  /\ UNCHANGED <<git, files, roundLock, hookVars>>

(* The checks ran; one that could not ends the sweep.  The working tree is *)
(* part of what they read, so two sweeps of a head may differ.             *)
Swept(p, says) ==
  /\ SeatAt(p, "sweeping")
  /\ \/ /\ seat' = [seat EXCEPT ![p].at = "listing", ![p].says = says]
        /\ UNCHANGED <<sweepLock, roundLock>>
     \/ Ends(p)
  /\ UNCHANGED <<git, files, hookVars>>

----------------------------------------------------------------------------
(* Storing under the next free number.                                     *)
List(p) ==
  /\ SeatAt(p, "listing")
  /\ seat' = [seat EXCEPT ![p].at = "creating", ![p].n = NextNumber(files, seat[p].head)]
  /\ UNCHANGED <<git, files, sweepLock, roundLock, hookVars>>

FileOf(p) ==
  [kind |-> seat[p].kind, head |-> seat[p].head, n |-> seat[p].n, base |-> seat[p].base,
   says |-> seat[p].says, also |-> seat[p].also, of |-> seat[p].of]
NameTaken(p) == Taken(files, seat[p].kind, seat[p].head, seat[p].n)

(* Mutant of Create: the file takes its place over another.                *)
CreateReplaces(p) ==
  /\ SeatAt(p, "creating")
  /\ files' = {f \in files : <<f.kind, f.head, f.n>> # <<seat[p].kind, seat[p].head, seat[p].n>>} \union {FileOf(p)}
  /\ Ends(p)
  /\ UNCHANGED <<git, hookVars>>

(* The file is linked into place, and stays when its directory could not   *)
(* be flushed.  A name that is taken is a verdict refused, or a number to  *)
(* try anew, until none stays free.                                        *)
Create(p) ==
  /\ SeatAt(p, "creating")
  /\ \/ /\ ~NameTaken(p)
        /\ files' = files \union {FileOf(p)}
        /\ Ends(p)
     \/ /\ NameTaken(p)
        /\ seat[p].kind # "verdict" /\ seat[p].tries + 1 < MaxNumberAttempts
        /\ seat' = [seat EXCEPT ![p].at = "listing", ![p].tries = @ + 1]
        /\ UNCHANGED <<files, sweepLock, roundLock>>
     \/ /\ NameTaken(p)
        /\ seat[p].kind = "verdict" \/ seat[p].tries + 1 >= MaxNumberAttempts
        /\ Ends(p)
        /\ UNCHANGED files
  /\ UNCHANGED <<git, hookVars>>

----------------------------------------------------------------------------
(* The verdict of the verifier.                                            *)
ResultOf(F, v) == CHOOSE r \in OfHead(F, "result", v.head) : r.n = v.n
BlockingIn(F) == {v \in F : v.kind = "verdict" /\ Decide(F, ResultOf(F, v)) = "blocks"}
Blocking == BlockingIn(files)

(* What a verifier may answer, told apart by what comes of it.             *)
Answers(says) ==
  CASE says = "none" -> {Unanswered}
    [] says = "severe" -> {[says |-> r, also |-> "not-run"] : r \in Reproductions}
    [] OTHER -> {[says |-> "reproduced", also |-> b] : b \in Reproductions}
                  \union {[says |-> "not-reproduced", also |-> "not-run"]}

(* Mutant of Verify: a verdict that blocks takes no lock.                  *)
VerifyUnlocked(p, r, answer) ==
  /\ r \in files /\ r.kind = "result"
  /\ Starts(p, IF DecideWith(r.says, answer) = "blocks" THEN "locked" ELSE "creating",
            [kind |-> "verdict", head |-> r.head, base |-> r.base, n |-> r.n, says |-> answer.says, also |-> answer.also])
  /\ UNCHANGED <<git, files, sweepLock, roundLock, hookVars>>

Verify(p, r, answer) ==
  /\ r \in files /\ r.kind = "result"
  /\ Starts(p, IF DecideWith(r.says, answer) = "blocks" THEN "locking" ELSE "creating",
            [kind |-> "verdict", head |-> r.head, base |-> r.base, n |-> r.n, says |-> answer.says, also |-> answer.also])
  /\ UNCHANGED <<git, files, sweepLock, roundLock, hookVars>>

TakeLock(p) ==
  /\ SeatAt(p, "locking") /\ roundLock = NoReviewer
  /\ SeatMoves(p, "locked")
  /\ roundLock' = p
  /\ UNCHANGED <<git, files, sweepLock, hookVars>>

GiveUpLock(p) ==
  /\ SeatAt(p, "locking") /\ roundLock # NoReviewer
  /\ Ends(p)
  /\ UNCHANGED <<git, files, hookVars>>

(* Mutant of SpentRound: only the result itself spends its round.          *)
SpentRoundBySelf(p) == \E v \in Blocking : v.head = seat[p].head /\ v.n = seat[p].n

(* A stored verdict that blocks another head of the same base.             *)
SpentRound(p) ==
  \E v \in Blocking :
    /\ <<v.head, v.n>> # <<seat[p].head, seat[p].n>>
    /\ v.base = seat[p].base /\ v.head # seat[p].head

CheckRound(p) ==
  /\ SeatAt(p, "locked")
  /\ \/ ~SpentRound(p) /\ SeatMoves(p, "creating") /\ UNCHANGED <<sweepLock, roundLock>>
     \/ SpentRound(p) /\ Ends(p)
  /\ UNCHANGED <<git, files, hookVars>>

Crash(p) ==
  /\ ~SeatAt(p, "idle")
  /\ Ends(p)
  /\ UNCHANGED <<git, files, hookVars>>

----------------------------------------------------------------------------
(* The stop hook.  While the agent goes on because a hook blocked its stop *)
(* nothing is asked, which changes nothing.                                *)
Question == NextUnreviewed(git, files)
Keys(s, q) == {<<s, q.head, need>> : need \in q.needs}

AskStop(s) ==
  /\ hook = NoHook /\ stops.asked < git.bounds.stops
  /\ Question.head # NoCommit
  /\ stops' = [stops EXCEPT !.asked = @ + 1]
  /\ hook' = IF Keys(s, Question) \subseteq asked THEN NoHook
             ELSE [at |-> "adding", session |-> s, keys |-> Keys(s, Question), missing |-> Keys(s, Question) \ asked]
  /\ UNCHANGED <<git, files, seat, sweepLock, roundLock, asked, put>>

(* A question is recorded, or could not be, and then the stop passes.      *)
AddAsked(k) ==
  /\ hook.at = "adding" /\ k \in hook.missing
  /\ \/ asked' = asked \union {k} /\ hook' = [hook EXCEPT !.missing = @ \ {k}]
     \/ asked' = asked /\ hook' = NoHook
  /\ UNCHANGED <<git, files, seat, sweepLock, roundLock, put, stops>>

(* Mutant of BlockStop: the stop is blocked before the questions are       *)
(* recorded.                                                               *)
BlockStopEarly ==
  /\ hook.at = "adding"
  /\ put' = put \union hook.keys
  /\ stops' = [stops EXCEPT !.blocked = @ + 1]
  /\ hook' = NoHook
  /\ UNCHANGED <<git, files, seat, sweepLock, roundLock, asked>>

BlockStop ==
  /\ hook.at = "adding" /\ hook.missing = {}
  /\ put' = put \union hook.keys
  /\ stops' = [stops EXCEPT !.blocked = @ + 1]
  /\ hook' = NoHook
  /\ UNCHANGED <<git, files, seat, sweepLock, roundLock, asked>>

CrashStop ==
  /\ hook # NoHook
  /\ hook' = NoHook
  /\ UNCHANGED <<git, files, seat, sweepLock, roundLock, asked, put, stops>>

----------------------------------------------------------------------------
ReviewNext ==
  \/ \E p \in Reviewers :
       \/ \E head \in Candidates :
            \/ \E base \in Commits, says \in Findings : Record(p, head, base, says)
            \/ Exempt(p, head) \/ RecordPolisher(p, head) \/ Sweep(p, head)
            \/ \E commit \in Commits \union {NoCommit} : RecordSweeper(p, head, commit)
       \/ \E says \in {"clean", "fired"} : Swept(p, says)
       \/ List(p) \/ Create(p)
       \/ \E r \in files : \E answer \in Answers(r.says) : Verify(p, r, answer)
       \/ TakeLock(p) \/ GiveUpLock(p) \/ CheckRound(p)
       \/ Crash(p)
  \/ \E s \in Sessions : AskStop(s)
  \/ \E k \in hook.missing : AddAsked(k)
  \/ BlockStop
  \/ CrashStop

(* A stored file is named by its kind, two commits and a number; so are    *)
(* those a history starts with.                                            *)
FileTyped(f) == f.kind \in Kinds /\ f.head \in Commits /\ f.base \in Commits /\ f.n \in Nat \ {0}
ReviewTypeOK ==
  /\ git \in Histories
  /\ \A f \in files : FileTyped(f)
  /\ \A p \in Reviewers : seat[p].at \in {"idle", "sweeping", "listing", "creating", "locking", "locked"}
  /\ sweepLock \in Reviewers \union {NoReviewer} /\ roundLock \in Reviewers \union {NoReviewer}

----------------------------------------------------------------------------
Delivery == [base |-> Parent(git, Branch(git)[1]), head |-> git.head]
Delivers == Branch(git) # <<>> /\ ChainClears(git, files, Delivery.base, Delivery.head)

(* A candidate is corrected at most once: two stored verdicts that block   *)
(* never stand on two heads of one base, whichever verifiers race          *)
(* (app/verify.go).                                                        *)
OneRoundIn(F) == \A v, w \in BlockingIn(F) : v.base = w.base => v.head = w.head
OneCorrectionRound == OneRoundIn(files)

(* No two files have one name, so nothing stored was written over          *)
(* (app/service.go, store).                                                *)
NamesOwnIn(F) == \A e, f \in F : <<e.kind, e.head, e.n>> = <<f.kind, f.head, f.n>> => e = f
NamesAreOwn == NamesOwnIn(files)

(* Every verdict is of a result that is stored (Verify).                   *)
VerdictsHaveResults(F) ==
  \A v \in F : v.kind = "verdict" => \E r \in OfHead(F, "result", v.head) : r.n = v.n

(* The files there were before were stored by the program too.             *)
ASSUME HistoriesAssumption ==
  \A g \in Histories :
    NamesOwnIn(g.stored) /\ VerdictsHaveResults(g.stored) /\ OneRoundIn(g.stored)
ASSUME HistoriesTyped ==
  \A g \in Histories :
    /\ g.head \in Commits /\ \A c \in Commits : g.line[c] \in Seq(Commits)
    /\ IsFiniteSet(g.stored) /\ \A f \in g.stored : FileTyped(f)

(* As git tells it: the first parents of a commit are it and those of the  *)
(* next one, and what is before a commit is before what comes after it.    *)
(* Each of the exemptions there were was of one commit alone.              *)
ASSUME HistoriesOfGit ==
  \A g \in Histories :
    /\ \A c \in Commits :
         /\ g.line[c] # <<>> /\ g.line[c][1] = c
         /\ \A i \in DOMAIN g.line[c] : g.line[g.line[c][i]] = SubSeq(g.line[c], i, Len(g.line[c]))
         /\ \A d \in g.ancestors[c] : g.ancestors[d] \subseteq g.ancestors[c]
         /\ g.risk[c] \in {"none", "named", "unreadable"}
    /\ \A f \in g.stored : f.kind = "exempt" => f.base = Parent(g, f.head)

(* A head that a stored verdict blocked is never cleared, whatever was     *)
(* stored after it (check.go, Clearance).                                  *)
BlockedStaysBlocked == \A v \in Blocking : ~Cleared(git, files, v.head)

(* When the chain of a delivery clears, each of its commits is under a     *)
(* review that is clear, or an exemption of its own when it names no risk, *)
(* or only keeps records; it was swept, the last sweep that fired was      *)
(* answered, and what it risks was polished (app/chain.go).                *)
Reviewed(c) ==
  \E f \in files :
    /\ f.kind = "result" /\ f.head \in FirstLine(git, git.head)
    /\ c \in Before(git, f.head, f.base)
    /\ \A r \in OfHead(files, "result", f.head) : Decide(files, r) = "clear"
Exempted(c) == git.risk[c] = "none" /\ OfHead(files, "exempt", c) # {} /\ OfHead(files, "result", c) = {}
SweptAndAnswered(c) ==
  /\ Sweeps(files, c) # {} \/ \E f \in files : f.kind = "sweeper" /\ f.says = c
  /\ \A s \in FiredSweeps(c) :
       \/ \E later \in Sweeps(files, c) : later.n > s.n
       \/ \E f \in OfHead(files, "sweeper", c) : f.of = s.n
DeliveredIsCovered ==
  Delivers => \A c \in Before(git, git.head, Delivery.base) :
                \/ Passive(git, c)
                \/ /\ Reviewed(c) \/ Exempted(c)
                   /\ git.risk[c] # "unreadable"
                   /\ SweptAndAnswered(c)
                   /\ git.risk[c] = "named" => OfHead(files, "polisher", c) # {}

(* The stop hook asks nothing of a branch whose delivery clears: the two   *)
(* walks, of the hook and of the gate, agree (app/unreviewed.go,           *)
(* app/chain.go).                                                          *)
StopAgreesWithCheck == Delivers => Question.head = NoCommit

(* A merge whose landing is verified brings the default branch nothing but *)
(* what the reviewed head holds over the base (app/landing.go).            *)
Merges == [first : git.ancestors[git.main], head : {git.head}, edited : BOOLEAN]
TreeOf(merge) ==
  git.ancestors[merge.first] \union git.ancestors[merge.head] \union (IF merge.edited THEN {NoCommit} ELSE {})
LandingHoldsOnlyReviewed ==
  \A merge \in Merges :
    Lands(git, files, merge) =>
      \E base \in Commits :
        /\ ChainClears(git, files, base, merge.head)
        /\ TreeOf(merge) = git.ancestors[base] \union (git.ancestors[merge.head] \ git.ancestors[base])

(* A stop is blocked at most once for each question of a session, however  *)
(* the hook stops half way (app/stop.go).                                  *)
BlockedOncePerQuestion == stops.blocked <= Cardinality(put)

(* What is stored is never written over, blocks one candidate of a base at *)
(* most and for good, and is asked for once (app/service.go, verify.go,    *)
(* check.go, stop.go).                                                     *)
StoredAreSound ==
  OneCorrectionRound /\ NamesAreOwn /\ BlockedStaysBlocked /\ BlockedOncePerQuestion

(* What clears, is delivered and lands was reviewed, swept and answered    *)
(* (app/chain.go, unreviewed.go, landing.go).                              *)
ReviewsAreSound == DeliveredIsCovered /\ StopAgreesWithCheck /\ LandingHoldsOnlyReviewed
=============================================================================
