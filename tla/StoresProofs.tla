----------------------------- MODULE StoresProofs -----------------------------
(***************************************************************************)
(* Theorems about what MCStores checks.  The review of a feature           *)
(* (ReviewStore), for any number of processes and sessions and any history *)
(* whose stored files the program stored: the inductive invariant ties     *)
(* what a process is about to store to the lock it holds and to the result *)
(* it answers; ReviewTypes says that every name it gives a file is a commit*)
(* and a number.  The pages of the vault (Promotion): VaultInv, for any    *)
(* number of processes, says what each knows where it stands; AloneInv,    *)
(* for one process, ties the pages to their entries, to the revisions of   *)
(* Engram and to what the process has still to promote.                    *)
(* The last section follows the walk of a chain down the first parents and *)
(* the links of the stop hook up again: a head that clears, or is let end, *)
(* is covered by verdicts down to the base of its branch.                  *)
(***************************************************************************)
EXTENDS MCStores, FiniteSetTheorems, WellFoundedInduction, TLAPS

(* The result a file, or a file to be, answers; what it makes of it.       *)
HasResult(F, s) == \E r \in OfHead(F, "result", s.head) : r.n = s.n
Blocks(F, s) ==
  /\ s.kind = "verdict"
  /\ \E r \in OfHead(F, "result", s.head) : r.n = s.n /\ DecideWith(r.says, s) = "blocks"

(* What blocks the base of s blocks the head of s.                         *)
Alone(F, s) == \A v \in F : Blocks(F, v) /\ v.base = s.base => v.head = s.head

FilesOK(F) ==
  /\ NamesOwnIn(F) /\ VerdictsHaveResults(F)
  /\ \A v, w \in F : Blocks(F, v) /\ Blocks(F, w) /\ v.base = w.base => v.head = w.head

(* A process that will store a verdict that blocks holds the lock from     *)
(* before it looked for another, and has found none.                       *)
SeatOf(s) ==
  [at |-> s.at, kind |-> s.kind, head |-> s.head, base |-> s.base, n |-> s.n,
   says |-> s.says, also |-> s.also, of |-> s.of, tries |-> s.tries]
SeatOK(F, lock, p, s) ==
  /\ s = SeatOf(s)
  /\ s.at \in {"sweeping", "listing"} => s.kind # "verdict"
  /\ s.at \in {"locking", "locked"} => Blocks(F, s)
  /\ s.at = "creating" /\ s.kind = "verdict" => HasResult(F, s)
  /\ lock = p <=> s.at = "locked" \/ (s.at = "creating" /\ Blocks(F, s))
  /\ s.at = "creating" /\ Blocks(F, s) => Alone(F, s)

SeatsOK ==
  /\ seat = [p \in Reviewers |-> seat[p]]
  /\ \A p \in Reviewers : SeatOK(files, roundLock, p, seat[p])

(* A question the hook is going to put was never put: it is not recorded,  *)
(* and what was put is.                                                    *)
HookOK ==
  /\ stops.blocked \in Nat /\ DOMAIN stops = {"blocked", "asked"}
  /\ put \subseteq asked /\ IsFiniteSet(put) /\ stops.blocked <= Cardinality(put)
  /\ DOMAIN hook = {"at", "session", "keys", "missing"}
  /\ hook.at = "adding" =>
       /\ IsFiniteSet(hook.keys) /\ hook.keys \ hook.missing \subseteq asked
       /\ ~(hook.keys \subseteq put)

ReviewInv == FilesOK(files) /\ SeatsOK /\ HookOK

-----------------------------------------------------------------------------
(* Files.                                                                  *)

LEMMA SameFate ==
  ASSUME NEW says, NEW v, NEW w, v.says = w.says, v.also = w.also
  PROVE  DecideWith(says, v) = DecideWith(says, w)
<1>1. FindingFate(says, v) = FindingFate(says, w)
  BY DEF FindingFate
<1> QED BY <1>1 DEF DecideWith

(* A verdict that blocks is one whose own result it finds severe.          *)
LEMMA BlockingIs ==
  ASSUME NEW F, NamesOwnIn(F), VerdictsHaveResults(F), NEW v \in F
  PROVE  v \in BlockingIn(F) <=> Blocks(F, v)
<1>1. CASE v.kind # "verdict"
  BY <1>1 DEF BlockingIn, Blocks
<1>2. CASE v.kind = "verdict"
  <2>1. PICK r \in OfHead(F, "result", v.head) : r.n = v.n
    BY <1>2 DEF VerdictsHaveResults
  <2>2. \A e \in OfHead(F, "result", v.head) : e.n = v.n => e = r
    BY <2>1 DEF NamesOwnIn, OfHead
  <2>3. ResultOf(F, v) = r
    BY <2>1, <2>2 DEF ResultOf
  <2>4. VerdictsOf(F, r) = {v}
    BY <1>2, <2>1 DEF VerdictsOf, OfHead, NamesOwnIn
  <2>5. Decide(F, r) = DecideWith(r.says, v)
    <3>1. (CHOOSE w \in {v} : TRUE) = v /\ {v} # {}
      OBVIOUS
    <3> QED BY <2>4, <3>1 DEF Decide
  <2>6. Blocks(F, v) <=> DecideWith(r.says, v) = "blocks"
    BY <1>2, <2>1, <2>2 DEF Blocks
  <2> QED BY <1>2, <2>3, <2>5, <2>6 DEF BlockingIn
<1> QED BY <1>1, <1>2

(* A file under a name of its own changes nothing for what was stored, or  *)
(* has its result stored.                                                  *)
LEMMA BlocksKept ==
  ASSUME NEW F, NEW f, ~Taken(F, f.kind, f.head, f.n), NEW s, s.kind = "verdict" => HasResult(F, s)
  PROVE  Blocks(F \union {f}, s) <=> Blocks(F, s)
<1>1. CASE s.kind # "verdict"
  BY <1>1 DEF Blocks
<1>2. CASE s.kind = "verdict"
  <2>1. PICK r \in OfHead(F, "result", s.head) : r.n = s.n
    BY <1>2 DEF HasResult
  <2>2. ~(f.kind = "result" /\ f.head = s.head /\ f.n = s.n)
    BY <2>1 DEF Taken, OfHead
  <2>3. \A e : e \in OfHead(F \union {f}, "result", s.head) /\ e.n = s.n <=> e \in OfHead(F, "result", s.head) /\ e.n = s.n
    BY <2>2 DEF OfHead
  <2> QED BY <2>3 DEF Blocks
<1> QED BY <1>1, <1>2

LEMMA FilesGrow ==
  ASSUME NEW F, FilesOK(F), NEW f, ~Taken(F, f.kind, f.head, f.n),
         f.kind = "verdict" => HasResult(F, f), Blocks(F, f) => Alone(F, f)
  PROVE  FilesOK(F \union {f})
<1>1. NamesOwnIn(F \union {f})
  <2>1. NamesOwnIn(F)
    BY DEF FilesOK
  <2>2. \A e \in F : <<e.kind, e.head, e.n>> # <<f.kind, f.head, f.n>>
    BY DEF Taken, OfHead
  <2> QED BY <2>1, <2>2 DEF NamesOwnIn
<1>2. VerdictsHaveResults(F \union {f})
  BY DEF FilesOK, VerdictsHaveResults, HasResult, OfHead
<1>3. \A v \in F \union {f} : v.kind = "verdict" => HasResult(F, v)
  BY DEF FilesOK, VerdictsHaveResults, HasResult
<1>4. \A v \in F \union {f} : Blocks(F \union {f}, v) <=> Blocks(F, v)
  BY <1>3, BlocksKept
<1>5. \A v, w \in F \union {f} :
        Blocks(F \union {f}, v) /\ Blocks(F \union {f}, w) /\ v.base = w.base => v.head = w.head
  BY <1>4 DEF FilesOK, Alone
<1> QED BY <1>1, <1>2, <1>5 DEF FilesOK

(* What a process is about to store is as good after another was stored,   *)
(* unless both block.                                                      *)
LEMMA SeatSurvives ==
  ASSUME NEW F, NEW f, ~Taken(F, f.kind, f.head, f.n), NEW lock, NEW p, NEW s,
         FilesOK(F), SeatOK(F, lock, p, s), Blocks(F, f) => lock # p,
         f.kind = "verdict" => HasResult(F, f)
  PROVE  SeatOK(F \union {f}, lock, p, s)
<1>1. s.at \in {"locking", "locked", "creating"} /\ s.kind = "verdict" => HasResult(F, s)
  BY DEF SeatOK, Blocks, HasResult
<1>2. s.at \in {"locking", "locked", "creating"} => (Blocks(F \union {f}, s) <=> Blocks(F, s))
  BY <1>1, BlocksKept
<1>3. HasResult(F, s) => HasResult(F \union {f}, s)
  BY DEF HasResult, OfHead
<1>4. ASSUME s.at = "creating", Blocks(F, s) PROVE Alone(F \union {f}, s)
  <2>1. Alone(F, s) /\ ~Blocks(F, f)
    BY <1>4 DEF SeatOK
  <2>2. \A v \in F \union {f} : v.kind = "verdict" => HasResult(F, v)
    BY DEF FilesOK, VerdictsHaveResults, HasResult
  <2>3. \A v \in F \union {f} : Blocks(F \union {f}, v) <=> Blocks(F, v)
    BY <2>2, BlocksKept
  <2> QED BY <2>1, <2>3 DEF Alone
<1> QED BY <1>2, <1>3, <1>4 DEF SeatOK

-----------------------------------------------------------------------------
(* The seats.                                                              *)

LEMMA BegunSeat ==
  ASSUME NEW step, NEW kind, NEW file, file.kind = kind, {"kind", "head", "base"} \subseteq DOMAIN file
  PROVE  LET s == Begun(step, file)
         IN  /\ s = SeatOf(s) /\ s.at = step /\ s.kind = kind /\ s.head = file.head /\ s.base = file.base
             /\ "n" \in DOMAIN file => s.n = file.n
             /\ "says" \in DOMAIN file => s.says = file.says
             /\ "also" \in DOMAIN file => s.also = file.also
<1>1. PICK s : s = Begun(step, file)
  OBVIOUS
<1>2. DOMAIN NoSeat = {"at", "kind", "head", "base", "n", "says", "also", "of", "tries"}
  BY DEF NoSeat
<1>3. /\ s = [x \in {"at", "kind", "head", "base", "n", "says", "also", "of", "tries"} |-> s[x]]
      /\ s.at = step /\ s.kind = kind /\ s.head = file.head /\ s.base = file.base
      /\ "n" \in DOMAIN file => s.n = file.n
      /\ "says" \in DOMAIN file => s.says = file.says
      /\ "also" \in DOMAIN file => s.also = file.also
  BY <1>1, <1>2 DEF Begun
<1>4. s = SeatOf(s)
  BY <1>3 DEF SeatOf
<1> QED BY <1>1, <1>3, <1>4

(* A seat that begins with what is no verdict is in order.                 *)
LEMMA BegunOK ==
  ASSUME NEW F, NEW lock, NEW p, lock # p, NEW step \in {"creating", "listing", "sweeping"},
         NEW file, file.kind # "verdict", {"kind", "head", "base"} \subseteq DOMAIN file
  PROVE  SeatOK(F, lock, p, Begun(step, file))
<1>1. PICK s : s = Begun(step, file)
  OBVIOUS
<1>2. s = SeatOf(s) /\ s.at = step /\ s.kind = file.kind
  BY <1>1, BegunSeat
<1>3. SeatOK(F, lock, p, s)
  BY <1>2 DEF SeatOK, Blocks
<1> QED BY <1>1, <1>3

(* A verdict that begins answers a stored result.                          *)
VerdictOn(r, answer) ==
  [kind |-> "verdict", head |-> r.head, base |-> r.base, n |-> r.n, says |-> answer.says, also |-> answer.also]
LEMMA BegunVerdictOK ==
  ASSUME NEW F, NamesOwnIn(F), NEW lock, NEW p, lock # p, NEW r \in F, r.kind = "result", NEW answer,
         NEW step, step = IF DecideWith(r.says, answer) = "blocks" THEN "locking" ELSE "creating"
  PROVE  SeatOK(F, lock, p, Begun(step, VerdictOn(r, answer)))
<1>1. PICK s : s = Begun(step, VerdictOn(r, answer))
  OBVIOUS
<1>2. /\ s = SeatOf(s) /\ s.at = step /\ s.kind = "verdict" /\ s.head = r.head /\ s.n = r.n
      /\ s.says = answer.says /\ s.also = answer.also
  <2>1. PICK file : file = VerdictOn(r, answer)
    OBVIOUS
  <2>2. /\ DOMAIN file = {"kind", "head", "base", "n", "says", "also"} /\ file.kind = "verdict"
        /\ file.head = r.head /\ file.n = r.n /\ file.says = answer.says /\ file.also = answer.also
    BY <2>1 DEF VerdictOn
  <2> QED BY <1>1, <2>1, <2>2, BegunSeat
<1>3. DecideWith(r.says, s) = DecideWith(r.says, answer)
  BY <1>2, SameFate
<1>4. \A e \in OfHead(F, "result", s.head) : e.n = s.n => e = r
  BY <1>2 DEF OfHead, NamesOwnIn
<1>5. r \in OfHead(F, "result", s.head) /\ r.n = s.n
  BY <1>2 DEF OfHead
<1>6. (Blocks(F, s) <=> step = "locking") /\ HasResult(F, s)
  BY <1>2, <1>3, <1>4, <1>5 DEF Blocks, HasResult
<1>7. SeatOK(F, lock, p, s)
  BY <1>2, <1>6 DEF SeatOK
<1> QED BY <1>1, <1>7

LEMMA NoSeatOK ==
  ASSUME NEW F, NEW lock, NEW p, lock # p
  PROVE  SeatOK(F, lock, p, NoSeat)
BY DEF SeatOK, SeatOf, NoSeat

-----------------------------------------------------------------------------
(* The steps of a process.                                                 *)

(* What a step of p does: it moves the seat of p, and takes or frees the   *)
(* lock for p alone; or it stores the file p was about to.                 *)
Moves(p, F, lock, s) == seat' = [seat EXCEPT ![p] = s] /\ SeatOK(F, lock, p, s)
OthersKeepLock(p) == \A q \in Reviewers \ {p} : roundLock' = q <=> roundLock = q

Looks(p) ==
  /\ files' = files /\ OthersKeepLock(p)
  /\ \E s : Moves(p, files, roundLock', s)
Stores(p) ==
  /\ OthersKeepLock(p) /\ roundLock' # p /\ seat' = [seat EXCEPT ![p] = NoSeat]
  /\ \E f : /\ files' = files \union {f} /\ ~Taken(files, f.kind, f.head, f.n)
            /\ f.kind = "verdict" => HasResult(files, f)
            /\ Blocks(files, f) => Alone(files, f) /\ roundLock = p

LEMMA EndsLooks ==
  ASSUME ReviewInv, NEW p \in Reviewers, Ends(p), files' = files
  PROVE  Looks(p)
<1>1. roundLock' # p /\ OthersKeepLock(p)
  BY NoReviewerAssumption DEF Ends, OthersKeepLock
<1>2. Moves(p, files, roundLock', NoSeat)
  BY <1>1, NoSeatOK DEF Ends, Moves
<1> QED BY <1>1, <1>2 DEF Looks

(* A process that begins holds no lock.                                    *)
LEMMA StartsLooks ==
  ASSUME ReviewInv, NEW p \in Reviewers, NEW step \in {"creating", "listing", "sweeping"}, NEW file,
         Starts(p, step, file), file.kind # "verdict", {"kind", "head", "base"} \subseteq DOMAIN file,
         files' = files, roundLock' = roundLock
  PROVE  Looks(p)
<1>1. roundLock # p
  BY DEF ReviewInv, SeatsOK, SeatOK, Starts, SeatAt
<1>2. Moves(p, files, roundLock', Begun(step, file))
  BY <1>1, BegunOK DEF Starts, Moves
<1> QED BY <1>2 DEF Looks, OthersKeepLock

LEMMA BeginsLooks ==
  ASSUME ReviewInv, NEW p \in Reviewers, NEW head, NEW base, NEW says, NEW commit,
         \/ Record(p, head, base, says) \/ Exempt(p, head) \/ RecordPolisher(p, head)
         \/ Sweep(p, head) \/ RecordSweeper(p, head, commit)
  PROVE  Looks(p)
<1>1. CASE Record(p, head, base, says)
  <2>1. PICK file : file = [kind |-> "result", head |-> head, base |-> base, n |-> NextNumber(files, head), says |-> says]
    OBVIOUS
  <2>2. file.kind = "result" /\ DOMAIN file = {"kind", "head", "base", "n", "says"}
    BY <2>1
  <2>3. Starts(p, "creating", file) /\ files' = files /\ roundLock' = roundLock
    BY <1>1, <2>1 DEF Record
  <2> QED BY <2>2, <2>3, StartsLooks
<1>2. CASE Exempt(p, head)
  <2>1. PICK file : file = [kind |-> "exempt", head |-> head, base |-> Parent(git, head), n |-> NextNumber(files, head)]
    OBVIOUS
  <2>2. file.kind = "exempt" /\ DOMAIN file = {"kind", "head", "base", "n"}
    BY <2>1
  <2>3. Starts(p, "creating", file) /\ files' = files /\ roundLock' = roundLock
    BY <1>2, <2>1 DEF Exempt
  <2> QED BY <2>2, <2>3, StartsLooks
<1>3. CASE RecordPolisher(p, head)
  <2>1. PICK file : file = [kind |-> "polisher", head |-> head, base |-> Parent(git, head), n |-> NextNumber(files, head)]
    OBVIOUS
  <2>2. file.kind = "polisher" /\ DOMAIN file = {"kind", "head", "base", "n"}
    BY <2>1
  <2>3. Starts(p, "creating", file) /\ files' = files /\ roundLock' = roundLock
    BY <1>3, <2>1 DEF RecordPolisher
  <2> QED BY <2>2, <2>3, StartsLooks
<1>4. CASE Sweep(p, head)
  <2>1. PICK file : file = [kind |-> "sweep", head |-> head, base |-> Parent(git, head)]
    OBVIOUS
  <2>2. file.kind = "sweep" /\ DOMAIN file = {"kind", "head", "base"}
    BY <2>1
  <2>3. Starts(p, "sweeping", file) /\ files' = files /\ roundLock' = roundLock
    BY <1>4, <2>1 DEF Sweep
  <2> QED BY <2>2, <2>3, StartsLooks
<1>5. CASE RecordSweeper(p, head, commit)
  <2>1. PICK file : file = [kind |-> "sweeper", head |-> head, base |-> Parent(git, head),
                            says |-> commit, of |-> Highest(FiredSweeps(head)).n]
    OBVIOUS
  <2>2. file.kind = "sweeper" /\ DOMAIN file = {"kind", "head", "base", "says", "of"}
    BY <2>1
  <2>3. Starts(p, "listing", file) /\ files' = files /\ roundLock' = roundLock
    BY <1>5, <2>1 DEF RecordSweeper
  <2> QED BY <2>2, <2>3, StartsLooks
<1> QED BY <1>1, <1>2, <1>3, <1>4, <1>5

LEMMA VerifyLooks ==
  ASSUME ReviewInv, NEW p \in Reviewers, NEW r, NEW answer, Verify(p, r, answer)
  PROVE  Looks(p)
<1>1. roundLock # p
  BY DEF ReviewInv, SeatsOK, SeatOK, Verify, Starts, SeatAt
<1>2. PICK step : step = IF DecideWith(r.says, answer) = "blocks" THEN "locking" ELSE "creating"
  OBVIOUS
<1>3. r \in files /\ r.kind = "result" /\ NamesOwnIn(files)
  BY DEF Verify, ReviewInv, FilesOK
<1>4. seat' = [seat EXCEPT ![p] = Begun(step, VerdictOn(r, answer))] /\ files' = files /\ roundLock' = roundLock
  BY <1>2 DEF Verify, Starts, VerdictOn
<1>5. Moves(p, files, roundLock', Begun(step, VerdictOn(r, answer)))
  BY <1>1, <1>2, <1>3, <1>4, BegunVerdictOK DEF Moves
<1> QED BY <1>4, <1>5 DEF Looks, OthersKeepLock

(* Where a process may go on from.                                         *)
LEMMA SeatFacts ==
  ASSUME ReviewInv, NEW p \in Reviewers
  PROVE  SeatOK(files, roundLock, p, seat[p]) /\ FilesOK(files) /\ p \in DOMAIN seat
BY DEF ReviewInv, SeatsOK

LEMMA SweepsAndLists ==
  ASSUME ReviewInv, NEW p \in Reviewers, NEW says, Swept(p, says) \/ List(p)
  PROVE  Looks(p)
<1>1. PICK old : old = seat[p]
  OBVIOUS
<1>2. SeatOK(files, roundLock, p, old) /\ old = SeatOf(old)
  BY <1>1, SeatFacts DEF SeatOK
<1>3. CASE Swept(p, says) /\ Ends(p)
  BY <1>3, EndsLooks DEF Swept
<1>4. CASE Swept(p, says) /\ ~Ends(p)
  <2>1. PICK s : s = [old EXCEPT !.at = "listing", !.says = says]
    OBVIOUS
  <2>2. s = SeatOf(s) /\ s.at = "listing" /\ s.kind = old.kind
    BY <1>2, <2>1 DEF SeatOf
  <2>3. seat' = [seat EXCEPT ![p] = s] /\ old.at = "sweeping" /\ files' = files /\ roundLock' = roundLock
    BY <1>1, <1>4, <2>1, SeatFacts DEF Swept, SeatAt
  <2>4. SeatOK(files, roundLock, p, s)
    BY <1>2, <2>2, <2>3 DEF SeatOK
  <2> QED BY <2>3, <2>4 DEF Looks, Moves, OthersKeepLock
<1>5. CASE List(p)
  <2>1. PICK s : s = [old EXCEPT !.at = "creating", !.n = NextNumber(files, old.head)]
    OBVIOUS
  <2>2. s = SeatOf(s) /\ s.at = "creating" /\ s.kind = old.kind
    BY <1>2, <2>1 DEF SeatOf
  <2>3. seat' = [seat EXCEPT ![p] = s] /\ old.at = "listing" /\ files' = files /\ roundLock' = roundLock
    BY <1>1, <1>5, <2>1, SeatFacts DEF List, SeatAt
  <2>4. SeatOK(files, roundLock, p, s)
    BY <1>2, <2>2, <2>3 DEF SeatOK, Blocks
  <2> QED BY <2>3, <2>4 DEF Looks, Moves, OthersKeepLock
<1> QED BY <1>3, <1>4, <1>5

(* A seat that only goes elsewhere still blocks what it blocked.           *)
LEMMA SameBlocks ==
  ASSUME NEW F, NEW s, NEW t, s.kind = t.kind, s.head = t.head, s.base = t.base, s.n = t.n,
         s.says = t.says, s.also = t.also
  PROVE  /\ Blocks(F, s) <=> Blocks(F, t)
         /\ HasResult(F, s) <=> HasResult(F, t)
         /\ Alone(F, s) <=> Alone(F, t)
<1>1. \A says : DecideWith(says, s) = DecideWith(says, t)
  BY SameFate
<1> QED BY <1>1 DEF Blocks, HasResult, Alone

LEMMA LocksLook ==
  ASSUME ReviewInv, NEW p \in Reviewers, TakeLock(p) \/ GiveUpLock(p) \/ CheckRound(p) \/ Crash(p)
  PROVE  Looks(p)
<1>1. PICK old : old = seat[p]
  OBVIOUS
<1>2. SeatOK(files, roundLock, p, old) /\ old = SeatOf(old) /\ FilesOK(files)
  BY <1>1, SeatFacts DEF SeatOK
<1>3. CASE GiveUpLock(p) \/ Crash(p) \/ (CheckRound(p) /\ Ends(p))
  BY <1>3, EndsLooks DEF GiveUpLock, Crash, CheckRound
<1>4. CASE TakeLock(p)
  <2>1. PICK s : s = [old EXCEPT !.at = "locked"]
    OBVIOUS
  <2>2. /\ s = SeatOf(s) /\ s.at = "locked" /\ s.kind = old.kind /\ s.head = old.head /\ s.base = old.base
        /\ s.n = old.n /\ s.says = old.says /\ s.also = old.also
    BY <1>2, <2>1 DEF SeatOf
  <2>3. /\ seat' = [seat EXCEPT ![p] = s] /\ old.at = "locking" /\ files' = files
        /\ roundLock = NoReviewer /\ roundLock' = p
    BY <1>1, <1>4, <2>1, SeatFacts DEF TakeLock, SeatMoves, SeatAt
  <2>4. Blocks(files, s)
    BY <1>2, <2>2, <2>3, SameBlocks DEF SeatOK
  <2>5. SeatOK(files, p, p, s)
    BY <2>2, <2>4 DEF SeatOK
  <2>6. OthersKeepLock(p)
    BY <2>3, NoReviewerAssumption DEF OthersKeepLock
  <2> QED BY <2>3, <2>5, <2>6 DEF Looks, Moves
<1>5. CASE CheckRound(p) /\ ~Ends(p)
  <2>1. PICK s : s = [old EXCEPT !.at = "creating"]
    OBVIOUS
  <2>2. /\ s = SeatOf(s) /\ s.at = "creating" /\ s.kind = old.kind /\ s.head = old.head /\ s.base = old.base
        /\ s.n = old.n /\ s.says = old.says /\ s.also = old.also
    BY <1>2, <2>1 DEF SeatOf
  <2>3. /\ seat' = [seat EXCEPT ![p] = s] /\ old.at = "locked" /\ files' = files
        /\ roundLock' = roundLock /\ ~SpentRound(p)
    BY <1>1, <1>5, <2>1, SeatFacts DEF CheckRound, SeatMoves, SeatAt
  <2>4. Blocks(files, s) /\ roundLock = p
    BY <1>2, <2>2, <2>3, SameBlocks DEF SeatOK
  <2>5. \A v \in files : Blocks(files, v) => v \in Blocking
    BY <1>2, BlockingIs DEF Blocking, FilesOK
  <2>6. Alone(files, s)
    BY <1>1, <2>2, <2>3, <2>5 DEF Alone, SpentRound
  <2>7. HasResult(files, s)
    BY <2>4 DEF Blocks, HasResult
  <2>8. SeatOK(files, roundLock, p, s)
    BY <2>2, <2>4, <2>6, <2>7 DEF SeatOK
  <2> QED BY <2>3, <2>8 DEF Looks, Moves, OthersKeepLock
<1> QED BY <1>3, <1>4, <1>5

LEMMA CreateStep ==
  ASSUME ReviewInv, NEW p \in Reviewers, Create(p)
  PROVE  Looks(p) \/ Stores(p)
<1>1. PICK old : old = seat[p]
  OBVIOUS
<1>2. SeatOK(files, roundLock, p, old) /\ old = SeatOf(old) /\ FilesOK(files) /\ old.at = "creating"
  BY <1>1, SeatFacts DEF SeatOK, Create, SeatAt
<1>3. CASE ~NameTaken(p) /\ files' = files \union {FileOf(p)} /\ Ends(p)
  <2>1. PICK f : f = FileOf(p)
    OBVIOUS
  <2>2. /\ f.kind = old.kind /\ f.head = old.head /\ f.base = old.base
        /\ f.n = old.n /\ f.says = old.says /\ f.also = old.also
    BY <1>1, <2>1 DEF FileOf
  <2>3. /\ Blocks(files, f) <=> Blocks(files, old)
        /\ HasResult(files, f) <=> HasResult(files, old)
        /\ Alone(files, f) <=> Alone(files, old)
    BY <2>2, SameBlocks
  <2>4. ~Taken(files, f.kind, f.head, f.n)
    BY <1>1, <1>3, <2>2 DEF NameTaken
  <2>5. /\ f.kind = "verdict" => HasResult(files, f)
        /\ Blocks(files, f) => Alone(files, f) /\ roundLock = p
    BY <1>2, <2>2, <2>3 DEF SeatOK
  <2>6. roundLock' # p /\ OthersKeepLock(p) /\ seat' = [seat EXCEPT ![p] = NoSeat]
    BY <1>3, NoReviewerAssumption DEF Ends, OthersKeepLock
  <2>7. Stores(p)
    BY <1>3, <2>1, <2>4, <2>5, <2>6 DEF Stores
  <2> QED BY <2>7
<1>4. CASE Ends(p) /\ files' = files
  BY <1>4, EndsLooks
<1>5. ASSUME seat[p].kind # "verdict", files' = files, roundLock' = roundLock,
             seat' = [seat EXCEPT ![p].at = "listing", ![p].tries = @ + 1]
      PROVE  Looks(p)
  <2>1. PICK s : s = [old EXCEPT !.at = "listing", !.tries = @ + 1]
    OBVIOUS
  <2>2. s = SeatOf(s) /\ s.at = "listing" /\ s.kind = old.kind
    BY <1>2, <2>1 DEF SeatOf
  <2>3. seat' = [seat EXCEPT ![p] = s] /\ files' = files /\ roundLock' = roundLock
    BY <1>1, <1>5, <2>1, SeatFacts
  <2>4. SeatOK(files, roundLock, p, s)
    BY <1>1, <1>2, <1>5, <2>2 DEF SeatOK, Blocks
  <2> QED BY <2>3, <2>4 DEF Looks, Moves, OthersKeepLock
<1> QED BY <1>3, <1>4, <1>5 DEF Create

(* Whatever a process does, the files and the seats stay in order.         *)
LEMMA StepKeeps ==
  ASSUME ReviewInv, NEW p \in Reviewers, Looks(p) \/ Stores(p)
  PROVE  FilesOK(files') /\ SeatsOK'
<1>1. CASE Looks(p)
  <2>1. PICK s : seat' = [seat EXCEPT ![p] = s] /\ SeatOK(files, roundLock', p, s)
    BY <1>1 DEF Looks, Moves
  <2>2. PICK lock : lock = roundLock'
    OBVIOUS
  <2>3. ASSUME NEW q \in Reviewers PROVE SeatOK(files, lock, q, seat'[q])
    <3>1. CASE q = p
      BY <2>1, <2>2, <3>1, SeatFacts
    <3>2. CASE q # p
      <4>1. seat'[q] = seat[q] /\ SeatOK(files, roundLock, q, seat[q]) /\ (lock = q <=> roundLock = q)
        BY <1>1, <2>1, <2>2, <3>2, SeatFacts DEF Looks, OthersKeepLock
      <4>2. SeatOK(files, lock, q, seat[q])
        BY <4>1 DEF SeatOK
      <4> QED BY <4>1, <4>2
    <3> QED BY <3>1, <3>2
  <2>4. seat' = [q \in Reviewers |-> seat'[q]]
    BY <2>1 DEF ReviewInv, SeatsOK
  <2>5. files' = files /\ FilesOK(files)
    BY <1>1 DEF Looks, ReviewInv
  <2> QED BY <2>2, <2>3, <2>4, <2>5 DEF SeatsOK, SeatOK, Blocks, HasResult, Alone, FilesOK
<1>2. CASE Stores(p)
  <2>1. PICK f : /\ files' = files \union {f} /\ ~Taken(files, f.kind, f.head, f.n)
                 /\ f.kind = "verdict" => HasResult(files, f)
                 /\ Blocks(files, f) => Alone(files, f) /\ roundLock = p
    BY <1>2 DEF Stores
  <2>2. PICK lock, F : lock = roundLock' /\ F = files \union {f}
    OBVIOUS
  <2>3. FilesOK(F)
    BY <2>1, <2>2, FilesGrow DEF ReviewInv
  <2>4. ASSUME NEW q \in Reviewers PROVE SeatOK(F, lock, q, seat'[q])
    <3>1. CASE q = p
      <4>1. seat'[q] = NoSeat /\ lock # p
        BY <1>2, <2>2, <3>1, SeatFacts DEF Stores
      <4> QED BY <3>1, <4>1, NoSeatOK
    <3>2. CASE q # p
      <4>1. seat'[q] = seat[q] /\ SeatOK(files, roundLock, q, seat[q]) /\ (lock = q <=> roundLock = q)
        BY <1>2, <2>2, <3>2, SeatFacts DEF Stores, OthersKeepLock
      <4>2. SeatOK(F, roundLock, q, seat[q])
        BY <2>1, <2>2, <3>2, <4>1, SeatSurvives DEF ReviewInv
      <4>3. SeatOK(F, lock, q, seat[q])
        BY <4>1, <4>2 DEF SeatOK
      <4> QED BY <4>1, <4>3
    <3> QED BY <3>1, <3>2
  <2>5. seat' = [q \in Reviewers |-> seat'[q]]
    BY <1>2 DEF ReviewInv, SeatsOK, Stores
  <2>6. files' = F
    BY <2>1, <2>2
  <2> QED BY <2>2, <2>3, <2>4, <2>5, <2>6 DEF SeatsOK
<1> QED BY <1>1, <1>2

-----------------------------------------------------------------------------
(* The stop hook.                                                          *)

NeedNames == {"risk", "sweep", "sweeper", "polisher", "review"}

LEMMA QuestionNeeds == Question.needs \subseteq NeedNames
<1>1. \A g, F, c, coverage : Needs(g, F, c, coverage) \subseteq NeedNames
  BY DEF Needs, SweepNeed, NeedNames
<1>2. \A i : NeedsAt(git, files, i) \subseteq NeedNames
  BY <1>1 DEF NeedsAt
<1> QED BY <1>2 DEF Question, NextUnreviewed

LEMMA KeysFinite ==
  ASSUME NEW s, NEW q, q.needs \subseteq NeedNames
  PROVE  IsFiniteSet(Keys(s, q))
<1> DEFINE All == {<<s, q.head, "risk">>, <<s, q.head, "sweep">>, <<s, q.head, "sweeper">>}
                    \union {<<s, q.head, "polisher">>, <<s, q.head, "review">>}
<1>1. IsFiniteSet(All)
  <2>1. IsFiniteSet({<<s, q.head, "risk">>, <<s, q.head, "sweep">>, <<s, q.head, "sweeper">>})
    <3>1. IsFiniteSet({<<s, q.head, "risk">>})
      BY FS_Singleton
    <3>2. IsFiniteSet({<<s, q.head, "risk">>} \union {<<s, q.head, "sweep">>})
      BY <3>1, FS_AddElement
    <3>3. IsFiniteSet(({<<s, q.head, "risk">>} \union {<<s, q.head, "sweep">>}) \union {<<s, q.head, "sweeper">>})
      BY <3>2, FS_AddElement
    <3>4. ({<<s, q.head, "risk">>} \union {<<s, q.head, "sweep">>}) \union {<<s, q.head, "sweeper">>}
            = {<<s, q.head, "risk">>, <<s, q.head, "sweep">>, <<s, q.head, "sweeper">>}
      OBVIOUS
    <3> QED BY <3>3, <3>4
  <2>2. IsFiniteSet({<<s, q.head, "polisher">>, <<s, q.head, "review">>})
    <3>1. IsFiniteSet({<<s, q.head, "polisher">>})
      BY FS_Singleton
    <3>2. IsFiniteSet({<<s, q.head, "polisher">>} \union {<<s, q.head, "review">>})
      BY <3>1, FS_AddElement
    <3>3. {<<s, q.head, "polisher">>} \union {<<s, q.head, "review">>} = {<<s, q.head, "polisher">>, <<s, q.head, "review">>}
      OBVIOUS
    <3> QED BY <3>2, <3>3
  <2> QED BY <2>1, <2>2, FS_Union
<1>2. Keys(s, q) \in SUBSET All
  BY DEF Keys, NeedNames
<1> QED BY <1>1, <1>2, FS_Subset

LEMMA HookStep ==
  ASSUME ReviewInv,
         \/ \E s \in Sessions : AskStop(s)
         \/ \E k \in hook.missing : AddAsked(k)
         \/ BlockStop \/ CrashStop
  PROVE  HookOK'
<1> USE DEF ReviewInv, HookOK
<1>0. NoHook.at = "idle" /\ DOMAIN NoHook = {"at", "session", "keys", "missing"}
  BY DEF NoHook
<1>1. ASSUME NEW s \in Sessions, AskStop(s) PROVE HookOK'
  <2>1. PICK keys : keys = Keys(s, Question)
    OBVIOUS
  <2>2. IsFiniteSet(keys)
    BY <2>1, QuestionNeeds, KeysFinite
  <2>3. /\ asked' = asked /\ put' = put /\ DOMAIN stops' = {"blocked", "asked"} /\ stops'.blocked = stops.blocked
        /\ hook' = IF keys \subseteq asked THEN NoHook
                   ELSE [at |-> "adding", session |-> s, keys |-> keys, missing |-> keys \ asked]
    BY <1>1, <2>1 DEF AskStop
  <2>4. CASE keys \subseteq asked
    BY <1>0, <2>3, <2>4
  <2>5. CASE ~(keys \subseteq asked)
    <3>1. /\ DOMAIN hook' = {"at", "session", "keys", "missing"}
          /\ hook'.keys = keys /\ hook'.missing = keys \ asked
      BY <2>3, <2>5
    <3>2. ~(keys \subseteq put)
      BY <2>5
    <3> QED BY <2>2, <2>3, <3>1, <3>2
  <2> QED BY <2>4, <2>5
<1>2. ASSUME NEW k \in hook.missing, AddAsked(k) PROVE HookOK'
  <2>1. CASE asked' = asked /\ hook' = NoHook
    BY <1>0, <1>2, <2>1 DEF AddAsked
  <2>2. CASE asked' = asked \union {k} /\ hook' = [hook EXCEPT !.missing = @ \ {k}]
    <3>1. /\ DOMAIN hook' = {"at", "session", "keys", "missing"} /\ hook'.keys = hook.keys
          /\ hook'.missing = hook.missing \ {k} /\ hook.at = "adding" /\ put' = put /\ stops' = stops
      BY <1>2, <2>2 DEF AddAsked
    <3> QED BY <2>2, <3>1
  <2> QED BY <1>2, <2>1, <2>2 DEF AddAsked
<1>3. CASE BlockStop
  <2>1. /\ put' = put \union hook.keys /\ asked' = asked /\ hook' = NoHook
        /\ stops' = [stops EXCEPT !.blocked = @ + 1] /\ hook.at = "adding" /\ hook.missing = {}
    BY <1>3 DEF BlockStop
  <2>2. hook.keys \subseteq asked /\ IsFiniteSet(hook.keys)
    BY <2>1
  <2>3. PICK k \in hook.keys : k \notin put
    BY <2>1
  <2>4. IsFiniteSet(put') /\ Cardinality(put') \in Nat
    BY <2>1, <2>2, FS_Union, FS_CardinalityType
  <2>5. Cardinality(put \union {k}) = Cardinality(put) + 1 /\ put \union {k} \in SUBSET put'
    BY <2>1, <2>3, FS_AddElement
  <2>6. Cardinality(put \union {k}) <= Cardinality(put')
    BY <2>4, <2>5, FS_Subset
  <2>7. Cardinality(put) \in Nat
    BY FS_CardinalityType
  <2>8. DOMAIN stops' = {"blocked", "asked"} /\ stops'.blocked = stops.blocked + 1
    BY <2>1
  <2>9. stops'.blocked <= Cardinality(put')
    BY <2>4, <2>5, <2>6, <2>7, <2>8
  <2>10. put' \subseteq asked'
    BY <2>1, <2>2
  <2> QED BY <1>0, <2>1, <2>4, <2>8, <2>9, <2>10
<1>4. CASE CrashStop
  BY <1>0, <1>4 DEF CrashStop
<1> QED BY <1>1, <1>2, <1>3, <1>4

-----------------------------------------------------------------------------
(* The whole.                                                              *)

LEMMA ReviewInitInv == ReviewInit => ReviewInv
<1> SUFFICES ASSUME ReviewInit PROVE ReviewInv
  OBVIOUS
<1>1. FilesOK(files)
  <2>1. NamesOwnIn(files) /\ VerdictsHaveResults(files) /\ OneRoundIn(files)
    BY HistoriesAssumption DEF ReviewInit
  <2>2. \A v \in files : Blocks(files, v) => v \in BlockingIn(files)
    BY <2>1, BlockingIs
  <2> QED BY <2>1, <2>2 DEF FilesOK, OneRoundIn
<1>2. SeatsOK
  BY NoSeatOK, NoReviewerAssumption DEF ReviewInit, SeatsOK
<1>3. HookOK
  <2>1. IsFiniteSet(put) /\ Cardinality(put) = 0
    BY FS_EmptySet DEF ReviewInit
  <2> QED BY <2>1 DEF ReviewInit, HookOK, NoHook
<1> QED BY <1>1, <1>2, <1>3 DEF ReviewInv

ReviewerStep(p) ==
  \/ \E head \in Candidates :
       \/ \E base \in Commits, says \in Findings : Record(p, head, base, says)
       \/ Exempt(p, head) \/ RecordPolisher(p, head) \/ Sweep(p, head)
       \/ \E commit \in Commits \union {NoCommit} : RecordSweeper(p, head, commit)
  \/ \E says \in {"clean", "fired"} : Swept(p, says)
  \/ List(p) \/ Create(p)
  \/ \E r \in files : \E answer \in Answers(r.says) : Verify(p, r, answer)
  \/ TakeLock(p) \/ GiveUpLock(p) \/ CheckRound(p) \/ Crash(p)

LEMMA ReviewerKeepsHook ==
  ASSUME NEW p \in Reviewers, ReviewerStep(p)
  PROVE  UNCHANGED hookVars
BY DEF ReviewerStep, Record, Exempt, RecordPolisher, Sweep, RecordSweeper, Swept, List, Create,
   Verify, TakeLock, GiveUpLock, CheckRound, Crash

LEMMA ReviewStep ==
  ASSUME ReviewInv, [ReviewNext]_reviewVars
  PROVE  ReviewInv'
<1>1. HookOK /\ UNCHANGED hookVars => HookOK'
  BY DEF HookOK, hookVars
<1>2. ASSUME NEW p \in Reviewers, ReviewerStep(p) PROVE ReviewInv'
  <2>1. Looks(p) \/ Stores(p)
    BY <1>2, BeginsLooks, VerifyLooks, SweepsAndLists, LocksLook, CreateStep DEF ReviewerStep
  <2>2. FilesOK(files') /\ SeatsOK'
    BY <2>1, StepKeeps
  <2>3. HookOK'
    BY <1>1, <1>2, ReviewerKeepsHook DEF ReviewInv
  <2>4. PICK F : F = files'
    OBVIOUS
  <2> QED BY <2>2, <2>3, <2>4 DEF ReviewInv
<1>3. ASSUME \/ \E s \in Sessions : AskStop(s)
             \/ \E k \in hook.missing : AddAsked(k)
             \/ BlockStop \/ CrashStop
      PROVE  ReviewInv'
  <2>1. HookOK'
    BY <1>3, HookStep
  <2>2. UNCHANGED <<files, seat, roundLock>>
    BY <1>3 DEF AskStop, AddAsked, BlockStop, CrashStop
  <2> QED BY <2>1, <2>2 DEF ReviewInv, FilesOK, NamesOwnIn, VerdictsHaveResults, OfHead, Blocks,
             SeatsOK, SeatOK, HasResult, Alone
<1>4. CASE UNCHANGED reviewVars
  <2>1. UNCHANGED <<files, seat, roundLock>> /\ UNCHANGED hookVars
    BY <1>4 DEF reviewVars, hookVars
  <2>2. HookOK'
    BY <1>1, <2>1 DEF ReviewInv
  <2> QED BY <2>1, <2>2 DEF ReviewInv, FilesOK, NamesOwnIn, VerdictsHaveResults, OfHead, Blocks,
             SeatsOK, SeatOK, HasResult, Alone
<1> QED BY <1>2, <1>3, <1>4 DEF ReviewNext, ReviewerStep

(* The invariant says what the properties say of the files and the hook.   *)
LEMMA ReviewInvImplies == ReviewInv => StoredAreSound
<1> SUFFICES ASSUME ReviewInv PROVE StoredAreSound
  OBVIOUS
<1>1. FilesOK(files) /\ NamesOwnIn(files) /\ VerdictsHaveResults(files)
  BY DEF ReviewInv, FilesOK
<1>2. \A v \in files : v \in BlockingIn(files) <=> Blocks(files, v)
  BY <1>1, BlockingIs
<1>3. OneCorrectionRound
  BY <1>1, <1>2 DEF OneCorrectionRound, OneRoundIn, FilesOK, BlockingIn
<1>4. BlockedStaysBlocked
  <2>1. ASSUME NEW v \in Blocking PROVE ~Cleared(git, files, v.head)
    <3>1. v \in files /\ v.kind = "verdict" /\ Decide(files, ResultOf(files, v)) = "blocks"
      BY <2>1 DEF Blocking, BlockingIn
    <3>2. ResultOf(files, v) \in OfHead(files, "result", v.head)
      BY <1>1, <3>1 DEF VerdictsHaveResults, ResultOf
    <3> QED BY <3>1, <3>2 DEF Cleared, ClearedBy
  <2> QED BY <2>1 DEF BlockedStaysBlocked
<1>5. BlockedOncePerQuestion
  BY DEF ReviewInv, HookOK, BlockedOncePerQuestion
<1> QED BY <1>1, <1>3, <1>4, <1>5 DEF StoredAreSound, NamesAreOwn

(* However many processes store results, verdicts, exemptions and role     *)
(* records and stop anywhere: no stored file is written over, at most one  *)
(* head of a base is blocked, a blocked head is never cleared again, and   *)
(* the stop hook blocks at most once for each question.                    *)
THEOREM StoredStaySound == StoresSpec => []StoredAreSound
<1>1. StoresInit => ReviewInv
  BY ReviewInitInv DEF StoresInit
<1>2. ReviewInv /\ [StoresNext]_<<promotionVars, reviewVars, part>> => ReviewInv'
  <2>1. [StoresNext]_<<promotionVars, reviewVars, part>> => [ReviewNext]_reviewVars
    BY DEF StoresNext
  <2> QED BY <2>1, ReviewStep
<1> QED BY <1>1, <1>2, ReviewInvImplies, PTL DEF StoresSpec

(* The same as the run states it.                                          *)
THEOREM StoredHolds == StoresSpec => []StoredHold
<1>1. StoredAreSound => StoredHold
  BY DEF StoredHold
<1> QED BY <1>1, StoredStaySound, PTL

-----------------------------------------------------------------------------
(* The pages of the vault.  Pages, entries and what a process is doing, as *)
(* their fields; what a page holds of people's is in its marks.            *)
IsFront(f) ==
  f = [id |-> f.id, project |-> f.project, rev |-> f.rev, day |-> f.day,
       status |-> f.status, related |-> f.related, marks |-> f.marks]
IsBody(b) == b = [id |-> b.id, rev |-> b.rev, marks |-> b.marks]
IsObs(o) ==
  o = [id |-> o.id, rev |-> o.rev, project |-> o.project, day |-> o.day] /\ o.rev \in Nat
IsCmd(c) ==
  c = [at |-> c.at, syncs |-> c.syncs, project |-> c.project, todo |-> c.todo, obs |-> c.obs,
       address |-> c.address, seen |-> c.seen, moved |-> c.moved, patched |-> c.patched,
       store |-> c.store]

(* A page's body is of the revision its frontmatter tells.                 *)
IsPage(pg) ==
  /\ pg = [front |-> pg.front, body |-> pg.body] /\ IsFront(pg.front) /\ IsBody(pg.body)
  /\ pg.front.rev \in Nat
  /\ pg.body.id = pg.front.id /\ pg.body.rev = pg.front.rev
  /\ pg.body.marks \subseteq {"mid", "end"}
PageOK(addresses, pg) ==
  /\ IsPage(pg)
  /\ pg.front.status \in {"developing", "superseded", "archived"}
  /\ pg.front.related \in addresses \union {None}
PagesOK(F) == F = [a \in DOMAIN F |-> F[a]] /\ \A a \in DOMAIN F : PageOK(DOMAIN F, F[a])

(* An entry's body carries a person's mark only when they gave the page up.*)
EntryOK(given, a, e) ==
  /\ e = [front |-> e.front, body |-> e.body, rev |-> e.rev]
  /\ e.rev \in Nat /\ IsBody(e.body)
  /\ e.body.marks # {} => a \in given
StoreOK(taken, given, S) ==
  /\ S = [a \in DOMAIN S |-> S[a]] /\ DOMAIN S \subseteq taken
  /\ \A a \in DOMAIN S : EntryOK(given, a, S[a])

(* What a process knows where it stands: a page that it will update or that*)
(* others will point to is there, and what it judged of the page holds.    *)
Promoting == {"promote", "address", "entry", "page", "update", "recorded", "register", "supersede"}
CmdOK(there, taken, given, c) ==
  /\ IsCmd(c) /\ IsObs(c.obs) /\ IsPage(c.seen)
  /\ c.at \in Promoting \union {"free", "sync", "propagate"}
  /\ c.at \in Promoting \union {"sync"} => \A o \in c.todo : IsObs(o)
  /\ StoreOK(taken, given, c.store)
  /\ c.moved \subseteq there
  /\ c.at \in {"entry", "page"} => c.address \in taken
  /\ c.at \in {"update", "recorded", "register", "supersede"} => c.address \in there
  /\ c.at = "update" => MayOverwrite(c.store, c.address, c.seen, Render(c.obs))

IsMemory(m) ==
  /\ m = [rev |-> m.rev, project |-> m.project, deleted |-> m.deleted, superseded |-> m.superseded]
  /\ m.rev \in Nat
MemoryOK == memory = [o \in Observations |-> memory[o]] /\ \A o \in Observations : IsMemory(memory[o])

VaultOK(F, S, taken, cat, given, C) ==
  /\ PagesOK(F) /\ DOMAIN F \subseteq taken /\ cat \subseteq DOMAIN F
  /\ \E n \in 0..MaxPages : taken = 1..n
  /\ StoreOK(taken, given, S)
  /\ C = [p \in Processes |-> C[p]]
  /\ \A p \in Processes : CmdOK(DOMAIN F, taken, given, C[p])

VaultInv == MemoryOK /\ VaultOK(pages, precedence, allocated, catalog, adopted, cmd)

-----------------------------------------------------------------------------
(* Pages and entries.                                                      *)

LEMMA RenderIs ==
  ASSUME NEW o, IsObs(o)
  PROVE  /\ IsPage(Render(o)) /\ Render(o).front.status = "developing"
         /\ Render(o).front.related = None
         /\ Render(o).front.id = o.id /\ Render(o).front.project = o.project
         /\ Render(o).front.rev = o.rev /\ Render(o).body.marks = {}
         /\ Render(o).body.rev = o.rev
BY DEF Render, IsPage, IsFront, IsBody, IsObs

LEMMA EntryForIs ==
  ASSUME NEW pg, IsPage(pg), NEW given, NEW a, pg.body.marks # {} => a \in given
  PROVE  EntryOK(given, a, EntryFor(pg)) /\ EntryFor(pg).rev = pg.front.rev
BY DEF EntryFor, EntryOK, IsPage, IsBody

LEMMA WithStore ==
  ASSUME NEW taken, NEW given, NEW S, StoreOK(taken, given, S),
         NEW a \in taken, NEW e, EntryOK(given, a, e)
  PROVE  StoreOK(taken, given, With(S, a, e))
<1>1. PICK T : T = With(S, a, e)
  OBVIOUS
<1>2. /\ T = [b \in DOMAIN T |-> T[b]] /\ DOMAIN T = DOMAIN S \union {a} /\ T[a] = e
      /\ \A b \in DOMAIN S : b # a => T[b] = S[b]
  BY <1>1 DEF With
<1>3. \A b \in DOMAIN T : EntryOK(given, b, T[b])
  BY <1>2 DEF StoreOK
<1>4. DOMAIN T \subseteq taken
  BY <1>2 DEF StoreOK
<1> QED BY <1>1, <1>2, <1>3, <1>4 DEF StoreOK

LEMMA LessStore ==
  ASSUME NEW taken, NEW given, NEW S, StoreOK(taken, given, S), NEW a
  PROVE  StoreOK(taken, given, Less(S, a))
<1>1. PICK T : T = Less(S, a)
  OBVIOUS
<1>2. /\ T = [b \in DOMAIN T |-> T[b]] /\ DOMAIN T = DOMAIN S \ {a}
      /\ \A b \in DOMAIN T : T[b] = S[b]
  BY <1>1 DEF Less
<1>3. \A b \in DOMAIN T : EntryOK(given, b, T[b])
  BY <1>2 DEF StoreOK
<1>4. DOMAIN T \subseteq taken
  BY <1>2 DEF StoreOK
<1> QED BY <1>1, <1>2, <1>3, <1>4 DEF StoreOK

(* A patch changes the status and where it points, and nothing else.       *)
LEMMA PatchedIs ==
  ASSUME NEW pg, IsPage(pg), NEW fate
  PROVE  /\ IsPage(Patched(pg, fate))
         /\ Patched(pg, fate).front.status = fate.status
         /\ Patched(pg, fate).front.related = fate.related
         /\ Patched(pg, fate).front.id = pg.front.id
         /\ Patched(pg, fate).front.project = pg.front.project
         /\ Patched(pg, fate).front.rev = pg.front.rev
         /\ Patched(pg, fate).body = pg.body
<1>1. PICK x, y : x = fate.status /\ y = fate.related
  OBVIOUS
<1>2. PICK g : g = [pg EXCEPT !.front.status = x, !.front.related = y]
  OBVIOUS
<1>3. /\ g = [front |-> g.front, body |-> g.body] /\ g.body = pg.body /\ IsFront(g.front)
      /\ g.front.status = x /\ g.front.related = y /\ g.front.id = pg.front.id
      /\ g.front.project = pg.front.project /\ g.front.rev = pg.front.rev
  BY <1>2 DEF IsPage, IsFront
<1>4. Patched(pg, fate) = g
  BY <1>1, <1>2 DEF Patched
<1> QED BY <1>1, <1>3, <1>4 DEF IsPage

LEMMA PatchedEntryIs ==
  ASSUME NEW taken, NEW given, NEW S, StoreOK(taken, given, S), NEW a, NEW pg
  PROVE  /\ EntryOK(given, a, PatchedEntry(S, a, pg))
         /\ a \in DOMAIN S => PatchedEntry(S, a, pg).rev = S[a].rev
         /\ a \notin DOMAIN S => PatchedEntry(S, a, pg).rev = 0
<1>1. CASE a \notin DOMAIN S
  BY <1>1 DEF PatchedEntry, EntryOK, NoText, IsBody
<1>2. CASE a \in DOMAIN S
  <2>1. PICK e : e = S[a] /\ EntryOK(given, a, e)
    BY <1>2 DEF StoreOK
  <2>2. PICK f, b, r : e = [front |-> f, body |-> b, rev |-> r]
    BY <2>1 DEF EntryOK
  <2>3. PatchedEntry(S, a, pg) = [front |-> pg.front, body |-> b, rev |-> r]
    BY <1>2, <2>1, <2>2 DEF PatchedEntry
  <2> QED BY <1>2, <2>1, <2>2, <2>3 DEF EntryOK
<1> QED BY <1>1, <1>2

(* A page put in place of another, or at an address of its own.            *)
LEMMA WithPage ==
  ASSUME NEW F, PagesOK(F), NEW a, NEW pg, PageOK(DOMAIN F \union {a}, pg)
  PROVE  PagesOK(With(F, a, pg))
<1>1. PICK T : T = With(F, a, pg)
  OBVIOUS
<1>2. /\ T = [b \in DOMAIN T |-> T[b]] /\ DOMAIN T = DOMAIN F \union {a} /\ T[a] = pg
      /\ \A b \in DOMAIN F : b # a => T[b] = F[b]
  BY <1>1 DEF With
<1>3. \A b \in DOMAIN F : PageOK(DOMAIN T, F[b])
  BY <1>2 DEF PagesOK, PageOK
<1>4. \A b \in DOMAIN T : PageOK(DOMAIN T, T[b])
  BY <1>2, <1>3
<1> QED BY <1>1, <1>2, <1>4 DEF PagesOK

(* Among addresses there is a least one, so the page that is found is one  *)
(* of those looked for.                                                    *)
LEMMA LeastAddress ==
  ASSUME NEW n \in Nat, NEW S \in SUBSET (1..n), S # {}
  PROVE  \E k \in S : \A j \in S : k <= j
<1> DEFINE R == StrictSubsetOrdering(1..n)
           Lower(k) == {j \in S : j < k}
           T == {Lower(k) : k \in S}
<1>1. IsWellFoundedOn(R, FiniteSubsetsOf(1..n))
  BY FS_StrictSubsetOrderingWellFounded
<1>2. IsFiniteSet(1..n) /\ \A k \in S : Lower(k) \in SUBSET (1..n)
  <2>1. IsFiniteSet(1..n)
    BY FS_Interval
  <2>2. \A k \in S : Lower(k) \in SUBSET (1..n)
    OBVIOUS
  <2> QED BY <2>1, <2>2
<1>3. \A k \in S : Lower(k) \in FiniteSubsetsOf(1..n)
  BY <1>2, FS_Subset DEF FiniteSubsetsOf
<1>4. T \subseteq FiniteSubsetsOf(1..n) /\ T # {}
  BY <1>3
<1>5. PICK t \in T : \A u \in T : ~(<<u, t>> \in R)
  <2> HIDE DEF R, T
  <2> QED BY <1>1, <1>4, WFMin
<1>6. PICK k \in S : t = Lower(k)
  OBVIOUS
<1>7. ASSUME NEW j \in S, j < k PROVE FALSE
  <2>1. Lower(j) \subseteq Lower(k) /\ j \in Lower(k) /\ j \notin Lower(j)
    <3>1. j \in Int /\ k \in Int /\ \A i \in S : i \in Int
      OBVIOUS
    <3>2. \A i \in S : i < j => i < k
      BY <1>7, <3>1
    <3>3. ~(j < j)
      BY <3>1
    <3> QED BY <1>7, <3>2, <3>3
  <2>2. Lower(j) \in SUBSET (1..n) /\ Lower(k) \in SUBSET (1..n) /\ Lower(j) # Lower(k)
    BY <1>2, <2>1
  <2>3. <<Lower(j), Lower(k)>> \in R
    BY <2>1, <2>2 DEF StrictSubsetOrdering
  <2> QED BY <1>5, <1>6, <2>3
<1>8. \A j \in S : k <= j
  BY <1>7
<1> QED BY <1>8

-----------------------------------------------------------------------------
(* What a process does with what it holds.                                 *)

Turns(p) ==
  /\ cmd' = [q \in Processes |-> cmd'[q]]
  /\ \A q \in Processes : q # p => cmd'[q] = cmd[q]
  /\ IsCmd(cmd'[p])

LEMMA EmptyStore == DOMAIN <<>> = {} /\ <<>> = [a \in DOMAIN <<>> |-> <<>>[a]]
<1>1. DOMAIN <<>> = {}
  OBVIOUS
<1> QED BY <1>1

LEMMA FreeIs ==
  /\ IsCmd(Free) /\ Free.at = "free" /\ Free.syncs = FALSE /\ Free.todo = {} /\ Free.obs = Nobody
  /\ Free.address = None /\ Free.seen = NoPage /\ Free.moved = {} /\ Free.patched = FALSE
  /\ Free.store = <<>> /\ IsObs(Nobody) /\ IsPage(NoPage)
<1>1. IsObs(Nobody)
  BY DEF Nobody, IsObs
<1>2. IsPage(NoPage)
  BY <1>1, RenderIs DEF NoPage
<1> QED BY <1>1, <1>2 DEF Free, IsCmd

LEMMA FreeOK == ASSUME NEW there, NEW taken, NEW given PROVE CmdOK(there, taken, given, Free)
<1>1. StoreOK(taken, given, <<>>)
  BY EmptyStore DEF StoreOK
<1> QED BY <1>1, FreeIs DEF CmdOK, Promoting

LEMMA CommandIs ==
  ASSUME VaultInv, NEW p \in Processes
  PROVE  /\ cmd = [q \in Processes |-> cmd[q]] /\ IsCmd(cmd[p])
         /\ CmdOK(DOMAIN pages, allocated, adopted, cmd[p])
BY DEF VaultInv, VaultOK, CmdOK

LEMMA BeginsSyncLooks ==
  ASSUME VaultInv, NEW p \in Processes, NEW q, NEW day, BeginsSync(p, q, day)
  PROVE  /\ Turns(p) /\ cmd'[p].at = "sync" /\ cmd'[p].store = precedence /\ cmd'[p].moved = {}
         /\ cmd'[p].todo = {Revised(o, day) : o \in {x \in Observations :
                              memory[x].project = q /\ ~memory[x].deleted}}
         /\ cmd'[p].obs = Nobody /\ cmd'[p].seen = NoPage
<1>1. PICK todo : todo = {Revised(o, day) : o \in {x \in Observations :
                              memory[x].project = q /\ ~memory[x].deleted}}
  OBVIOUS
<1>2. PICK c : c = [Free EXCEPT !.at = "sync", !.syncs = TRUE, !.project = q, !.store = precedence,
                                !.todo = todo]
  OBVIOUS
<1>3. /\ IsCmd(c) /\ c.at = "sync" /\ c.store = precedence /\ c.moved = {} /\ c.todo = todo
      /\ c.obs = Nobody /\ c.seen = NoPage
  <2>1. PICK free : free = Free
    OBVIOUS
  <2> QED BY <1>2, <2>1, FreeIs DEF IsCmd
<1>4. cmd' = [cmd EXCEPT ![p] = c]
  BY <1>1, <1>2 DEF BeginsSync
<1> QED BY <1>1, <1>3, <1>4, CommandIs DEF Turns

LEMMA BeginsPromoteLooks ==
  ASSUME VaultInv, NEW p \in Processes, NEW o, NEW day, BeginsPromote(p, o, day)
  PROVE  /\ Turns(p) /\ cmd'[p].at = "promote" /\ cmd'[p].store = precedence /\ cmd'[p].moved = {}
         /\ cmd'[p].todo = {} /\ cmd'[p].obs = Revised(o, day) /\ cmd'[p].seen = NoPage
<1>1. PICK obs : obs = Revised(o, day)
  OBVIOUS
<1>2. PICK c : c = [Free EXCEPT !.at = "promote", !.obs = obs, !.store = precedence]
  OBVIOUS
<1>3. /\ IsCmd(c) /\ c.at = "promote" /\ c.store = precedence /\ c.moved = {} /\ c.todo = {}
      /\ c.obs = obs /\ c.seen = NoPage
  <2>1. PICK free : free = Free
    OBVIOUS
  <2> QED BY <1>2, <2>1, FreeIs DEF IsCmd
<1>4. cmd' = [cmd EXCEPT ![p] = c]
  BY <1>1, <1>2 DEF BeginsPromote
<1> QED BY <1>1, <1>3, <1>4, CommandIs DEF Turns

LEMMA DecidesLooks ==
  ASSUME VaultInv, NEW p \in Processes, Decides(p)
  PROVE  \E obs \in cmd[p].todo :
           /\ Turns(p) /\ cmd[p].at = "sync" /\ cmd'[p].todo = cmd[p].todo \ {obs}
           /\ \/ cmd'[p].at = "promote" /\ cmd'[p].obs = obs
              \/ cmd'[p].at = "sync" /\ cmd'[p].obs = Nobody
           /\ cmd'[p].store = cmd[p].store /\ cmd'[p].moved = cmd[p].moved /\ cmd'[p].seen = cmd[p].seen
<1>1. PICK obs \in cmd[p].todo :
        cmd' = [cmd EXCEPT ![p].todo = @ \ {obs},
                           ![p].at = IF Needed(obs) THEN "promote" ELSE "sync",
                           ![p].obs = IF Needed(obs) THEN obs ELSE Nobody]
  BY DEF Decides
<1>2. PICK at, x, rest : /\ at = IF Needed(obs) THEN "promote" ELSE "sync"
                         /\ x = IF Needed(obs) THEN obs ELSE Nobody
                         /\ rest = cmd[p].todo \ {obs}
  OBVIOUS
<1>3. cmd' = [cmd EXCEPT ![p].todo = rest, ![p].at = at, ![p].obs = x]
  BY <1>1, <1>2
<1>4. cmd = [q \in Processes |-> cmd[q]] /\ IsCmd(cmd[p])
  BY CommandIs
<1>5. /\ Turns(p) /\ cmd'[p].todo = rest /\ cmd'[p].at = at /\ cmd'[p].obs = x
      /\ cmd'[p].store = cmd[p].store /\ cmd'[p].moved = cmd[p].moved /\ cmd'[p].seen = cmd[p].seen
  BY <1>3, <1>4 DEF Turns, IsCmd
<1> QED BY <1>2, <1>5 DEF Decides, At

(* The next observation, or none.                                          *)
LEMMA NextLooks ==
  ASSUME VaultInv, NEW p \in Processes, NEW store, Next1(p, store)
  PROVE  /\ Turns(p)
         /\ \/ /\ cmd'[p].at = "sync" /\ cmd'[p].todo = cmd[p].todo /\ cmd'[p].obs = Nobody
               /\ cmd'[p].seen = NoPage /\ cmd'[p].moved = {} /\ cmd'[p].store = store
            \/ cmd'[p] = Free
<1>1. cmd = [q \in Processes |-> cmd[q]] /\ IsCmd(cmd[p])
  BY CommandIs
<1>2. CASE ~cmd[p].syncs
  <2>1. cmd' = [cmd EXCEPT ![p] = Free]
    BY <1>2, <1>1 DEF Next1
  <2> QED BY <2>1, <1>1, FreeIs DEF Turns
<1>3. CASE cmd[p].syncs
  <2>1. PICK old : old = cmd[p]
    OBVIOUS
  <2>2. PICK c : c = [old EXCEPT !.at = "sync", !.obs = Nobody, !.address = None, !.seen = NoPage,
                                 !.moved = {}, !.patched = FALSE, !.store = store]
    OBVIOUS
  <2>3. /\ IsCmd(c) /\ c.at = "sync" /\ c.todo = old.todo /\ c.obs = Nobody /\ c.seen = NoPage
        /\ c.moved = {} /\ c.store = store
    BY <1>1, <2>1, <2>2 DEF IsCmd
  <2>4. cmd' = [cmd EXCEPT ![p] = c]
    BY <1>3, <1>1, <2>1, <2>2 DEF Next1
  <2> QED BY <2>1, <2>3, <2>4, <1>1 DEF Turns
<1> QED BY <1>2, <1>3

LEMMA FreeLooks ==
  ASSUME VaultInv, NEW p \in Processes, cmd' = [cmd EXCEPT ![p] = Free]
  PROVE  Turns(p) /\ cmd'[p] = Free
BY CommandIs, FreeIs DEF Turns

(* Going on to another step, with what is held the same.                   *)
LEMMA GoesLooks ==
  ASSUME VaultInv, NEW p \in Processes, NEW at, cmd' = [cmd EXCEPT ![p].at = at]
  PROVE  /\ Turns(p) /\ cmd'[p].at = at /\ cmd'[p].todo = cmd[p].todo /\ cmd'[p].obs = cmd[p].obs
         /\ cmd'[p].address = cmd[p].address /\ cmd'[p].seen = cmd[p].seen
         /\ cmd'[p].moved = cmd[p].moved /\ cmd'[p].store = cmd[p].store
<1>1. cmd = [q \in Processes |-> cmd[q]] /\ IsCmd(cmd[p])
  BY CommandIs
<1> QED BY <1>1 DEF Turns, IsCmd

LEMMA StoresLooks ==
  ASSUME VaultInv, NEW p \in Processes, NEW at, NEW store,
         cmd' = [cmd EXCEPT ![p].store = store, ![p].at = at]
  PROVE  /\ Turns(p) /\ cmd'[p].at = at /\ cmd'[p].todo = cmd[p].todo /\ cmd'[p].obs = cmd[p].obs
         /\ cmd'[p].address = cmd[p].address /\ cmd'[p].seen = cmd[p].seen
         /\ cmd'[p].moved = cmd[p].moved /\ cmd'[p].store = store
<1>1. cmd = [q \in Processes |-> cmd[q]] /\ IsCmd(cmd[p])
  BY CommandIs
<1> QED BY <1>1 DEF Turns, IsCmd

LEMMA TakesLooks ==
  ASSUME VaultInv, NEW p \in Processes, TakesAddress(p)
  PROVE  /\ Turns(p) /\ cmd[p].at = "address" /\ cmd'[p].at = "entry" /\ cmd'[p].todo = cmd[p].todo
         /\ cmd'[p].obs = cmd[p].obs /\ cmd'[p].seen = cmd[p].seen
         /\ cmd'[p].moved = cmd[p].moved /\ cmd'[p].store = cmd[p].store
         /\ cmd'[p].address \notin allocated /\ cmd'[p].address \in allocated'
         /\ allocated \subseteq allocated' /\ \E n \in 0..MaxPages : allocated' = 1..n
<1>1. cmd = [q \in Processes |-> cmd[q]] /\ IsCmd(cmd[p])
  BY CommandIs
<1>2. PICK a : a = Cardinality(allocated) + 1
  OBVIOUS
<1>3. PICK n \in 0..MaxPages : allocated = 1..n
  BY DEF VaultInv, VaultOK
<1>4. n \in Nat /\ a = n + 1
  <2>1. n \in Nat /\ Cardinality(1..n) = IF 1 > n THEN 0 ELSE n - 1 + 1
    BY <1>3, MaxPagesAssumption, FS_Interval
  <2> QED BY <1>2, <1>3, <2>1
<1>5. /\ cmd' = [cmd EXCEPT ![p].at = "entry", ![p].address = a] /\ cmd[p].at = "address"
      /\ a \in 1..MaxPages /\ allocated' = allocated \union {a}
  BY <1>2 DEF TakesAddress, At, Addresses
<1>6. allocated' = 1..(n + 1) /\ n + 1 \in 0..MaxPages /\ a \notin allocated
  BY <1>3, <1>4, <1>5, MaxPagesAssumption
<1>7. /\ Turns(p) /\ cmd'[p].at = "entry" /\ cmd'[p].todo = cmd[p].todo
      /\ cmd'[p].obs = cmd[p].obs /\ cmd'[p].seen = cmd[p].seen
      /\ cmd'[p].moved = cmd[p].moved /\ cmd'[p].store = cmd[p].store /\ cmd'[p].address = a
  BY <1>1, <1>5 DEF Turns, IsCmd
<1> QED BY <1>5, <1>6, <1>7

(* A page that is found is the first of those that are.                    *)
LEMMA FoundIs ==
  ASSUME VaultInv, NEW o, NEW q, Found(o, q) # {}
  PROVE  FirstFound(o, q) \in Found(o, q)
<1>1. PICK n \in 0..MaxPages : allocated = 1..n
  BY DEF VaultInv, VaultOK
<1>2. n \in Nat /\ Found(o, q) \in SUBSET (1..n)
  BY <1>1, MaxPagesAssumption DEF Found, PagesOf, VaultInv, VaultOK
<1>3. \E k \in Found(o, q) : \A j \in Found(o, q) : k <= j
  BY ONLY <1>2, LeastAddress, Found(o, q) # {}
<1> QED BY <1>3 DEF FirstFound

LEMMA PromoteLooks ==
  ASSUME VaultInv, NEW p \in Processes, StartsPromote(p)
  PROVE  LET o == cmd[p].obs
             a == FirstFound(o.id, o.project)
         IN
         /\ cmd[p].at = "promote"
         /\ \/ Passes(p)
            \/ /\ Turns(p) /\ cmd'[p].todo = cmd[p].todo /\ cmd'[p].obs = o
               /\ cmd'[p].moved = MovedPages(o.id, o.project) /\ cmd'[p].store = cmd[p].store
               /\ \/ /\ cmd'[p].at = "address" /\ cmd'[p].seen = NoPage
                     /\ Found(o.id, o.project) = {} /\ ~MayBeOneOf(o.id)
                  \/ /\ cmd'[p].at = "update" /\ cmd'[p].seen = pages[a] /\ cmd'[p].address = a
                     /\ Found(o.id, o.project) # {}
                     /\ MayOverwrite(cmd[p].store, a, pages[a], Render(o))
                  \/ /\ cmd'[p].at = "supersede" /\ cmd'[p].seen = NoPage /\ cmd'[p].address = a
                     /\ Found(o.id, o.project) # {}
<1>1. cmd = [q \in Processes |-> cmd[q]] /\ IsCmd(cmd[p])
  BY CommandIs
<1>2. PICK o, a, has, moved :
        /\ o = cmd[p].obs /\ a = FirstFound(o.id, o.project)
        /\ has = (Found(o.id, o.project) # {})
        /\ moved = MovedPages(o.id, o.project)
  OBVIOUS
<1>3. PICK allowed : allowed = MayOverwrite(cmd[p].store, a, pages[a], Render(o))
  OBVIOUS
<1>4. PICK at, address, seen :
        /\ at = IF ~has THEN "address" ELSE IF allowed THEN "update" ELSE "supersede"
        /\ address = IF has THEN a ELSE None
        /\ seen = IF has /\ allowed THEN pages[a] ELSE NoPage
  OBVIOUS
<1>5. CASE ~has /\ MayBeOneOf(o.id)
  BY <1>2, <1>5 DEF StartsPromote, At
<1>6. CASE ~(~has /\ MayBeOneOf(o.id))
  <2>1. cmd' = [cmd EXCEPT ![p].at = at, ![p].address = address, ![p].seen = seen, ![p].moved = moved]
    BY <1>2, <1>3, <1>4, <1>6 DEF StartsPromote, At
  <2>2. /\ Turns(p) /\ cmd'[p].at = at /\ cmd'[p].todo = cmd[p].todo /\ cmd'[p].obs = cmd[p].obs
        /\ cmd'[p].address = address /\ cmd'[p].seen = seen
        /\ cmd'[p].moved = moved /\ cmd'[p].store = cmd[p].store
    BY <1>1, <2>1 DEF Turns, IsCmd
  <2>3. cmd[p].at = "promote"
    BY DEF StartsPromote, At
  <2>4. CASE ~has
    BY <1>2, <1>4, <1>6, <2>2, <2>3, <2>4
  <2>5. CASE has /\ allowed
    BY <1>2, <1>3, <1>4, <2>2, <2>3, <2>5
  <2>6. CASE has /\ ~allowed
    BY <1>2, <1>3, <1>4, <2>2, <2>3, <2>6
  <2> QED BY <2>4, <2>5, <2>6
<1> QED BY <1>5, <1>6

(* A patch of a page, and of what is held of its entry.                    *)
Patches(p, a, fate) ==
  LET page == Patched(pages[a], fate)
  IN  /\ pages' = With(pages, a, page)
      /\ cmd'[p].store = With(cmd[p].store, a, PatchedEntry(cmd[p].store, a, page))

LEMMA FateIs ==
  ASSUME VaultInv, NEW o, NEW q, Fate(o, q).status # "none"
  PROVE  /\ Fate(o, q).status \in {"superseded", "archived"}
         /\ Fate(o, q).related \in DOMAIN pages \union {None}
<1>1. Found(Successor[o], q) # {} => FirstFound(Successor[o], q) \in DOMAIN pages
  BY FoundIs DEF Found, PagesOf
<1> QED BY <1>1 DEF Fate

LEMMA SupersedesLooks ==
  ASSUME VaultInv, NEW p \in Processes, Supersedes(p)
  PROVE  /\ Turns(p) /\ cmd[p].at = "supersede" /\ cmd'[p].at = "supersede"
         /\ cmd'[p].todo = cmd[p].todo /\ cmd'[p].obs = cmd[p].obs /\ cmd'[p].seen = cmd[p].seen
         /\ cmd'[p].address = cmd[p].address /\ cmd'[p].moved \subseteq cmd[p].moved
         /\ \/ pages' = pages /\ cmd'[p].store = cmd[p].store
            \/ \E a \in DOMAIN pages : \E fate :
                 /\ fate.status \in {"superseded", "archived"}
                 /\ fate.related \in DOMAIN pages \union {None} /\ Patches(p, a, fate)
<1>1. cmd = [q \in Processes |-> cmd[q]] /\ IsCmd(cmd[p])
  BY CommandIs
<1>2. cmd[p].at = "supersede" /\ cmd[p].address \in DOMAIN pages
  BY CommandIs DEF Supersedes, At, CmdOK
<1>3. PICK fate : fate = [status |-> "superseded", related |-> cmd[p].address]
  OBVIOUS
<1>4. PICK a \in cmd[p].moved :
        LET left == a \in unreadable \/ a \notin DOMAIN pages \/ pages[a].front.status = "superseded"
            page == Patched(pages[a], fate)
        IN  IF left
            THEN cmd' = [cmd EXCEPT ![p].moved = @ \ {a}] /\ UNCHANGED pages
            ELSE /\ pages' = With(pages, a, page)
                 /\ cmd' = [cmd EXCEPT ![p].moved = @ \ {a}, ![p].patched = TRUE,
                                       ![p].store = With(@, a, PatchedEntry(@, a, page))]
  BY <1>3 DEF Supersedes
<1>5. PICK rest, store :
        /\ rest = cmd[p].moved \ {a}
        /\ store = With(cmd[p].store, a, PatchedEntry(cmd[p].store, a, Patched(pages[a], fate)))
  OBVIOUS
<1>6. CASE a \in unreadable \/ a \notin DOMAIN pages \/ pages[a].front.status = "superseded"
  <2>1. cmd' = [cmd EXCEPT ![p].moved = rest] /\ pages' = pages
    BY <1>4, <1>5, <1>6
  <2>2. /\ Turns(p) /\ cmd'[p].at = cmd[p].at /\ cmd'[p].todo = cmd[p].todo
        /\ cmd'[p].obs = cmd[p].obs /\ cmd'[p].seen = cmd[p].seen
        /\ cmd'[p].address = cmd[p].address /\ cmd'[p].moved = rest /\ cmd'[p].store = cmd[p].store
    BY <2>1, <1>1 DEF Turns, IsCmd
  <2> QED BY <1>2, <1>5, <2>1, <2>2
<1>7. CASE ~(a \in unreadable \/ a \notin DOMAIN pages \/ pages[a].front.status = "superseded")
  <2>1. /\ cmd' = [cmd EXCEPT ![p].moved = rest, ![p].patched = TRUE, ![p].store = store]
        /\ pages' = With(pages, a, Patched(pages[a], fate))
    BY <1>1, <1>4, <1>5, <1>7
  <2>2. /\ Turns(p) /\ cmd'[p].at = cmd[p].at /\ cmd'[p].todo = cmd[p].todo
        /\ cmd'[p].obs = cmd[p].obs /\ cmd'[p].seen = cmd[p].seen
        /\ cmd'[p].address = cmd[p].address /\ cmd'[p].moved = rest /\ cmd'[p].store = store
    BY <2>1, <1>1 DEF Turns, IsCmd
  <2>3. Patches(p, a, fate)
    BY <1>5, <2>1, <2>2 DEF Patches
  <2> QED BY <1>2, <1>3, <1>5, <1>7, <2>2, <2>3
<1> QED BY <1>6, <1>7

LEMMA PropagatesLooks ==
  ASSUME VaultInv, NEW p \in Processes, Propagates(p)
  PROVE  /\ Turns(p) /\ cmd[p].at = "propagate" /\ cmd'[p].at = "propagate"
         /\ cmd'[p].obs = cmd[p].obs /\ cmd'[p].seen = cmd[p].seen /\ cmd'[p].moved = cmd[p].moved
         /\ \/ pages' = pages /\ cmd'[p].store = cmd[p].store
            \/ \E a \in DOMAIN pages : \E fate :
                 /\ fate.status \in {"superseded", "archived"}
                 /\ fate.related \in DOMAIN pages \union {None} /\ Patches(p, a, fate)
<1>1. cmd = [q \in Processes |-> cmd[q]] /\ IsCmd(cmd[p])
  BY CommandIs
<1>2. cmd[p].at = "propagate"
  BY DEF Propagates, At
<1>3. PICK o \in cmd[p].todo :
       LET a == FirstFound(o, cmd[p].project)
           fate == Fate(o, cmd[p].project)
           page == Patched(pages[a], fate)
       IN  IF Found(o, cmd[p].project) = {} \/ fate.status = "none"
           THEN cmd' = [cmd EXCEPT ![p].todo = @ \ {o}] /\ UNCHANGED pages
           ELSE /\ pages' = With(pages, a, page)
                /\ cmd' = [cmd EXCEPT ![p].todo = @ \ {o}, ![p].patched = TRUE,
                                      ![p].store = With(@, a, PatchedEntry(@, a, page))]
  BY DEF Propagates
<1>4. PICK a, fate : a = FirstFound(o, cmd[p].project) /\ fate = Fate(o, cmd[p].project)
  OBVIOUS
<1>5. PICK rest, store :
        /\ rest = cmd[p].todo \ {o}
        /\ store = With(cmd[p].store, a, PatchedEntry(cmd[p].store, a, Patched(pages[a], fate)))
  OBVIOUS
<1>6. CASE Found(o, cmd[p].project) = {} \/ fate.status = "none"
  <2>1. cmd' = [cmd EXCEPT ![p].todo = rest] /\ pages' = pages
    BY <1>3, <1>4, <1>5, <1>6
  <2>2. /\ Turns(p) /\ cmd'[p].at = cmd[p].at /\ cmd'[p].obs = cmd[p].obs
        /\ cmd'[p].seen = cmd[p].seen /\ cmd'[p].moved = cmd[p].moved /\ cmd'[p].store = cmd[p].store
    BY <2>1, <1>1 DEF Turns, IsCmd
  <2> QED BY <1>2, <2>1, <2>2
<1>7. CASE ~(Found(o, cmd[p].project) = {} \/ fate.status = "none")
  <2>1. /\ cmd' = [cmd EXCEPT ![p].todo = rest, ![p].patched = TRUE, ![p].store = store]
        /\ pages' = With(pages, a, Patched(pages[a], fate))
    BY <1>1, <1>3, <1>4, <1>5, <1>7
  <2>2. /\ Turns(p) /\ cmd'[p].at = cmd[p].at /\ cmd'[p].obs = cmd[p].obs
        /\ cmd'[p].seen = cmd[p].seen /\ cmd'[p].moved = cmd[p].moved /\ cmd'[p].store = store
    BY <2>1, <1>1 DEF Turns, IsCmd
  <2>3. Patches(p, a, fate)
    BY <1>5, <2>1, <2>2 DEF Patches
  <2>4. a \in DOMAIN pages
    BY <1>4, <1>7, FoundIs DEF Found, PagesOf
  <2>5. fate.status \in {"superseded", "archived"} /\ fate.related \in DOMAIN pages \union {None}
    BY <1>4, <1>7, FateIs
  <2> QED BY <1>2, <2>2, <2>3, <2>4, <2>5
<1> QED BY <1>6, <1>7

LEMMA UpdatesLooks ==
  ASSUME VaultInv, NEW p \in Processes, UpdatesPage(p)
  PROVE  /\ Turns(p) /\ cmd[p].at = "update" /\ cmd'[p].at = "recorded" /\ cmd'[p].todo = cmd[p].todo
         /\ cmd'[p].obs = cmd[p].obs /\ cmd'[p].address = cmd[p].address
         /\ cmd'[p].seen = cmd[p].seen /\ cmd'[p].moved = cmd[p].moved
         /\ cmd'[p].store = With(cmd[p].store, cmd[p].address, EntryFor(Render(cmd[p].obs)))
<1>1. cmd = [q \in Processes |-> cmd[q]] /\ IsCmd(cmd[p])
  BY CommandIs
<1>2. PICK store : store = With(cmd[p].store, cmd[p].address, EntryFor(Render(cmd[p].obs)))
  OBVIOUS
<1>3. cmd' = [cmd EXCEPT ![p].at = "recorded", ![p].store = store] /\ cmd[p].at = "update"
  BY <1>1, <1>2 DEF UpdatesPage, At
<1> QED BY <1>1, <1>2, <1>3 DEF Turns, IsCmd

LEMMA BeginsPropagateLooks ==
  ASSUME VaultInv, NEW p \in Processes, BeginsPropagate(p)
  PROVE  /\ Turns(p) /\ cmd[p].at = "sync" /\ cmd'[p].at = "propagate" /\ cmd'[p].obs = cmd[p].obs
         /\ cmd'[p].seen = cmd[p].seen /\ cmd'[p].moved = cmd[p].moved
         /\ cmd'[p].store = cmd[p].store
<1>1. cmd = [q \in Processes |-> cmd[q]] /\ IsCmd(cmd[p])
  BY CommandIs
<1>2. PICK todo : todo = {x \in Observations : memory[x].project = cmd[p].project}
  OBVIOUS
<1>3. cmd' = [cmd EXCEPT ![p].at = "propagate", ![p].todo = todo] /\ cmd[p].at = "sync"
  BY <1>2 DEF BeginsPropagate, At
<1> QED BY <1>1, <1>3 DEF Turns, IsCmd

-----------------------------------------------------------------------------
(* What a process knows stays true while pages, addresses and what people  *)
(* gave up only grow.                                                      *)
LEMMA StoreGrows ==
  ASSUME NEW taken, NEW given, NEW S, StoreOK(taken, given, S),
         NEW taken2, NEW given2, taken \subseteq taken2, given \subseteq given2
  PROVE  StoreOK(taken2, given2, S)
<1>1. \A a \in DOMAIN S : EntryOK(given2, a, S[a])
  BY DEF StoreOK, EntryOK
<1>2. DOMAIN S \subseteq taken2 /\ S = [a \in DOMAIN S |-> S[a]]
  BY DEF StoreOK
<1> QED BY <1>1, <1>2 DEF StoreOK

LEMMA CommandGrows ==
  ASSUME NEW there, NEW taken, NEW given, NEW c, CmdOK(there, taken, given, c),
         NEW there2, NEW taken2, NEW given2,
         there \subseteq there2, taken \subseteq taken2, given \subseteq given2
  PROVE  CmdOK(there2, taken2, given2, c)
<1>1. StoreOK(taken2, given2, c.store)
  BY StoreGrows DEF CmdOK
<1> QED BY <1>1 DEF CmdOK

LEMMA VaultStep ==
  ASSUME NEW F, NEW S, NEW T, NEW cat, NEW G, NEW C, VaultOK(F, S, T, cat, G, C),
         NEW F2, NEW S2, NEW T2, NEW cat2, NEW G2, NEW D,
         PagesOK(F2), DOMAIN F \subseteq DOMAIN F2, DOMAIN F2 \subseteq T2,
         T \subseteq T2, \E n \in 0..MaxPages : T2 = 1..n,
         cat2 \subseteq DOMAIN F2, G \subseteq G2, StoreOK(T2, G2, S2),
         D = [q \in Processes |-> D[q]],
         \A q \in Processes : D[q] = C[q] \/ CmdOK(DOMAIN F2, T2, G2, D[q])
  PROVE  VaultOK(F2, S2, T2, cat2, G2, D)
<1>1. \A q \in Processes : CmdOK(DOMAIN F2, T2, G2, D[q])
  <2>1. TAKE q \in Processes
  <2>2. CmdOK(DOMAIN F, T, G, C[q])
    BY DEF VaultOK
  <2>3. CmdOK(DOMAIN F2, T2, G2, C[q])
    BY <2>2, CommandGrows
  <2> QED BY <2>3
<1> QED BY <1>1 DEF VaultOK

(* A step of one process.                                                  *)
LEMMA TurnKeeps ==
  ASSUME VaultInv, NEW p \in Processes, Turns(p), UNCHANGED people,
         PagesOK(pages'), DOMAIN pages \subseteq DOMAIN pages', DOMAIN pages' \subseteq allocated',
         allocated \subseteq allocated', \E n \in 0..MaxPages : allocated' = 1..n,
         catalog' \subseteq DOMAIN pages', StoreOK(allocated', adopted, precedence'),
         CmdOK(DOMAIN pages', allocated', adopted, cmd'[p])
  PROVE  VaultInv'
<1>1. MemoryOK'
  BY DEF MemoryOK, people, VaultInv
<1>2. PICK F2, S2, T2, cat2, D :
        F2 = pages' /\ S2 = precedence' /\ T2 = allocated' /\ cat2 = catalog' /\ D = cmd'
  OBVIOUS
<1>3. D = [q \in Processes |-> D[q]] /\ \A q \in Processes : q # p => D[q] = cmd[q]
  BY <1>2 DEF Turns
<1>4. VaultOK(pages, precedence, allocated, catalog, adopted, cmd)
  BY DEF VaultInv
<1>5. VaultOK(F2, S2, T2, cat2, adopted, D)
  BY <1>2, <1>3, <1>4, VaultStep
<1> QED BY <1>1, <1>2, <1>5 DEF VaultInv, people

(* One that only changes what the process holds.                           *)
LEMMA HoldKeeps ==
  ASSUME VaultInv, NEW p \in Processes, Turns(p), UNCHANGED people,
         UNCHANGED <<pages, catalog, allocated>>, StoreOK(allocated, adopted, precedence'),
         CmdOK(DOMAIN pages, allocated, adopted, cmd'[p])
  PROVE  VaultInv'
<1>1. /\ PagesOK(pages) /\ DOMAIN pages \subseteq allocated /\ catalog \subseteq DOMAIN pages
      /\ \E n \in 0..MaxPages : allocated = 1..n
  BY DEF VaultInv, VaultOK
<1>2. /\ PagesOK(pages') /\ DOMAIN pages \subseteq DOMAIN pages' /\ DOMAIN pages' \subseteq allocated'
      /\ allocated \subseteq allocated' /\ catalog' \subseteq DOMAIN pages'
      /\ \E n \in 0..MaxPages : allocated' = 1..n
  BY <1>1
<1>3. StoreOK(allocated', adopted, precedence') /\ CmdOK(DOMAIN pages', allocated', adopted, cmd'[p])
  OBVIOUS
<1> QED BY <1>2, <1>3, TurnKeeps

LEMMA NextKeeps ==
  ASSUME VaultInv, NEW p \in Processes, UNCHANGED people, UNCHANGED <<pages, catalog, allocated>>,
         StoreOK(allocated, adopted, precedence'),
         cmd[p].at \in Promoting,
         NEW store, Next1(p, store), StoreOK(allocated, adopted, store)
  PROVE  VaultInv'
<1>1. CmdOK(DOMAIN pages, allocated, adopted, cmd[p])
  BY CommandIs
<1>2. CASE cmd'[p] = Free
  <2>1. CmdOK(DOMAIN pages, allocated, adopted, cmd'[p])
    BY <1>2, FreeOK
  <2> QED BY <2>1, NextLooks, HoldKeeps
<1>3. CASE cmd'[p] # Free
  <2>1. /\ Turns(p) /\ cmd'[p].at = "sync" /\ cmd'[p].todo = cmd[p].todo /\ cmd'[p].obs = Nobody
        /\ cmd'[p].seen = NoPage /\ cmd'[p].moved = {} /\ cmd'[p].store = store
    BY <1>3, NextLooks
  <2>2. CmdOK(DOMAIN pages, allocated, adopted, cmd'[p])
    BY <1>1, <2>1, FreeIs DEF CmdOK, Promoting, Turns
  <2> QED BY <2>1, <2>2, HoldKeeps
<1> QED BY <1>2, <1>3

LEMMA FreeKeeps ==
  ASSUME VaultInv, NEW p \in Processes, UNCHANGED people, UNCHANGED <<pages, catalog, allocated>>,
         StoreOK(allocated, adopted, precedence'), cmd' = [cmd EXCEPT ![p] = Free]
  PROVE  VaultInv'
<1>1. Turns(p) /\ CmdOK(DOMAIN pages, allocated, adopted, cmd'[p])
  BY FreeLooks, FreeOK
<1> QED BY <1>1, HoldKeeps

LEMMA EntryStore ==
  ASSUME VaultInv, NEW p \in Processes, cmd[p].address \in allocated
  PROVE  StoreOK(allocated, adopted, With(cmd[p].store, cmd[p].address, EntryFor(Render(cmd[p].obs))))
<1>1. PICK pg : pg = Render(cmd[p].obs)
  OBVIOUS
<1>2. IsPage(pg) /\ pg.body.marks = {} /\ StoreOK(allocated, adopted, cmd[p].store)
  BY <1>1, CommandIs, RenderIs DEF CmdOK
<1>3. EntryOK(adopted, cmd[p].address, EntryFor(pg))
  BY <1>2, EntryForIs
<1> QED BY <1>1, <1>2, <1>3, WithStore

LEMMA PatchKeeps ==
  ASSUME VaultInv, NEW p \in Processes, NEW a \in DOMAIN pages, NEW fate,
         fate.status \in {"superseded", "archived"}, fate.related \in DOMAIN pages \union {None},
         Patches(p, a, fate)
  PROVE  /\ PagesOK(pages') /\ DOMAIN pages' = DOMAIN pages
         /\ StoreOK(allocated, adopted, cmd'[p].store)
<1>1. PICK old, pg : old = pages[a] /\ pg = Patched(old, fate)
  OBVIOUS
<1>2. /\ IsPage(old) /\ PagesOK(pages) /\ StoreOK(allocated, adopted, cmd[p].store)
      /\ a \in allocated
  BY <1>1, CommandIs DEF VaultInv, VaultOK, PagesOK, PageOK, CmdOK
<1>3. PageOK(DOMAIN pages \union {a}, pg)
  BY <1>1, <1>2, PatchedIs DEF PageOK
<1>4. PagesOK(With(pages, a, pg)) /\ pages' = With(pages, a, pg)
  BY <1>1, <1>2, <1>3, WithPage DEF Patches
<1>5. EntryOK(adopted, a, PatchedEntry(cmd[p].store, a, pg))
  BY <1>2, PatchedEntryIs
<1>6. StoreOK(allocated, adopted, cmd'[p].store)
  BY <1>1, <1>2, <1>5, WithStore DEF Patches
<1>7. DOMAIN With(pages, a, pg) = DOMAIN pages
  BY DEF With
<1> QED BY <1>4, <1>6, <1>7

LEMMA ProcessKeepsVault ==
  ASSUME VaultInv, NEW p \in Processes,
         Step(p) \/ PageFails(p) \/ WriteFails(p) \/ Killed(p)
           \/ \E day \in Days : \/ \E q \in Projects : BeginsSync(p, q, day)
                                \/ \E o \in Observations : BeginsPromote(p, o, day)
  PROVE  VaultInv'
<1>1. /\ CmdOK(DOMAIN pages, allocated, adopted, cmd[p])
      /\ StoreOK(allocated, adopted, precedence) /\ StoreOK(allocated, adopted, cmd[p].store)
      /\ PagesOK(pages) /\ DOMAIN pages \subseteq allocated /\ catalog \subseteq DOMAIN pages
      /\ \E n \in 0..MaxPages : allocated = 1..n
      /\ cmd = [q \in Processes |-> cmd[q]] /\ IsCmd(cmd[p])
  BY CommandIs DEF VaultInv, VaultOK, CmdOK
<1> USE DEF vault
<1>2. ASSUME NEW q, NEW day, BeginsSync(p, q, day) PROVE VaultInv'
  <2>1. \A o \in Observations : IsObs(Revised(o, day))
    BY DEF Revised, IsObs, VaultInv, MemoryOK, IsMemory
  <2>2. CmdOK(DOMAIN pages, allocated, adopted, cmd'[p])
    BY <1>1, <1>2, <2>1, BeginsSyncLooks, FreeIs DEF CmdOK, Promoting, Turns
  <2>3. Turns(p) /\ UNCHANGED people /\ UNCHANGED <<pages, precedence, catalog, allocated>>
    <3>1. Turns(p)
      BY <1>2, BeginsSyncLooks
    <3>2. UNCHANGED people /\ UNCHANGED <<pages, precedence, catalog, allocated>>
      BY <1>2 DEF BeginsSync
    <3> QED BY <3>1, <3>2
  <2> QED BY <1>1, <2>2, <2>3, HoldKeeps
<1>3. ASSUME NEW o \in Observations, NEW day, BeginsPromote(p, o, day) PROVE VaultInv'
  <2>1. IsObs(Revised(o, day))
    BY DEF Revised, IsObs, VaultInv, MemoryOK, IsMemory
  <2>2. CmdOK(DOMAIN pages, allocated, adopted, cmd'[p])
    BY <1>1, <1>3, <2>1, BeginsPromoteLooks, FreeIs DEF CmdOK, Promoting, Turns
  <2> QED BY <1>1, <1>3, <2>2, BeginsPromoteLooks, HoldKeeps DEF BeginsPromote
<1>4. CASE Decides(p)
  <2>1. PICK obs \in cmd[p].todo :
           /\ Turns(p) /\ cmd[p].at = "sync" /\ cmd'[p].todo = cmd[p].todo \ {obs}
           /\ \/ cmd'[p].at = "promote" /\ cmd'[p].obs = obs
              \/ cmd'[p].at = "sync" /\ cmd'[p].obs = Nobody
           /\ cmd'[p].store = cmd[p].store /\ cmd'[p].moved = cmd[p].moved /\ cmd'[p].seen = cmd[p].seen
    BY <1>4, DecidesLooks
  <2>2. CmdOK(DOMAIN pages, allocated, adopted, cmd'[p])
    BY <1>1, <2>1, FreeIs DEF CmdOK, Promoting, Turns
  <2> QED BY <1>1, <1>4, <2>1, <2>2, HoldKeeps DEF Decides
<1>5. CASE StartsPromote(p)
  <2>1. cmd[p].at = "promote" /\ UNCHANGED people /\ UNCHANGED <<pages, precedence, catalog, allocated>>
    BY <1>5 DEF StartsPromote, At
  <2>2. PICK o, a : o = cmd[p].obs /\ a = FirstFound(o.id, o.project)
    OBVIOUS
  <2>3. CASE Passes(p)
    BY <1>1, <2>1, <2>3, NextKeeps DEF Passes, Promoting
  <2>4. CASE /\ Turns(p) /\ cmd'[p].todo = cmd[p].todo /\ cmd'[p].obs = o
             /\ cmd'[p].moved = MovedPages(o.id, o.project) /\ cmd'[p].store = cmd[p].store
             /\ \/ /\ cmd'[p].at = "address" /\ cmd'[p].seen = NoPage
                \/ /\ cmd'[p].at = "update" /\ cmd'[p].seen = pages[a] /\ cmd'[p].address = a
                   /\ Found(o.id, o.project) # {}
                   /\ MayOverwrite(cmd[p].store, a, pages[a], Render(o))
                \/ /\ cmd'[p].at = "supersede" /\ cmd'[p].seen = NoPage /\ cmd'[p].address = a
                   /\ Found(o.id, o.project) # {}
    <3>1. Found(o.id, o.project) # {} => a \in DOMAIN pages
      BY <2>2, FoundIs DEF Found, PagesOf
    <3>2. Found(o.id, o.project) # {} => IsPage(pages[a])
      BY <1>1, <3>1 DEF PagesOK, PageOK
    <3>3. MovedPages(o.id, o.project) \subseteq DOMAIN pages
      BY DEF MovedPages, PagesOf
    <3>4. CmdOK(DOMAIN pages, allocated, adopted, cmd'[p])
      BY <1>1, <2>1, <2>2, <2>4, <3>1, <3>2, <3>3, FreeIs DEF CmdOK, Promoting, Turns
    <3> QED BY <1>1, <2>1, <2>4, <3>4, HoldKeeps
  <2> QED BY <1>5, <2>2, <2>3, <2>4, PromoteLooks
<1>6. CASE TakesAddress(p)
  <2>1. UNCHANGED people /\ UNCHANGED <<pages, precedence, catalog>>
    BY <1>6 DEF TakesAddress
  <2>2. /\ Turns(p) /\ cmd[p].at = "address" /\ cmd'[p].at = "entry" /\ cmd'[p].todo = cmd[p].todo
        /\ cmd'[p].obs = cmd[p].obs /\ cmd'[p].seen = cmd[p].seen
        /\ cmd'[p].moved = cmd[p].moved /\ cmd'[p].store = cmd[p].store
        /\ cmd'[p].address \in allocated' /\ allocated \subseteq allocated'
        /\ \E n \in 0..MaxPages : allocated' = 1..n
    BY <1>6, TakesLooks
  <2>3. PICK T2 : T2 = allocated'
    OBVIOUS
  <2>4. StoreOK(T2, adopted, cmd[p].store) /\ StoreOK(T2, adopted, precedence)
    BY <1>1, <2>2, <2>3, StoreGrows
  <2>5. CmdOK(DOMAIN pages, T2, adopted, cmd'[p])
    BY <1>1, <2>2, <2>3, <2>4 DEF CmdOK, Promoting, Turns
  <2>6. /\ PagesOK(pages') /\ DOMAIN pages \subseteq DOMAIN pages' /\ DOMAIN pages' \subseteq allocated'
        /\ catalog' \subseteq DOMAIN pages' /\ StoreOK(allocated', adopted, precedence')
        /\ CmdOK(DOMAIN pages', allocated', adopted, cmd'[p])
    BY <1>1, <2>1, <2>2, <2>3, <2>4, <2>5
  <2> QED BY <2>1, <2>2, <2>6, TurnKeeps
<1>7. CASE SavesEntry(p)
  <2>1. PICK store : store = With(cmd[p].store, cmd[p].address, EntryFor(Render(cmd[p].obs)))
    OBVIOUS
  <2>2. /\ cmd[p].at = "entry" /\ precedence' = store
        /\ cmd' = [cmd EXCEPT ![p].store = store, ![p].at = "page"]
        /\ UNCHANGED people /\ UNCHANGED <<pages, catalog, allocated>>
    BY <1>7, <2>1 DEF SavesEntry, Saves, At
  <2>3. StoreOK(allocated, adopted, store)
    BY <1>1, <2>1, <2>2, EntryStore DEF CmdOK
  <2>4. /\ Turns(p) /\ cmd'[p].at = "page" /\ cmd'[p].todo = cmd[p].todo /\ cmd'[p].obs = cmd[p].obs
        /\ cmd'[p].address = cmd[p].address /\ cmd'[p].seen = cmd[p].seen
        /\ cmd'[p].moved = cmd[p].moved /\ cmd'[p].store = store
    BY <1>1, <2>2 DEF Turns, IsCmd
  <2>5. CmdOK(DOMAIN pages, allocated, adopted, cmd'[p])
    BY <1>1, <2>2, <2>3, <2>4 DEF CmdOK, Promoting, Turns
  <2> QED BY <2>2, <2>3, <2>4, <2>5, HoldKeeps
<1>8. CASE WritesPage(p)
  <2>1. PICK pg, F2 : pg = Render(cmd[p].obs) /\ F2 = With(pages, cmd[p].address, pg)
    OBVIOUS
  <2>2. /\ cmd[p].at = "page" /\ pages' = F2 /\ cmd' = [cmd EXCEPT ![p].at = "register"]
        /\ UNCHANGED people /\ UNCHANGED <<precedence, catalog, allocated>>
    BY <1>8, <2>1 DEF WritesPage, Goes, At
  <2>3. cmd[p].address \in allocated /\ IsPage(pg) /\ PageOK(DOMAIN pages \union {cmd[p].address}, pg)
    BY <1>1, <2>1, <2>2, RenderIs DEF CmdOK, PageOK
  <2>4. PagesOK(F2) /\ DOMAIN F2 = DOMAIN pages \union {cmd[p].address}
    <3>1. PagesOK(F2)
      BY <1>1, <2>1, <2>3, WithPage
    <3>2. DOMAIN F2 = DOMAIN pages \union {cmd[p].address}
      BY <2>1 DEF With
    <3> QED BY <3>1, <3>2
  <2>5. /\ Turns(p) /\ cmd'[p].at = "register" /\ cmd'[p].todo = cmd[p].todo /\ cmd'[p].obs = cmd[p].obs
        /\ cmd'[p].address = cmd[p].address /\ cmd'[p].seen = cmd[p].seen
        /\ cmd'[p].moved = cmd[p].moved /\ cmd'[p].store = cmd[p].store
    BY <2>2, GoesLooks
  <2>6. CmdOK(DOMAIN F2, allocated, adopted, cmd'[p])
    BY <1>1, <2>2, <2>4, <2>5 DEF CmdOK, Promoting, Turns
  <2>7. /\ PagesOK(pages') /\ DOMAIN pages \subseteq DOMAIN pages' /\ DOMAIN pages' \subseteq allocated'
        /\ catalog' \subseteq DOMAIN pages' /\ StoreOK(allocated', adopted, precedence')
        /\ CmdOK(DOMAIN pages', allocated', adopted, cmd'[p])
        /\ allocated \subseteq allocated' /\ \E n \in 0..MaxPages : allocated' = 1..n
    BY <1>1, <2>2, <2>3, <2>4, <2>6
  <2> QED BY <2>2, <2>5, <2>7, TurnKeeps
<1>9. CASE PageFails(p)
  <2>1. PICK store : store = Less(cmd[p].store, cmd[p].address)
    OBVIOUS
  <2>2. /\ cmd[p].at = "page" /\ precedence' = store /\ Next1(p, store)
        /\ UNCHANGED people /\ UNCHANGED <<pages, catalog, allocated>>
    BY <1>9, <2>1 DEF PageFails, At
  <2>3. StoreOK(allocated, adopted, store)
    BY <1>1, <2>1, LessStore
  <2> QED BY <2>2, <2>3, NextKeeps DEF Promoting
<1>10. CASE UpdatesPage(p)
  <2>1. PICK pg, F2, store : /\ pg = Render(cmd[p].obs) /\ F2 = With(pages, cmd[p].address, pg)
                             /\ store = With(cmd[p].store, cmd[p].address, EntryFor(Render(cmd[p].obs)))
    OBVIOUS
  <2>2. /\ cmd[p].at = "update" /\ pages' = F2
        /\ UNCHANGED people /\ UNCHANGED <<precedence, catalog, allocated>>
    BY <1>10, <2>1 DEF UpdatesPage, At
  <2>3. cmd[p].address \in DOMAIN pages /\ PageOK(DOMAIN pages \union {cmd[p].address}, pg)
    BY <1>1, <2>1, <2>2, RenderIs DEF CmdOK, PageOK
  <2>4. PagesOK(F2) /\ DOMAIN F2 = DOMAIN pages
    <3>1. PagesOK(F2)
      BY <1>1, <2>1, <2>3, WithPage
    <3>2. DOMAIN F2 = DOMAIN pages
      BY <2>1, <2>3 DEF With
    <3> QED BY <3>1, <3>2
  <2>5. StoreOK(allocated, adopted, store)
    BY <1>1, <2>1, <2>3, EntryStore
  <2>6. CmdOK(DOMAIN pages, allocated, adopted, cmd'[p])
    BY <1>1, <1>10, <2>1, <2>3, <2>5, UpdatesLooks DEF CmdOK, Promoting, Turns
  <2>7. /\ PagesOK(pages') /\ DOMAIN pages \subseteq DOMAIN pages' /\ DOMAIN pages' \subseteq allocated'
        /\ catalog' \subseteq DOMAIN pages' /\ StoreOK(allocated', adopted, precedence')
        /\ CmdOK(DOMAIN pages', allocated', adopted, cmd'[p])
        /\ allocated \subseteq allocated' /\ \E n \in 0..MaxPages : allocated' = 1..n
    BY <1>1, <2>2, <2>4, <2>6
  <2> QED BY <1>10, <2>2, <2>7, UpdatesLooks, TurnKeeps
<1>11. CASE SavesUpdate(p)
  <2>0. PICK store : store = cmd[p].store
    OBVIOUS
  <2>1. /\ cmd[p].at = "recorded" /\ precedence' = store
        /\ cmd' = [cmd EXCEPT ![p].store = store, ![p].at = "register"]
        /\ UNCHANGED people /\ UNCHANGED <<pages, catalog, allocated>>
    BY <1>11, <2>0 DEF SavesUpdate, Saves, At
  <2>2. /\ Turns(p) /\ cmd'[p].at = "register" /\ cmd'[p].todo = cmd[p].todo
        /\ cmd'[p].obs = cmd[p].obs /\ cmd'[p].address = cmd[p].address
        /\ cmd'[p].seen = cmd[p].seen /\ cmd'[p].moved = cmd[p].moved /\ cmd'[p].store = store
    BY <1>1, <2>1 DEF Turns, IsCmd
  <2>3. CmdOK(DOMAIN pages, allocated, adopted, cmd'[p])
    BY <1>1, <2>0, <2>1, <2>2 DEF CmdOK, Promoting, Turns
  <2> QED BY <1>1, <2>0, <2>1, <2>2, <2>3, HoldKeeps
<1>12. CASE Registers(p)
  <2>1. /\ cmd[p].at = "register" /\ catalog' = catalog \union {cmd[p].address}
        /\ cmd' = [cmd EXCEPT ![p].at = "supersede"]
        /\ UNCHANGED people /\ UNCHANGED <<pages, precedence, allocated>>
    BY <1>12 DEF Registers, Goes, At
  <2>2. /\ Turns(p) /\ cmd'[p].at = "supersede" /\ cmd'[p].todo = cmd[p].todo
        /\ cmd'[p].obs = cmd[p].obs /\ cmd'[p].address = cmd[p].address
        /\ cmd'[p].seen = cmd[p].seen /\ cmd'[p].moved = cmd[p].moved /\ cmd'[p].store = cmd[p].store
    BY <2>1, GoesLooks
  <2>3. CmdOK(DOMAIN pages, allocated, adopted, cmd'[p])
    BY <1>1, <2>1, <2>2 DEF CmdOK, Promoting, Turns
  <2>4. cmd[p].address \in DOMAIN pages
    BY <1>1, <2>1 DEF CmdOK
  <2>5. /\ PagesOK(pages') /\ DOMAIN pages \subseteq DOMAIN pages' /\ DOMAIN pages' \subseteq allocated'
        /\ catalog' \subseteq DOMAIN pages' /\ StoreOK(allocated', adopted, precedence')
        /\ CmdOK(DOMAIN pages', allocated', adopted, cmd'[p])
        /\ allocated \subseteq allocated' /\ \E n \in 0..MaxPages : allocated' = 1..n
    BY <1>1, <2>1, <2>3, <2>4
  <2> QED BY <2>1, <2>2, <2>5, TurnKeeps
<1>13. CASE Supersedes(p) \/ Propagates(p)
  <2>1. UNCHANGED people /\ UNCHANGED <<precedence, catalog, allocated>>
    BY <1>13 DEF Supersedes, Propagates
  <2>2. /\ Turns(p) /\ cmd'[p].obs = cmd[p].obs /\ cmd'[p].seen = cmd[p].seen
        /\ cmd'[p].moved \subseteq cmd[p].moved
        /\ \/ /\ cmd[p].at = "supersede" /\ cmd'[p].at = "supersede"
              /\ cmd'[p].todo = cmd[p].todo /\ cmd'[p].address = cmd[p].address
           \/ cmd[p].at = "propagate" /\ cmd'[p].at = "propagate"
        /\ \/ pages' = pages /\ cmd'[p].store = cmd[p].store
           \/ \E a \in DOMAIN pages : \E fate :
                /\ fate.status \in {"superseded", "archived"}
                /\ fate.related \in DOMAIN pages \union {None} /\ Patches(p, a, fate)
    BY <1>13, SupersedesLooks, PropagatesLooks
  <2>3. /\ PagesOK(pages') /\ DOMAIN pages' = DOMAIN pages
        /\ StoreOK(allocated, adopted, cmd'[p].store)
    <3>1. CASE pages' = pages /\ cmd'[p].store = cmd[p].store
      BY <1>1, <3>1
    <3>2. ASSUME NEW a \in DOMAIN pages, NEW fate, fate.status \in {"superseded", "archived"},
                 fate.related \in DOMAIN pages \union {None}, Patches(p, a, fate)
          PROVE  /\ PagesOK(pages') /\ DOMAIN pages' = DOMAIN pages
                 /\ StoreOK(allocated, adopted, cmd'[p].store)
      BY <3>2, PatchKeeps
    <3> QED BY <2>2, <3>1, <3>2
  <2>4. CmdOK(DOMAIN pages, allocated, adopted, cmd'[p])
    BY <1>1, <2>2, <2>3 DEF CmdOK, Promoting, Turns
  <2>5. /\ PagesOK(pages') /\ DOMAIN pages \subseteq DOMAIN pages' /\ DOMAIN pages' \subseteq allocated'
        /\ catalog' \subseteq DOMAIN pages' /\ StoreOK(allocated', adopted, precedence')
        /\ CmdOK(DOMAIN pages', allocated', adopted, cmd'[p])
        /\ allocated \subseteq allocated' /\ \E n \in 0..MaxPages : allocated' = 1..n
    BY <1>1, <2>1, <2>3, <2>4
  <2> QED BY <2>1, <2>2, <2>5, TurnKeeps
<1>14. CASE EndsPromote(p)
  <2>1. /\ cmd[p].at = "supersede" /\ (precedence' = cmd[p].store \/ precedence' = precedence)
        /\ Next1(p, cmd[p].store)
        /\ UNCHANGED people /\ UNCHANGED <<pages, catalog, allocated>>
    BY <1>14 DEF EndsPromote, Passes, At
  <2>2. StoreOK(allocated, adopted, precedence')
    BY <1>1, <2>1
  <2> QED BY <1>1, <2>1, <2>2, NextKeeps DEF Promoting
<1>15. CASE BeginsPropagate(p)
  <2>1. UNCHANGED people /\ UNCHANGED <<pages, precedence, catalog, allocated>>
    BY <1>15 DEF BeginsPropagate
  <2>2. CmdOK(DOMAIN pages, allocated, adopted, cmd'[p])
    BY <1>1, <1>15, BeginsPropagateLooks DEF CmdOK, Promoting, Turns
  <2> QED BY <1>1, <1>15, <2>1, <2>2, BeginsPropagateLooks, HoldKeeps
<1>16. CASE EndsSync(p)
  <2>1. /\ precedence' = cmd[p].store \/ precedence' = precedence
        /\ cmd' = [cmd EXCEPT ![p] = Free]
        /\ UNCHANGED people /\ UNCHANGED <<pages, catalog, allocated>>
    BY <1>16 DEF EndsSync
  <2>2. StoreOK(allocated, adopted, precedence')
    BY <1>1, <2>1
  <2> QED BY <2>1, <2>2, FreeKeeps
<1>17. CASE WriteFails(p)
  <2>1. /\ cmd[p].at \in Promoting /\ Next1(p, cmd[p].store)
        /\ UNCHANGED people /\ UNCHANGED <<pages, precedence, catalog, allocated>>
    BY <1>17 DEF WriteFails, Passes, Promoting
  <2> QED BY <1>1, <2>1, NextKeeps
<1>18. CASE Killed(p)
  BY <1>1, <1>18, FreeKeeps DEF Killed
<1> QED
  BY <1>2, <1>3, <1>4, <1>5, <1>6, <1>7, <1>8, <1>9, <1>10, <1>11, <1>12, <1>13, <1>14, <1>15,
     <1>16, <1>17, <1>18 DEF Step

(* What people do.                                                         *)
LEMMA PeopleKeepVault ==
  ASSUME VaultInv,
         (\E a \in Addresses : Reconciles(a) \/ CannotBeRead(a) \/ \E mark \in Marks : Edits(a, mark))
           \/ (\E o \in Observations : Changes(o)) \/ LosesSidecar
  PROVE  VaultInv'
<1>1. /\ StoreOK(allocated, adopted, precedence) /\ PagesOK(pages) /\ DOMAIN pages \subseteq allocated
      /\ catalog \subseteq DOMAIN pages /\ \E n \in 0..MaxPages : allocated = 1..n
      /\ cmd = [q \in Processes |-> cmd[q]] /\ MemoryOK
      /\ VaultOK(pages, precedence, allocated, catalog, adopted, cmd)
  BY DEF VaultInv, VaultOK
<1>2. ASSUME NEW a, Reconciles(a) PROVE VaultInv'
  <2>1. PICK S2, G2 : S2 = precedence' /\ G2 = adopted'
    OBVIOUS
  <2>2. /\ S2 = With(precedence, a, EntryFor(pages[a])) /\ G2 = adopted \union {a}
        /\ a \in DOMAIN pages /\ UNCHANGED <<memory, cmd, pages, catalog, allocated>>
    BY <1>2, <2>1 DEF Reconciles
  <2>3. IsPage(pages[a]) /\ a \in allocated /\ a \in G2 /\ adopted \subseteq G2
    BY <1>1, <2>2 DEF PagesOK, PageOK
  <2>4. EntryOK(G2, a, EntryFor(pages[a]))
    BY <2>3, EntryForIs
  <2>5. StoreOK(allocated, G2, precedence)
    BY <1>1, <2>3, StoreGrows
  <2>6. StoreOK(allocated, G2, S2)
    BY <2>2, <2>3, <2>4, <2>5, WithStore
  <2>7. VaultOK(pages, S2, allocated, catalog, G2, cmd)
    BY <1>1, <2>3, <2>6, VaultStep
  <2> QED BY <1>1, <2>1, <2>2, <2>7 DEF VaultInv, MemoryOK
<1>3. ASSUME NEW a, NEW mark \in Marks, Edits(a, mark) PROVE VaultInv'
  <2>1. PICK F2 : F2 = pages'
    OBVIOUS
  <2>2. /\ F2 = With(pages, a,
                   IF mark \in {"key", "title"} THEN [pages[a] EXCEPT !.front.marks = @ \cup {mark}]
                   ELSE [pages[a] EXCEPT !.body.marks = @ \cup {mark}])
        /\ a \in DOMAIN pages /\ UNCHANGED <<memory, adopted, cmd, precedence, catalog, allocated>>
    BY <1>3, <2>1 DEF Edits, people
  <2>3. PICK g, h : /\ g = [pages[a] EXCEPT !.front.marks = @ \cup {mark}]
                    /\ h = [pages[a] EXCEPT !.body.marks = @ \cup {mark}]
    OBVIOUS
  <2>4. PICK pg : pg = IF mark \in {"key", "title"} THEN g ELSE h
    OBVIOUS
  <2>5. F2 = With(pages, a, pg)
    BY <2>2, <2>3, <2>4
  <2>6. PICK old, fm, bm : /\ old = pages[a] /\ PageOK(DOMAIN pages, old)
                           /\ fm = old.front.marks \union {mark} /\ bm = old.body.marks \union {mark}
    BY <1>1, <2>2 DEF PagesOK
  <2>7. g = [old EXCEPT !.front.marks = fm] /\ h = [old EXCEPT !.body.marks = bm]
    BY <2>3, <2>6
  <2>8. PageOK(DOMAIN pages, g)
    BY <2>6, <2>7 DEF PageOK, IsPage, IsFront
  <2>9. PageOK(DOMAIN pages, pg)
    <3>1. CASE mark \in {"key", "title"}
      BY <2>4, <2>8, <3>1
    <3>2. CASE mark \notin {"key", "title"}
      <4>1. bm \subseteq {"mid", "end"}
        BY <2>6, <3>2, MarksAssumption DEF PageOK, IsPage
      <4> QED BY <2>4, <2>6, <2>7, <3>2, <4>1 DEF PageOK, IsPage, IsBody
    <3> QED BY <3>1, <3>2
  <2>10. PagesOK(F2) /\ DOMAIN F2 = DOMAIN pages
    <3>1. DOMAIN F2 = DOMAIN pages
      BY <2>2, <2>5 DEF With
    <3>2. PageOK(DOMAIN pages \union {a}, pg)
      BY <2>2, <2>9 DEF PageOK
    <3> QED BY <1>1, <2>5, <3>1, <3>2, WithPage
  <2>11. VaultOK(F2, precedence, allocated, catalog, adopted, cmd)
    BY <1>1, <2>10, VaultStep
  <2> QED BY <1>1, <2>1, <2>2, <2>11 DEF VaultInv, MemoryOK
<1>4. CASE LosesSidecar
  <2>1. precedence' = <<>> /\ UNCHANGED <<memory, adopted, cmd, pages, catalog, allocated>>
    BY <1>4 DEF LosesSidecar
  <2>2. StoreOK(allocated, adopted, <<>>)
    BY EmptyStore DEF StoreOK
  <2>3. VaultOK(pages, <<>>, allocated, catalog, adopted, cmd)
    BY <1>1, <2>2, VaultStep
  <2> QED BY <1>1, <2>1, <2>3 DEF VaultInv, MemoryOK
<1>5. ASSUME NEW a, CannotBeRead(a) PROVE VaultInv'
  BY <1>1, <1>5 DEF CannotBeRead, vault, VaultInv, MemoryOK
<1>6. ASSUME NEW o \in Observations, Changes(o) PROVE VaultInv'
  <2>1. MemoryOK'
    <3>1. PICK M, m : M = memory' /\ m = memory[o]
      OBVIOUS
    <3>2. IsMemory(m) /\ memory = [x \in Observations |-> memory[x]]
      BY <1>1, <3>1 DEF MemoryOK
    <3>3. \E n : M = [memory EXCEPT ![o] = n] /\ IsMemory(n)
      <4>1. CASE memory' = [memory EXCEPT ![o].rev = @ + 1]
        <5>1. PICK r, n : r = m.rev + 1 /\ n = [m EXCEPT !.rev = r]
          OBVIOUS
        <5>2. M = [memory EXCEPT ![o] = n]
          BY <3>1, <3>2, <4>1, <5>1
        <5>3. IsMemory(n)
          BY <3>2, <5>1 DEF IsMemory
        <5> QED BY <5>2, <5>3
      <4>2. ASSUME NEW q, memory' = [memory EXCEPT ![o].project = q]
            PROVE  \E n : M = [memory EXCEPT ![o] = n] /\ IsMemory(n)
        <5>1. PICK n : n = [m EXCEPT !.project = q]
          OBVIOUS
        <5>2. M = [memory EXCEPT ![o] = n]
          BY <3>1, <3>2, <4>2, <5>1
        <5>3. IsMemory(n)
          BY <3>2, <5>1 DEF IsMemory
        <5> QED BY <5>2, <5>3
      <4>3. CASE memory' = [memory EXCEPT ![o].superseded = TRUE]
        <5>1. PICK n : n = [m EXCEPT !.superseded = TRUE]
          OBVIOUS
        <5>2. M = [memory EXCEPT ![o] = n]
          BY <3>1, <3>2, <4>3, <5>1
        <5>3. IsMemory(n)
          BY <3>2, <5>1 DEF IsMemory
        <5> QED BY <5>2, <5>3
      <4>4. CASE memory' = [memory EXCEPT ![o].deleted = TRUE]
        <5>1. PICK n : n = [m EXCEPT !.deleted = TRUE]
          OBVIOUS
        <5>2. M = [memory EXCEPT ![o] = n]
          BY <3>1, <3>2, <4>4, <5>1
        <5>3. IsMemory(n)
          BY <3>2, <5>1 DEF IsMemory
        <5> QED BY <5>2, <5>3
      <4> QED BY <1>6, <4>1, <4>2, <4>3, <4>4 DEF Changes
    <3>4. M = [x \in Observations |-> M[x]] /\ \A x \in Observations : IsMemory(M[x])
      BY <1>1, <3>2, <3>3 DEF MemoryOK
    <3> QED BY <3>1, <3>4 DEF MemoryOK
  <2>2. UNCHANGED <<adopted, cmd, pages, precedence, catalog, allocated>>
    BY <1>6 DEF Changes, vault
  <2> QED BY <1>1, <2>1, <2>2 DEF VaultInv
<1> QED BY <1>2, <1>3, <1>4, <1>5, <1>6

OldPage(o, p0) == Render([id |-> o, rev |-> 1, project |-> p0, day |-> SomeDay])

LEMMA VaultInit == PromotionInit => VaultInv
<1> SUFFICES ASSUME PromotionInit PROVE VaultInv
  OBVIOUS
<1>1. MemoryOK
  <2>1. PICK p0 : memory = [o \in Observations |-> [rev |-> 1, project |-> p0,
                                                   deleted |-> FALSE, superseded |-> FALSE]]
    BY DEF PromotionInit
  <2> QED BY <2>1 DEF MemoryOK, IsMemory
<1>2. cmd = [p \in Processes |-> cmd[p]] /\ (\A p \in Processes : cmd[p] = Free) /\ adopted = {}
  BY DEF PromotionInit
<1>3. \A p \in Processes : CmdOK(DOMAIN pages, allocated, adopted, cmd[p])
  BY <1>2, FreeOK
<1>4. CASE pages = <<>> /\ precedence = <<>> /\ allocated = {} /\ catalog = {}
  <2>1. PagesOK(pages) /\ StoreOK(allocated, adopted, precedence) /\ DOMAIN pages = {}
    BY <1>4, EmptyStore DEF PagesOK, StoreOK
  <2>2. allocated = 1..0 /\ 0 \in 0..MaxPages
    BY <1>4, MaxPagesAssumption
  <2> QED BY <1>1, <1>2, <1>3, <1>4, <2>1, <2>2 DEF VaultInv, VaultOK
<1>5. ASSUME NEW o, NEW p0,
             pages = With(<<>>, 1, OldPage(o, p0)),
             precedence \in {<<>>, With(<<>>, 1, [EntryFor(OldPage(o, p0)) EXCEPT !.rev = 0])},
             allocated = {1}, catalog = {1}
      PROVE  VaultInv
  <2>1. PICK pg, e, f : /\ pg = OldPage(o, p0)
                        /\ e = EntryFor(pg) /\ f = [e EXCEPT !.rev = 0]
    OBVIOUS
  <2>2. IsPage(pg) /\ pg.body.marks = {} /\ PageOK({} \union {1}, pg)
    BY <2>1, RenderIs DEF OldPage, IsObs, PageOK
  <2>3. EntryOK(adopted, 1, e)
    BY <2>1, <2>2, EntryForIs
  <2>4. EntryOK(adopted, 1, f)
    BY <2>1, <2>3 DEF EntryOK
  <2>5. PagesOK(<<>>) /\ StoreOK(allocated, adopted, <<>>)
    BY EmptyStore DEF PagesOK, StoreOK
  <2>6. PagesOK(With(<<>>, 1, pg))
    BY <2>2, <2>5, WithPage, EmptyStore
  <2>7. StoreOK(allocated, adopted, With(<<>>, 1, f))
    BY <1>5, <2>4, <2>5, WithStore
  <2>8. PagesOK(pages) /\ StoreOK(allocated, adopted, precedence)
    BY <1>5, <2>1, <2>5, <2>6, <2>7
  <2>9. DOMAIN pages = {1}
    BY <1>5, EmptyStore DEF With
  <2>10. allocated = 1..1 /\ 1 \in 0..MaxPages
    BY <1>5, MaxPagesAssumption
  <2> QED BY <1>1, <1>2, <1>3, <1>5, <2>8, <2>9, <2>10 DEF VaultInv, VaultOK
<1> QED BY <1>4, <1>5 DEF PromotionInit, OldPage

LEMMA VaultStays == VaultInv /\ UNCHANGED promotionVars => VaultInv'
BY DEF VaultInv, MemoryOK, promotionVars

LEMMA SpecVaultInv == StoresSpec => []VaultInv
<1>1. StoresInit => VaultInv
  BY VaultInit DEF StoresInit
<1>2. VaultInv /\ [StoresNext]_<<promotionVars, reviewVars, part>> => VaultInv'
  <2> SUFFICES ASSUME VaultInv, [StoresNext]_<<promotionVars, reviewVars, part>> PROVE VaultInv'
    OBVIOUS
  <2>1. PromotionNext \/ UNCHANGED promotionVars
    BY DEF StoresNext
  <2>2. CASE PromotionNext
    BY <2>2, ProcessKeepsVault, PeopleKeepVault DEF PromotionNext
  <2> QED BY <2>1, <2>2, VaultStays
<1> QED BY <1>1, <1>2, PTL DEF StoresSpec

-----------------------------------------------------------------------------
(* What holds of the pages whoever runs.                                   *)

(* An update is of a page that may be overwritten; what it overwrites of   *)
(* the body it read was given up, or is in the middle of an interrupted    *)
(* update.                                                                 *)
LEMMA OverwritesGivenUp ==
  ASSUME VaultInv, NEW p \in Processes, UpdatesPage(p), NEW mark
  PROVE  Forgoes(p, mark)
<1>1. PICK S, a, pg, new :
        S = cmd[p].store /\ a = cmd[p].address /\ pg = cmd[p].seen /\ new = Render(cmd[p].obs)
  OBVIOUS
<1>2. /\ MayOverwrite(S, a, pg, new) /\ IsPage(pg) /\ StoreOK(allocated, adopted, S)
      /\ IsObs(cmd[p].obs)
  BY <1>1, CommandIs DEF CmdOK, UpdatesPage, At
<1>3. SUFFICES ASSUME mark \in pg.body.marks
               PROVE  GivenUp(p, mark) \/ (mark = "mid" /\ Interrupted(p))
  BY <1>1 DEF Forgoes
<1>4. mark \in {"mid", "end"}
  BY <1>2, <1>3 DEF IsPage
<1>5. CASE OwnUnrecordedWrite(pg, new)
  <2>1. PICK day : [pg EXCEPT !.front.day = day] = new
    BY <1>5 DEF OwnUnrecordedWrite
  <2>2. pg.body = new.body /\ new.body.marks = {}
    <3>1. PICK g : g = [pg EXCEPT !.front.day = day]
      OBVIOUS
    <3>2. g.body = pg.body
      BY <1>2, <3>1 DEF IsPage
    <3> QED BY <1>1, <1>2, <2>1, <3>1, <3>2, RenderIs
  <2> QED BY <1>3, <2>2
<1>6. CASE a \in DOMAIN S /\ Matches(S[a], pg)
  <2>1. mark \in S[a].body.marks
    BY <1>3, <1>6 DEF Matches
  <2>2. a \in adopted
    BY <1>2, <1>6, <2>1 DEF StoreOK, EntryOK
  <2> QED BY <1>1, <1>6, <2>1, <2>2 DEF GivenUp
<1>7. CASE a \in DOMAIN S /\ OwnUnrecordedUpdate(S[a], pg, new)
  <2>1. pg.front.rev > S[a].rev /\ "end" \notin pg.body.marks
    BY <1>7 DEF OwnUnrecordedUpdate, RevisionsAllowAdoption
  <2> QED BY <1>1, <1>3, <1>4, <1>7, <2>1 DEF Interrupted
<1> QED BY <1>2, <1>5, <1>6, <1>7 DEF MayOverwrite

(* Who creates a page has an address of its own, where there is none, so   *)
(* the page it creates takes the place of no other.                        *)
Creates(c) == c.at \in {"entry", "page"}
AddressesOwn ==
  \A p \in Processes : Creates(cmd[p]) =>
    /\ cmd[p].address \notin DOMAIN pages
    /\ \A q \in Processes : q # p /\ Creates(cmd[q]) => cmd[q].address # cmd[p].address
BodiesKept ==
  \A a \in DOMAIN pages : a \in DOMAIN pages' /\ pages[a].body.marks \subseteq pages'[a].body.marks

LEMMA HoldsAddress ==
  ASSUME AddressesOwn, NEW p \in Processes, Turns(p), DOMAIN pages' = DOMAIN pages,
         Creates(cmd'[p]) => Creates(cmd[p]) /\ cmd'[p].address = cmd[p].address
  PROVE  AddressesOwn'
BY DEF AddressesOwn, Turns, Creates

LEMMA PatchKeepsBodies ==
  ASSUME VaultInv, NEW p \in Processes, NEW a \in DOMAIN pages, NEW fate, Patches(p, a, fate)
  PROVE  DOMAIN pages' = DOMAIN pages /\ BodiesKept
<1>1. PICK old, pg : old = pages[a] /\ pg = Patched(old, fate)
  OBVIOUS
<1>2. IsPage(old)
  BY <1>1 DEF VaultInv, VaultOK, PagesOK, PageOK
<1>3. pg.body = old.body
  BY <1>1, <1>2, PatchedIs
<1>4. pages' = With(pages, a, pg)
  BY <1>1 DEF Patches
<1> QED BY <1>1, <1>3, <1>4 DEF With, BodiesKept

(* What a step of a process does to the bodies of the pages.               *)
LEMMA ProcessKeepsBodies ==
  ASSUME VaultInv, AddressesOwn, NEW p \in Processes,
         Step(p) \/ PageFails(p) \/ WriteFails(p) \/ Killed(p)
           \/ \E day \in Days : \/ \E q \in Projects : BeginsSync(p, q, day)
                                \/ \E o \in Observations : BeginsPromote(p, o, day)
  PROVE  /\ AddressesOwn'
         /\ BodiesKept \/ (UpdatesPage(p) /\ \A a \in DOMAIN pages \ {cmd[p].address} :
                                               a \in DOMAIN pages' /\ pages'[a] = pages[a])
<1>1. /\ CmdOK(DOMAIN pages, allocated, adopted, cmd[p]) /\ DOMAIN pages \subseteq allocated
      /\ cmd = [q \in Processes |-> cmd[q]] /\ IsCmd(cmd[p])
      /\ \A q \in Processes : Creates(cmd[q]) => cmd[q].address \in allocated
  BY CommandIs DEF VaultInv, VaultOK, CmdOK, Creates
<1>2. ASSUME pages' = pages, Turns(p),
             Creates(cmd'[p]) => Creates(cmd[p]) /\ cmd'[p].address = cmd[p].address
      PROVE  AddressesOwn' /\ BodiesKept
  BY <1>2, HoldsAddress DEF BodiesKept
<1>3. ~Creates(Free)
  BY FreeIs DEF Creates
<1>4. ASSUME pages' = pages, NEW store, Next1(p, store) PROVE AddressesOwn' /\ BodiesKept
  <2>1. Turns(p) /\ ~Creates(cmd'[p])
    BY <1>3, <1>4, NextLooks DEF Creates
  <2> QED BY <1>2, <1>4, <2>1
<1>5. ASSUME pages' = pages, cmd' = [cmd EXCEPT ![p] = Free] PROVE AddressesOwn' /\ BodiesKept
  BY <1>2, <1>3, <1>5, FreeLooks
<1> USE DEF vault
<1>6. ASSUME NEW q, NEW day, BeginsSync(p, q, day) PROVE AddressesOwn' /\ BodiesKept
  <2>1. pages' = pages
    BY <1>6 DEF BeginsSync
  <2>2. Turns(p) /\ cmd'[p].at = "sync"
    BY <1>6, BeginsSyncLooks
  <2> QED BY <1>2, <2>1, <2>2 DEF Creates
<1>7. ASSUME NEW o, NEW day, BeginsPromote(p, o, day) PROVE AddressesOwn' /\ BodiesKept
  <2>1. pages' = pages
    BY <1>7 DEF BeginsPromote
  <2>2. Turns(p) /\ cmd'[p].at = "promote"
    BY <1>7, BeginsPromoteLooks
  <2> QED BY <1>2, <2>1, <2>2 DEF Creates
<1>8. CASE Decides(p)
  <2>1. pages' = pages
    BY <1>8 DEF Decides
  <2>2. Turns(p) /\ cmd'[p].at \in {"promote", "sync"}
    BY <1>8, DecidesLooks
  <2> QED BY <1>2, <2>1, <2>2 DEF Creates
<1>9. CASE StartsPromote(p)
  <2>1. pages' = pages
    BY <1>9 DEF StartsPromote
  <2>2. CASE Passes(p)
    BY <1>4, <2>1, <2>2 DEF Passes
  <2>3. CASE Turns(p) /\ cmd'[p].at \in {"address", "update", "supersede"}
    BY <1>2, <2>1, <2>3 DEF Creates
  <2> QED BY <1>9, <2>2, <2>3, PromoteLooks
<1>10. CASE TakesAddress(p)
  <2>1. pages' = pages
    BY <1>10 DEF TakesAddress
  <2>2. Turns(p) /\ cmd'[p].address \notin allocated
    BY <1>10, TakesLooks
  <2>3. AddressesOwn'
    BY <1>1, <2>1, <2>2 DEF AddressesOwn, Turns
  <2> QED BY <2>1, <2>3 DEF BodiesKept
<1>11. CASE SavesEntry(p)
  <2>1. PICK store : store = With(cmd[p].store, cmd[p].address, EntryFor(Render(cmd[p].obs)))
    OBVIOUS
  <2>2. /\ cmd[p].at = "entry" /\ cmd' = [cmd EXCEPT ![p].store = store, ![p].at = "page"]
        /\ pages' = pages
    BY <1>11, <2>1 DEF SavesEntry, Saves, At
  <2>3. Turns(p) /\ cmd'[p].address = cmd[p].address
    BY <2>2, StoresLooks
  <2> QED BY <1>2, <2>2, <2>3 DEF Creates
<1>12. CASE WritesPage(p)
  <2>1. PICK pg, x : pg = Render(cmd[p].obs) /\ x = cmd[p].address
    OBVIOUS
  <2>2. cmd[p].at = "page" /\ pages' = With(pages, x, pg) /\ cmd' = [cmd EXCEPT ![p].at = "register"]
    BY <1>12, <2>1 DEF WritesPage, Goes, At
  <2>3. Turns(p) /\ cmd'[p].at = "register"
    BY <2>2, GoesLooks
  <2>4. x \notin DOMAIN pages /\ \A q \in Processes \ {p} : Creates(cmd[q]) => cmd[q].address # x
    BY <2>1, <2>2 DEF AddressesOwn, Creates
  <2>5. DOMAIN pages' = DOMAIN pages \union {x} /\ \A a \in DOMAIN pages : pages'[a] = pages[a]
    BY <2>2, <2>4 DEF With
  <2>6. AddressesOwn'
    <3>1. \A q \in Processes : Creates(cmd'[q]) => q # p /\ Creates(cmd[q]) /\ cmd'[q] = cmd[q]
      BY <2>3 DEF Creates, Turns
    <3> QED BY <2>4, <2>5, <3>1 DEF AddressesOwn
  <2> QED BY <2>5, <2>6 DEF BodiesKept
<1>13. CASE UpdatesPage(p)
  <2>1. PICK pg, x : pg = Render(cmd[p].obs) /\ x = cmd[p].address
    OBVIOUS
  <2>2. cmd[p].at = "update" /\ pages' = With(pages, x, pg) /\ x \in DOMAIN pages
    BY <1>1, <1>13, <2>1 DEF UpdatesPage, At, CmdOK
  <2>3. DOMAIN pages' = DOMAIN pages /\ \A a \in DOMAIN pages \ {x} : pages'[a] = pages[a]
    BY <2>2 DEF With
  <2>4. AddressesOwn'
    BY <1>13, <2>3, UpdatesLooks, HoldsAddress DEF Creates
  <2> QED BY <1>13, <2>1, <2>3, <2>4
<1>14. CASE SavesUpdate(p)
  <2>1. PICK store : store = cmd[p].store
    OBVIOUS
  <2>2. cmd' = [cmd EXCEPT ![p].store = store, ![p].at = "register"] /\ pages' = pages
    BY <1>14, <2>1 DEF SavesUpdate, Saves
  <2>3. Turns(p) /\ cmd'[p].at = "register"
    BY <2>2, StoresLooks
  <2> QED BY <1>2, <2>2, <2>3 DEF Creates
<1>15. CASE Registers(p)
  BY <1>2, <1>15, GoesLooks DEF Registers, Goes, Creates
<1>16. CASE Supersedes(p) \/ Propagates(p)
  <2>1. /\ Turns(p) /\ cmd'[p].at \in {"supersede", "propagate"}
        /\ \/ pages' = pages
           \/ \E a \in DOMAIN pages : \E fate : Patches(p, a, fate)
    BY <1>16, SupersedesLooks, PropagatesLooks
  <2>2. DOMAIN pages' = DOMAIN pages /\ BodiesKept
    <3>1. CASE pages' = pages
      BY <3>1 DEF BodiesKept
    <3> QED BY <2>1, <3>1, PatchKeepsBodies
  <2> QED BY <2>1, <2>2, HoldsAddress DEF Creates
<1>17. CASE BeginsPropagate(p)
  BY <1>2, <1>17, BeginsPropagateLooks DEF BeginsPropagate, Creates
<1>18. CASE EndsPromote(p) \/ PageFails(p) \/ WriteFails(p)
  <2>1. PICK store : Next1(p, store)
    BY <1>18 DEF EndsPromote, PageFails, WriteFails, Passes
  <2>2. pages' = pages
    BY <1>18 DEF EndsPromote, PageFails, WriteFails
  <2> QED BY <1>4, <2>1, <2>2
<1>19. CASE EndsSync(p) \/ Killed(p)
  BY <1>5, <1>19 DEF EndsSync, Killed
<1> QED
  BY <1>6, <1>7, <1>8, <1>9, <1>10, <1>11, <1>12, <1>13, <1>14, <1>15, <1>16, <1>17, <1>18, <1>19
  DEF Step

LEMMA PeopleKeepBodies ==
  ASSUME VaultInv, AddressesOwn,
         (\E a \in Addresses : Reconciles(a) \/ CannotBeRead(a) \/ \E mark \in Marks : Edits(a, mark))
           \/ (\E o \in Observations : Changes(o)) \/ LosesSidecar
  PROVE  AddressesOwn' /\ BodiesKept
<1>1. PagesOK(pages)
  BY DEF VaultInv, VaultOK
<1>2. CASE UNCHANGED <<pages, cmd>>
  BY <1>2 DEF AddressesOwn, BodiesKept
<1>3. ASSUME NEW a, NEW mark \in Marks, Edits(a, mark) PROVE AddressesOwn' /\ BodiesKept
  <2>1. PICK old, fm, bm : /\ old = pages[a] /\ fm = old.front.marks \union {mark}
                           /\ bm = old.body.marks \union {mark}
    OBVIOUS
  <2>2. PICK g, h : /\ g = [old EXCEPT !.front.marks = fm] /\ h = [old EXCEPT !.body.marks = bm]
    OBVIOUS
  <2>3. PICK pg : pg = IF mark \in {"key", "title"} THEN g ELSE h
    OBVIOUS
  <2>4. pages' = With(pages, a, pg) /\ a \in DOMAIN pages /\ cmd' = cmd
    BY <1>3, <2>1, <2>2, <2>3 DEF Edits
  <2>5. IsPage(old)
    BY <1>1, <2>1, <2>4 DEF PagesOK, PageOK
  <2>6. old.body.marks \subseteq pg.body.marks
    BY <2>1, <2>2, <2>3, <2>5 DEF IsPage, IsBody
  <2>7. /\ DOMAIN pages' = DOMAIN pages /\ pages'[a] = pg
        /\ \A b \in DOMAIN pages \ {a} : pages'[b] = pages[b]
    BY <2>4 DEF With
  <2>8. AddressesOwn'
    BY <2>4, <2>7 DEF AddressesOwn
  <2> QED BY <2>1, <2>6, <2>7, <2>8 DEF BodiesKept
<1> QED BY <1>2, <1>3 DEF Reconciles, CannotBeRead, Changes, LosesSidecar, vault

(* What no step takes out of a page.                                       *)
TakesOnlyForgone ==
  \A a \in DOMAIN pages :
    LET kept == IF a \in DOMAIN pages' THEN pages'[a].body.marks ELSE {}
    IN  \A mark \in pages[a].body.marks \ kept :
          \E p \in Processes : UpdatesPage(p) /\ cmd[p].address = a /\ Forgoes(p, mark)

LEMMA PromotionKeepsBodies ==
  ASSUME VaultInv, AddressesOwn, PromotionNext
  PROVE  AddressesOwn' /\ TakesOnlyForgone
<1>1. BodiesKept => TakesOnlyForgone
  BY DEF BodiesKept, TakesOnlyForgone
<1>2. ASSUME NEW p \in Processes, UpdatesPage(p),
             \A a \in DOMAIN pages \ {cmd[p].address} : a \in DOMAIN pages' /\ pages'[a] = pages[a]
      PROVE  TakesOnlyForgone
  BY <1>2, OverwritesGivenUp DEF TakesOnlyForgone
<1> QED BY <1>1, <1>2, ProcessKeepsBodies, PeopleKeepBodies DEF PromotionNext

LEMMA VaultTypes == VaultInv => PromotionTypeOK /\ PointsToPages
<1> SUFFICES ASSUME VaultInv PROVE PromotionTypeOK /\ PointsToPages
  OBVIOUS
<1>1. PICK n \in 0..MaxPages : allocated = 1..n
  BY DEF VaultInv, VaultOK
<1>2. allocated \subseteq Addresses
  BY <1>1, MaxPagesAssumption DEF Addresses
<1>3. /\ DOMAIN pages \subseteq allocated /\ DOMAIN precedence \subseteq allocated
      /\ catalog \subseteq DOMAIN pages
      /\ \A a \in DOMAIN pages : /\ pages[a].front.status \in {"developing", "superseded", "archived"}
                                 /\ pages[a].front.related \in DOMAIN pages \union {None}
  BY DEF VaultInv, VaultOK, StoreOK, PagesOK, PageOK
<1> QED BY <1>2, <1>3 DEF PromotionTypeOK, PointsToPages

(* However many processes promote at once: pages and entries are at        *)
(* addresses that were allocated, and neither the catalog nor a page points*)
(* to a page that is not there.                                            *)
THEOREM SpecPagesAreTyped == StoresSpec => [](PromotionTypeOK /\ PointsToPages)
BY SpecVaultInv, VaultTypes, PTL

(* However many processes promote at once, nothing a person wrote in the   *)
(* body of a page is taken out of it but by an update of that page, and by *)
(* that only what was given up, the middle of a page an interrupted update *)
(* left ahead of its entry, or what was written after the update had read  *)
(* the page (UpdateInPlace, publishNew; a patch is one step).              *)
THEOREM SpecBodyEditsAreKept == StoresSpec => BodyEditsAreKept
<1>1. StoresInit => AddressesOwn
  BY FreeIs DEF StoresInit, PromotionInit, AddressesOwn, Creates
<1>2. VaultInv /\ AddressesOwn /\ [StoresNext]_<<promotionVars, reviewVars, part>> =>
        AddressesOwn' /\ (TakesOnlyForgone \/ UNCHANGED promotionVars)
  <2> SUFFICES ASSUME VaultInv, AddressesOwn, [StoresNext]_<<promotionVars, reviewVars, part>>
               PROVE  AddressesOwn' /\ (TakesOnlyForgone \/ UNCHANGED promotionVars)
    OBVIOUS
  <2>1. PromotionNext \/ UNCHANGED promotionVars
    BY DEF StoresNext
  <2>2. CASE UNCHANGED promotionVars
    BY <2>2 DEF promotionVars, AddressesOwn
  <2> QED BY <2>1, <2>2, PromotionKeepsBodies
<1>3. VaultInv /\ AddressesOwn /\ [StoresNext]_<<promotionVars, reviewVars, part>> =>
        [TakesOnlyForgone]_promotionVars
  BY <1>2
<1>4. StoresSpec => [][TakesOnlyForgone]_promotionVars
  BY <1>1, <1>2, <1>3, SpecVaultInv, PTL DEF StoresSpec
<1> QED BY <1>4 DEF BodyEditsAreKept, TakesOnlyForgone

-----------------------------------------------------------------------------
(* One process at a time.  Every page has an entry, in what the process    *)
(* read too; no entry is ahead of its page; no page is of a revision that  *)
(* Engram, or an observation the process still promotes, is not up to; and *)
(* what it will create is not there.                                       *)
Tracked(F, S) == DOMAIN F \subseteq DOMAIN S
NotAhead(F, S) == \A a \in DOMAIN F \intersect DOMAIN S : S[a].rev <= F[a].front.rev
Known(M, o) == o.id \in Observations /\ o.rev <= M[o.id].rev
UpTo(F, o) == \A a \in DOMAIN F : F[a].front.id = o.id => F[a].front.rev <= o.rev
OfObs(pg, o) == pg.front.id = o.id /\ pg.front.project = o.project
OnePage(F) ==
  \A a, b \in DOMAIN F :
    F[a].front.id = F[b].front.id /\ F[a].front.project = F[b].front.project => a = b

TodoOK(F, M, O) ==
  /\ \A o \in O : Known(M, o) /\ UpTo(F, o)
  /\ \A x, y \in O : x.id = y.id => x = y
AloneOK(F, S, M, missing, c) ==
  /\ c.at # "free" => NotAhead(F, c.store) /\ (missing \/ Tracked(F, c.store))
  /\ c.at \in Promoting \union {"sync"} => TodoOK(F, M, c.todo)
  /\ c.at \in Promoting =>
       /\ Known(M, c.obs) /\ UpTo(F, c.obs)
       /\ \A o \in c.todo : o.id = c.obs.id => o = c.obs
  /\ c.at \in {"address", "entry", "page"} => \A a \in DOMAIN F : ~OfObs(F[a], c.obs)
  /\ c.at \in {"entry", "page"} => c.address \notin DOMAIN F
  /\ c.at = "page" =>
       /\ missing \/ c.address \in DOMAIN S
       /\ c.address \in DOMAIN c.store
       /\ \A T \in {S, c.store} : c.address \in DOMAIN T => T[c.address].rev <= c.obs.rev
  /\ c.at = "update" => c.address \in DOMAIN F /\ OfObs(F[c.address], c.obs)

PagesAlone(F, S, M, missing) ==
  /\ missing \/ Tracked(F, S)
  /\ NotAhead(F, S) /\ OnePage(F) /\ \A a \in DOMAIN F : Known(M, F[a].front)

AloneInv(s) ==
  PagesAlone(pages, precedence, memory, lost) /\ AloneOK(pages, precedence, memory, lost, cmd[s])

(* A page that keeps its observation, its project and its revision changes *)
(* nothing of this.                                                        *)
Alike(F, G) ==
  /\ DOMAIN G = DOMAIN F
  /\ \A a \in DOMAIN F : /\ G[a].front.id = F[a].front.id /\ G[a].front.project = F[a].front.project
                         /\ G[a].front.rev = F[a].front.rev

LEMMA AlikeAlone ==
  ASSUME NEW F, NEW S, NEW M, NEW missing, NEW G, Alike(F, G)
  PROVE  /\ PagesAlone(F, S, M, missing) => PagesAlone(G, S, M, missing)
         /\ NotAhead(F, S) => NotAhead(G, S)
         /\ Tracked(F, S) => Tracked(G, S)
         /\ \A c : AloneOK(F, S, M, missing, c) => AloneOK(G, S, M, missing, c)
<1>1. \A T : (NotAhead(F, T) => NotAhead(G, T)) /\ (Tracked(F, T) => Tracked(G, T))
  BY DEF Alike, NotAhead, Tracked
<1>2. \A o : UpTo(F, o) => UpTo(G, o)
  BY DEF Alike, UpTo
<1>3. \A O : TodoOK(F, M, O) => TodoOK(G, M, O)
  BY <1>2 DEF TodoOK
<1>4. \A o : (\A a \in DOMAIN F : ~OfObs(F[a], o)) => (\A a \in DOMAIN G : ~OfObs(G[a], o))
  BY DEF Alike, OfObs
<1>5. \A a \in DOMAIN F : \A o : OfObs(F[a], o) => OfObs(G[a], o)
  BY DEF Alike, OfObs
<1>6. DOMAIN G = DOMAIN F
  BY DEF Alike
<1>7. PagesAlone(F, S, M, missing) => PagesAlone(G, S, M, missing)
  BY <1>1 DEF Alike, PagesAlone, OnePage, Known
<1>8. \A c : AloneOK(F, S, M, missing, c) => AloneOK(G, S, M, missing, c)
  BY <1>1, <1>2, <1>3, <1>4, <1>5, <1>6 DEF AloneOK
<1> QED BY <1>1, <1>7, <1>8

LEMMA FreeAlone ==
  ASSUME NEW F, NEW S, NEW M, NEW missing PROVE AloneOK(F, S, M, missing, Free)
BY FreeIs DEF AloneOK, Promoting

LEMMA CommandFacts ==
  ASSUME VaultInv, NEW s \in Processes, AloneInv(s), cmd[s].at # "free"
  PROVE  /\ NotAhead(pages, cmd[s].store) /\ (lost \/ Tracked(pages, cmd[s].store))
         /\ PagesAlone(pages, precedence, memory, lost)
BY DEF AloneInv, AloneOK

(* On to the next observation, or to nothing, with a store that lags       *)
(* behind the pages.                                                       *)
LEMMA NextAlone ==
  ASSUME VaultInv, NEW s \in Processes, AloneInv(s), cmd[s].at \in Promoting,
         NEW store, Next1(s, store), NotAhead(pages, store), lost \/ Tracked(pages, store),
         NEW S2
  PROVE  AloneOK(pages, S2, memory, lost, cmd'[s])
<1>1. CASE cmd'[s] = Free
  BY <1>1, FreeAlone
<1>2. CASE cmd'[s] # Free
  <2>1. cmd'[s].at = "sync" /\ cmd'[s].todo = cmd[s].todo /\ cmd'[s].store = store
    BY <1>2, NextLooks
  <2>2. TodoOK(pages, memory, cmd[s].todo)
    BY DEF AloneInv, AloneOK
  <2> QED BY <2>1, <2>2 DEF AloneOK, Promoting
<1> QED BY <1>1, <1>2

(* An entry that is set.                                                   *)
LEMMA WithLags ==
  ASSUME NEW F, NEW S, NotAhead(F, S), NEW a, NEW e,
         a \in DOMAIN F => e.rev <= F[a].front.rev
  PROVE  /\ NotAhead(F, With(S, a, e)) /\ (Tracked(F, S) => Tracked(F, With(S, a, e)))
         /\ a \in DOMAIN With(S, a, e) /\ With(S, a, e)[a] = e
<1>1. PICK T : T = With(S, a, e)
  OBVIOUS
<1>2. DOMAIN T = DOMAIN S \union {a} /\ T[a] = e /\ \A b \in DOMAIN S : b # a => T[b] = S[b]
  BY <1>1 DEF With
<1>3. NotAhead(F, T) /\ (Tracked(F, S) => Tracked(F, T))
  BY <1>2 DEF NotAhead, Tracked
<1> QED BY <1>1, <1>2, <1>3

LEMMA PatchAlone ==
  ASSUME VaultInv, NEW s \in Processes, NEW a \in DOMAIN pages, NEW fate,
         Patches(s, a, fate), NotAhead(pages, cmd[s].store)
  PROVE  /\ Alike(pages, pages') /\ NotAhead(pages, cmd'[s].store)
         /\ (Tracked(pages, cmd[s].store) => Tracked(pages, cmd'[s].store))
<1>1. PICK old, pg : old = pages[a] /\ pg = Patched(old, fate)
  OBVIOUS
<1>2. IsPage(old) /\ StoreOK(allocated, adopted, cmd[s].store)
  BY <1>1, CommandIs DEF VaultInv, VaultOK, PagesOK, PageOK, CmdOK
<1>3. pg.front.id = old.front.id /\ pg.front.project = old.front.project /\ pg.front.rev = old.front.rev
  BY <1>1, <1>2, PatchedIs
<1>4. Alike(pages, With(pages, a, pg))
  <2>1. PICK F2 : F2 = With(pages, a, pg)
    OBVIOUS
  <2>2. DOMAIN F2 = DOMAIN pages /\ F2[a] = pg /\ \A b \in DOMAIN pages : b # a => F2[b] = pages[b]
    BY <2>1 DEF With
  <2> QED BY <1>1, <1>3, <2>1, <2>2 DEF Alike
<1>5. PICK e : e = PatchedEntry(cmd[s].store, a, pg)
  OBVIOUS
<1>6. e.rev <= old.front.rev
  <2>1. CASE a \in DOMAIN cmd[s].store
    BY <1>1, <1>2, <1>5, <2>1, PatchedEntryIs DEF NotAhead
  <2>2. CASE a \notin DOMAIN cmd[s].store
    BY <1>2, <1>5, <2>2, PatchedEntryIs DEF IsPage
  <2> QED BY <2>1, <2>2
<1>7. /\ NotAhead(pages, With(cmd[s].store, a, e))
      /\ (Tracked(pages, cmd[s].store) => Tracked(pages, With(cmd[s].store, a, e)))
  BY <1>1, <1>6, WithLags
<1> QED BY <1>1, <1>4, <1>5, <1>7 DEF Patches

LEMMA BeginsAlone ==
  ASSUME VaultInv, NEW s \in Processes, AloneInv(s),
         \E day \in Days : \/ \E q \in Projects : BeginsSync(s, q, day)
                           \/ \E o \in Observations : BeginsPromote(s, o, day)
  PROVE  AloneInv(s)'
<1>1. ASSUME NEW o \in Observations, NEW day
      PROVE  Known(memory, Revised(o, day)) /\ UpTo(pages, Revised(o, day)) /\ Revised(o, day).id = o
  <2>1. Revised(o, day).id = o /\ Revised(o, day).rev = memory[o].rev /\ memory[o].rev \in Nat
    BY DEF Revised, VaultInv, MemoryOK, IsMemory
  <2>2. \A a \in DOMAIN pages : pages[a].front.id = o => pages[a].front.rev <= memory[o].rev
    BY DEF AloneInv, PagesAlone, Known
  <2> QED BY <2>1, <2>2 DEF Known, UpTo
<1>2. PagesAlone(pages, precedence, memory, lost)
  BY DEF AloneInv
<1>3. UNCHANGED <<pages, precedence, memory, lost>>
  BY DEF BeginsSync, BeginsPromote, people, vault
<1>4. ASSUME NEW q, NEW day, BeginsSync(s, q, day) 
      PROVE  AloneOK(pages, precedence, memory, lost, cmd'[s])
  <2>1. /\ cmd'[s].at = "sync" /\ cmd'[s].store = precedence
        /\ cmd'[s].todo = {Revised(o, day) : o \in {x \in Observations :
                              memory[x].project = q /\ ~memory[x].deleted}}
    BY <1>4, BeginsSyncLooks
  <2>2. TodoOK(pages, memory, cmd'[s].todo)
    BY <1>1, <2>1 DEF TodoOK
  <2> QED BY <1>2, <2>1, <2>2 DEF AloneOK, PagesAlone, Promoting
<1>5. ASSUME NEW o \in Observations, NEW day, BeginsPromote(s, o, day)
      PROVE  AloneOK(pages, precedence, memory, lost, cmd'[s])
  <2>1. /\ cmd'[s].at = "promote" /\ cmd'[s].store = precedence /\ cmd'[s].todo = {}
        /\ cmd'[s].obs = Revised(o, day)
    BY <1>5, BeginsPromoteLooks
  <2>2. TodoOK(pages, memory, {})
    BY DEF TodoOK
  <2> QED BY <1>1, <1>2, <2>1, <2>2 DEF AloneOK, PagesAlone, Promoting
<1> QED BY <1>2, <1>3, <1>4, <1>5 DEF AloneInv

LEMMA LooksAlone ==
  ASSUME VaultInv, NEW s \in Processes, AloneInv(s),
         Decides(s) \/ StartsPromote(s) \/ TakesAddress(s) \/ BeginsPropagate(s)
  PROVE  AloneInv(s)'
<1>1. PagesAlone(pages, precedence, memory, lost) /\ AloneOK(pages, precedence, memory, lost, cmd[s])
  BY DEF AloneInv
<1>2. UNCHANGED <<pages, precedence, memory, lost>>
  BY DEF Decides, StartsPromote, TakesAddress, BeginsPropagate, people, vault
<1>3. CASE Decides(s)
  <2>1. PICK obs \in cmd[s].todo :
           /\ cmd[s].at = "sync" /\ cmd'[s].todo = cmd[s].todo \ {obs}
           /\ \/ cmd'[s].at = "promote" /\ cmd'[s].obs = obs
              \/ cmd'[s].at = "sync" /\ cmd'[s].obs = Nobody
           /\ cmd'[s].store = cmd[s].store
    BY <1>3, DecidesLooks
  <2>2. TodoOK(pages, memory, cmd[s].todo)
    BY <1>1, <2>1 DEF AloneOK
  <2>3. /\ TodoOK(pages, memory, cmd[s].todo \ {obs}) /\ Known(memory, obs) /\ UpTo(pages, obs)
        /\ \A o \in cmd[s].todo : o.id = obs.id => o = obs
    BY <2>2 DEF TodoOK
  <2>4. AloneOK(pages, precedence, memory, lost, cmd'[s])
    BY <1>1, <2>1, <2>3 DEF AloneOK, Promoting
  <2> QED BY <1>1, <1>2, <2>4 DEF AloneInv
<1>4. CASE StartsPromote(s)
  <2>1. PICK o, a : o = cmd[s].obs /\ a = FirstFound(o.id, o.project)
    OBVIOUS
  <2>2. /\ cmd[s].at = "promote"
        /\ \/ Passes(s)
           \/ /\ cmd'[s].todo = cmd[s].todo /\ cmd'[s].obs = o /\ cmd'[s].store = cmd[s].store
              /\ \/ /\ cmd'[s].at = "address" /\ Found(o.id, o.project) = {} /\ ~MayBeOneOf(o.id)
                 \/ /\ cmd'[s].at = "update" /\ cmd'[s].address = a /\ Found(o.id, o.project) # {}
                 \/ cmd'[s].at = "supersede"
    BY <1>4, <2>1, PromoteLooks
  <2>3. Found(o.id, o.project) # {} => a \in DOMAIN pages /\ OfObs(pages[a], o)
    BY <2>1, FoundIs DEF Found, PagesOf, OfObs
  <2>4. Found(o.id, o.project) = {} /\ ~MayBeOneOf(o.id) => \A b \in DOMAIN pages : ~OfObs(pages[b], o)
    BY DEF Found, PagesOf, OfObs, MayBeOneOf
  <2>5. CASE Passes(s)
    <3>1. NotAhead(pages, cmd[s].store) /\ (lost \/ Tracked(pages, cmd[s].store))
      BY <2>2, CommandFacts
    <3>2. AloneOK(pages, precedence, memory, lost, cmd'[s])
      BY <2>2, <2>5, <3>1, NextAlone DEF Passes, Promoting
    <3> QED BY <1>1, <1>2, <3>2 DEF AloneInv
  <2>6. CASE ~Passes(s)
    <3>1. AloneOK(pages, precedence, memory, lost, cmd'[s])
      BY <1>1, <2>1, <2>2, <2>3, <2>4, <2>6 DEF AloneOK, Promoting
    <3> QED BY <1>1, <1>2, <3>1 DEF AloneInv
  <2> QED BY <2>5, <2>6
<1>5. CASE TakesAddress(s)
  <2>1. /\ cmd[s].at = "address" /\ cmd'[s].at = "entry" /\ cmd'[s].todo = cmd[s].todo
        /\ cmd'[s].obs = cmd[s].obs /\ cmd'[s].store = cmd[s].store /\ cmd'[s].address \notin allocated
    BY <1>5, TakesLooks
  <2>2. cmd'[s].address \notin DOMAIN pages
    BY <2>1 DEF VaultInv, VaultOK
  <2>3. AloneOK(pages, precedence, memory, lost, cmd'[s])
    BY <1>1, <2>1, <2>2 DEF AloneOK, Promoting
  <2> QED BY <1>1, <1>2, <2>3 DEF AloneInv
<1>6. CASE BeginsPropagate(s)
  <2>1. cmd[s].at = "sync" /\ cmd'[s].at = "propagate" /\ cmd'[s].store = cmd[s].store
    BY <1>6, BeginsPropagateLooks
  <2>2. AloneOK(pages, precedence, memory, lost, cmd'[s])
    BY <1>1, <2>1 DEF AloneOK, Promoting
  <2> QED BY <1>1, <1>2, <2>2 DEF AloneInv
<1> QED BY <1>3, <1>4, <1>5, <1>6

(* The entry of the page that will be, or is, of the observation.          *)
LEMMA OwnEntry ==
  ASSUME VaultInv, NEW s \in Processes, NEW e, e = EntryFor(Render(cmd[s].obs))
  PROVE  e.rev = cmd[s].obs.rev /\ cmd[s].obs.rev \in Nat
<1>1. IsObs(cmd[s].obs)
  BY CommandIs DEF CmdOK
<1> QED BY <1>1 DEF EntryFor, Render, IsObs

LEMMA SavesAlone ==
  ASSUME VaultInv, NEW s \in Processes, AloneInv(s),
         SavesEntry(s) \/ SavesUpdate(s) \/ PageFails(s) \/ EndsPromote(s) \/ EndsSync(s)
           \/ WriteFails(s) \/ Killed(s) \/ Registers(s)
  PROVE  AloneInv(s)'
<1>1. PagesAlone(pages, precedence, memory, lost) /\ AloneOK(pages, precedence, memory, lost, cmd[s])
  BY DEF AloneInv
<1>2. UNCHANGED <<pages, memory, lost>> /\ cmd[s].at # "free"
  BY DEF SavesEntry, SavesUpdate, Saves, PageFails, EndsPromote, EndsSync, WriteFails, Killed,
         Registers, people, vault, At
<1>3. NotAhead(pages, cmd[s].store) /\ (lost \/ Tracked(pages, cmd[s].store))
  BY <1>2, CommandFacts
<1>4. cmd = [q \in Processes |-> cmd[q]] /\ IsCmd(cmd[s])
  BY CommandIs
<1>5. PICK S2 : S2 = precedence'
  OBVIOUS
<1>6. SUFFICES /\ lost \/ Tracked(pages, S2)
               /\ NotAhead(pages, S2) /\ AloneOK(pages, S2, memory, lost, cmd'[s])
  BY <1>1, <1>2, <1>5 DEF AloneInv, PagesAlone
<1>7. CASE SavesEntry(s)
  <2>1. PICK e, a, store : /\ e = EntryFor(Render(cmd[s].obs)) /\ a = cmd[s].address
                           /\ store = With(cmd[s].store, a, e)
    OBVIOUS
  <2>2. /\ cmd[s].at = "entry" /\ S2 = store
        /\ cmd' = [cmd EXCEPT ![s].store = store, ![s].at = "page"]
    BY <1>5, <1>7, <2>1 DEF SavesEntry, Saves, At
  <2>3. /\ cmd'[s].at = "page" /\ cmd'[s].todo = cmd[s].todo /\ cmd'[s].obs = cmd[s].obs
        /\ cmd'[s].address = cmd[s].address /\ cmd'[s].store = store
    BY <1>4, <2>2 DEF IsCmd
  <2>4. a \notin DOMAIN pages
    BY <1>1, <2>1, <2>2 DEF AloneOK
  <2>5. /\ NotAhead(pages, store) /\ (lost \/ Tracked(pages, store))
        /\ a \in DOMAIN store /\ store[a] = e
    BY <1>3, <2>1, <2>4, WithLags
  <2>6. e.rev <= cmd[s].obs.rev
    BY <2>1, OwnEntry
  <2>7. AloneOK(pages, S2, memory, lost, cmd'[s])
    BY <1>1, <2>1, <2>2, <2>3, <2>4, <2>5, <2>6 DEF AloneOK, Promoting
  <2> QED BY <2>2, <2>5, <2>7
<1>8. CASE SavesUpdate(s)
  <2>1. PICK store : store = cmd[s].store
    OBVIOUS
  <2>2. /\ cmd[s].at = "recorded" /\ S2 = store
        /\ cmd' = [cmd EXCEPT ![s].store = store, ![s].at = "register"]
    BY <1>5, <1>8, <2>1 DEF SavesUpdate, Saves, At
  <2>3. /\ cmd'[s].at = "register" /\ cmd'[s].todo = cmd[s].todo /\ cmd'[s].obs = cmd[s].obs
        /\ cmd'[s].address = cmd[s].address /\ cmd'[s].store = store
    BY <1>4, <2>2 DEF IsCmd
  <2>4. AloneOK(pages, S2, memory, lost, cmd'[s])
    BY <1>1, <2>1, <2>2, <2>3 DEF AloneOK, Promoting
  <2> QED BY <1>3, <2>1, <2>2, <2>4
<1>9. CASE PageFails(s)
  <2>1. PICK store : store = Less(cmd[s].store, cmd[s].address)
    OBVIOUS
  <2>2. cmd[s].at = "page" /\ S2 = store /\ Next1(s, store)
    BY <1>5, <1>9, <2>1 DEF PageFails, At
  <2>3. cmd[s].address \notin DOMAIN pages
    BY <1>1, <2>2 DEF AloneOK
  <2>4. /\ DOMAIN store = DOMAIN cmd[s].store \ {cmd[s].address}
        /\ \A b \in DOMAIN store : store[b] = cmd[s].store[b]
    BY <2>1 DEF Less
  <2>5. NotAhead(pages, store) /\ (lost \/ Tracked(pages, store))
    BY <1>3, <2>3, <2>4 DEF NotAhead, Tracked
  <2>6. AloneOK(pages, S2, memory, lost, cmd'[s])
    BY <2>2, <2>5, NextAlone DEF Promoting
  <2> QED BY <2>2, <2>5, <2>6
<1>10. CASE EndsPromote(s)
  <2>1. /\ cmd[s].at = "supersede" /\ (S2 = cmd[s].store \/ S2 = precedence)
        /\ Next1(s, cmd[s].store)
    BY <1>5, <1>10 DEF EndsPromote, Passes, At
  <2>2. AloneOK(pages, S2, memory, lost, cmd'[s])
    BY <1>3, <2>1, NextAlone DEF Promoting
  <2> QED BY <1>1, <1>3, <2>1, <2>2 DEF PagesAlone
<1>11. CASE EndsSync(s) \/ Killed(s)
  <2>1. cmd' = [cmd EXCEPT ![s] = Free] /\ (S2 = cmd[s].store \/ S2 = precedence)
    BY <1>5, <1>11 DEF EndsSync, Killed, vault
  <2>2. AloneOK(pages, S2, memory, lost, cmd'[s])
    BY <2>1, FreeLooks, FreeAlone
  <2> QED BY <1>1, <1>3, <2>1, <2>2 DEF PagesAlone
<1>12. CASE WriteFails(s)
  <2>1. cmd[s].at \in Promoting /\ S2 = precedence /\ Next1(s, cmd[s].store)
    BY <1>5, <1>12 DEF WriteFails, Passes, Promoting, vault
  <2>2. AloneOK(pages, S2, memory, lost, cmd'[s])
    BY <1>3, <2>1, NextAlone
  <2> QED BY <1>1, <2>1, <2>2 DEF PagesAlone
<1>13. CASE Registers(s)
  <2>1. cmd[s].at = "register" /\ cmd' = [cmd EXCEPT ![s].at = "supersede"] /\ S2 = precedence
    BY <1>5, <1>13 DEF Registers, Goes, At
  <2>2. /\ cmd'[s].at = "supersede" /\ cmd'[s].todo = cmd[s].todo /\ cmd'[s].obs = cmd[s].obs
        /\ cmd'[s].store = cmd[s].store
    BY <2>1, GoesLooks
  <2>3. AloneOK(pages, S2, memory, lost, cmd'[s])
    BY <1>1, <2>1, <2>2 DEF AloneOK, Promoting
  <2> QED BY <1>1, <2>1, <2>3 DEF PagesAlone
<1> QED BY <1>7, <1>8, <1>9, <1>10, <1>11, <1>12, <1>13

(* The page that is written is the one of its observation.                 *)
LEMMA PutAlone ==
  ASSUME NEW F, NEW S, NEW M, NEW missing, PagesAlone(F, S, M, missing),
         NEW o, Known(M, o), UpTo(F, o), NEW a, NEW pg, OfObs(pg, o), pg.front.rev = o.rev,
         \A b \in DOMAIN F : OfObs(F[b], o) => b = a,
         o.rev \in Nat, missing \/ a \in DOMAIN S, a \in DOMAIN S => S[a].rev <= o.rev,
         NEW G, DOMAIN G = DOMAIN F \union {a}, G[a] = pg,
         \A b \in DOMAIN F : b # a => G[b] = F[b]
  PROVE  /\ PagesAlone(G, S, M, missing)
         /\ UpTo(G, o) /\ \A x : UpTo(F, x) /\ (x.id = o.id => x = o) => UpTo(G, x)
<1>1. DOMAIN G = DOMAIN F \union {a} /\ G[a] = pg /\ \A b \in DOMAIN F : b # a => G[b] = F[b]
  OBVIOUS
<1>2. missing \/ Tracked(G, S)
  BY <1>1 DEF PagesAlone, Tracked
<1>3. NotAhead(G, S)
  BY <1>1 DEF PagesAlone, NotAhead
<1>4. OnePage(G)
  BY <1>1 DEF PagesAlone, OnePage, OfObs
<1>5. \A b \in DOMAIN G : Known(M, G[b].front)
  BY <1>1 DEF PagesAlone, Known, OfObs
<1>6. UpTo(G, o)
  BY <1>1 DEF UpTo
<1>7. ASSUME NEW x, UpTo(F, x), x.id = o.id => x = o PROVE UpTo(G, x)
  BY <1>1, <1>6, <1>7 DEF UpTo, OfObs
<1> QED BY <1>1, <1>2, <1>3, <1>4, <1>5, <1>6, <1>7 DEF PagesAlone

LEMMA WritesAlone ==
  ASSUME VaultInv, NEW s \in Processes, AloneInv(s), WritesPage(s)
  PROVE  AloneInv(s)'
<1>1. PICK o, a, pg, G : /\ o = cmd[s].obs /\ a = cmd[s].address
                         /\ pg = Render(o) /\ G = With(pages, a, pg)
  OBVIOUS
<1>2. /\ cmd[s].at = "page" /\ pages' = G /\ cmd' = [cmd EXCEPT ![s].at = "register"]
      /\ UNCHANGED <<precedence, memory, lost>>
  BY <1>1 DEF WritesPage, Goes, At, people
<1>3. /\ cmd'[s].at = "register" /\ cmd'[s].todo = cmd[s].todo /\ cmd'[s].obs = o
      /\ cmd'[s].address = a /\ cmd'[s].store = cmd[s].store
  BY <1>1, <1>2, GoesLooks
<1>4. IsObs(o) /\ OfObs(pg, o) /\ pg.front.rev = o.rev /\ o.rev \in Nat
  BY <1>1, CommandIs, RenderIs DEF CmdOK, OfObs, IsObs
<1>5. PagesAlone(pages, precedence, memory, lost) /\ AloneOK(pages, precedence, memory, lost, cmd[s])
  BY DEF AloneInv
<1>6. /\ Known(memory, o) /\ UpTo(pages, o) /\ \A b \in DOMAIN pages : ~OfObs(pages[b], o)
      /\ lost \/ a \in DOMAIN precedence
      /\ a \in DOMAIN precedence => precedence[a].rev <= o.rev
      /\ a \in DOMAIN cmd[s].store /\ cmd[s].store[a].rev <= o.rev
      /\ TodoOK(pages, memory, cmd[s].todo) /\ \A x \in cmd[s].todo : x.id = o.id => x = o
      /\ NotAhead(pages, cmd[s].store) /\ (lost \/ Tracked(pages, cmd[s].store))
  BY <1>1, <1>2, <1>5 DEF AloneOK, Promoting
<1>7. /\ PagesAlone(G, precedence, memory, lost) /\ DOMAIN G = DOMAIN pages \union {a} /\ G[a] = pg
      /\ \A b \in DOMAIN pages : b # a => G[b] = pages[b]
      /\ UpTo(G, o) /\ \A x : UpTo(pages, x) /\ (x.id = o.id => x = o) => UpTo(G, x)
  <2>1. /\ DOMAIN G = DOMAIN pages \union {a}
        /\ G[a] = pg /\ \A b \in DOMAIN pages : b # a => G[b] = pages[b]
    BY <1>1 DEF With
  <2>2. \A b \in DOMAIN pages : OfObs(pages[b], o) => b = a
    BY <1>6
  <2> QED BY <1>1, <1>4, <1>5, <1>6, <2>1, <2>2, PutAlone
<1>8. TodoOK(G, memory, cmd[s].todo)
  BY <1>6, <1>7 DEF TodoOK
<1>9. NotAhead(G, cmd[s].store) /\ (lost \/ Tracked(G, cmd[s].store))
  BY <1>4, <1>6, <1>7 DEF NotAhead, Tracked
<1>10. AloneOK(G, precedence, memory, lost, cmd'[s])
  BY <1>3, <1>6, <1>7, <1>8, <1>9 DEF AloneOK, Promoting
<1> QED BY <1>2, <1>7, <1>10 DEF AloneInv

LEMMA UpdatesAlone ==
  ASSUME VaultInv, NEW s \in Processes, AloneInv(s), UpdatesPage(s)
  PROVE  AloneInv(s)'
<1>1. PICK o, a, pg, G, e, store :
        /\ o = cmd[s].obs /\ a = cmd[s].address /\ pg = Render(o) /\ G = With(pages, a, pg)
        /\ e = EntryFor(pg) /\ store = With(cmd[s].store, a, e)
  OBVIOUS
<1>2. cmd[s].at = "update" /\ pages' = G /\ UNCHANGED <<precedence, memory, lost>>
  BY <1>1 DEF UpdatesPage, At, people
<1>3. /\ cmd'[s].at = "recorded" /\ cmd'[s].todo = cmd[s].todo /\ cmd'[s].obs = o
      /\ cmd'[s].address = a /\ cmd'[s].store = store
  BY <1>1, UpdatesLooks
<1>4. IsObs(o) /\ OfObs(pg, o) /\ pg.front.rev = o.rev /\ o.rev \in Nat /\ e.rev = o.rev
  BY <1>1, CommandIs, RenderIs, OwnEntry DEF CmdOK, OfObs, IsObs
<1>5. PagesAlone(pages, precedence, memory, lost) /\ AloneOK(pages, precedence, memory, lost, cmd[s])
  BY DEF AloneInv
<1>6. /\ Known(memory, o) /\ UpTo(pages, o) /\ a \in DOMAIN pages /\ OfObs(pages[a], o)
      /\ TodoOK(pages, memory, cmd[s].todo) /\ \A x \in cmd[s].todo : x.id = o.id => x = o
      /\ NotAhead(pages, cmd[s].store) /\ (lost \/ Tracked(pages, cmd[s].store))
  BY <1>1, <1>2, <1>5 DEF AloneOK, Promoting
<1>7. \A b \in DOMAIN pages : OfObs(pages[b], o) => b = a
  BY <1>5, <1>6 DEF PagesAlone, OnePage, OfObs
<1>8. lost \/ a \in DOMAIN precedence
  BY <1>5, <1>6 DEF PagesAlone, Tracked
<1>9. pages[a].front.rev \in Nat /\ pages[a].front.rev <= o.rev
  BY <1>6 DEF UpTo, OfObs, VaultInv, VaultOK, PagesOK, PageOK, IsPage
<1>10. a \in DOMAIN precedence => precedence[a].rev <= o.rev
  <2>1. a \in DOMAIN precedence => precedence[a].rev \in Nat
    BY DEF VaultInv, VaultOK, StoreOK, EntryOK
  <2>2. a \in DOMAIN precedence => precedence[a].rev <= pages[a].front.rev
    BY <1>5, <1>6 DEF PagesAlone, NotAhead
  <2> QED BY <1>4, <1>9, <2>1, <2>2
<1>11. /\ PagesAlone(G, precedence, memory, lost) /\ DOMAIN G = DOMAIN pages \union {a} /\ G[a] = pg
       /\ \A b \in DOMAIN pages : b # a => G[b] = pages[b]
       /\ UpTo(G, o) /\ \A x : UpTo(pages, x) /\ (x.id = o.id => x = o) => UpTo(G, x)
  <2>1. /\ DOMAIN G = DOMAIN pages \union {a}
        /\ G[a] = pg /\ \A b \in DOMAIN pages : b # a => G[b] = pages[b]
    BY <1>1 DEF With
  <2>2. \A b \in DOMAIN pages : OfObs(pages[b], o) => b = a
    BY <1>7
  <2> QED BY <1>1, <1>4, <1>5, <1>6, <1>7, <1>8, <1>10, <2>1, <2>2, PutAlone
<1>12. TodoOK(G, memory, cmd[s].todo)
  BY <1>6, <1>11 DEF TodoOK
<1>13. DOMAIN store = DOMAIN cmd[s].store \union {a} /\ store[a] = e
       /\ \A b \in DOMAIN cmd[s].store : b # a => store[b] = cmd[s].store[b]
  BY <1>1 DEF With
<1>14. NotAhead(G, store) /\ (lost \/ Tracked(G, store))
  BY <1>4, <1>6, <1>11, <1>13 DEF NotAhead, Tracked
<1>15. AloneOK(G, precedence, memory, lost, cmd'[s])
  BY <1>3, <1>6, <1>11, <1>12, <1>14 DEF AloneOK, Promoting
<1> QED BY <1>2, <1>11, <1>15 DEF AloneInv

LEMMA PatchesAlone ==
  ASSUME VaultInv, NEW s \in Processes, AloneInv(s), Supersedes(s) \/ Propagates(s)
  PROVE  AloneInv(s)'
<1>1. UNCHANGED <<precedence, memory, lost>>
  BY DEF Supersedes, Propagates, people
<1>2. /\ \/ /\ cmd[s].at = "supersede" /\ cmd'[s].at = "supersede"
            /\ cmd'[s].todo = cmd[s].todo /\ cmd'[s].obs = cmd[s].obs
         \/ cmd[s].at = "propagate" /\ cmd'[s].at = "propagate"
      /\ \/ pages' = pages /\ cmd'[s].store = cmd[s].store
         \/ \E a \in DOMAIN pages : \E fate : Patches(s, a, fate)
  BY SupersedesLooks, PropagatesLooks
<1>3. PagesAlone(pages, precedence, memory, lost) /\ AloneOK(pages, precedence, memory, lost, cmd[s])
  BY DEF AloneInv
<1>4. NotAhead(pages, cmd[s].store) /\ (lost \/ Tracked(pages, cmd[s].store))
  BY <1>2, CommandFacts
<1>5. /\ Alike(pages, pages') /\ NotAhead(pages, cmd'[s].store)
      /\ (lost \/ Tracked(pages, cmd'[s].store))
  <2>1. CASE pages' = pages /\ cmd'[s].store = cmd[s].store
    BY <1>4, <2>1 DEF Alike
  <2>2. ASSUME NEW a \in DOMAIN pages, NEW fate, Patches(s, a, fate)
        PROVE  /\ Alike(pages, pages') /\ NotAhead(pages, cmd'[s].store)
               /\ (lost \/ Tracked(pages, cmd'[s].store))
    BY <1>4, <2>2, PatchAlone
  <2> QED BY <1>2, <2>1, <2>2
<1>6. AloneOK(pages, precedence, memory, lost, cmd'[s])
  BY <1>2, <1>3, <1>5 DEF AloneOK, Promoting
<1>7. PICK G : G = pages'
  OBVIOUS
<1>8. PagesAlone(G, precedence, memory, lost) /\ AloneOK(G, precedence, memory, lost, cmd'[s])
  BY <1>3, <1>5, <1>6, <1>7, AlikeAlone
<1> QED BY <1>1, <1>7, <1>8 DEF AloneInv

LEMMA PeopleAlone ==
  ASSUME VaultInv, NEW s \in Processes, AloneInv(s),
         (\E a \in Addresses : Reconciles(a) \/ CannotBeRead(a) \/ \E mark \in Marks : Edits(a, mark))
           \/ (\E o \in Observations : Changes(o)) \/ LosesSidecar
  PROVE  AloneInv(s)'
<1>1. /\ PagesAlone(pages, precedence, memory, lost) /\ AloneOK(pages, precedence, memory, lost, cmd[s])
      /\ PagesOK(pages)
  BY DEF AloneInv, VaultInv, VaultOK
<1>2. ASSUME NEW a, Reconciles(a) PROVE AloneInv(s)'
  <2>1. PICK e, S2 : e = EntryFor(pages[a]) /\ S2 = With(precedence, a, e)
    OBVIOUS
  <2>2. precedence' = S2 /\ a \in DOMAIN pages /\ UNCHANGED <<memory, lost, cmd, pages>>
    BY <1>2, <2>1 DEF Reconciles
  <2>3. e.rev = pages[a].front.rev /\ pages[a].front.rev \in Nat
    BY <1>1, <2>1, <2>2 DEF EntryFor, PagesOK, PageOK, IsPage
  <2>4. NotAhead(pages, S2) /\ (Tracked(pages, precedence) => Tracked(pages, S2))
    BY <1>1, <2>1, <2>3, WithLags DEF PagesAlone
  <2>5. /\ DOMAIN S2 = DOMAIN precedence \union {a}
        /\ \A b \in DOMAIN precedence : b # a => S2[b] = precedence[b]
    BY <2>1 DEF With
  <2>6. PagesAlone(pages, S2, memory, lost)
    BY <1>1, <2>4 DEF PagesAlone
  <2>7. AloneOK(pages, S2, memory, lost, cmd[s])
    BY <1>1, <2>2, <2>5 DEF AloneOK
  <2> QED BY <2>2, <2>6, <2>7 DEF AloneInv
<1>3. ASSUME NEW a, NEW mark, Edits(a, mark) PROVE AloneInv(s)'
  <2>1. PICK g, h, pg, G : /\ g = [pages[a] EXCEPT !.front.marks = @ \cup {mark}]
                           /\ h = [pages[a] EXCEPT !.body.marks = @ \cup {mark}]
                           /\ pg = IF mark \in {"key", "title"} THEN g ELSE h
                           /\ G = With(pages, a, pg)
    OBVIOUS
  <2>2. pages' = G /\ a \in DOMAIN pages /\ UNCHANGED <<memory, lost, cmd, precedence>>
    BY <1>3, <2>1 DEF Edits, people
  <2>3. PICK old, fm, bm : /\ old = pages[a] /\ PageOK(DOMAIN pages, old)
                           /\ fm = old.front.marks \union {mark} /\ bm = old.body.marks \union {mark}
    BY <1>1, <2>2 DEF PagesOK
  <2>4. g = [old EXCEPT !.front.marks = fm] /\ h = [old EXCEPT !.body.marks = bm]
    BY <2>1, <2>3
  <2>5. /\ g.front.id = old.front.id /\ g.front.project = old.front.project /\ g.front.rev = old.front.rev
        /\ h.front = old.front
    BY <2>3, <2>4 DEF PageOK, IsPage, IsFront
  <2>6. DOMAIN G = DOMAIN pages
        /\ G[a] = pg /\ \A b \in DOMAIN pages : b # a => G[b] = pages[b]
    BY <2>1, <2>2 DEF With
  <2>7. Alike(pages, G)
    <3>1. pg = g \/ pg = h
      BY <2>1
    <3> QED BY <2>3, <2>5, <2>6, <3>1 DEF Alike
  <2>8. PagesAlone(G, precedence, memory, lost) /\ AloneOK(G, precedence, memory, lost, cmd[s])
    BY <1>1, <2>7, AlikeAlone
  <2> QED BY <2>2, <2>8 DEF AloneInv
<1>4. CASE LosesSidecar
  <2>1. precedence' = <<>> /\ lost' = TRUE /\ UNCHANGED <<memory, cmd, pages>>
    BY <1>4 DEF LosesSidecar
  <2>2. PagesAlone(pages, <<>>, memory, TRUE)
    BY <1>1, EmptyStore DEF PagesAlone, NotAhead
  <2>3. AloneOK(pages, <<>>, memory, TRUE, cmd[s])
    BY <1>1, EmptyStore DEF AloneOK
  <2> QED BY <2>1, <2>2, <2>3 DEF AloneInv
<1>5. ASSUME NEW a, CannotBeRead(a) PROVE AloneInv(s)'
  BY <1>1, <1>5 DEF CannotBeRead, vault, AloneInv
<1>6. ASSUME NEW o \in Observations, Changes(o) PROVE AloneInv(s)'
  <2>1. PICK M : M = memory'
    OBVIOUS
  <2>2. \A x \in Observations : memory[x].rev \in Nat
    BY DEF VaultInv, MemoryOK, IsMemory
  <2>3. \A x \in Observations : M[x].rev \in {memory[x].rev, memory[x].rev + 1}
    BY <1>6, <2>1 DEF Changes, VaultInv, MemoryOK, IsMemory
  <2>4. \A x : x.rev \in Nat /\ Known(memory, x) => Known(M, x)
    BY <2>2, <2>3 DEF Known
  <2>5. \A a \in DOMAIN pages : pages[a].front.rev \in Nat
    BY <1>1 DEF PagesOK, PageOK, IsPage
  <2>6. PagesAlone(pages, precedence, M, lost)
    BY <1>1, <2>4, <2>5 DEF PagesAlone
  <2>7. CmdOK(DOMAIN pages, allocated, adopted, cmd[s])
    BY CommandIs
  <2>8. cmd[s].at \in Promoting \union {"sync"} => TodoOK(pages, M, cmd[s].todo)
    BY <1>1, <2>4, <2>7 DEF AloneOK, TodoOK, CmdOK, IsObs
  <2>9. cmd[s].at \in Promoting => Known(M, cmd[s].obs)
    BY <1>1, <2>4, <2>7 DEF AloneOK, CmdOK, IsObs
  <2>10. AloneOK(pages, precedence, M, lost, cmd[s])
    BY <1>1, <2>8, <2>9 DEF AloneOK
  <2>11. UNCHANGED <<pages, precedence, lost, cmd>>
    BY <1>6 DEF Changes, vault
  <2> QED BY <2>1, <2>6, <2>10, <2>11 DEF AloneInv
<1> QED BY <1>2, <1>3, <1>4, <1>5, <1>6

LEMMA AloneInit == ASSUME PromotionInit, NEW s \in Processes PROVE AloneInv(s)
<1>1. AloneOK(pages, precedence, memory, lost, cmd[s])
  BY FreeAlone DEF PromotionInit
<1>2. CASE pages = <<>> /\ precedence = <<>>
  <2>1. PagesAlone(pages, precedence, memory, lost)
    BY <1>2, EmptyStore DEF PagesAlone, NotAhead, Tracked, OnePage
  <2> QED BY <1>1, <2>1 DEF AloneInv
<1>3. ASSUME NEW o \in Observations, NEW p0, lost = TRUE,
             memory = [x \in Observations |-> [rev |-> 1, project |-> p0,
                                               deleted |-> FALSE, superseded |-> FALSE]],
             pages = With(<<>>, 1, OldPage(o, p0)),
             precedence \in {<<>>, With(<<>>, 1, [EntryFor(OldPage(o, p0)) EXCEPT !.rev = 0])}
      PROVE  AloneInv(s)
  <2>1. PICK pg, e, f : /\ pg = OldPage(o, p0)
                        /\ e = EntryFor(pg) /\ f = [e EXCEPT !.rev = 0]
    OBVIOUS
  <2>2. pg.front.id = o /\ pg.front.rev = 1
    BY <2>1 DEF OldPage, Render
  <2>3. f.rev = 0
    BY <2>1 DEF EntryFor
  <2>4. DOMAIN pages = {1} /\ pages[1] = pg
    BY <1>3, <2>1, EmptyStore DEF With
  <2>5. DOMAIN precedence = {} \/ (DOMAIN precedence = {1} /\ precedence[1] = f)
    BY <1>3, <2>1, EmptyStore DEF With
  <2>6. NotAhead(pages, precedence) /\ OnePage(pages)
    BY <2>2, <2>3, <2>4, <2>5 DEF NotAhead, OnePage
  <2>7. \A a \in DOMAIN pages : Known(memory, pages[a].front)
    BY <1>3, <2>2, <2>4 DEF Known
  <2> QED BY <1>1, <1>3, <2>6, <2>7 DEF AloneInv, PagesAlone
<1> QED BY <1>2, <1>3 DEF PromotionInit, OldPage

LEMMA AloneStays ==
  ASSUME NEW s, AloneInv(s), UNCHANGED promotionVars PROVE AloneInv(s)'
BY DEF AloneInv, promotionVars

LEMMA SpecAloneInv == ASSUME NEW s, Processes = {s} PROVE StoresSpec => []AloneInv(s)
<1>1. StoresInit => AloneInv(s)
  BY AloneInit DEF StoresInit
<1>2. VaultInv /\ AloneInv(s) /\ [StoresNext]_<<promotionVars, reviewVars, part>> => AloneInv(s)'
  <2> SUFFICES ASSUME VaultInv, AloneInv(s), [StoresNext]_<<promotionVars, reviewVars, part>>
               PROVE  AloneInv(s)'
    OBVIOUS
  <2>1. PromotionNext \/ UNCHANGED promotionVars
    BY DEF StoresNext
  <2>2. CASE PromotionNext
    BY <2>2, BeginsAlone, LooksAlone, SavesAlone, WritesAlone, UpdatesAlone, PatchesAlone, PeopleAlone
       DEF PromotionNext, Step
  <2> QED BY <2>1, <2>2, AloneStays
<1> QED BY <1>1, <1>2, SpecVaultInv, PTL DEF StoresSpec

(* A page that is not ahead of its entry's revision is the only one that a *)
(* next update may find that it cannot take up.                            *)
LEMMA AloneIsSound ==
  ASSUME VaultInv, NEW s \in Processes, AloneInv(s)
  PROVE  PagesAreSound
<1>1. PagesAlone(pages, precedence, memory, lost)
  BY DEF AloneInv
<1>2. PublishedIsTracked /\ OnePagePerObservation
  BY <1>1 DEF PagesAlone, Tracked, OnePage, PublishedIsTracked, OnePagePerObservation
<1>3. ASSUME NEW a \in RefusedInSilence PROVE pages[a].front.rev = precedence[a].rev
  <2>1. PICK S, pg, new : S = precedence /\ pg = pages[a] /\ new = Newer(pg)
    OBVIOUS
  <2>2. /\ a \in DOMAIN pages /\ a \in DOMAIN S /\ Untouched(pg) /\ ~MayOverwrite(S, a, pg, new)
        /\ S[a].rev > 0
    BY <1>3, <2>1 DEF RefusedInSilence
  <2>3. IsPage(pg) /\ S[a].rev \in Nat /\ S[a].rev <= pg.front.rev
    BY <1>1, <2>1, <2>2 DEF PagesAlone, NotAhead, VaultInv, VaultOK, PagesOK, PageOK, StoreOK, EntryOK
  <2>4. new.front.rev = pg.front.rev + 1 /\ new.front.id = pg.front.id /\ pg.front.rev \in Nat
    BY <2>1, <2>3 DEF Newer, Render, IsPage
  <2>5. CASE S[a].rev < pg.front.rev
    <3>1. RevisionsAllowAdoption(S[a], pg, new)
      BY <2>2, <2>3, <2>4, <2>5 DEF RevisionsAllowAdoption
    <3>2. pg.body.id = new.front.id /\ pg.body.rev = pg.front.rev
      BY <2>3, <2>4 DEF IsPage
    <3>3. OwnUnrecordedUpdate(S[a], pg, new)
      BY <2>2, <3>1, <3>2 DEF OwnUnrecordedUpdate, Untouched
    <3> QED BY <2>2, <3>3 DEF MayOverwrite
  <2> QED BY <2>1, <2>3, <2>4, <2>5
<1>4. PointsToPages
  BY VaultTypes
<1> QED BY <1>2, <1>3, <1>4 DEF PagesAreSound, InterruptedIsTakenUp

(* With one process of longterm-mem at a time, however often it is killed  *)
(* or fails to write, and whatever people do to the pages and the sidecar: *)
(* every page is tracked, no observation has two pages in a project,       *)
(* nothing points to a page that is not there, and an interrupted update   *)
(* that brought a revision is taken up.                                    *)
THEOREM SpecPagesHold == ASSUME NEW s, Processes = {s} PROVE StoresSpec => []PagesHold
<1>1. VaultInv /\ AloneInv(s) => PagesHold
  BY AloneIsSound DEF PagesHold
<1> QED BY <1>1, SpecVaultInv, SpecAloneInv, PTL

(* What a process knows of the file it is to store: its name, once it has  *)
(* one, and what it binds to.                                              *)
SeatTyped(s) ==
  /\ s = SeatOf(s)
  /\ s.at \in {"idle", "sweeping", "listing", "creating", "locking", "locked"}
  /\ s.at # "idle" => s.kind \in Kinds /\ s.head \in Commits /\ s.base \in Commits
  /\ s.at \in {"creating", "locking", "locked"} => s.n \in Nat \ {0}
(* An exemption is of one commit.                                          *)
OfParent(s) == s.kind = "exempt" => s.base = Parent(git, s.head)
ReviewTypes ==
  /\ git \in Histories
  /\ IsFiniteSet(files) /\ \A f \in files : FileTyped(f) /\ OfParent(f)
  /\ seat = [p \in Reviewers |-> seat[p]] /\ \A p \in Reviewers : SeatTyped(seat[p]) /\ OfParent(seat[p])
  /\ sweepLock \in Reviewers \union {NoReviewer} /\ roundLock \in Reviewers \union {NoReviewer}

(* A finite set of numbers has a greatest one.                             *)
LEMMA GreatestOfFinite ==
  ASSUME NEW S, IsFiniteSet(S), S \subseteq Int, S # {}
  PROVE  \E k \in S : \A j \in S : j <= k
<1> DEFINE R == StrictSubsetOrdering(S)
           Higher(k) == {j \in S : k < j}
           T == {Higher(k) : k \in S}
<1>1. IsWellFoundedOn(R, FiniteSubsetsOf(S))
  BY FS_StrictSubsetOrderingWellFounded
<1>2. \A k \in S : Higher(k) \in FiniteSubsetsOf(S)
  BY FS_Subset DEF FiniteSubsetsOf
<1>3. T \subseteq FiniteSubsetsOf(S) /\ T # {}
  BY <1>2
<1>4. PICK t \in T : \A u \in T : ~(<<u, t>> \in R)
  <2> HIDE DEF R, T
  <2> QED BY <1>1, <1>3, WFMin
<1>5. PICK k \in S : t = Higher(k)
  OBVIOUS
<1>6. ASSUME NEW j \in S, k < j PROVE FALSE
  <2>1. Higher(j) \subseteq Higher(k) /\ j \in Higher(k) /\ j \notin Higher(j)
    <3>1. j \in Int /\ k \in Int /\ \A i \in S : i \in Int
      OBVIOUS
    <3>2. \A i \in S : j < i => k < i
      BY <1>6, <3>1
    <3>3. ~(j < j)
      BY <3>1
    <3> QED BY <1>6, <3>2, <3>3
  <2>2. Higher(j) \in SUBSET S /\ Higher(k) \in SUBSET S /\ Higher(j) # Higher(k)
    BY <2>1
  <2>3. <<Higher(j), Higher(k)>> \in R
    BY <2>1, <2>2 DEF StrictSubsetOrdering
  <2> QED BY <1>4, <1>5, <2>3
<1>7. \A j \in S : j <= k
  BY <1>6
<1> QED BY <1>7

(* The next free number of a head is a number.                             *)
LEMMA NextNumberTyped ==
  ASSUME NEW F, IsFiniteSet(F), \A f \in F : f.n \in Nat \ {0}, NEW head
  PROVE  NextNumber(F, head) \in Nat \ {0}
<1> DEFINE own == {e \in F : e.head = head}
           numbers == NumbersOf(F, head)
           f == [e \in own |-> e.n]
<1>1. CASE numbers = {}
  BY <1>1 DEF NextNumber
<1>2. CASE numbers # {}
  <2>1. numbers = {e.n : e \in own}
    BY DEF NumbersOf
  <2>2. f \in Surjection(own, numbers)
    <3>1. f \in [own -> numbers] /\ \A n \in numbers : \E e \in own : f[e] = n
      BY <2>1
    <3> QED BY <3>1 DEF Surjection
  <2>3. IsFiniteSet(own)
    BY FS_Subset
  <2>4. IsFiniteSet(numbers)
    <3> HIDE DEF f, numbers, own
    <3> QED BY <2>2, <2>3, FS_Surjection
  <2>5. numbers \subseteq Nat /\ numbers \subseteq Int
    BY <2>1
  <2> HIDE DEF numbers
  <2>6. PICK k \in numbers : \A j \in numbers : j <= k
    BY <1>2, <2>4, <2>5, GreatestOfFinite
  <2>7. (CHOOSE n \in numbers : \A m \in numbers : m <= n) \in numbers
    BY <2>6
  <2> QED BY <1>2, <2>5, <2>7 DEF NextNumber, numbers
<1> QED BY <1>1, <1>2

(* A branch is the beginning of the line of its head, from its end on.     *)
LEMMA BranchIs ==
  ASSUME ReviewTypes
  PROVE  \E n \in Nat : /\ n <= Len(git.line[git.head])
                        /\ Branch(git) = [i \in 1 .. n |-> git.line[git.head][n + 1 - i]]
<1> DEFINE line == git.line[git.head]
           first == FirstLine(git, git.head)
           n == Cardinality(first \ git.ancestors[git.main])
<1>1. git.head \in Commits /\ \A c \in Commits : git.line[c] \in Seq(Commits)
  BY HistoriesTyped DEF ReviewTypes
<1>2. line \in Seq(Commits) /\ Len(line) \in Nat /\ DOMAIN line = 1 .. Len(line) /\ \A i \in DOMAIN line : line[i] \in Commits
  BY <1>1
<1>3. first = {line[i] : i \in DOMAIN line}
  BY <1>1, NoCommitIsNone DEF FirstLine
<1>4. IsFiniteSet(1 .. Len(line)) /\ Cardinality(1 .. Len(line)) = Len(line)
  BY <1>2, FS_Interval
<1>5. line \in Surjection(1 .. Len(line), first)
  <2>1. line \in [1 .. Len(line) -> first] /\ \A x \in first : \E i \in 1 .. Len(line) : line[i] = x
    BY <1>2, <1>3
  <2> QED BY <2>1 DEF Surjection
<1>6. n \in Nat /\ n <= Len(line)
  <2> HIDE DEF line, first
  <2>1. IsFiniteSet(first) /\ Cardinality(first) <= Cardinality(1 .. Len(line))
    BY <1>4, <1>5, FS_Surjection
  <2>2. IsFiniteSet(first \ git.ancestors[git.main]) /\ Cardinality(first \ git.ancestors[git.main]) <= Cardinality(first)
    BY <2>1, FS_Subset
  <2>3. n \in Nat /\ Cardinality(first) \in Nat
    BY <2>1, <2>2, FS_CardinalityType
  <2> QED BY <1>2, <1>4, <2>1, <2>2, <2>3
<1>7. Branch(git) = [i \in 1 .. n |-> line[n + 1 - i]]
  BY DEF Branch
<1> QED BY <1>6, <1>7

(* The candidates of a history are commits, and so is the parent of one    *)
(* that has one.                                                           *)
LEMMA CandidatesTyped ==
  ASSUME ReviewTypes
  PROVE  /\ Candidates \subseteq Commits
         /\ \A c \in Commits : OneCommit(c) => Parent(git, c) \in Commits
<1>1. git.head \in Commits /\ \A c \in Commits : git.line[c] \in Seq(Commits)
  BY HistoriesTyped DEF ReviewTypes
<1>2. PICK line : line = git.line[git.head]
  OBVIOUS
<1>3. PICK n \in Nat : n <= Len(line) /\ Branch(git) = [i \in 1 .. n |-> line[n + 1 - i]]
  BY <1>2, BranchIs
<1>4. \A i \in DOMAIN Branch(git) : Branch(git)[i] \in Commits
  <2>1. Len(line) \in Nat /\ \A i \in 1 .. Len(line) : line[i] \in Commits
    BY <1>1, <1>2
  <2>2. \A i \in 1 .. n : n + 1 - i \in 1 .. Len(line)
    BY <1>3, <2>1
  <2> QED BY <1>3, <2>1, <2>2
<1>5. Candidates \subseteq Commits
  BY <1>1, <1>4 DEF Candidates
<1>6. ASSUME NEW c \in Commits, OneCommit(c) PROVE Parent(git, c) \in Commits
  <2>1. git.line[c] \in Seq(Commits)
    BY <1>1
  <2>2. Len(git.line[c]) > 1 /\ Parent(git, c) = git.line[c][2]
    BY <1>6 DEF OneCommit, Parent
  <2> QED BY <2>1, <2>2
<1> QED BY <1>5, <1>6

(* What a step of a process is, for the types.                             *)
TypedMove(p) ==
  /\ \E s : seat' = [seat EXCEPT ![p] = s] /\ SeatTyped(s) /\ OfParent(s)
  /\ files' = files \/ \E f : files' = files \union {f} /\ FileTyped(f) /\ OfParent(f)
  /\ sweepLock' \in {sweepLock, p, NoReviewer} /\ roundLock' \in {roundLock, p, NoReviewer}
  /\ git' = git

LEMMA TypedMoves ==
  ASSUME ReviewTypes, NEW p \in Reviewers, TypedMove(p)
  PROVE  ReviewTypes'
<1>1. PICK s : seat' = [seat EXCEPT ![p] = s] /\ SeatTyped(s) /\ OfParent(s)
  BY DEF TypedMove
<1>2. seat' = [q \in Reviewers |-> seat'[q]] /\ \A q \in Reviewers : seat'[q] = s \/ seat'[q] = seat[q]
  BY <1>1 DEF ReviewTypes
<1>3. \A q \in Reviewers : SeatTyped(seat'[q]) /\ OfParent(seat'[q])
  BY <1>1, <1>2 DEF ReviewTypes
<1>4. IsFiniteSet(files') /\ \A f \in files' : FileTyped(f) /\ OfParent(f)
  BY FS_AddElement DEF ReviewTypes, TypedMove
<1>5. git' = git /\ git' \in Histories /\ sweepLock' \in Reviewers \union {NoReviewer} /\ roundLock' \in Reviewers \union {NoReviewer}
  BY DEF ReviewTypes, TypedMove
<1>6. PICK F, st : F = files' /\ st = seat'
  OBVIOUS
<1>7. (\A f \in files : OfParent(f))' /\ (\A q \in Reviewers : OfParent(seat[q]))'
  BY <1>3, <1>4, <1>5 DEF OfParent
<1> QED BY <1>2, <1>3, <1>4, <1>5, <1>7 DEF ReviewTypes

LEMMA EndsTyped ==
  ASSUME ReviewTypes, NEW p \in Reviewers, Ends(p), git' = git,
         files' = files \/ \E f : files' = files \union {f} /\ FileTyped(f) /\ OfParent(f)
  PROVE  TypedMove(p)
<1>1. SeatTyped(NoSeat) /\ OfParent(NoSeat)
  BY DEF NoSeat, SeatTyped, SeatOf, OfParent
<1> QED BY <1>1 DEF Ends, TypedMove

LEMMA StartsTyped ==
  ASSUME ReviewTypes, NEW p \in Reviewers, NEW step \in {"creating", "listing", "sweeping", "locking"}, NEW file,
         Starts(p, step, file), {"kind", "head", "base"} \subseteq DOMAIN file,
         file.kind \in Kinds, file.head \in Commits, file.base \in Commits, OfParent(file),
         step \in {"creating", "locking"} => "n" \in DOMAIN file /\ file.n \in Nat \ {0},
         UNCHANGED <<git, files>>, sweepLock' \in {sweepLock, p}, roundLock' = roundLock
  PROVE  TypedMove(p)
<1>1. PICK s : s = Begun(step, file)
  OBVIOUS
<1>2. s = SeatOf(s) /\ s.at = step /\ s.kind = file.kind /\ s.head = file.head /\ s.base = file.base
      /\ ("n" \in DOMAIN file => s.n = file.n)
  BY <1>1, BegunSeat
<1>3. SeatTyped(s) /\ OfParent(s)
  BY <1>2 DEF SeatTyped, OfParent
<1> QED BY <1>1, <1>3 DEF Starts, TypedMove

LEMMA BeginsTyped ==
  ASSUME ReviewTypes, NEW p \in Reviewers, NEW head \in Candidates,
         \/ \E base \in Commits, says \in Findings : Record(p, head, base, says)
         \/ Exempt(p, head) \/ RecordPolisher(p, head) \/ Sweep(p, head)
         \/ \E commit \in Commits \union {NoCommit} : RecordSweeper(p, head, commit)
  PROVE  TypedMove(p)
<1>1. head \in Commits /\ (OneCommit(head) => Parent(git, head) \in Commits)
  BY CandidatesTyped
<1>2. NextNumber(files, head) \in Nat \ {0}
  BY NextNumberTyped DEF ReviewTypes, FileTyped
<1>3. ASSUME NEW base \in Commits, NEW says \in Findings, Record(p, head, base, says) PROVE TypedMove(p)
  <2>1. PICK file : file = [kind |-> "result", head |-> head, base |-> base, n |-> NextNumber(files, head), says |-> says]
    OBVIOUS
  <2>2. file.kind \in Kinds /\ file.head = head /\ file.base = base /\ file.n = NextNumber(files, head)
        /\ OfParent(file) /\ DOMAIN file = {"kind", "head", "base", "n", "says"}
    BY <2>1 DEF Kinds, OfParent
  <2>3. Starts(p, "creating", file) /\ UNCHANGED <<git, files, sweepLock, roundLock>>
    BY <1>3, <2>1 DEF Record
  <2> QED BY <1>1, <1>2, <2>2, <2>3, StartsTyped
<1>4. CASE Exempt(p, head)
  <2>1. PICK file : file = [kind |-> "exempt", head |-> head, base |-> Parent(git, head), n |-> NextNumber(files, head)]
    OBVIOUS
  <2>2. file.kind \in Kinds /\ file.head = head /\ file.base = Parent(git, head) /\ file.n = NextNumber(files, head)
        /\ OfParent(file) /\ DOMAIN file = {"kind", "head", "base", "n"}
    BY <2>1 DEF Kinds, OfParent
  <2>3. Starts(p, "creating", file) /\ UNCHANGED <<git, files, sweepLock, roundLock>> /\ OneCommit(head)
    BY <1>4, <2>1 DEF Exempt
  <2> QED BY <1>1, <1>2, <2>2, <2>3, StartsTyped
<1>5. CASE RecordPolisher(p, head)
  <2>1. PICK file : file = [kind |-> "polisher", head |-> head, base |-> Parent(git, head), n |-> NextNumber(files, head)]
    OBVIOUS
  <2>2. file.kind \in Kinds /\ file.head = head /\ file.base = Parent(git, head) /\ file.n = NextNumber(files, head)
        /\ OfParent(file) /\ DOMAIN file = {"kind", "head", "base", "n"}
    BY <2>1 DEF Kinds, OfParent
  <2>3. Starts(p, "creating", file) /\ UNCHANGED <<git, files, sweepLock, roundLock>> /\ OneCommit(head)
    BY <1>5, <2>1 DEF RecordPolisher
  <2> QED BY <1>1, <1>2, <2>2, <2>3, StartsTyped
<1>6. CASE Sweep(p, head)
  <2>1. PICK file : file = [kind |-> "sweep", head |-> head, base |-> Parent(git, head)]
    OBVIOUS
  <2>2. file.kind \in Kinds /\ file.head = head /\ file.base = Parent(git, head) /\ OfParent(file) /\ DOMAIN file = {"kind", "head", "base"}
    BY <2>1 DEF Kinds, OfParent
  <2>3. Starts(p, "sweeping", file) /\ UNCHANGED <<git, files, roundLock>> /\ sweepLock' = p /\ OneCommit(head)
    BY <1>6, <2>1 DEF Sweep
  <2> QED BY <1>1, <2>2, <2>3, StartsTyped
<1>7. ASSUME NEW commit, RecordSweeper(p, head, commit) PROVE TypedMove(p)
  <2>1. PICK file : file = [kind |-> "sweeper", head |-> head, base |-> Parent(git, head),
                            says |-> commit, of |-> Highest(FiredSweeps(head)).n]
    OBVIOUS
  <2>2. file.kind \in Kinds /\ file.head = head /\ file.base = Parent(git, head)
        /\ OfParent(file) /\ DOMAIN file = {"kind", "head", "base", "says", "of"}
    BY <2>1 DEF Kinds, OfParent
  <2>3. Starts(p, "listing", file) /\ UNCHANGED <<git, files, sweepLock, roundLock>> /\ OneCommit(head)
    BY <1>7, <2>1 DEF RecordSweeper
  <2> QED BY <1>1, <2>2, <2>3, StartsTyped
<1> QED BY <1>3, <1>4, <1>5, <1>6, <1>7

LEMMA VerifyTyped ==
  ASSUME ReviewTypes, NEW p \in Reviewers, NEW r, NEW reply, Verify(p, r, reply)
  PROVE  TypedMove(p)
<1>1. PICK step, file : /\ step = IF DecideWith(r.says, reply) = "blocks" THEN "locking" ELSE "creating"
                        /\ file = VerdictOn(r, reply)
  OBVIOUS
<1>2. FileTyped(r)
  BY DEF Verify, ReviewTypes
<1>3. file.kind \in Kinds /\ file.head = r.head /\ file.base = r.base /\ file.n = r.n
      /\ OfParent(file) /\ DOMAIN file = {"kind", "head", "base", "n", "says", "also"}
  BY <1>1 DEF VerdictOn, Kinds, OfParent
<1>4. Starts(p, step, file) /\ UNCHANGED <<git, files, sweepLock, roundLock>>
  BY <1>1 DEF Verify, VerdictOn
<1> QED BY <1>1, <1>2, <1>3, <1>4, StartsTyped DEF FileTyped

(* A seat that only goes elsewhere.                                        *)
LEMMA SeatGoesOn ==
  ASSUME ReviewTypes, NEW p \in Reviewers, NEW s, seat' = [seat EXCEPT ![p] = s],
         s = SeatOf(s), s.kind = seat[p].kind, s.head = seat[p].head, s.base = seat[p].base,
         seat[p].at # "idle",
         \/ s.at = "listing"
         \/ s.at \in {"creating", "locked"} /\ s.n \in Nat \ {0},
         UNCHANGED <<git, files, sweepLock>>, roundLock' \in {roundLock, p}
  PROVE  TypedMove(p)
<1>1. SeatTyped(s) /\ OfParent(s)
  BY DEF ReviewTypes, SeatTyped, OfParent
<1> QED BY <1>1 DEF TypedMove

LEMMA OthersTyped ==
  ASSUME ReviewTypes, NEW p \in Reviewers,
         \/ \E says \in {"clean", "fired"} : Swept(p, says)
         \/ List(p) \/ Create(p)
         \/ TakeLock(p) \/ GiveUpLock(p) \/ CheckRound(p) \/ Crash(p)
  PROVE  TypedMove(p)
<1>1. PICK old : old = seat[p]
  OBVIOUS
<1>2. old = SeatOf(old) /\ SeatTyped(old) /\ OfParent(old)
  BY <1>1 DEF ReviewTypes, SeatTyped
<1>3. ASSUME NEW says, Swept(p, says), ~Ends(p) PROVE TypedMove(p)
  <2>1. PICK s : s = [old EXCEPT !.at = "listing", !.says = says]
    OBVIOUS
  <2>2. s = SeatOf(s) /\ s.at = "listing" /\ s.kind = old.kind /\ s.head = old.head /\ s.base = old.base
    BY <1>2, <2>1 DEF SeatOf
  <2>3. seat' = [seat EXCEPT ![p] = s] /\ old.at = "sweeping" /\ UNCHANGED <<git, files, sweepLock, roundLock>>
    BY <1>1, <1>3, <2>1 DEF Swept, SeatAt, ReviewTypes
  <2> QED BY <1>1, <2>2, <2>3, SeatGoesOn
<1>4. CASE List(p)
  <2>1. PICK s : s = [old EXCEPT !.at = "creating", !.n = NextNumber(files, old.head)]
    OBVIOUS
  <2>2. s = SeatOf(s) /\ s.at = "creating" /\ s.kind = old.kind /\ s.head = old.head /\ s.base = old.base
        /\ s.n = NextNumber(files, old.head)
    BY <1>2, <2>1 DEF SeatOf
  <2>3. seat' = [seat EXCEPT ![p] = s] /\ old.at = "listing" /\ UNCHANGED <<git, files, sweepLock, roundLock>>
    BY <1>1, <1>4, <2>1 DEF List, SeatAt, ReviewTypes
  <2>4. s.n \in Nat \ {0}
    BY <2>2, NextNumberTyped DEF ReviewTypes, FileTyped
  <2> QED BY <1>1, <2>2, <2>3, <2>4, SeatGoesOn
<1>5. CASE Create(p)
  <2>1. old.at = "creating" /\ git' = git
    BY <1>1, <1>5 DEF Create, SeatAt
  <2>2. CASE files' = files \union {FileOf(p)} /\ Ends(p)
    <3>1. FileTyped(FileOf(p)) /\ OfParent(FileOf(p))
      BY <1>1, <1>2, <2>1 DEF FileOf, FileTyped, SeatTyped, OfParent
    <3> QED BY <2>1, <2>2, <3>1, EndsTyped
  <2>3. CASE files' = files /\ Ends(p)
    BY <2>1, <2>3, EndsTyped
  <2>4. CASE seat' = [seat EXCEPT ![p].at = "listing", ![p].tries = @ + 1] /\ UNCHANGED <<files, sweepLock, roundLock>>
    <3>1. PICK s : s = [old EXCEPT !.at = "listing", !.tries = @ + 1]
      OBVIOUS
    <3>2. s = SeatOf(s) /\ s.at = "listing" /\ s.kind = old.kind /\ s.head = old.head /\ s.base = old.base
      BY <1>2, <3>1 DEF SeatOf
    <3>3. seat' = [seat EXCEPT ![p] = s]
      BY <1>1, <2>4, <3>1 DEF ReviewTypes
    <3> QED BY <1>1, <2>1, <2>4, <3>2, <3>3, SeatGoesOn
  <2> QED BY <1>5, <2>2, <2>3, <2>4 DEF Create
<1>6. CASE TakeLock(p)
  <2>1. PICK s : s = [old EXCEPT !.at = "locked"]
    OBVIOUS
  <2>2. s = SeatOf(s) /\ s.at = "locked" /\ s.kind = old.kind /\ s.head = old.head /\ s.base = old.base /\ s.n = old.n
    BY <1>2, <2>1 DEF SeatOf
  <2>3. seat' = [seat EXCEPT ![p] = s] /\ old.at = "locking" /\ UNCHANGED <<git, files, sweepLock>> /\ roundLock' = p
    BY <1>1, <1>6, <2>1 DEF TakeLock, SeatMoves, SeatAt, ReviewTypes
  <2>4. s.n \in Nat \ {0}
    BY <1>2, <2>2, <2>3 DEF SeatTyped
  <2> QED BY <1>1, <2>2, <2>3, <2>4, SeatGoesOn
<1>7. CASE CheckRound(p) /\ ~Ends(p)
  <2>1. PICK s : s = [old EXCEPT !.at = "creating"]
    OBVIOUS
  <2>2. s = SeatOf(s) /\ s.at = "creating" /\ s.kind = old.kind /\ s.head = old.head /\ s.base = old.base /\ s.n = old.n
    BY <1>2, <2>1 DEF SeatOf
  <2>3. seat' = [seat EXCEPT ![p] = s] /\ old.at = "locked" /\ UNCHANGED <<git, files, sweepLock, roundLock>>
    BY <1>1, <1>7, <2>1 DEF CheckRound, SeatMoves, SeatAt, ReviewTypes
  <2>4. s.n \in Nat \ {0}
    BY <1>2, <2>2, <2>3 DEF SeatTyped
  <2> QED BY <1>1, <2>2, <2>3, <2>4, SeatGoesOn
<1>8. CASE Ends(p) /\ UNCHANGED <<git, files>>
  BY <1>8, EndsTyped
<1> QED BY <1>3, <1>4, <1>5, <1>6, <1>7, <1>8 DEF Swept, GiveUpLock, CheckRound, Crash

LEMMA ReviewTypesInit == ReviewInit => ReviewTypes
<1>1. SeatTyped(NoSeat) /\ OfParent(NoSeat)
  BY DEF NoSeat, SeatTyped, SeatOf, OfParent
<1> QED BY <1>1, HistoriesTyped, HistoriesOfGit DEF ReviewInit, ReviewTypes, OfParent

LEMMA ReviewTypesStep == ReviewTypes /\ [ReviewNext]_reviewVars => ReviewTypes'
<1> SUFFICES ASSUME ReviewTypes, [ReviewNext]_reviewVars PROVE ReviewTypes'
  OBVIOUS
<1>1. ASSUME NEW p \in Reviewers, ReviewerStep(p) PROVE ReviewTypes'
  <2>1. TypedMove(p)
    BY <1>1, BeginsTyped, VerifyTyped, OthersTyped DEF ReviewerStep
  <2> QED BY <2>1, TypedMoves
<1>2. ASSUME UNCHANGED <<git, files, seat, sweepLock, roundLock>> PROVE ReviewTypes'
  BY <1>2 DEF ReviewTypes, OfParent
<1>3. CASE \/ \E s \in Sessions : AskStop(s)
           \/ \E k \in hook.missing : AddAsked(k)
           \/ BlockStop \/ CrashStop
  BY <1>2, <1>3 DEF AskStop, AddAsked, BlockStop, CrashStop
<1>4. CASE UNCHANGED reviewVars
  BY <1>2, <1>4 DEF reviewVars
<1> QED BY <1>1, <1>3, <1>4 DEF ReviewNext, ReviewerStep

(* However many processes promote and review: what is stored, and what a   *)
(* process is about to store, is named by a commit and a number.           *)
THEOREM SpecStoresTyped == StoresSpec => []StoresTypeOK
<1>1. StoresInit => ReviewTypes
  BY ReviewTypesInit DEF StoresInit
<1>2. ReviewTypes /\ [StoresNext]_<<promotionVars, reviewVars, part>> => ReviewTypes'
  <2>1. [StoresNext]_<<promotionVars, reviewVars, part>> => [ReviewNext]_reviewVars
    BY DEF StoresNext
  <2> QED BY <2>1, ReviewTypesStep
<1>3. ReviewTypes => ReviewTypeOK
  BY DEF ReviewTypes, ReviewTypeOK, SeatTyped
<1>4. PromotionTypeOK /\ ReviewTypeOK => StoresTypeOK
  BY DEF StoresTypeOK
<1> QED BY <1>1, <1>2, <1>3, <1>4, SpecPagesAreTyped, PTL DEF StoresSpec

-----------------------------------------------------------------------------
(* A line of first parents goes down to the first commit and never comes   *)
(* back: of two of its commits one is on the line of the other.            *)
LEMMA LineIs ==
  ASSUME ReviewTypes, NEW c \in Commits
  PROVE  /\ git.line[c] \in Seq(Commits) /\ Len(git.line[c]) \in Nat \ {0} /\ git.line[c][1] = c
         /\ DOMAIN git.line[c] = 1 .. Len(git.line[c])
         /\ FirstLine(git, c) = {git.line[c][i] : i \in 1 .. Len(git.line[c])}
         /\ \A i \in 1 .. Len(git.line[c]) :
              /\ git.line[c][i] \in Commits
              /\ git.line[git.line[c][i]] = SubSeq(git.line[c], i, Len(git.line[c]))
<1>1. git \in Histories
  BY DEF ReviewTypes
<1>2. PICK s : s = git.line[c]
  OBVIOUS
<1>3. s \in Seq(Commits) /\ s # <<>> /\ s[1] = c
      /\ \A i \in DOMAIN s : git.line[s[i]] = SubSeq(s, i, Len(s))
  BY <1>1, <1>2, HistoriesTyped, HistoriesOfGit
<1>4. DOMAIN s = 1 .. Len(s) /\ Len(s) \in Nat \ {0} /\ \A i \in 1 .. Len(s) : s[i] \in Commits
  BY <1>3
<1>5. FirstLine(git, c) = {s[i] : i \in DOMAIN s}
  BY <1>2, NoCommitIsNone DEF FirstLine
<1> QED BY <1>2, <1>3, <1>4, <1>5

LEMMA OnLine ==
  ASSUME ReviewTypes, NEW c \in Commits, NEW i \in 1 .. Len(git.line[c]), NEW d, d = git.line[c][i]
  PROVE  /\ d \in Commits /\ Len(git.line[d]) = Len(git.line[c]) + 1 - i
         /\ \A j \in 1 .. Len(git.line[d]) : i + j - 1 \in 1 .. Len(git.line[c]) /\ git.line[d][j] = git.line[c][i + j - 1]
<1>1. PICK s, t, n : s = git.line[c] /\ t = git.line[d] /\ n = Len(s)
  OBVIOUS
<1>2. s \in Seq(Commits) /\ n \in Nat \ {0} /\ i \in 1 .. n /\ d \in Commits /\ t = SubSeq(s, i, n)
  BY <1>1, LineIs
<1>3. Len(t) = n + 1 - i
  BY <1>2
<1>4. \A j \in 1 .. Len(t) : i + j - 1 \in 1 .. n /\ t[j] = s[i + j - 1]
  BY <1>2, <1>3
<1> QED BY <1>1, <1>2, <1>3, <1>4

LEMMA LineGoesDown ==
  ASSUME ReviewTypes, NEW c \in Commits
  PROVE  /\ c \in FirstLine(git, c) /\ FirstLine(git, c) \subseteq Commits
         /\ \A d \in FirstLine(git, c) : FirstLine(git, d) \subseteq FirstLine(git, c)
         /\ \A d, e \in FirstLine(git, c) : d \in FirstLine(git, e) \/ e \in FirstLine(git, d)
         /\ \A d \in FirstLine(git, c) : c \in FirstLine(git, d) => d = c
<1>1. PICK s, n : s = git.line[c] /\ n = Len(s)
  OBVIOUS
<1>2. s[1] = c /\ n \in Nat \ {0} /\ FirstLine(git, c) = {s[i] : i \in 1 .. n} /\ \A i \in 1 .. n : s[i] \in Commits
  BY <1>1, LineIs
<1>3. ASSUME NEW i \in 1 .. n
      PROVE  FirstLine(git, s[i]) = {s[j] : j \in i .. n} /\ Len(git.line[s[i]]) = n + 1 - i
  <2>1. PICK d : d = s[i]
    OBVIOUS
  <2>2. PICK t : t = git.line[d]
    OBVIOUS
  <2>3. d \in Commits /\ Len(t) = n + 1 - i /\ \A j \in 1 .. Len(t) : t[j] = s[i + j - 1]
    <3>1. i \in 1 .. Len(git.line[c]) /\ d = git.line[c][i]
      BY <1>1, <2>1
    <3>2. /\ d \in Commits /\ Len(git.line[d]) = Len(git.line[c]) + 1 - i
          /\ \A j \in 1 .. Len(git.line[d]) : git.line[d][j] = git.line[c][i + j - 1]
      BY <3>1, OnLine
    <3> QED BY <1>1, <2>2, <3>2
  <2>4. FirstLine(git, d) = {t[j] : j \in 1 .. Len(t)}
    BY <2>2, <2>3, LineIs
  <2>5. ASSUME NEW j \in 1 .. Len(t) PROVE t[j] \in {s[k] : k \in i .. n}
    <3>1. i + j - 1 \in i .. n
      BY <1>2, <2>3
    <3> QED BY <2>3, <3>1
  <2>6. ASSUME NEW k \in i .. n PROVE s[k] \in {t[j] : j \in 1 .. Len(t)}
    <3>1. PICK j : j = k - i + 1
      OBVIOUS
    <3>2. j \in 1 .. Len(t) /\ i + j - 1 = k
      BY <1>2, <2>3, <3>1
    <3> QED BY <2>3, <3>2
  <2>7. FirstLine(git, d) = {s[k] : k \in i .. n}
    BY <2>4, <2>5, <2>6
  <2> QED BY <2>1, <2>2, <2>3, <2>7
<1>4. c \in FirstLine(git, c) /\ FirstLine(git, c) \subseteq Commits
  BY <1>2
<1>5. \A i, j \in 1 .. n : i <= j => s[j] \in FirstLine(git, s[i]) /\ FirstLine(git, s[j]) \subseteq FirstLine(git, s[i])
  <2> SUFFICES ASSUME NEW i \in 1 .. n, NEW j \in 1 .. n, i <= j
               PROVE  s[j] \in FirstLine(git, s[i]) /\ FirstLine(git, s[j]) \subseteq FirstLine(git, s[i])
    OBVIOUS
  <2>1. j \in i .. n /\ \A k \in j .. n : k \in i .. n
    BY <1>2
  <2>2. FirstLine(git, s[i]) = {s[k] : k \in i .. n} /\ FirstLine(git, s[j]) = {s[k] : k \in j .. n}
    BY <1>3
  <2> QED BY <2>1, <2>2
<1>6. \A d \in FirstLine(git, c) : FirstLine(git, d) \subseteq FirstLine(git, c)
  BY <1>2, <1>5
<1>7. \A d, e \in FirstLine(git, c) : d \in FirstLine(git, e) \/ e \in FirstLine(git, d)
  <2> SUFFICES ASSUME NEW i \in 1 .. n, NEW j \in 1 .. n
               PROVE  s[i] \in FirstLine(git, s[j]) \/ s[j] \in FirstLine(git, s[i])
    BY <1>2
  <2>1. i <= j \/ j <= i
    BY <1>2
  <2> QED BY <1>5, <2>1
<1>8. ASSUME NEW d \in FirstLine(git, c), c \in FirstLine(git, d) PROVE d = c
  <2>1. PICK i \in 1 .. n : d = s[i]
    BY <1>2
  <2>2. PICK k \in i .. n : c = s[k]
    BY <1>3, <1>8, <2>1
  <2>3. k \in 1 .. n /\ Len(git.line[c]) = n + 1 - k
    BY <1>3, <2>2
  <2>4. i = 1
    BY <1>1, <1>2, <2>2, <2>3
  <2> QED BY <1>2, <2>1, <2>4
<1> QED BY <1>4, <1>6, <1>7, <1>8

(* The next of a line is the parent.                                       *)
LEMMA ParentIsNext ==
  ASSUME ReviewTypes, NEW c \in Commits
  PROVE  /\ Parent(git, c) # NoCommit =>
              Parent(git, c) \in FirstLine(git, c) /\ Parent(git, c) \in Commits /\ Parent(git, c) # c
         /\ \A d \in FirstLine(git, c) \ {c} : Parent(git, c) \in Commits /\ d \in FirstLine(git, Parent(git, c))
<1>1. PICK s, n : s = git.line[c] /\ n = Len(s)
  OBVIOUS
<1>2. s[1] = c /\ n \in Nat \ {0} /\ FirstLine(git, c) = {s[i] : i \in 1 .. n} /\ \A i \in 1 .. n : s[i] \in Commits
  BY <1>1, LineIs
<1>3. CASE n = 1
  BY <1>1, <1>2, <1>3 DEF Parent
<1>4. CASE n # 1
  <2>1. n > 1 /\ 2 \in 1 .. n
    BY <1>2, <1>4
  <2>2. Parent(git, c) = s[2]
    BY <1>1, <2>1 DEF Parent
  <2>3. PICK d : d = s[2]
    OBVIOUS
  <2>4. PICK t : t = git.line[d]
    OBVIOUS
  <2>5. d \in Commits /\ Len(t) = n - 1 /\ \A j \in 1 .. Len(t) : t[j] = s[j + 1]
    <3>1. d \in Commits /\ Len(t) = n + 1 - 2 /\ \A j \in 1 .. Len(t) : t[j] = s[2 + j - 1]
      BY <1>1, <2>1, <2>3, <2>4, OnLine
    <3>2. \A j \in 1 .. Len(t) : 2 + j - 1 = j + 1
      OBVIOUS
    <3> QED BY <1>2, <3>1, <3>2
  <2>6. d # c
    BY <1>1, <1>2, <2>4, <2>5
  <2>7. FirstLine(git, d) = {t[j] : j \in 1 .. Len(t)}
    BY <2>4, <2>5, LineIs
  <2>8. ASSUME NEW i \in 1 .. n, s[i] # c PROVE s[i] \in FirstLine(git, d)
    <3>1. i # 1 /\ i - 1 \in 1 .. Len(t) /\ (i - 1) + 1 = i
      BY <1>2, <2>5, <2>8
    <3>2. t[i - 1] = s[i]
      BY <2>5, <3>1
    <3> QED BY <2>7, <3>1, <3>2
  <2> QED BY <1>2, <2>1, <2>2, <2>3, <2>5, <2>6, <2>8
<1> QED BY <1>3, <1>4

(* Of some files there is one of the lowest number, and one of the highest.*)
LEMMA LowestIs ==
  ASSUME ReviewTypes, NEW S, S \subseteq files, S # {}
  PROVE  Lowest(S) \in S /\ Highest(S) \in S /\ \A e \in S : Highest(S).n >= e.n
<1> DEFINE numbers == {f.n : f \in S}
           f == [e \in S |-> e.n]
<1>1. \A e \in S : e.n \in Nat \ {0}
  BY DEF ReviewTypes, FileTyped
<1>2. IsFiniteSet(numbers)
  <2>1. f \in Surjection(S, numbers)
    <3>1. f \in [S -> numbers] /\ \A n \in numbers : \E e \in S : f[e] = n
      OBVIOUS
    <3> QED BY <3>1 DEF Surjection
  <2>2. IsFiniteSet(S)
    BY FS_Subset DEF ReviewTypes
  <2> HIDE DEF f, numbers
  <2> QED BY <2>1, <2>2, FS_Surjection
<1>3. numbers \subseteq Nat \ {0} /\ numbers \subseteq Int /\ numbers # {}
  BY <1>1
<1>4. PICK high \in S : \A e \in S : e.n <= high.n
  <2>1. PICK k \in numbers : \A j \in numbers : j <= k
    <3> HIDE DEF numbers
    <3> QED BY <1>2, <1>3, GreatestOfFinite
  <2> QED BY <2>1
<1>5. PICK low \in S : \A e \in S : low.n <= e.n
  <2>1. numbers \in SUBSET (1 .. high.n)
    BY <1>1, <1>4
  <2>2. high.n \in Nat
    BY <1>1
  <2>3. PICK k \in numbers : \A j \in numbers : k <= j
    <3> HIDE DEF numbers
    <3> QED BY <1>3, <2>1, <2>2, LeastAddress
  <2> QED BY <2>3
<1>6. Lowest(S) \in S
  <2>1. (CHOOSE x \in S : \A e \in S : x.n <= e.n) \in S
    BY <1>5
  <2> QED BY <2>1 DEF Lowest
<1>7. \A e \in S : high.n >= e.n
  BY <1>1, <1>4
<1>8. Highest(S) \in S /\ \A e \in S : Highest(S).n >= e.n
  <2>1. \E x \in S : \A e \in S : x.n >= e.n
    BY <1>7
  <2>2. (CHOOSE x \in S : \A e \in S : x.n >= e.n) \in S
        /\ \A e \in S : (CHOOSE x \in S : \A g \in S : x.n >= g.n).n >= e.n
    BY <2>1
  <2> QED BY <2>2 DEF Highest
<1> QED BY <1>6, <1>8

(* What a commit that lacks nothing but a review has.                      *)
Kept(c) ==
  \/ Passive(git, c)
  \/ /\ git.risk[c] # "unreadable" /\ SweptAndAnswered(c)
     /\ git.risk[c] = "named" => OfHead(files, "polisher", c) # {}

LEMMA LacksNothing ==
  ASSUME ReviewTypes, NamesOwnIn(files), NEW c \in Commits, Needs(git, files, c, FALSE) = {}
  PROVE  Kept(c)
<1> SUFFICES ASSUME ~Passive(git, c) PROVE Kept(c)
  BY DEF Kept
<1>1. git.risk[c] # "unreadable" /\ SweepNeed(git, files, c) = {}
      /\ (git.risk[c] = "named" => Polished(files, c))
  BY DEF Needs
<1>2. Sweeps(files, c) # {} \/ NamedBySweeper(git, files, c)
  BY <1>1 DEF SweepNeed
<1>3. Sweeps(files, c) # {} /\ LatestSweep(files, c).says = "fired" => Answered(files, c)
  BY <1>1 DEF SweepNeed
<1>4. Sweeps(files, c) # {} \/ \E f \in files : f.kind = "sweeper" /\ f.says = c
  BY <1>2 DEF NamedBySweeper, OfHead
<1>5. ASSUME NEW s \in FiredSweeps(c)
      PROVE  \/ \E later \in Sweeps(files, c) : later.n > s.n
             \/ \E f \in OfHead(files, "sweeper", c) : f.of = s.n
  <2>1. s \in Sweeps(files, c) /\ s.says = "fired" /\ Sweeps(files, c) \subseteq files
        /\ \A e \in Sweeps(files, c) : e \in files /\ e.kind = "sweep" /\ e.head = c
    BY DEF FiredSweeps, Sweeps, OfHead
  <2>2. PICK last : last = LatestSweep(files, c)
    OBVIOUS
  <2>3. last \in Sweeps(files, c) /\ last.n >= s.n
    BY <2>1, <2>2, LowestIs DEF LatestSweep
  <2>4. last.n \in Nat /\ s.n \in Nat
    BY <2>1, <2>3 DEF ReviewTypes, FileTyped
  <2>5. CASE last.n = s.n
    <3>1. last = s
      BY <2>1, <2>3, <2>5 DEF NamesOwnIn
    <3> QED BY <1>3, <2>1, <2>2, <3>1 DEF Answered
  <2>6. CASE last.n # s.n
    BY <2>3, <2>4, <2>6
  <2> QED BY <2>5, <2>6
<1>6. SweptAndAnswered(c)
  BY <1>4, <1>5 DEF SweptAndAnswered
<1> QED BY <1>1, <1>6 DEF Kept, Polished

(* A point that is followed starts further down its line; what lies between*)
(* is under its review, and both lack nothing but a review.                *)
Covered(c) ==
  \/ Passive(git, c)
  \/ /\ Reviewed(c) \/ Exempted(c)
     /\ git.risk[c] # "unreadable"
     /\ SweptAndAnswered(c)
     /\ git.risk[c] = "named" => OfHead(files, "polisher", c) # {}

LEMMA StartIs ==
  ASSUME ReviewTypes, NEW c \in Commits, Follows(git, files, c)
  PROVE  /\ Start(git, files, c) \in Commits /\ Parent(git, c) \in Commits
         /\ Start(git, files, c) \in FirstLine(git, Parent(git, c))
         /\ Start(git, files, c) \in FirstLine(git, c) /\ Start(git, files, c) # c
         /\ \/ \E f \in OfHead(files, "result", c) : f.base = Start(git, files, c)
            \/ /\ OfHead(files, "result", c) = {} /\ Start(git, files, c) = Parent(git, c)
               /\ \/ \E f \in OfHead(files, "exempt", c) : f.base = Start(git, files, c)
                  \/ OfHead(files, "exempt", c) = {} /\ Passive(git, c)
<1>1. PICK s, up : s = Start(git, files, c) /\ up = Parent(git, c)
  OBVIOUS
<1>2. s \in FirstLine(git, up) /\ Cleared(git, files, c)
  BY <1>1 DEF Follows, InsideRange
<1>3. up # NoCommit
  BY <1>2 DEF FirstLine
<1>4. up \in Commits /\ up \in FirstLine(git, c) /\ up # c
  BY <1>1, <1>3, ParentIsNext
<1>5. s \in Commits /\ s \in FirstLine(git, c) /\ s # c
  <2>1. FirstLine(git, up) \subseteq FirstLine(git, c) /\ FirstLine(git, up) \subseteq Commits
    BY <1>4, LineGoesDown
  <2>2. c \notin FirstLine(git, up)
    BY <1>4, LineGoesDown
  <2> QED BY <1>2, <2>1, <2>2
<1>6. CASE OfHead(files, "result", c) # {}
  <2>1. OfHead(files, "result", c) \subseteq files
    BY DEF OfHead
  <2>2. Lowest(OfHead(files, "result", c)) \in OfHead(files, "result", c)
    BY <1>6, <2>1, LowestIs
  <2>3. Lowest(OfHead(files, "result", c)).base = s
    BY <1>1, <1>6 DEF Start
  <2> QED BY <1>1, <1>2, <1>4, <1>5, <2>2, <2>3
<1>7. CASE OfHead(files, "result", c) = {} /\ OfHead(files, "exempt", c) # {}
  <2>1. OfHead(files, "exempt", c) \subseteq files /\ \A f \in OfHead(files, "exempt", c) : f.kind = "exempt" /\ f.head = c
    BY DEF OfHead
  <2>2. Lowest(OfHead(files, "exempt", c)) \in OfHead(files, "exempt", c)
    BY <1>7, <2>1, LowestIs
  <2>3. Lowest(OfHead(files, "exempt", c)).base = s
    BY <1>1, <1>7 DEF Start
  <2>4. s = up
    BY <1>1, <2>1, <2>2, <2>3 DEF ReviewTypes, OfParent
  <2> QED BY <1>1, <1>2, <1>4, <1>5, <1>7, <2>2, <2>3, <2>4
<1>8. CASE OfHead(files, "result", c) = {} /\ OfHead(files, "exempt", c) = {}
  <2>1. s = up
    BY <1>1, <1>8 DEF Start
  <2>2. Passive(git, c)
    BY <1>2, <1>8 DEF Cleared, ClearedBy
  <2> QED BY <1>1, <1>2, <1>4, <1>5, <1>8, <2>1, <2>2
<1> QED BY <1>6, <1>7, <1>8

LEMMA RangeIsCovered ==
  ASSUME ReviewTypes, NamesOwnIn(files), NEW c \in Commits, Follows(git, files, c),
         c \in FirstLine(git, git.head),
         NEW d \in FirstLine(git, c) \ FirstLine(git, Start(git, files, c))
  PROVE  Covered(d) /\ Needs(git, files, d, FALSE) = {}
<1>1. PICK s, up : s = Start(git, files, c) /\ up = Parent(git, c)
  OBVIOUS
<1>2. /\ s \in Commits /\ up \in Commits /\ s \in FirstLine(git, up) /\ s \in FirstLine(git, c) /\ s # c
      /\ Cleared(git, files, c) /\ \A e \in Before(git, up, s) : Needs(git, files, e, FALSE) = {}
  BY <1>1, StartIs DEF Follows, InsideRange
<1>3. d \in Commits /\ s \in FirstLine(git, d) /\ s # d
  <2>1. d \in Commits /\ d \notin FirstLine(git, s) /\ (s \in FirstLine(git, d) \/ d \in FirstLine(git, s))
    BY <1>1, <1>2, LineGoesDown
  <2> QED BY <1>2, <2>1, LineGoesDown
<1>4. Needs(git, files, d, FALSE) = {}
  <2>1. CASE d = c
    BY <1>2, <2>1 DEF Cleared
  <2>2. CASE d # c
    <3>1. d \in FirstLine(git, up)
      BY <1>1, <2>2, ParentIsNext
    <3> QED BY <1>2, <1>3, <3>1 DEF Before
  <2> QED BY <2>1, <2>2
<1>5. Kept(d)
  BY <1>3, <1>4, LacksNothing
<1>6. Passive(git, d) \/ Reviewed(d) \/ Exempted(d)
  <2>1. CASE OfHead(files, "result", c) # {}
    <3>1. PICK f \in OfHead(files, "result", c) : f.base = s
      BY <1>1, <2>1, StartIs
    <3>2. f \in files /\ f.kind = "result" /\ f.head = c
      BY DEF OfHead
    <3>3. \A r \in OfHead(files, "result", c) : Decide(files, r) = "clear"
      BY <1>2, <2>1 DEF Cleared, ClearedBy
    <3>4. d \in Before(git, f.head, f.base)
      BY <1>3, <3>1, <3>2 DEF Before
    <3> QED BY <3>2, <3>3, <3>4 DEF Reviewed
  <2>2. CASE OfHead(files, "result", c) = {}
    <3>1. s = up /\ (OfHead(files, "exempt", c) # {} \/ Passive(git, c))
      BY <1>1, <2>2, StartIs
    <3>2. d = c
      <4>1. d # c => d \in FirstLine(git, up)
        BY <1>1, ParentIsNext
      <4> QED BY <1>1, <3>1, <4>1
    <3>3. git.risk[c] \in {"none", "named", "unreadable"}
      BY HistoriesOfGit DEF ReviewTypes
    <3>4. CASE OfHead(files, "exempt", c) # {} /\ ~Passive(git, c)
      <4>1. git.risk[c] # "named"
        BY <1>2, <3>4 DEF Cleared
      <4>2. git.risk[c] # "unreadable"
        BY <1>5, <3>2, <3>4 DEF Kept
      <4> QED BY <2>2, <3>2, <3>3, <3>4, <4>1, <4>2 DEF Exempted
    <3> QED BY <3>1, <3>2, <3>4
  <2> QED BY <2>1, <2>2
<1> QED BY <1>4, <1>5, <1>6 DEF Covered, Kept

LEMMA OneByOne ==
  ASSUME NEW n \in Nat, NEW S, 0 \in S, \A i \in 0..n : i \in S /\ i < n => i + 1 \in S
  PROVE  \A i \in 0..n : i \in S
<1> DEFINE T == {i \in 1..n : i \notin S}
<1>1. ASSUME T # {} PROVE FALSE
  <2>1. T \in SUBSET (1..n)
    OBVIOUS
  <2>2. PICK m \in T : \A j \in T : m <= j
    <3> HIDE DEF T
    <3> QED BY <1>1, <2>1, LeastAddress
  <2>3. m \in 1..n /\ m \notin S /\ m - 1 \in 0..n /\ m - 1 < n /\ (m - 1) + 1 = m
    OBVIOUS
  <2>4. m - 1 \in S
    <3>1. CASE m - 1 = 0
      BY <3>1
    <3>2. CASE m - 1 # 0
      <4>1. m - 1 \in 1..n /\ ~(m <= m - 1)
        BY <2>3, <3>2
      <4>2. m - 1 \notin T
        BY <2>2, <4>1
      <4> QED BY <4>1, <4>2
    <3> QED BY <3>1, <3>2
  <2> QED BY <2>3, <2>4
<1>2. ASSUME NEW i \in 0..n, i # 0 PROVE i \in S
  BY <1>1, <1>2
<1> QED BY <1>2

(* What goes on step by step exists.                                       *)
Advances(nx, n, V) == nx \in [1..n -> [V -> V]]
WalksTo(w, nx, n, V, v0) ==
  w \in [0..n -> V] /\ w[0] = v0 /\ \A i \in 1..n : w[i] = nx[i][w[i - 1]]

LEMMA StepsExist ==
  ASSUME NEW n \in Nat, NEW V, NEW v0 \in V, NEW nx, Advances(nx, n, V)
  PROVE  \E w : WalksTo(w, nx, n, V, v0)
<1> DEFINE Upto(w, m) == w[0] = v0 /\ \A i \in 1..n : i <= m => w[i] = nx[i][w[i - 1]]
           S == {m \in 0..n : \E w \in [0..n -> V] : Upto(w, m)}
<1>1. 0 \in S
  <2> DEFINE w == [i \in 0..n |-> v0]
  <2>1. w \in [0..n -> V] /\ w[0] = v0
    OBVIOUS
  <2>2. ASSUME NEW i \in 1..n, i <= 0 PROVE FALSE
    BY <2>2
  <2> HIDE DEF w
  <2> QED BY <2>1, <2>2
<1>2. ASSUME NEW m \in 0..n, m \in S, m < n PROVE m + 1 \in S
  <2>1. PICK w \in [0..n -> V] : Upto(w, m)
    BY <1>2
  <2>2. PICK v : v = nx[m + 1][w[m]]
    OBVIOUS
  <2>3. v \in V
    <3>1. m + 1 \in 1..n /\ m \in 0..n
      BY <1>2
    <3>2. nx[m + 1] \in [V -> V] /\ w[m] \in V
      BY <3>1 DEF Advances
    <3> QED BY <2>2, <3>2
  <2>4. PICK h : h = [i \in 0..n |-> IF i = m + 1 THEN v ELSE w[i]]
    OBVIOUS
  <2>5. h \in [0..n -> V] /\ h[0] = v0
    BY <2>1, <2>3, <2>4
  <2>6. ASSUME NEW i \in 1..n, i <= m + 1 PROVE h[i] = nx[i][h[i - 1]]
    <3>1. i - 1 \in 0..n /\ i \in 0..n /\ i - 1 # m + 1
      BY <2>6
    <3>2. h[i - 1] = w[i - 1]
      BY <2>4, <3>1
    <3>3. CASE i = m + 1
      <4>1. h[i] = v /\ i - 1 = m
        BY <2>4, <3>1, <3>3
      <4> QED BY <2>2, <3>2, <3>3, <4>1
    <3>4. CASE i # m + 1
      <4>1. i <= m
        BY <2>6, <3>4
      <4>2. h[i] = w[i]
        BY <2>4, <3>1, <3>4
      <4> QED BY <2>1, <3>2, <4>1, <4>2
    <3> QED BY <3>3, <3>4
  <2>7. m + 1 \in 0..n
    BY <1>2
  <2> QED BY <2>5, <2>6, <2>7
<1>3. \A i \in 0..n : i \in S
  <2> HIDE DEF S
  <2> QED BY <1>1, <1>2, OneByOne
<1>4. n \in S
  BY <1>3
<1>5. PICK w \in [0..n -> V] : Upto(w, n)
  BY <1>4
<1>6. \A i \in 1..n : i <= n
  OBVIOUS
<1>7. WalksTo(w, nx, n, V, v0)
  BY <1>5, <1>6 DEF WalksTo
<1> QED BY <1>7

(* The walk back from a head, point after point.                           *)
NextPoint(base, i, point) ==
  CASE point = NoCommit -> NoCommit
    [] i > 1 /\ point = base -> base
    [] OTHER -> IF Follows(git, files, point) THEN Start(git, files, point) ELSE NoCommit

LEMMA StepsAre == Cardinality(Commits) \in Nat /\ Steps = 0 .. Cardinality(Commits)
BY CommitsAssumption, FS_CardinalityType DEF Steps

LEMMA WalkIs ==
  ASSUME ReviewTypes, NEW base \in Commits, NEW head \in Commits
  PROVE  /\ Walk(git, files, base, head)[0] = head
         /\ \A i \in Steps \ {0} :
              Walk(git, files, base, head)[i] = NextPoint(base, i, Walk(git, files, base, head)[i - 1])
         /\ \A i \in Steps : Walk(git, files, base, head)[i] \in Commits \union {NoCommit}
<1> DEFINE Q(w) == w = [i \in Steps |-> IF i = 0 THEN head
                                        ELSE LET point == w[i - 1] IN
                                             CASE point = NoCommit -> NoCommit
                                               [] i > 1 /\ point = base -> base
                                               [] OTHER -> IF Follows(git, files, point)
                                                           THEN Start(git, files, point) ELSE NoCommit]
           w == CHOOSE w : Q(w)
<1>1. PICK n, V : n = Cardinality(Commits) /\ V = Commits \union {NoCommit}
  OBVIOUS
<1>2. n \in Nat /\ Steps = 0..n
  BY <1>1, StepsAre
<1>3. \A i \in 1..n, point \in V : NextPoint(base, i, point) \in V
  <2>1. \A point \in Commits : Follows(git, files, point) => Start(git, files, point) \in Commits
    BY StartIs
  <2> QED BY <1>1, <2>1 DEF NextPoint
<1>4. \E x : Q(x)
  <2>1. PICK nx : nx = [i \in 1..n |-> [point \in V |-> NextPoint(base, i, point)]]
    OBVIOUS
  <2>2. Advances(nx, n, V)
    BY <1>3, <2>1 DEF Advances
  <2>3. head \in V
    BY <1>1
  <2>4. PICK x : WalksTo(x, nx, n, V, head)
    BY <1>2, <2>2, <2>3, StepsExist
  <2>5. ASSUME NEW i \in 1..n PROVE x[i] = NextPoint(base, i, x[i - 1])
    <3>1. i - 1 \in 0..n
      BY <1>2
    <3>2. x[i - 1] \in V
      BY <2>4, <3>1 DEF WalksTo
    <3> QED BY <2>1, <2>4, <3>2 DEF WalksTo
  <2>6. x = [i \in Steps |-> IF i = 0 THEN head ELSE NextPoint(base, i, x[i - 1])]
    <3>1. x = [i \in Steps |-> x[i]]
      BY <1>2, <2>4 DEF WalksTo
    <3>2. \A i \in Steps : x[i] = IF i = 0 THEN head ELSE NextPoint(base, i, x[i - 1])
      BY <1>2, <2>4, <2>5 DEF WalksTo
    <3> QED BY <3>1, <3>2
  <2>7. Q(x)
    BY <2>6 DEF NextPoint
  <2> QED BY <2>7
<1>5. Q(w)
  <2> HIDE DEF Q
  <2> QED BY <1>4
<1>6. Walk(git, files, base, head) = w
  BY DEF Walk
<1> HIDE DEF w
<1>7. w = [i \in Steps |-> IF i = 0 THEN head ELSE NextPoint(base, i, w[i - 1])]
  BY <1>5 DEF NextPoint
<1> HIDE DEF Q
<1>8. w[0] = head /\ \A i \in 1..n : w[i] = NextPoint(base, i, w[i - 1])
  <2>1. 0 \in Steps /\ \A i \in 1..n : i \in Steps /\ i # 0
    BY <1>2
  <2> QED BY <1>7, <2>1
<1> DEFINE S == {i \in 0..n : w[i] \in V}
<1>9. 0 \in S
  BY <1>1, <1>2, <1>8
<1>10. ASSUME NEW i \in 0..n, i \in S, i < n PROVE i + 1 \in S
  <2>1. i + 1 \in 1..n /\ (i + 1) - 1 = i /\ i + 1 \in 0..n
    BY <1>2, <1>10
  <2>2. w[i + 1] = NextPoint(base, i + 1, w[i])
    BY <1>8, <2>1
  <2>3. w[i] \in V
    BY <1>10
  <2>4. w[i + 1] \in V
    BY <1>3, <2>1, <2>2, <2>3
  <2> QED BY <2>1, <2>4
<1>11. \A i \in 0..n : i \in S
  <2> HIDE DEF S
  <2> QED BY <1>2, <1>9, <1>10, OneByOne
<1>12. \A i \in Steps \ {0} : i \in 1..n
  BY <1>2
<1> QED BY <1>1, <1>2, <1>6, <1>8, <1>11, <1>12

(* Whatever the walk has passed is covered.                                *)
LEMMA WalkCovers ==
  ASSUME ReviewTypes, NamesOwnIn(files), NEW base \in Commits, NEW k \in Steps,
         Walk(git, files, base, git.head)[k] = base
  PROVE  /\ base \in FirstLine(git, git.head)
         /\ \A d \in FirstLine(git, git.head) \ FirstLine(git, base) :
              Covered(d) /\ Needs(git, files, d, FALSE) = {}
<1>1. PICK w, n, head : w = Walk(git, files, base, git.head) /\ n = Cardinality(Commits) /\ head = git.head
  OBVIOUS
<1>2. n \in Nat /\ Steps = 0..n /\ head \in Commits
  BY <1>1, StepsAre, HistoriesTyped DEF ReviewTypes
<1>3. /\ w[0] = head /\ \A i \in Steps : w[i] \in Commits \union {NoCommit}
      /\ \A i \in Steps \ {0} : w[i] = NextPoint(base, i, w[i - 1])
  BY <1>1, <1>2, WalkIs
<1> DEFINE Passed(c) == /\ c \in FirstLine(git, head)
                        /\ \A d \in FirstLine(git, head) \ FirstLine(git, c) :
                             Covered(d) /\ Needs(git, files, d, FALSE) = {}
           S == {i \in 0..n : w[i] # NoCommit => Passed(w[i])}
<1>4. 0 \in S
  <2>1. head \in FirstLine(git, head) /\ FirstLine(git, head) \ FirstLine(git, head) = {}
    BY <1>2, LineGoesDown
  <2>2. Passed(head)
    BY <2>1
  <2> HIDE DEF Passed
  <2> QED BY <1>2, <1>3, <2>2
<1>5. ASSUME NEW i \in 0..n, i \in S, i < n PROVE i + 1 \in S
  <2>1. i + 1 \in Steps \ {0} /\ (i + 1) - 1 = i /\ i + 1 \in 0..n /\ i \in Steps
    BY <1>2, <1>5
  <2>2. PICK c : c = w[i]
    OBVIOUS
  <2>3. w[i + 1] = NextPoint(base, i + 1, c)
    BY <1>3, <2>1, <2>2
  <2>4. c \in Commits \union {NoCommit} /\ (c # NoCommit => Passed(c))
    BY <1>3, <1>5, <2>1, <2>2
  <2> SUFFICES ASSUME w[i + 1] # NoCommit PROVE Passed(w[i + 1])
    BY <2>1
  <2>5. c # NoCommit /\ c \in Commits /\ Passed(c)
    BY <2>3, <2>4 DEF NextPoint
  <2>6. CASE w[i + 1] = c
    BY <2>5, <2>6
  <2>7. CASE Follows(git, files, c) /\ w[i + 1] = Start(git, files, c)
    <3>1. PICK s : s = Start(git, files, c)
      OBVIOUS
    <3>2. s \in FirstLine(git, c) /\ FirstLine(git, c) \subseteq FirstLine(git, head)
      BY <1>2, <2>5, <2>7, <3>1, StartIs, LineGoesDown
    <3>3. ASSUME NEW d \in FirstLine(git, head) \ FirstLine(git, s)
          PROVE  Covered(d) /\ Needs(git, files, d, FALSE) = {}
      <4>1. CASE d \in FirstLine(git, c)
        BY <1>1, <2>5, <2>7, <3>1, <4>1, RangeIsCovered
      <4>2. CASE d \notin FirstLine(git, c)
        BY <2>5, <4>2
      <4> QED BY <4>1, <4>2
    <3>4. Passed(s)
      BY <3>2, <3>3
    <3> QED BY <2>7, <3>1, <3>4
  <2>8. w[i + 1] = c \/ (Follows(git, files, c) /\ w[i + 1] = Start(git, files, c))
    BY <2>3, <2>5 DEF NextPoint
  <2> QED BY <2>6, <2>7, <2>8
<1>6. k \in S
  <2> HIDE DEF S
  <2> QED BY <1>2, <1>4, <1>5, OneByOne
<1> QED BY <1>1, <1>6, NoCommitIsNone

(* The branch of a delivery: its commits are those of the line of its head *)
(* that are above its base.                                                *)
LEMMA BranchAboveBase ==
  ASSUME ReviewTypes, Branch(git) # <<>>
  PROVE  \E n \in Nat \ {0} :
           /\ DOMAIN Branch(git) = 1 .. n /\ Branch(git)[n] = git.head /\ Branch(git)[1] \in Commits
           /\ Delivery.base \in Commits =>
                /\ \A i \in 1 .. n : Branch(git)[i] \in FirstLine(git, git.head) \ FirstLine(git, Delivery.base)
                /\ \A d \in FirstLine(git, git.head) \ FirstLine(git, Delivery.base) : \E i \in 1 .. n : d = Branch(git)[i]
<1>1. PICK head, line, own, base : head = git.head /\ line = git.line[head] /\ own = Branch(git) /\ base = Delivery.base
  OBVIOUS
<1>2. head \in Commits
  BY <1>1, HistoriesTyped DEF ReviewTypes
<1>3. /\ Len(line) \in Nat \ {0} /\ line[1] = head /\ FirstLine(git, head) = {line[i] : i \in 1 .. Len(line)}
      /\ \A i \in 1 .. Len(line) : line[i] \in Commits
  BY <1>1, <1>2, LineIs
<1>4. PICK n \in Nat : n <= Len(line) /\ own = [i \in 1 .. n |-> line[n + 1 - i]]
  BY <1>1, BranchIs
<1>5. n # 0
  BY <1>1, <1>4
<1>6. /\ DOMAIN own = 1 .. n /\ own[n] = head /\ own[1] = line[n] /\ 1 \in 1 .. n /\ n \in 1 .. Len(line)
      /\ \A i \in 1 .. n : own[i] = line[n + 1 - i] /\ n + 1 - i \in 1 .. n
  <2>1. n \in 1 .. n /\ n + 1 - n = 1 /\ n + 1 - 1 = n /\ 1 \in 1 .. n
    BY <1>5
  <2>2. \A i \in 1 .. n : n + 1 - i \in 1 .. n
    OBVIOUS
  <2> QED BY <1>3, <1>4, <1>5, <2>1, <2>2
<1>7. PICK c : c = own[1]
  OBVIOUS
<1>8. c \in Commits /\ c = line[n] /\ base = Parent(git, c)
  BY <1>1, <1>3, <1>6, <1>7 DEF Delivery
<1>9. \A j \in 1 .. Len(line) : (j <= n => c \in FirstLine(git, line[j])) /\ (j >= n => line[j] \in FirstLine(git, c))
  <2> SUFFICES ASSUME NEW j \in 1 .. Len(line)
               PROVE  (j <= n => c \in FirstLine(git, line[j])) /\ (j >= n => line[j] \in FirstLine(git, c))
    OBVIOUS
  <2>1. ASSUME NEW i \in 1 .. Len(line), NEW k \in 1 .. Len(line), i <= k PROVE line[k] \in FirstLine(git, line[i])
    <3>1. PICK d, t : d = line[i] /\ t = git.line[d]
      OBVIOUS
    <3>2. PICK m : m = k - i + 1
      OBVIOUS
    <3>3. d \in Commits /\ Len(t) = Len(line) + 1 - i /\ \A x \in 1 .. Len(t) : t[x] = line[i + x - 1]
      <4>1. i \in 1 .. Len(git.line[head]) /\ d = git.line[head][i]
        BY <1>1, <3>1
      <4>2. d \in Commits /\ Len(git.line[d]) = Len(git.line[head]) + 1 - i
            /\ \A x \in 1 .. Len(git.line[d]) : git.line[d][x] = git.line[head][i + x - 1]
        BY <1>2, <4>1, OnLine
      <4> QED BY <1>1, <3>1, <4>2
    <3>4. m \in 1 .. Len(t) /\ i + m - 1 = k
      BY <1>3, <2>1, <3>2, <3>3
    <3>5. FirstLine(git, d) = {git.line[d][x] : x \in 1 .. Len(git.line[d])}
      BY <3>3, LineIs
    <3>6. t[m] = line[k] /\ FirstLine(git, d) = {t[x] : x \in 1 .. Len(t)}
      BY <3>1, <3>3, <3>4, <3>5
    <3> QED BY <3>1, <3>4, <3>6
  <2> QED BY <1>6, <1>8, <2>1
<1>10. ASSUME base \in Commits, NEW i \in 1 .. n PROVE own[i] \in FirstLine(git, head) \ FirstLine(git, base)
  <2>1. PICK d : d = own[i]
    OBVIOUS
  <2>2. PICK j \in 1 .. n : j = n + 1 - i /\ d = line[j]
    BY <1>6, <2>1
  <2>3. d \in FirstLine(git, head) /\ d \in Commits /\ c \in FirstLine(git, d)
    <3>1. j \in 1 .. Len(line) /\ j <= n
      BY <1>6
    <3> QED BY <1>3, <1>9, <2>2, <3>1
  <2>4. base \in FirstLine(git, c) /\ base # c
    BY <1>8, <1>10, NoCommitIsNone, ParentIsNext
  <2>5. ASSUME d \in FirstLine(git, base) PROVE FALSE
    <3>1. c \in FirstLine(git, base)
      BY <1>10, <2>3, <2>5, LineGoesDown
    <3> QED BY <1>8, <2>4, <3>1, LineGoesDown
  <2> QED BY <2>1, <2>3, <2>5
<1>11. ASSUME base \in Commits, NEW d \in FirstLine(git, head) \ FirstLine(git, base) PROVE \E i \in 1 .. n : d = own[i]
  <2>1. PICK j \in 1 .. Len(line) : d = line[j]
    BY <1>3
  <2>2. CASE j <= n
    <3>1. n + 1 - j \in 1 .. n /\ n + 1 - (n + 1 - j) = j
      BY <1>3, <2>2
    <3> QED BY <1>4, <2>1, <3>1
  <2>3. CASE j > n
    <3>1. d \in FirstLine(git, c)
      BY <1>3, <1>9, <2>1, <2>3
    <3>2. d = c
      BY <1>8, <1>11, <3>1, ParentIsNext
    <3> QED BY <1>6, <1>7, <3>2
  <2> QED BY <1>3, <2>2, <2>3
<1>12. n \in Nat \ {0} /\ own[1] \in Commits
  BY <1>5, <1>7, <1>8
<1>13. own = Branch(git) /\ head = git.head /\ base = Delivery.base
  BY <1>1
<1> QED BY <1>6, <1>10, <1>11, <1>12, <1>13

(* What the stop hook takes for reviewed, link after link from the base.   *)
LEMMA ReachedIs ==
  \E of : /\ of[0] = {Parent(git, Branch(git)[1])}
          /\ \A i \in 1 .. Cardinality(Commits) :
               /\ of[i - 1] \subseteq of[i]
               /\ \A l \in Links(git, files) : l[1] \in of[i - 1] => l[2] \in of[i]
          /\ Reached(git, files) = of[Cardinality(Commits)]
<1>1. PICK n, root, links : n = Cardinality(Commits) /\ root = {Parent(git, Branch(git)[1])} /\ links = Links(git, files)
  OBVIOUS
<1>2. n \in Nat /\ Steps = 0..n
  BY <1>1, StepsAre
<1> DEFINE Further(before) == before \union {l[2] : l \in {k \in links : k[1] \in before}}
           Q(of) == of = [i \in Steps |-> IF i = 0 THEN {Parent(git, Branch(git)[1])}
                                          ELSE LET before == of[i - 1] IN
                                               before \union {l[2] : l \in {k \in Links(git, files) : k[1] \in before}}]
           of == CHOOSE of : Q(of)
<1>3. \E x : Q(x)
  <2>1. PICK V : V = SUBSET (root \union {l[2] : l \in links})
    OBVIOUS
  <2>2. PICK nx : nx = [i \in 1..n |-> [before \in V |-> Further(before)]]
    OBVIOUS
  <2>3. \A before \in V : Further(before) \in V
    BY <2>1
  <2>4. root \in V
    BY <2>1
  <2>5. Advances(nx, n, V)
    <3> HIDE DEF Further
    <3> QED BY <2>2, <2>3 DEF Advances
  <2>6. PICK x : WalksTo(x, nx, n, V, root)
    BY <1>2, <2>4, <2>5, StepsExist
  <2>7. ASSUME NEW i \in 1..n PROVE x[i] = Further(x[i - 1])
    <3>1. i - 1 \in 0..n
      BY <1>2
    <3>2. x[i - 1] \in V
      BY <2>6, <3>1 DEF WalksTo
    <3> HIDE DEF Further
    <3> QED BY <2>2, <2>6, <3>2 DEF WalksTo
  <2>8. x = [i \in Steps |-> IF i = 0 THEN root ELSE Further(x[i - 1])]
    <3> HIDE DEF Further
    <3>1. x = [i \in Steps |-> x[i]]
      BY <1>2, <2>6 DEF WalksTo
    <3>2. \A i \in Steps : x[i] = IF i = 0 THEN root ELSE Further(x[i - 1])
      BY <1>2, <2>6, <2>7 DEF WalksTo
    <3> QED BY <3>1, <3>2
  <2>9. Q(x)
    BY <1>1, <2>8
  <2> QED BY <2>9
<1>4. Q(of)
  <2> HIDE DEF Q
  <2> QED BY <1>3
<1>5. Reached(git, files) = of[n]
  BY <1>1 DEF Reached
<1> HIDE DEF of
<1>6. of = [i \in Steps |-> IF i = 0 THEN root ELSE Further(of[i - 1])]
  BY <1>1, <1>4
<1> HIDE DEF Q
<1>7. of[0] = root /\ \A i \in 1..n : of[i] = Further(of[i - 1])
  <2>1. 0 \in Steps /\ \A i \in 1..n : i \in Steps /\ i # 0
    BY <1>2
  <2> HIDE DEF Further
  <2> QED BY <1>6, <2>1
<1>8. \A i \in 1..n : of[i - 1] \subseteq of[i] /\ \A l \in links : l[1] \in of[i - 1] => l[2] \in of[i]
  BY <1>7
<1> QED BY <1>1, <1>5, <1>7, <1>8

(* The stop hook's links go up wherever the walk of the gate came down.    *)
LEMMA WalkReaches ==
  ASSUME ReviewTypes, NamesOwnIn(files), Branch(git) # <<>>, NEW k \in Steps, Delivery.base \in Commits,
         Walk(git, files, Delivery.base, git.head)[k] = Delivery.base
  PROVE  git.head \in Reached(git, files)
<1>1. PICK base, head, w, n, links :
        /\ base = Delivery.base /\ head = git.head /\ w = Walk(git, files, base, head)
        /\ n = Cardinality(Commits) /\ links = Links(git, files)
  OBVIOUS
<1>2. n \in Nat /\ Steps = 0..n /\ head \in Commits /\ base \in Commits
  BY <1>1, StepsAre, HistoriesTyped DEF ReviewTypes
<1>3. /\ w[0] = head /\ \A i \in Steps : w[i] \in Commits \union {NoCommit}
      /\ \A i \in Steps \ {0} : w[i] = NextPoint(base, i, w[i - 1])
  BY <1>1, <1>2, WalkIs
<1>4. PICK of : /\ of[0] = {base}
                /\ \A i \in 1 .. n : /\ of[i - 1] \subseteq of[i]
                                     /\ \A l \in links : l[1] \in of[i - 1] => l[2] \in of[i]
                /\ Reached(git, files) = of[n]
  BY <1>1, ReachedIs DEF Delivery
<1>5. ASSUME NEW c \in FirstLine(git, head) \ FirstLine(git, base), Follows(git, files, c)
      PROVE  <<Start(git, files, c), c>> \in links
  <2>1. PICK own, s : own = {Branch(git)[i] : i \in DOMAIN Branch(git)} /\ s = Start(git, files, c)
    OBVIOUS
  <2>2. c \in own
    BY <1>1, <1>2, <1>5, <2>1, BranchAboveBase
  <2>3. c \in Commits
    BY <1>2, <1>5, LineGoesDown
  <2>4. \/ \E f \in OfHead(files, "result", c) \union OfHead(files, "exempt", c) : f.base = s
        \/ s = Parent(git, c) /\ Passive(git, c)
    BY <1>5, <2>1, <2>3, StartIs
  <2>5. links = {<<f.base, f.head>> : f \in {e \in files : e.kind \in {"result", "exempt"} /\ e.head \in own}}
                  \union {<<Parent(git, d), d>> : d \in {x \in own : Passive(git, x)}}
    BY <1>1, <2>1 DEF Links
  <2>6. CASE s = Parent(git, c) /\ Passive(git, c)
    BY <2>1, <2>2, <2>5, <2>6
  <2>7. ASSUME NEW f \in OfHead(files, "result", c) \union OfHead(files, "exempt", c), f.base = s
        PROVE  <<s, c>> \in links
    <3>1. f \in files /\ f.kind \in {"result", "exempt"} /\ f.head = c
      BY DEF OfHead
    <3>2. f \in {e \in files : e.kind \in {"result", "exempt"} /\ e.head \in own} /\ <<f.base, f.head>> = <<s, c>>
      BY <2>2, <2>7, <3>1
    <3> QED BY <2>5, <3>2
  <2> QED BY <2>1, <2>4, <2>6, <2>7
<1> DEFINE Comes(c, i) == /\ c \in FirstLine(git, head)
                          /\ base \in FirstLine(git, c) =>
                               \A j \in 0 .. n - i : c \in of[j] => head \in of[i + j]
           S == {i \in 0..n : w[i] # NoCommit => Comes(w[i], i)}
<1>6. 0 \in S
  <2>1. \A j \in 0 .. n - 0 : 0 + j = j
    BY <1>2
  <2>2. Comes(head, 0)
    BY <1>2, <2>1, LineGoesDown
  <2> HIDE DEF Comes
  <2> QED BY <1>2, <1>3, <2>2
<1>7. ASSUME NEW i \in 0..n, i \in S, i < n PROVE i + 1 \in S
  <2>1. i + 1 \in Steps \ {0} /\ (i + 1) - 1 = i /\ i + 1 \in 0..n /\ i \in Steps
    BY <1>2, <1>7
  <2>2. PICK c, s : c = w[i] /\ s = w[i + 1]
    OBVIOUS
  <2>3. s = NextPoint(base, i + 1, c)
    BY <1>3, <2>1, <2>2
  <2>4. c \in Commits \union {NoCommit} /\ (c # NoCommit => Comes(c, i))
    BY <1>3, <1>7, <2>1, <2>2
  <2> SUFFICES ASSUME s # NoCommit PROVE Comes(s, i + 1)
    BY <2>1, <2>2
  <2>5. c # NoCommit /\ c \in Commits /\ Comes(c, i)
    BY <2>3, <2>4 DEF NextPoint
  <2>6. \A j \in 0 .. n - (i + 1) : j \in 0 .. n - i /\ j + 1 \in 0 .. n - i /\ j + 1 \in 1 .. n
                                    /\ (j + 1) - 1 = j /\ (i + j) + 1 = (i + 1) + j /\ i + (j + 1) = (i + 1) + j
                                    /\ (i + 1) + j \in 1 .. n /\ ((i + 1) + j) - 1 = i + j
    BY <1>2
  <2>7. CASE s = c
    <3>1. ASSUME base \in FirstLine(git, c), NEW j \in 0 .. n - (i + 1), c \in of[j] PROVE head \in of[(i + 1) + j]
      <4>1. head \in of[i + j]
        BY <2>5, <2>6, <3>1
      <4>2. of[((i + 1) + j) - 1] \subseteq of[(i + 1) + j]
        BY <1>4, <2>6
      <4> QED BY <2>6, <4>1, <4>2
    <3> QED BY <2>5, <2>7, <3>1
  <2>8. CASE Follows(git, files, c) /\ s = Start(git, files, c)
    <3>1. s \in FirstLine(git, c) /\ s # c /\ s \in Commits
      BY <2>5, <2>8, StartIs
    <3>2. s \in FirstLine(git, head)
      BY <1>2, <2>5, <3>1, LineGoesDown
    <3>3. ASSUME base \in FirstLine(git, s), NEW j \in 0 .. n - (i + 1), s \in of[j] PROVE head \in of[(i + 1) + j]
      <4>1. base \in FirstLine(git, c)
        BY <2>5, <3>1, <3>3, LineGoesDown
      <4>2. c \notin FirstLine(git, base)
        <5> SUFFICES ASSUME c \in FirstLine(git, base) PROVE FALSE
          OBVIOUS
        <5>1. c \in FirstLine(git, s)
          BY <3>1, <3>3, LineGoesDown
        <5> QED BY <2>5, <3>1, <5>1, LineGoesDown
      <4>3. <<s, c>> \in links
        BY <1>5, <2>5, <2>8, <4>2
      <4>4. c \in of[j + 1]
        <5>1. \A l \in links : l[1] \in of[(j + 1) - 1] => l[2] \in of[j + 1]
          BY <1>4, <2>6
        <5>2. <<s, c>>[1] \in of[j] /\ (j + 1) - 1 = j
          BY <2>6, <3>3
        <5> QED BY <4>3, <5>1, <5>2
      <4>5. head \in of[i + (j + 1)]
        BY <2>5, <2>6, <4>1, <4>4
      <4> QED BY <2>6, <4>5
    <3> QED BY <3>2, <3>3
  <2>9. s = c \/ (Follows(git, files, c) /\ s = Start(git, files, c))
    BY <2>3, <2>5 DEF NextPoint
  <2> QED BY <2>7, <2>8, <2>9
<1>8. k \in S
  <2> HIDE DEF S
  <2> QED BY <1>2, <1>6, <1>7, OneByOne
<1>9. k \in 0..n /\ n - k \in 0..n /\ n - k \in 0 .. n - k /\ k + (n - k) = n
  BY <1>2
<1>10. base \in of[n - k]
  <2> DEFINE T == {j \in 0..n : base \in of[j]}
  <2>1. 0 \in T
    BY <1>2, <1>4
  <2>2. ASSUME NEW j \in 0..n, j \in T, j < n PROVE j + 1 \in T
    <3>1. j + 1 \in 1..n /\ (j + 1) - 1 = j /\ j + 1 \in 0..n
      BY <1>2, <2>2
    <3>2. of[(j + 1) - 1] \subseteq of[j + 1]
      BY <1>4, <3>1
    <3> QED BY <2>2, <3>1, <3>2
  <2>3. \A j \in 0..n : j \in T
    <3> HIDE DEF T
    <3> QED BY <1>2, <2>1, <2>2, OneByOne
  <2> QED BY <1>9, <2>3
<1>11. w[k] = base /\ base # NoCommit /\ base \in FirstLine(git, base)
  BY <1>1, <1>2, NoCommitIsNone, LineGoesDown
<1>12. head \in of[k + (n - k)]
  BY <1>8, <1>9, <1>10, <1>11
<1> QED BY <1>1, <1>4, <1>9, <1>12

(* What a chain that clears a delivery has passed.                         *)
LEMMA DeliversPasses ==
  ASSUME ReviewTypes, NamesOwnIn(files), Delivers, Delivery.base # NoCommit
  PROVE  /\ Delivery.base \in Commits /\ git.head \in Reached(git, files)
         /\ \A d \in FirstLine(git, git.head) \ FirstLine(git, Delivery.base) :
              Covered(d) /\ Needs(git, files, d, FALSE) = {}
<1>1. Branch(git) # <<>> /\ Delivery.head = git.head /\ Delivery.base = Parent(git, Branch(git)[1])
  BY DEF Delivers, Delivery
<1>2. Branch(git)[1] \in Commits
  BY <1>1, BranchAboveBase
<1>3. Delivery.base \in Commits
  BY <1>1, <1>2, ParentIsNext
<1>4. PICK k \in Steps : Walk(git, files, Delivery.base, git.head)[k] = Delivery.base
  BY <1>1 DEF Delivers, ChainClears
<1> QED BY <1>1, <1>3, <1>4, WalkCovers, WalkReaches

LEMMA DeliveredCovered ==
  ASSUME ReviewTypes, NamesOwnIn(files)
  PROVE  DeliveredIsCovered
<1> SUFFICES ASSUME Delivers, NEW c \in Before(git, git.head, Delivery.base) PROVE Covered(c)
  BY DEF DeliveredIsCovered, Covered
<1>1. PICK base : base = Delivery.base
  OBVIOUS
<1>2. git.head \in Commits
  BY HistoriesTyped DEF ReviewTypes
<1>3. c \in FirstLine(git, git.head) /\ base # c /\ base \in FirstLine(git, c)
  BY <1>1 DEF Before
<1>4. c \in Commits
  BY <1>2, <1>3, LineGoesDown
<1>5. base # NoCommit /\ c \notin FirstLine(git, base)
  BY <1>3, <1>4, NoCommitIsNone, LineGoesDown
<1> QED BY <1>1, <1>3, <1>5, DeliversPasses

LEMMA StopAgrees ==
  ASSUME ReviewTypes, NamesOwnIn(files)
  PROVE  StopAgreesWithCheck
<1> SUFFICES ASSUME Delivers PROVE Question.head = NoCommit
  BY DEF StopAgreesWithCheck
<1>1. Branch(git) # <<>> /\ Delivery.base = Parent(git, Branch(git)[1])
  BY DEF Delivers, Delivery
<1>2. CASE Delivery.base = NoCommit
  BY <1>1, <1>2 DEF Question, NextUnreviewed
<1>3. CASE Delivery.base # NoCommit
  <2>1. PICK n \in Nat \ {0} :
          /\ DOMAIN Branch(git) = 1 .. n /\ Branch(git)[n] = git.head
          /\ \A i \in 1 .. n : Branch(git)[i] \in FirstLine(git, git.head) \ FirstLine(git, Delivery.base)
    BY <1>1, <1>3, BranchAboveBase, DeliversPasses
  <2>2. \A i \in 1 .. n : Needs(git, files, Branch(git)[i], FALSE) = {}
    BY <1>3, <2>1, DeliversPasses
  <2>3. PICK reached : reached = {i \in DOMAIN Branch(git) : Branch(git)[i] \in Reached(git, files)}
    OBVIOUS
  <2>4. n \in reached /\ reached \subseteq 1 .. n
    BY <1>3, <2>1, <2>3, DeliversPasses
  <2>5. FirstUnreviewed(git, files) = n + 1
    <3>1. \A j \in reached : j <= n
      BY <2>4
    <3>2. \A i \in reached : (\A j \in reached : j <= i) => i = n
      BY <2>4
    <3>3. (CHOOSE i \in reached : \A j \in reached : j <= i) = n
      BY <2>4, <3>1, <3>2
    <3> QED BY <2>3, <2>4, <3>3 DEF FirstUnreviewed
  <2>6. ASSUME NEW i \in 1 .. n PROVE NeedsAt(git, files, i) = {}
    <3>1. ~(i = FirstUnreviewed(git, files))
      BY <2>5
    <3>2. NeedsAt(git, files, i) = Needs(git, files, Branch(git)[i], FALSE)
      BY <3>1 DEF NeedsAt, Needs
    <3> QED BY <2>2, <3>2
  <2>7. {i \in DOMAIN Branch(git) : NeedsAt(git, files, i) # {}} = {}
    BY <2>1, <2>6
  <2> QED BY <2>7 DEF Question, NextUnreviewed
<1> QED BY <1>2, <1>3

LEMMA LandsReviewed ==
  ASSUME ReviewTypes
  PROVE  LandingHoldsOnlyReviewed
<1> SUFFICES ASSUME NEW merge \in Merges, Lands(git, files, merge)
             PROVE  \E base \in Commits :
                      /\ ChainClears(git, files, base, merge.head)
                      /\ TreeOf(merge) = git.ancestors[base] \union (git.ancestors[merge.head] \ git.ancestors[base])
  BY DEF LandingHoldsOnlyReviewed
<1>1. PICK base \in Commits : /\ MergeBases(git, merge.first, merge.head) = {base}
                              /\ ChainClears(git, files, base, merge.head) /\ TreeLands(git, merge)
  BY DEF Lands
<1>2. merge.head \in Commits
  BY HistoriesTyped DEF Merges, ReviewTypes
<1>3. base \in git.ancestors[merge.head]
  BY <1>1 DEF MergeBases
<1>4. git.ancestors[base] \subseteq git.ancestors[merge.head]
  BY <1>2, <1>3, HistoriesOfGit DEF ReviewTypes
<1>5. TreeOf(merge) = git.ancestors[merge.head]
  BY <1>1 DEF TreeLands, TreeOf
<1> QED BY <1>1, <1>4, <1>5

(* A delivery whose chain clears was reviewed, exempted or is passive,     *)
(* commit by commit, and swept, answered and polished; the stop hook asks  *)
(* nothing of it; and a merge that lands brings no more than was reviewed, *)
(* whatever is stored meanwhile (chain.go, unreviewed.go, landing.go).     *)
THEOREM ReviewedHolds == StoresSpec => []ReviewsHold
<1>1. StoresInit => ReviewTypes /\ ReviewInv
  BY ReviewTypesInit, ReviewInitInv DEF StoresInit
<1>2. [StoresNext]_<<promotionVars, reviewVars, part>> => [ReviewNext]_reviewVars
  BY DEF StoresNext
<1>3. ReviewTypes /\ ReviewInv /\ [StoresNext]_<<promotionVars, reviewVars, part>> => (ReviewTypes /\ ReviewInv)'
  BY <1>2, ReviewTypesStep, ReviewStep
<1>4. ReviewTypes /\ ReviewInv => ReviewsHold
  <2>1. ReviewInv => NamesOwnIn(files)
    BY DEF ReviewInv, FilesOK
  <2> QED BY <2>1, DeliveredCovered, StopAgrees, LandsReviewed DEF ReviewsHold, ReviewsAreSound
<1> QED BY <1>1, <1>3, <1>4, PTL DEF StoresSpec
=============================================================================
