------------------------------ MODULE ReadsProofs ------------------------------
(***************************************************************************)
(* Theorems about decisions taken from files that others write meanwhile:  *)
(* a document that must lie in the worktree (ContainedRead), a plan and its*)
(* goal as a clearance finds them (Clearance), and the embedding index as  *)
(* queries find it (VectorIndex), for any number of sessions, queries and  *)
(* builds and any bounds, and the same for the composition MCReads.        *)
(***************************************************************************)
EXTENDS MCReads, FiniteSetTheorems, TLAPS

-----------------------------------------------------------------------------
(* A document that must lie in the worktree: what was opened is a file,    *)
(* and what was proven lay in the worktree.                                *)
ContainedInv ==
  /\ reading \in [step : {"none", "look", "open", "prove", "proven", "read", "refused"},
                  opened : SUBSET RegularFiles]
  /\ FilesAt("inside") \subseteq wasInside
  /\ reading.step \in {"proven", "read"} => reading.opened \subseteq wasInside

LEMMA ContainedInitInv == ContainedInit => ContainedInv
BY DEF ContainedInit, ContainedInv

LEMMA MovedKeeps ==
  ASSUME ContainedInv, NEW newPlace, NEW newOther, NEW newLeads,
         Moved(newPlace, newOther, newLeads)
  PROVE  ContainedInv'
BY DEF ContainedInv, Moved, FilesAt

LEMMA ContainedStep == ContainedInv /\ [ContainedNext]_containedVars => ContainedInv'
<1> SUFFICES ASSUME ContainedInv, [ContainedNext]_containedVars PROVE ContainedInv'
  OBVIOUS
<1>1. CASE BeginRead
  BY <1>1 DEF BeginRead, ContainedInv, FilesAt
<1>2. CASE LookAt
  BY <1>2 DEF LookAt, Refuse, ReadStep, ContainedInv, FilesAt
<1>3. CASE OpenIt
  <2>1. FilesAt(leads) \subseteq RegularFiles
    BY DEF FilesAt
  <2> QED BY <1>3, <2>1 DEF OpenIt, Refuse, ReadStep, ContainedInv, FilesAt
<1>4. CASE Prove
  <2>1. ProvenWithin => reading.opened \subseteq FilesAt("inside")
    BY DEF ProvenWithin, ContainedInv, FilesAt
  <2> QED BY <1>4, <2>1 DEF Prove, Refuse, ReadStep, ContainedInv, FilesAt
<1>5. CASE ReadIt
  BY <1>5 DEF ReadIt, ReadStep, ContainedInv, FilesAt
<1>6. ASSUME NEW f \in RegularFiles, NEW side \in Sides, Move(f, side) PROVE ContainedInv'
  BY <1>6, MovedKeeps DEF Move
<1>7. ASSUME NEW side \in Sides, NEW thing \in {"nothing", "link", "pipe"}, Plant(side, thing)
      PROVE  ContainedInv'
  BY <1>7, MovedKeeps DEF Plant
<1>8. ASSUME NEW side \in Sides, TurnAncestor(side) PROVE ContainedInv'
  BY <1>8, MovedKeeps DEF TurnAncestor
<1>9. CASE UNCHANGED containedVars
  BY <1>9 DEF containedVars, ContainedInv, FilesAt
<1> QED
  BY <1>1, <1>2, <1>3, <1>4, <1>5, <1>6, <1>7, <1>8, <1>9 DEF ContainedNext

LEMMA ContainedInvImplies == ContainedInv => ReadsStayInside
BY DEF ContainedInv, ReadsStayInside

-----------------------------------------------------------------------------
(* The embedding index: what is on disk, and what every actor knows of it. *)
Fingerprints == Observations \X (0..2)
Manifests == [stamp : Nat, entries : Seq(Fingerprints)]
Kinds == {"none", "corrupted", "index"}
ActorFields == {"at", "goal", "named", "stat", "read", "idx", "fresh", "live", "byID", "told",
                "rows", "covered", "draft", "asked", "held"}
DraftFields == {"entries", "vectors"}
UnderLock == {"saving", "between"}

(* A record of an actor.                                                   *)
IsActor(r) ==
  /\ DOMAIN r = ActorFields /\ DOMAIN r.draft = DraftFields
  /\ r.idx.kind \in Kinds /\ r.fresh.kind \in Kinds

FilesTypes ==
  /\ memory \in [Observations -> [state : {"absent", "live", "deleted"}, text : 0..2]]
  /\ \A o \in Live : memory[o].text # 0
  /\ saves \in 0..MaxSaves /\ stops \in 0..MaxStops /\ torn \in BOOLEAN
  /\ manifest \in Manifests \union {NoFile} /\ cache.kind \in Kinds
  /\ builder \in Actors \union {NoFile}
  /\ DOMAIN act = Actors /\ act = [a \in Actors |-> act[a]]

(* A build under the lock: what it is about to write, and what it wrote.   *)
BuildInv(a) ==
  LET r == act[a]
  IN  /\ IsActor(r)
      /\ builder = a <=> r.at \in UnderLock
      /\ r.at \in UnderLock \union {"locking"} => r.draft.entries \in Seq(Fingerprints)
      /\ r.at \in UnderLock /\ ~torn => r.draft.vectors = r.draft.entries
      /\ r.at = "between" => blob = r.draft.vectors
      /\ a \in Indexers => r.at \in UnderLock \union {"idle", "locking"}

(* A query: no reading of it is older than its beginning, and what it was  *)
(* told of the memory is of one reading and was so while it ran.           *)
NotOlder(rd, began) == rd.kind = "index" => rd.stamp \in Nat /\ rd.stamp >= began

FreshInv(r) ==
  /\ r.asked \in Nat /\ r.asked <= StampOf(manifest)
  /\ NotOlder(r.idx, r.asked) /\ NotOlder(r.fresh, r.asked)
  /\ r.at \in {"blob", "reblob"} =>
       r.read \in Manifests \union {NoFile} /\ (r.read # NoFile => r.read.stamp >= r.asked)

RowsInv(r) ==
  /\ r.at # "idle" => \A o \in Live : <<o, memory[o].text>> \in r.held
  /\ \A o \in DOMAIN r.byID : <<o, r.byID[o]>> \in r.held
  /\ \A row \in r.rows : <<row.of, row.text>> \in r.held /\ TopicVisibleUnderGoal(row.of, r.goal)

CoverageInv(r) ==
  /\ r.live \subseteq Observations /\ DOMAIN r.byID = r.live \intersect IndexedIDs(r.idx)
  /\ r.at \in {"looking", "manifest", "blob", "loaded"} => r.live = {}
  /\ r.at # "answered" => ~r.covered
  /\ r.covered /\ "incomplete" \notin r.told => r.live \subseteq IndexedIDs(r.idx)

QueryInv(r) == FreshInv(r) /\ RowsInv(r) /\ CoverageInv(r)

IndexInv ==
  /\ FilesTypes /\ BuildsDoNotMix
  /\ \A a \in Actors : BuildInv(a)
  /\ \A q \in Queries : QueryInv(act[q])

(* Rows come in the order of their identifiers: of a finite set of numbers *)
(* there is such a sequence, which takes every number to its rank.         *)
LEMMA RowsInOrder ==
  ASSUME NEW S \in SUBSET Nat, IsFiniteSet(S)
  PROVE  /\ Cardinality(S) \in Nat
         /\ InOrder(S) \in [1..Cardinality(S) -> S]
         /\ \A i, j \in DOMAIN InOrder(S) : i < j => InOrder(S)[i] < InOrder(S)[j]
<1> DEFINE n == Cardinality(S)
           UpTo(x) == {y \in S : y <= x}
           rank == [x \in S |-> Cardinality(UpTo(x))]
<1>1. n \in Nat
  BY FS_CardinalityType
<1>2. ASSUME NEW x \in S PROVE IsFiniteSet(UpTo(x)) /\ rank[x] \in 1..n
  <2>1. UpTo(x) \in SUBSET S /\ x \in UpTo(x)
    OBVIOUS
  <2>2. IsFiniteSet(UpTo(x)) /\ Cardinality(UpTo(x)) <= n
    BY <2>1, FS_Subset
  <2>3. Cardinality(UpTo(x)) \in Nat /\ Cardinality(UpTo(x)) # 0
    BY <2>1, <2>2, FS_CardinalityType, FS_EmptySet
  <2> QED BY <1>1, <2>2, <2>3
<1>3. ASSUME NEW x \in S, NEW y \in S, x < y PROVE rank[x] < rank[y]
  <2>1. x \in Nat /\ y \in Nat /\ \A z \in S : z \in Nat
    OBVIOUS
  <2>2. UpTo(x) \in SUBSET UpTo(y) /\ y \in UpTo(y) /\ y \notin UpTo(x)
    <3>1. \A z \in S : z <= x => z <= y
      BY <1>3, <2>1
    <3>2. y <= y /\ ~(y <= x)
      BY <1>3, <2>1
    <3> QED BY <3>1, <3>2
  <2>3. IsFiniteSet(UpTo(y))
    BY <1>2
  <2>4. Cardinality(UpTo(x)) <= Cardinality(UpTo(y)) /\ Cardinality(UpTo(x)) # Cardinality(UpTo(y))
    BY <2>2, <2>3, FS_Subset
  <2>5. rank[x] \in 1..n /\ rank[y] \in 1..n
    BY <1>2
  <2> QED BY <1>1, <2>4, <2>5
<1>4. ASSUME NEW i \in 1..n PROVE \E x \in S : rank[x] = i
  <2> SUFFICES ASSUME \A x \in S : rank[x] # i PROVE FALSE
    OBVIOUS
  <2>1. IsFiniteSet(1..n) /\ Cardinality(1..n) = n
    BY <1>1, FS_Interval
  <2>2. IsFiniteSet((1..n) \ {i}) /\ Cardinality((1..n) \ {i}) = n - 1
    BY <2>1, FS_RemoveElement
  <2>3. rank \in [S -> (1..n) \ {i}]
    <3>1. \A x \in S : rank[x] \in (1..n) \ {i}
      BY <1>2
    <3>2. rank = [x \in S |-> rank[x]]
      OBVIOUS
    <3> HIDE DEF rank
    <3> QED BY <3>1, <3>2
  <2>4. Cardinality((1..n) \ {i}) < Cardinality(S)
    BY <1>1, <2>2
  <2> HIDE DEF rank
  <2>5. \E x, y \in S : x # y /\ rank[x] = rank[y]
    <3> DEFINE T == (1..n) \ {i}
    <3>1. IsFiniteSet(T) /\ Cardinality(T) < Cardinality(S) /\ rank \in [S -> T]
      BY <2>2, <2>3, <2>4
    <3> HIDE DEF T, n
    <3> QED BY <3>1, FS_PigeonHole
  <2>6. PICK x \in S, y \in S : x # y /\ rank[x] = rank[y]
    BY <2>5
  <2>7. x \in Nat /\ y \in Nat
    OBVIOUS
  <2>8. rank[x] \in 1..n /\ rank[y] \in 1..n
    BY <1>2
  <2> HIDE DEF n
  <2>9. rank[x] \in Nat /\ rank[y] \in Nat
    BY <1>1, <2>8
  <2>10. x < y \/ y < x
    BY <2>6, <2>7
  <2> QED BY <1>3, <2>6, <2>9, <2>10
<1> DEFINE at(i) == CHOOSE x \in S : rank[x] = i
           s == [i \in 1..n |-> at(i)]
<1>5. \A i \in 1..n : at(i) \in S /\ rank[at(i)] = i
  <2> HIDE DEF rank, n
  <2> QED BY <1>4
<1>6. s \in [1..n -> S] /\ \A i \in 1..n : s[i] \in S /\ rank[s[i]] = i
  <2> HIDE DEF at, rank, n
  <2> QED BY <1>5
<1>7. ASSUME NEW i \in 1..n, NEW j \in 1..n, i < j PROVE s[i] < s[j]
  <2> HIDE DEF s, rank
  <2> DEFINE u == s[i]
             w == s[j]
  <2>1. u \in S /\ w \in S /\ rank[u] = i /\ rank[w] = j
    BY <1>6
  <2> HIDE DEF u, w
  <2>2. u \in Nat /\ w \in Nat /\ i \in Nat /\ j \in Nat
    <3>1. u \in Nat /\ w \in Nat
      BY <2>1
    <3> HIDE DEF n
    <3>2. i \in Nat /\ j \in Nat
      BY <1>1
    <3> QED BY <3>1, <3>2
  <2> HIDE DEF u, w, n
  <2>3. ~(w < u)
    <3> SUFFICES ASSUME w < u PROVE FALSE
      OBVIOUS
    <3>1. rank[w] < rank[u]
      BY <1>3, <2>1
    <3> QED BY <1>7, <2>1, <2>2, <3>1
  <2>4. u # w
    BY <1>7, <2>1, <2>2
  <2>5. u < w
    BY <2>2, <2>3, <2>4
  <2> QED BY <2>5 DEF u, w
<1>8. \E t \in [1..n -> S] : \A i, j \in DOMAIN t : i < j => t[i] < t[j]
  <2>1. DOMAIN s = 1..n
    OBVIOUS
  <2> HIDE DEF s
  <2> QED BY <1>6, <1>7, <2>1
<1>9. /\ InOrder(S) \in [1..n -> S]
      /\ \A i, j \in DOMAIN InOrder(S) : i < j => InOrder(S)[i] < InOrder(S)[j]
  <2> HIDE DEF n, s, rank
  <2>1. InOrder(S) = CHOOSE t \in [1..n -> S] : \A i, j \in DOMAIN t : i < j => t[i] < t[j]
    BY Zenon DEF InOrder, n
  <2> QED BY <1>8, <2>1
<1> QED BY <1>1, <1>9

(* Where the vectors are their entries, every row's vector is its own.     *)
LEMMA OwnVector ==
  ASSUME NEW idx, NEW fp, idx.vectors = idx.entries
  PROVE  VectorFor(idx, fp) = fp
<1>1. CASE \E i \in DOMAIN idx.entries : idx.entries[i] = fp
  <2>1. idx.entries[CHOOSE i \in DOMAIN idx.entries : idx.entries[i] = fp] = fp
    BY <1>1
  <2> QED BY <1>1, <2>1 DEF VectorFor
<1> QED BY <1>1 DEF VectorFor

(* What Load made of the two files.                                        *)
LEMMA LoadedKinds ==
  ASSUME NEW m, NEW b
  PROVE  /\ Loaded(m, b).kind \in Kinds
         /\ Loaded(m, b).kind = "index" =>
              /\ m # NoFile /\ Loaded(m, b).stamp = m.stamp
              /\ Loaded(m, b).entries = m.entries /\ Loaded(m, b).vectors = b
         /\ Loaded(m, b).kind = "none" => m = NoFile /\ Loaded(m, b) = NoIndex
<1>1. Corrupted = [kind |-> "corrupted", stamp |-> 0, entries |-> <<>>, vectors |-> <<>>]
  BY DEF Corrupted, NoIndex
<1> QED BY <1>1 DEF Loaded, Kinds, NoIndex

LEMMA IndexInitInv == IndexInit => IndexInv
<1> SUFFICES ASSUME IndexInit PROVE IndexInv
  OBVIOUS
<1>1. FilesTypes
  <2>1. \A o \in Observations : memory[o] \in [state : {"absent", "live", "deleted"}, text : 0..2]
    BY DEF IndexInit, NotThere
  <2>2. memory \in [Observations -> [state : {"absent", "live", "deleted"}, text : 0..2]]
    BY <2>1 DEF IndexInit
  <2>3. saves \in 0..MaxSaves /\ stops \in 0..MaxStops /\ torn \in BOOLEAN /\ builder = NoFile
    <3>1. saves = 0 /\ stops = 0 /\ builder = NoFile
      BY DEF IndexInit
    <3>2. torn \in BOOLEAN
      BY DEF IndexInit
    <3>3. 0 \in 0..MaxSaves /\ 0 \in 0..MaxStops
      BY IndexBoundsAssumption
    <3> QED BY <3>1, <3>2, <3>3
  <2>4. manifest = NoFile /\ cache.kind \in Kinds
    BY DEF IndexInit, NoIndex, Kinds
  <2>5. DOMAIN act = Actors /\ act = [a \in Actors |-> act[a]]
    <3> DEFINE z == Idle
    <3>1. act = [a \in Actors |-> z]
      BY DEF IndexInit
    <3> HIDE DEF z
    <3> QED BY <3>1
  <2>6. \A o \in Live : memory[o].text # 0
    BY DEF IndexInit, NotThere, Live
  <2> QED BY <2>2, <2>3, <2>4, <2>5, <2>6 DEF FilesTypes
<1>2. BuildsDoNotMix
  BY DEF IndexInit, BuildsDoNotMix
<1>3. ASSUME NEW a \in Actors PROVE BuildInv(a)
  <2>1. act[a] = Idle /\ builder = NoFile
    BY DEF IndexInit
  <2> QED BY <2>1, ActorsAssumption
          DEF BuildInv, IsActor, Idle, ActorFields, DraftFields, UnderLock, Kinds, NoIndex
<1>4. ASSUME NEW q \in Queries PROVE QueryInv(act[q])
  <2>1. act[q] = Idle /\ manifest = NoFile
    BY DEF IndexInit, Actors
  <2> QED BY <2>1
          DEF QueryInv, FreshInv, RowsInv, CoverageInv, NotOlder, StampOf, Idle, NoIndex
<1> QED BY <1>1, <1>2, <1>3, <1>4 DEF IndexInv

LEMMA StampIsNat == FilesTypes => StampOf(manifest) \in Nat
BY DEF FilesTypes, StampOf, Manifests

(* A step of one actor leaves the others as they are, unless it writes the *)
(* files without holding the lock.                                         *)
LEMMA OtherActors ==
  ASSUME IndexInv, NEW b \in Actors, act'[b] = act[b], FilesTypes',
         UNCHANGED memory, StampOf(manifest') >= StampOf(manifest),
         builder' = b <=> builder = b,
         (builder # b /\ builder # NoFile) \/ UNCHANGED <<blob, torn>>
  PROVE  BuildInv(b)' /\ (b \in Queries => QueryInv(act[b])')
<1>1. BuildInv(b)'
  <2>1. BuildInv(b)
    BY DEF IndexInv
  <2>2. act[b].at \in UnderLock => builder = b
    BY <2>1 DEF BuildInv
  <2>3. act[b].at \in UnderLock => UNCHANGED <<blob, torn>>
    BY <2>2
  <2>4. act[b].at = "between" => act[b].at \in UnderLock
    BY DEF UnderLock
  <2> QED BY <2>1, <2>3, <2>4 DEF BuildInv, IsActor
<1>2. ASSUME b \in Queries PROVE QueryInv(act[b])'
  <2>1. QueryInv(act[b])
    BY <1>2 DEF IndexInv
  <2>2. StampOf(manifest) \in Nat /\ StampOf(manifest') \in Nat
    BY StampIsNat DEF IndexInv, FilesTypes, StampOf, Manifests
  <2>3. FreshInv(act[b])'
    <3>1. FreshInv(act[b]) /\ act[b].asked \in Nat /\ act[b].asked <= StampOf(manifest)
      BY <2>1 DEF QueryInv, FreshInv
    <3>2. act[b].asked <= StampOf(manifest')
      BY <2>2, <3>1
    <3> QED BY <3>1, <3>2 DEF FreshInv, NotOlder, StampOf
  <2>4. RowsInv(act[b])'
    BY <2>1 DEF QueryInv, RowsInv, Live, TopicVisibleUnderGoal
  <2>5. CoverageInv(act[b])'
    BY <2>1 DEF QueryInv, CoverageInv, IndexedIDs
  <2> QED BY <2>3, <2>4, <2>5 DEF QueryInv
<1> QED BY <1>1, <1>2

LEMMA ActorStep ==
  ASSUME IndexInv, NEW a \in Actors, NEW r, Become(a, r),
         FilesTypes', BuildsDoNotMix', BuildInv(a)', a \in Queries => QueryInv(act[a])',
         UNCHANGED memory, StampOf(manifest') >= StampOf(manifest),
         \A b \in Actors \ {a} : builder' = b <=> builder = b,
         builder = a \/ UNCHANGED <<blob, torn>>
  PROVE  IndexInv'
<1>1. ASSUME NEW b \in Actors, b # a PROVE act'[b] = act[b]
  BY <1>1 DEF Become, IndexInv, FilesTypes
<1>2. ASSUME NEW b \in Actors PROVE BuildInv(b)' /\ (b \in Queries => QueryInv(act[b])')
  <2>1. CASE b = a
    BY <2>1
  <2>2. CASE b # a
    <3>1. (builder # b /\ builder # NoFile) \/ UNCHANGED <<blob, torn>>
      BY <2>2, ActorsAssumption
    <3> QED BY <1>1, <2>2, <3>1, OtherActors
  <2> QED BY <2>1, <2>2
<1>3. Queries \subseteq Actors
  BY DEF Actors
<1> QED BY <1>2, <1>3 DEF IndexInv

(* A query that only reads.                                                *)
Kept == UNCHANGED <<memory, saves, manifest, blob, builder, torn, stops>>

IsQuery(r) == IsActor(r) /\ r.at \notin UnderLock \union {"locking"} /\ QueryInv(r)

LEMMA ReadingStep ==
  ASSUME IndexInv, NEW q \in Queries, NEW r, Become(q, r), IsQuery(r), Kept,
         cache'.kind \in Kinds, act[q].at \notin UnderLock
  PROVE  IndexInv'
<1>0. q \in Actors /\ q \notin Indexers
  BY ActorsAssumption DEF Actors
<1>1. act'[q] = r /\ DOMAIN act' = Actors /\ act' = [a \in Actors |-> act'[a]]
      /\ \A a \in Actors \ {q} : act'[a] = act[a]
  BY <1>0 DEF Become, IndexInv, FilesTypes
<1>2. FilesTypes'
  BY <1>1 DEF IndexInv, FilesTypes, Kept, Live
<1>3. builder # q
  BY <1>0 DEF IndexInv, BuildInv
<1>4. BuildsDoNotMix'
  <2>1. act[q].at # "between" /\ act'[q].at # "between"
    BY <1>1 DEF IsQuery, UnderLock
  <2>2. (\A a \in Actors : act'[a].at # "between") => (\A a \in Actors : act[a].at # "between")
    BY <1>1, <2>1
  <2> QED BY <2>2 DEF IndexInv, BuildsDoNotMix, Kept
<1>5. BuildInv(q)'
  <2>1. r.at \notin UnderLock /\ r.at # "locking" /\ r.at # "between"
    BY DEF IsQuery, UnderLock
  <2>2. builder' # q
    BY <1>3 DEF Kept
  <2> QED BY <1>0, <1>1, <2>1, <2>2 DEF BuildInv, IsQuery, IsActor
<1>6. QueryInv(act[q])'
  <2>1. FreshInv(act[q])'
    BY <1>1 DEF IsQuery, QueryInv, FreshInv, NotOlder, StampOf, Kept
  <2>2. RowsInv(act[q])'
    BY <1>1 DEF IsQuery, QueryInv, RowsInv, Live, TopicVisibleUnderGoal, Kept
  <2>3. CoverageInv(act[q])'
    BY <1>1 DEF IsQuery, QueryInv, CoverageInv, IndexedIDs
  <2> QED BY <2>1, <2>2, <2>3 DEF QueryInv
<1>7. StampOf(manifest') >= StampOf(manifest) /\ UNCHANGED memory /\ UNCHANGED <<blob, torn>>
  BY StampIsNat DEF Kept, IndexInv, StampOf
<1>8. \A b \in Actors \ {q} : builder' = b <=> builder = b
  BY DEF Kept
<1> QED BY <1>0, <1>2, <1>4, <1>5, <1>6, <1>7, <1>8, ActorStep

(* What a query must know when it answers.                                 *)
Ready(r) ==
  /\ DOMAIN r = ActorFields /\ r.idx.kind \in Kinds
  /\ r.asked \in Nat /\ r.asked <= StampOf(manifest) /\ NotOlder(r.idx, r.asked)
  /\ \A o \in Live : <<o, memory[o].text>> \in r.held
  /\ \A o \in DOMAIN r.byID : <<o, r.byID[o]>> \in r.held
  /\ r.live \subseteq Observations /\ DOMAIN r.byID = r.live \intersect IndexedIDs(r.idx)

(* Rows come from the snapshot, and of the goal that was asked under.      *)
LEMMA OfferedRows ==
  ASSUME NEW idx, NEW byID, NEW goal, NEW row \in Offered(idx, byID, goal)
  PROVE  /\ row.of \in DOMAIN byID /\ row.text = byID[row.of]
         /\ TopicVisibleUnderGoal(row.of, goal)
BY DEF Offered

(* An index that leaves no observation of the snapshot out has them all.   *)
LEMMA NoneUnindexed ==
  ASSUME NEW r, r.live \subseteq Observations,
         DOMAIN r.byID = r.live \intersect IndexedIDs(r.idx), ~(Unindexed(r) > 0)
  PROVE  r.live \subseteq IndexedIDs(r.idx)
<1>1. IsFiniteSet(r.live)
  BY ObservationsAssumption, FS_Subset
<1>2. DOMAIN r.byID \in SUBSET r.live
  OBVIOUS
<1>3. /\ IsFiniteSet(DOMAIN r.byID) /\ Cardinality(DOMAIN r.byID) <= Cardinality(r.live)
      /\ Cardinality(r.live) = Cardinality(DOMAIN r.byID) => r.live = DOMAIN r.byID
  BY <1>1, <1>2, FS_Subset
<1>4. Cardinality(r.live) \in Nat /\ Cardinality(DOMAIN r.byID) \in Nat
  BY <1>1, <1>3, FS_CardinalityType
<1>5. Cardinality(r.live) = Cardinality(DOMAIN r.byID)
  BY <1>3, <1>4 DEF Unindexed
<1> QED BY <1>3, <1>5

LEMMA AnsweredIsSound ==
  ASSUME NEW r, Ready(r), NEW embeds
  PROVE  IsQuery(Answered(r, embeds))
<1> DEFINE news == Diagnosed(r.idx, r.told)
                     \union Incomplete(r.idx, Unindexed(r))
                     \union (IF r.idx.kind = "index" /\ ~embeds THEN {"backend"} ELSE {})
           shown == IF r.idx.kind = "index" /\ embeds
                    THEN Offered(r.idx, r.byID, r.goal) ELSE {}
<1>1. PICK y : y = [r EXCEPT !.at = "answered", !.told = news, !.covered = TRUE,
                             !.fresh = NoIndex, !.draft = Idle.draft, !.rows = shown]
  OBVIOUS
<1>2. y = Answered(r, embeds)
  BY <1>1 DEF Answered
<1> HIDE DEF news, shown
<1>3. DOMAIN r = ActorFields
  BY DEF Ready
<1>4. /\ DOMAIN y = ActorFields /\ y.at = "answered" /\ y.told = news /\ y.covered = TRUE
      /\ y.fresh = NoIndex /\ y.draft = Idle.draft /\ y.rows = shown
      /\ y.idx = r.idx /\ y.goal = r.goal /\ y.live = r.live /\ y.byID = r.byID
      /\ y.asked = r.asked /\ y.held = r.held
  BY <1>1, <1>3 DEF ActorFields
<1>5. IsActor(y)
  BY <1>4 DEF IsActor, Ready, Idle, DraftFields, NoIndex, Kinds
<1>6. FreshInv(y)
  BY <1>4 DEF FreshInv, Ready, NotOlder, NoIndex
<1>7. RowsInv(y)
  <2>1. ASSUME NEW row \in shown
        PROVE  <<row.of, row.text>> \in r.held /\ TopicVisibleUnderGoal(row.of, r.goal)
    <3>1. row \in Offered(r.idx, r.byID, r.goal)
      BY <2>1 DEF shown
    <3>2. /\ row.of \in DOMAIN r.byID /\ row.text = r.byID[row.of]
          /\ TopicVisibleUnderGoal(row.of, r.goal)
      BY <3>1, OfferedRows
    <3> QED BY <3>2 DEF Ready
  <2> QED BY <1>4, <2>1 DEF RowsInv, Ready
<1>8. CoverageInv(y)
  <2>1. "incomplete" \notin news => ~(Unindexed(r) > 0)
    BY DEF news, Incomplete
  <2>2. "incomplete" \notin news => r.live \subseteq IndexedIDs(r.idx)
    BY <2>1, NoneUnindexed DEF Ready
  <2> QED BY <1>4, <2>2 DEF CoverageInv, Ready
<1>9. IsQuery(y)
  BY <1>4, <1>5, <1>6, <1>7, <1>8 DEF IsQuery, QueryInv, UnderLock
<1> QED BY <1>2, <1>9

LEMMA AnswersIsSound ==
  ASSUME NEW q, NEW r, Ready(r), Answers(q, r)
  PROVE  \E y : Become(q, y) /\ IsQuery(y) /\ y.at = "answered"
<1>1. PICK embeds \in BOOLEAN : Become(q, Answered(r, embeds))
  BY DEF Answers
<1>2. IsQuery(Answered(r, embeds))
  BY AnsweredIsSound
<1>3. DOMAIN r = ActorFields
  BY DEF Ready
<1>4. \A news, shown :
        [r EXCEPT !.at = "answered", !.told = news, !.covered = TRUE,
                  !.fresh = NoIndex, !.draft = Idle.draft, !.rows = shown].at = "answered"
  BY <1>3 DEF ActorFields
<1>5. Answered(r, embeds).at = "answered"
  BY <1>4 DEF Answered
<1> QED BY <1>1, <1>2, <1>5

(* What is known of a query in any state.                                  *)
LEMMA QueryKnown ==
  ASSUME IndexInv, NEW q \in Queries
  PROVE  /\ IsActor(act[q]) /\ QueryInv(act[q])
         /\ q \in Actors /\ q \notin Indexers
         /\ StampOf(manifest) \in Nat
         /\ Live \subseteq Observations /\ cache.kind \in Kinds
<1>1. q \in Actors /\ q \notin Indexers
  BY ActorsAssumption DEF Actors
<1> QED BY <1>1, StampIsNat DEF IndexInv, BuildInv, FilesTypes, Live

LEMMA AskKeeps ==
  ASSUME IndexInv, NEW q \in Queries, NEW goal, NEW named, Ask(q, goal, named)
  PROVE  IndexInv'
<1>1. PICK y : y = [Idle EXCEPT !.at = "looking", !.goal = goal, !.named = named,
                                !.asked = StampOf(manifest),
                                !.held = {<<o, memory[o].text>> : o \in Live}]
  OBVIOUS
<1>2. /\ DOMAIN y = ActorFields /\ y.at = "looking" /\ y.goal = goal
      /\ y.asked = StampOf(manifest) /\ y.held = {<<o, memory[o].text>> : o \in Live}
      /\ y.idx = NoIndex /\ y.fresh = NoIndex /\ y.live = {} /\ y.byID = <<>> /\ y.rows = {}
      /\ y.covered = FALSE /\ y.draft = [entries |-> <<>>, vectors |-> <<>>]
  BY <1>1 DEF Idle, ActorFields
<1>3. IsActor(y)
  BY <1>2 DEF IsActor, NoIndex, Kinds, DraftFields
<1>4. FreshInv(y)
  BY <1>2, StampIsNat DEF FreshInv, NotOlder, NoIndex, IndexInv
<1>5. RowsInv(y)
  BY <1>2 DEF RowsInv
<1>6. CoverageInv(y)
  BY <1>2 DEF CoverageInv
<1>7. IsQuery(y)
  BY <1>2, <1>3, <1>4, <1>5, <1>6 DEF IsQuery, QueryInv, UnderLock
<1>8. Become(q, y) /\ Kept /\ cache'.kind \in Kinds /\ act[q].at \notin UnderLock
  BY <1>1, QueryKnown DEF Ask, Kept, UnderLock
<1> QED BY <1>7, <1>8, ReadingStep

LEMMA LookUpCacheKeeps ==
  ASSUME IndexInv, NEW q \in Queries, LookUpCache(q)
  PROVE  IndexInv'
<1> DEFINE r == act[q]
<1>1. /\ IsActor(r) /\ QueryInv(r) /\ r.at = "looking" /\ StampOf(manifest) \in Nat
      /\ Kept /\ cache'.kind \in Kinds /\ r.at \notin UnderLock
  BY QueryKnown DEF LookUpCache, Kept, UnderLock
<1>2. DOMAIN r = ActorFields
  BY <1>1 DEF IsActor
<1>3. CASE Cached(StampOf(manifest))
  <2> HIDE DEF r
  <2>1. PICK y : y = [r EXCEPT !.at = "loaded", !.idx = cache]
    OBVIOUS
  <2>2. /\ DOMAIN y = ActorFields /\ y.at = "loaded" /\ y.idx = cache
        /\ \A f \in ActorFields \ {"at", "idx"} : y[f] = r[f]
    BY <1>2, <2>1 DEF ActorFields
  <2>3. cache.kind = "index" /\ cache.stamp = StampOf(manifest)
    BY <1>3 DEF Cached
  <2>4. /\ y.fresh = r.fresh /\ y.live = r.live /\ y.byID = r.byID /\ y.rows = r.rows
        /\ y.goal = r.goal /\ y.asked = r.asked /\ y.held = r.held /\ y.covered = r.covered
        /\ y.draft = r.draft
    BY <2>2 DEF ActorFields
  <2>5. IsActor(y)
    BY <1>1, <2>2, <2>3, <2>4 DEF IsActor, Kinds
  <2>6. FreshInv(y)
    BY <1>1, <2>2, <2>3, <2>4 DEF FreshInv, QueryInv, NotOlder
  <2>7. RowsInv(y) /\ CoverageInv(y)
    BY <1>1, <2>2, <2>4 DEF RowsInv, CoverageInv, QueryInv
  <2>8. IsQuery(y)
    BY <2>2, <2>5, <2>6, <2>7 DEF IsQuery, QueryInv, UnderLock
  <2>9. Become(q, y)
    BY <1>3, <2>1 DEF LookUpCache, r
  <2> QED BY <1>1, <2>8, <2>9, ReadingStep DEF r
<1>4. CASE ~Cached(StampOf(manifest))
  <2> HIDE DEF r
  <2>1. PICK y : y = [r EXCEPT !.at = "manifest", !.stat = StampOf(manifest)]
    OBVIOUS
  <2>2. DOMAIN y = ActorFields /\ y.at = "manifest"
    BY <1>2, <2>1 DEF ActorFields
  <2>4. /\ y.fresh = r.fresh /\ y.live = r.live /\ y.byID = r.byID /\ y.rows = r.rows
        /\ y.goal = r.goal /\ y.asked = r.asked /\ y.held = r.held /\ y.covered = r.covered
        /\ y.draft = r.draft /\ y.idx = r.idx
    BY <1>2, <2>1 DEF ActorFields
  <2>5. IsQuery(y)
    BY <1>1, <2>2, <2>4
       DEF IsQuery, IsActor, QueryInv, FreshInv, RowsInv, CoverageInv, NotOlder, UnderLock
  <2>6. Become(q, y)
    BY <1>4, <2>1 DEF LookUpCache, r
  <2> QED BY <1>1, <2>5, <2>6, ReadingStep DEF r
<1> QED BY <1>3, <1>4

LEMMA ReadManifestKeeps ==
  ASSUME IndexInv, NEW q \in Queries,
         ReadManifest(q) \/ RereadManifest(q)
  PROVE  IndexInv'
<1> DEFINE r == act[q]
<1>1. /\ IsActor(r) /\ QueryInv(r) /\ r.at \in {"manifest", "remanifest"}
      /\ StampOf(manifest) \in Nat /\ Kept /\ cache'.kind \in Kinds /\ r.at \notin UnderLock
  BY QueryKnown DEF ReadManifest, RereadManifest, Kept, UnderLock
<1>2. DOMAIN r = ActorFields
  BY <1>1 DEF IsActor
<1>3. PICK y : /\ Become(q, y)
               /\ y = [r EXCEPT !.at = IF r.at = "manifest" THEN "blob" ELSE "reblob",
                                !.read = manifest]
  BY <1>1 DEF ReadManifest, RereadManifest
<1> HIDE DEF r
<1>4. /\ DOMAIN y = ActorFields /\ y.at \in {"blob", "reblob"} /\ y.read = manifest
      /\ y.fresh = r.fresh /\ y.live = r.live /\ y.byID = r.byID /\ y.rows = r.rows
      /\ y.goal = r.goal /\ y.asked = r.asked /\ y.held = r.held /\ y.covered = r.covered
      /\ y.draft = r.draft /\ y.idx = r.idx /\ (y.at = "blob" => r.at = "manifest")
  BY <1>2, <1>3 DEF ActorFields
<1>5. IsActor(y)
  BY <1>1, <1>4 DEF IsActor
<1>6. FreshInv(y)
  <2>1. manifest \in Manifests \union {NoFile}
    BY DEF IndexInv, FilesTypes
  <2> QED BY <1>1, <1>4, <2>1 DEF FreshInv, QueryInv, NotOlder, StampOf
<1>7. RowsInv(y)
  BY <1>1, <1>4 DEF RowsInv, QueryInv
<1>8. CoverageInv(y)
  BY <1>1, <1>4 DEF CoverageInv, QueryInv
<1>9. IsQuery(y)
  BY <1>4, <1>5, <1>6, <1>7, <1>8 DEF IsQuery, QueryInv, UnderLock
<1> QED BY <1>1, <1>3, <1>9, ReadingStep DEF r

(* A reading is as new as the manifest it was made of.                     *)
LEMMA LoadedNotOlder ==
  ASSUME NEW r, FreshInv(r), r.at \in {"blob", "reblob"}
  PROVE  NotOlder(Loaded(r.read, blob), r.asked) /\ Loaded(r.read, blob).kind \in Kinds
<1>1. r.read \in Manifests \union {NoFile} /\ (r.read # NoFile => r.read.stamp >= r.asked)
  BY DEF FreshInv
<1>2. /\ Loaded(r.read, blob).kind \in Kinds
      /\ Loaded(r.read, blob).kind = "index" =>
           r.read # NoFile /\ Loaded(r.read, blob).stamp = r.read.stamp
  BY LoadedKinds
<1>3. r.read # NoFile => r.read.stamp \in Nat
  BY <1>1 DEF Manifests
<1> QED BY <1>1, <1>2, <1>3 DEF NotOlder

LEMMA CachedKinds ==
  ASSUME NEW idx, NEW stamp, idx.kind = "index", NEW m, NEW b, idx = Loaded(m, b)
  PROVE  [idx EXCEPT !.stamp = stamp].kind \in Kinds
<1>1. idx = [kind |-> "index", stamp |-> m.stamp, entries |-> m.entries, vectors |-> b]
  BY DEF Loaded, NoIndex, Corrupted
<1> QED BY <1>1 DEF Kinds

LEMMA ReadBlobKeeps ==
  ASSUME IndexInv, NEW q \in Queries, ReadBlob(q)
  PROVE  IndexInv'
<1> DEFINE r == act[q]
           idx == Loaded(r.read, blob)
<1>1. /\ IsActor(r) /\ QueryInv(r) /\ r.at = "blob" /\ Kept /\ r.at \notin UnderLock
  BY QueryKnown DEF ReadBlob, Kept, UnderLock
<1>2. DOMAIN r = ActorFields
  BY <1>1 DEF IsActor
<1>3. NotOlder(idx, r.asked) /\ idx.kind \in Kinds
  BY <1>1, LoadedNotOlder DEF QueryInv
<1>4. cache'.kind \in Kinds
  <2>1. cache' = IF idx.kind = "index" /\ r.stat # 0 THEN [idx EXCEPT !.stamp = r.stat] ELSE NoIndex
    BY DEF ReadBlob
  <2>2. idx.kind = "index" => [idx EXCEPT !.stamp = r.stat].kind \in Kinds
    BY CachedKinds
  <2> QED BY <2>1, <2>2 DEF NoIndex, Kinds
<1>5. PICK y : Become(q, y) /\ y = [r EXCEPT !.at = "loaded", !.idx = idx,
                                             !.read = NoFile, !.stat = 0]
  BY DEF ReadBlob
<1> HIDE DEF r, idx
<1>6. /\ DOMAIN y = ActorFields /\ y.at = "loaded" /\ y.idx = idx
      /\ y.fresh = r.fresh /\ y.live = r.live /\ y.byID = r.byID /\ y.rows = r.rows
      /\ y.goal = r.goal /\ y.asked = r.asked /\ y.held = r.held /\ y.covered = r.covered
      /\ y.draft = r.draft
  BY <1>2, <1>5 DEF ActorFields
<1>7. IsActor(y)
  BY <1>1, <1>3, <1>6 DEF IsActor
<1>8. FreshInv(y)
  BY <1>1, <1>3, <1>6 DEF FreshInv, QueryInv
<1>9. RowsInv(y) /\ CoverageInv(y)
  BY <1>1, <1>6 DEF RowsInv, CoverageInv, QueryInv
<1>10. IsQuery(y)
  BY <1>6, <1>7, <1>8, <1>9 DEF IsQuery, QueryInv, UnderLock
<1> QED BY <1>1, <1>4, <1>5, <1>10, ReadingStep DEF r

LEMMA AnswerLexicallyKeeps ==
  ASSUME IndexInv, NEW q \in Queries, AnswerLexically(q)
  PROVE  IndexInv'
<1> DEFINE r == act[q]
<1>1. /\ IsActor(r) /\ QueryInv(r) /\ r.at = "loaded" /\ Kept /\ r.at \notin UnderLock
      /\ cache'.kind \in Kinds
  BY QueryKnown DEF AnswerLexically, Kept, UnderLock
<1>2. DOMAIN r = ActorFields
  BY <1>1 DEF IsActor
<1>3. PICK y : Become(q, y) /\ y = [r EXCEPT !.at = "answered", !.told = Diagnosed(r.idx, @)]
  BY DEF AnswerLexically
<1> HIDE DEF r
<1>4. /\ DOMAIN y = ActorFields /\ y.at = "answered" /\ y.idx = r.idx
      /\ y.fresh = r.fresh /\ y.live = r.live /\ y.byID = r.byID /\ y.rows = r.rows
      /\ y.goal = r.goal /\ y.asked = r.asked /\ y.held = r.held /\ y.covered = r.covered
      /\ y.draft = r.draft
  BY <1>2, <1>3 DEF ActorFields
<1>5. IsActor(y)
  BY <1>1, <1>4 DEF IsActor
<1>6. FreshInv(y) /\ RowsInv(y) /\ CoverageInv(y)
  BY <1>1, <1>4 DEF FreshInv, RowsInv, CoverageInv, QueryInv
<1>7. IsQuery(y)
  BY <1>4, <1>5, <1>6 DEF IsQuery, QueryInv, UnderLock
<1> QED BY <1>1, <1>3, <1>7, ReadingStep DEF r

(* Of a snapshot taken for the index that a query holds.                   *)
LEMMA SnapshotIsReady ==
  ASSUME IndexInv, NEW q \in Queries, act[q].at # "idle", NEW idx, NEW news, idx.kind \in Kinds,
         NotOlder(idx, act[q].asked)
  PROVE  /\ Ready([act[q] EXCEPT !.live = Live, !.byID = LiveByID(act[q].idx)])
         /\ Ready([act[q] EXCEPT !.idx = idx, !.live = Live, !.byID = LiveByID(idx), !.told = news])
<1> DEFINE r == act[q]
<1>1. IsActor(r) /\ QueryInv(r) /\ Live \subseteq Observations /\ r.at # "idle"
  BY QueryKnown
<1>2. DOMAIN r = ActorFields /\ \A o \in Live : <<o, memory[o].text>> \in r.held
  BY <1>1 DEF IsActor, QueryInv, RowsInv
<1>3. ASSUME NEW i PROVE /\ DOMAIN LiveByID(i) = Live \intersect IndexedIDs(i)
                         /\ \A o \in DOMAIN LiveByID(i) : <<o, LiveByID(i)[o]>> \in r.held
  BY <1>2 DEF LiveByID
<1>4. PICK y : y = [r EXCEPT !.live = Live, !.byID = LiveByID(r.idx)]
  OBVIOUS
<1>5. PICK z : z = [r EXCEPT !.idx = idx, !.live = Live, !.byID = LiveByID(idx), !.told = news]
  OBVIOUS
<1> HIDE DEF r
<1>6. /\ DOMAIN y = ActorFields /\ y.idx = r.idx /\ y.live = Live /\ y.byID = LiveByID(r.idx)
      /\ y.asked = r.asked /\ y.held = r.held
  BY <1>2, <1>4 DEF ActorFields
<1>7. /\ DOMAIN z = ActorFields /\ z.idx = idx /\ z.live = Live /\ z.byID = LiveByID(idx)
      /\ z.asked = r.asked /\ z.held = r.held
  BY <1>2, <1>5 DEF ActorFields
<1>8. r.asked \in Nat /\ r.asked <= StampOf(manifest) /\ NotOlder(r.idx, r.asked)
      /\ r.idx.kind \in Kinds
  BY <1>1 DEF QueryInv, FreshInv, IsActor
<1>9. Ready(y)
  BY <1>1, <1>2, <1>3, <1>6, <1>8 DEF Ready
<1>10. Ready(z)
  BY <1>1, <1>2, <1>3, <1>7, <1>8 DEF Ready, r
<1> QED BY <1>4, <1>5, <1>9, <1>10 DEF r

LEMMA SnapshotKeeps ==
  ASSUME IndexInv, NEW q \in Queries, Snapshot(q)
  PROVE  IndexInv'
<1> DEFINE r == act[q]
           noticed == [r EXCEPT !.live = Live, !.byID = LiveByID(r.idx)]
           unread == [r EXCEPT !.at = "answered", !.covered = TRUE,
                               !.told = {"coverage unreadable", "incomplete"}]
<1>1. /\ IsActor(r) /\ QueryInv(r) /\ r.at = "loaded" /\ Kept /\ r.at \notin UnderLock
      /\ cache'.kind \in Kinds
  BY QueryKnown DEF Snapshot, Kept, UnderLock
<1>2. DOMAIN r = ActorFields
  BY <1>1 DEF IsActor
<1>3. Ready(noticed)
  BY <1>1, SnapshotIsReady DEF QueryInv, FreshInv, IsActor
<1>4. Become(q, [noticed EXCEPT !.at = "rows"]) \/ Answers(q, noticed) \/ Become(q, unread)
  BY DEF Snapshot
<1>5. ASSUME Become(q, [noticed EXCEPT !.at = "rows"]) PROVE IndexInv'
  <2> HIDE DEF r
  <2>1. PICK s : s = noticed
    OBVIOUS
  <2>2. /\ DOMAIN s = ActorFields /\ s.fresh = r.fresh /\ s.draft = r.draft /\ s.rows = r.rows
        /\ s.goal = r.goal /\ s.covered = r.covered
    BY <1>2, <2>1 DEF ActorFields
  <2>3. PICK y : y = [s EXCEPT !.at = "rows"]
    OBVIOUS
  <2>4. /\ DOMAIN y = ActorFields /\ y.at = "rows" /\ y.idx = s.idx
        /\ y.fresh = s.fresh /\ y.live = s.live /\ y.byID = s.byID /\ y.rows = s.rows
        /\ y.goal = s.goal /\ y.asked = s.asked /\ y.held = s.held /\ y.covered = s.covered
        /\ y.draft = s.draft
    BY <2>2, <2>3 DEF ActorFields
  <2>5. Ready(s)
    BY <1>3, <2>1
  <2>6. s.held = r.held
    BY <1>2, <2>1 DEF ActorFields
  <2>7. IsActor(y)
    BY <1>1, <2>2, <2>4, <2>5 DEF IsActor, Ready
  <2>8. FreshInv(y)
    BY <1>1, <2>2, <2>4, <2>5, <1>2, <2>1 DEF FreshInv, Ready, QueryInv, ActorFields
  <2>9. RowsInv(y)
    BY <1>1, <2>2, <2>4, <2>5, <2>6 DEF RowsInv, Ready, QueryInv
  <2>10. CoverageInv(y)
    BY <1>1, <2>2, <2>4, <2>5 DEF CoverageInv, Ready, QueryInv
  <2>11. IsQuery(y)
    BY <2>4, <2>7, <2>8, <2>9, <2>10 DEF IsQuery, QueryInv, UnderLock
  <2>12. Become(q, y)
    BY <1>5, <2>1, <2>3
  <2> QED BY <1>1, <2>11, <2>12, ReadingStep DEF r
<1>6. ASSUME Answers(q, noticed) PROVE IndexInv'
  <2>1. PICK y : Become(q, y) /\ IsQuery(y)
    BY <1>3, <1>6, AnswersIsSound
  <2> QED BY <1>1, <2>1, ReadingStep
<1>7. ASSUME Become(q, unread) PROVE IndexInv'
  <2> HIDE DEF r
  <2>1. PICK y : y = unread
    OBVIOUS
  <2>2. /\ DOMAIN y = ActorFields /\ y.at = "answered" /\ y.idx = r.idx
        /\ y.fresh = r.fresh /\ y.live = r.live /\ y.byID = r.byID /\ y.rows = r.rows
        /\ y.goal = r.goal /\ y.asked = r.asked /\ y.held = r.held /\ y.covered = TRUE
        /\ y.draft = r.draft /\ "incomplete" \in y.told
    BY <1>2, <2>1 DEF ActorFields
  <2>3. IsActor(y)
    BY <1>1, <2>2 DEF IsActor
  <2>4. FreshInv(y) /\ RowsInv(y) /\ CoverageInv(y)
    BY <1>1, <2>2 DEF FreshInv, RowsInv, CoverageInv, QueryInv
  <2>5. IsQuery(y)
    BY <2>2, <2>3, <2>4 DEF IsQuery, QueryInv, UnderLock
  <2> QED BY <1>1, <1>7, <2>1, <2>5, ReadingStep DEF r
<1> QED BY <1>4, <1>5, <1>6, <1>7

(* A query that goes back to what it held, with more to say of it.         *)
LEMMA ReadyAgain ==
  ASSUME NEW r, IsActor(r), QueryInv(r), r.at # "idle", NEW news
  PROVE  /\ Ready([r EXCEPT !.told = news])
         /\ Ready([r EXCEPT !.read = NoFile, !.stat = 0, !.told = news])
<1>1. DOMAIN r = ActorFields
  BY DEF IsActor
<1>2. PICK y : y = [r EXCEPT !.told = news]
  OBVIOUS
<1>3. PICK z : z = [r EXCEPT !.read = NoFile, !.stat = 0, !.told = news]
  OBVIOUS
<1>4. /\ DOMAIN y = ActorFields /\ y.idx = r.idx /\ y.live = r.live /\ y.byID = r.byID
      /\ y.asked = r.asked /\ y.held = r.held
  BY <1>1, <1>2 DEF ActorFields
<1>5. /\ DOMAIN z = ActorFields /\ z.idx = r.idx /\ z.live = r.live /\ z.byID = r.byID
      /\ z.asked = r.asked /\ z.held = r.held
  BY <1>1, <1>3 DEF ActorFields
<1>6. Ready(y) /\ Ready(z)
  BY <1>4, <1>5 DEF Ready, IsActor, QueryInv, FreshInv, RowsInv, CoverageInv
<1> QED BY <1>2, <1>3, <1>6

LEMMA ResnapshotKeeps ==
  ASSUME IndexInv, NEW q \in Queries, Resnapshot(q)
  PROVE  IndexInv'
<1> DEFINE r == act[q]
           fresh == r.fresh
<1>1. /\ IsActor(r) /\ QueryInv(r) /\ r.at = "reloaded" /\ Kept /\ r.at \notin UnderLock
      /\ cache'.kind \in Kinds
  BY QueryKnown DEF Resnapshot, Kept, UnderLock
<1>2. \/ Answers(q, [r EXCEPT !.idx = fresh, !.live = Live, !.byID = LiveByID(fresh),
                              !.told = r.told \union {"topped up"}])
      \/ Answers(q, [r EXCEPT !.told = r.told \union {"coverage unreadable"}])
  BY DEF Resnapshot
<1>3. fresh.kind \in Kinds /\ NotOlder(fresh, r.asked) /\ r.at # "idle"
  BY <1>1 DEF IsActor, QueryInv, FreshInv
<1>4. PICK s : Ready(s) /\ Answers(q, s)
  <2>1. \A news : Ready([r EXCEPT !.idx = fresh, !.live = Live, !.byID = LiveByID(fresh),
                                  !.told = news])
    BY <1>3, SnapshotIsReady
  <2>2. \A news : Ready([r EXCEPT !.told = news])
    BY <1>1, <1>3, ReadyAgain
  <2> HIDE DEF r, fresh
  <2> QED BY <1>2, <2>1, <2>2
<1>5. PICK y : Become(q, y) /\ IsQuery(y)
  BY <1>4, AnswersIsSound
<1> QED BY <1>1, <1>5, ReadingStep

LEMMA ReloadKeeps ==
  ASSUME IndexInv, NEW q \in Queries, Reload(q)
  PROVE  IndexInv'
<1> DEFINE r == act[q]
<1>1. /\ IsActor(r) /\ QueryInv(r) /\ r.at = "built" /\ Kept /\ r.at \notin UnderLock
      /\ cache'.kind \in Kinds
  BY QueryKnown DEF Reload, Kept, UnderLock, NoIndex, Kinds
<1>2. DOMAIN r = ActorFields
  BY <1>1 DEF IsActor
<1>3. PICK y : Become(q, y) /\ y = [r EXCEPT !.at = "remanifest", !.stat = StampOf(manifest)]
  BY DEF Reload
<1> HIDE DEF r
<1>4. /\ DOMAIN y = ActorFields /\ y.at = "remanifest" /\ y.idx = r.idx
      /\ y.fresh = r.fresh /\ y.live = r.live /\ y.byID = r.byID /\ y.rows = r.rows
      /\ y.goal = r.goal /\ y.asked = r.asked /\ y.held = r.held /\ y.covered = r.covered
      /\ y.draft = r.draft
  BY <1>2, <1>3 DEF ActorFields
<1>5. IsActor(y)
  BY <1>1, <1>4 DEF IsActor
<1>6. FreshInv(y) /\ RowsInv(y) /\ CoverageInv(y)
  BY <1>1, <1>4 DEF FreshInv, RowsInv, CoverageInv, QueryInv
<1>7. IsQuery(y)
  BY <1>4, <1>5, <1>6 DEF IsQuery, QueryInv, UnderLock
<1> QED BY <1>1, <1>3, <1>7, ReadingStep DEF r

LEMMA RereadBlobKeeps ==
  ASSUME IndexInv, NEW q \in Queries, RereadBlob(q)
  PROVE  IndexInv'
<1> DEFINE r == act[q]
           idx == Loaded(r.read, blob)
           back == [r EXCEPT !.read = NoFile, !.stat = 0]
<1>1. /\ IsActor(r) /\ QueryInv(r) /\ r.at = "reblob" /\ Kept /\ r.at \notin UnderLock
  BY QueryKnown DEF RereadBlob, Kept, UnderLock
<1>2. DOMAIN r = ActorFields
  BY <1>1 DEF IsActor
<1>3. NotOlder(idx, r.asked) /\ idx.kind \in Kinds
  BY <1>1, LoadedNotOlder DEF QueryInv
<1>4. CASE idx.kind = "index"
  <2>1. cache' = [idx EXCEPT !.stamp = r.stat]
    BY <1>4 DEF RereadBlob
  <2>2. cache'.kind \in Kinds
    BY <1>4, <2>1, CachedKinds
  <2>3. PICK y : Become(q, y) /\ y = [back EXCEPT !.at = "reloaded", !.fresh = idx]
    BY <1>4 DEF RereadBlob
  <2>4. PICK b : b = back
    OBVIOUS
  <2> HIDE DEF r, idx
  <2>5. /\ DOMAIN b = ActorFields /\ b.idx = r.idx
        /\ b.live = r.live /\ b.byID = r.byID /\ b.rows = r.rows
        /\ b.goal = r.goal /\ b.asked = r.asked /\ b.held = r.held /\ b.covered = r.covered
        /\ b.draft = r.draft
    BY <1>2, <2>4 DEF ActorFields
  <2>6. /\ DOMAIN y = ActorFields /\ y.at = "reloaded" /\ y.idx = b.idx
        /\ y.fresh = idx /\ y.live = b.live /\ y.byID = b.byID /\ y.rows = b.rows
        /\ y.goal = b.goal /\ y.asked = b.asked /\ y.held = b.held /\ y.covered = b.covered
        /\ y.draft = b.draft
    BY <2>3, <2>4, <2>5 DEF ActorFields
  <2>7. IsActor(y)
    BY <1>1, <1>3, <2>5, <2>6 DEF IsActor
  <2>8. FreshInv(y)
    BY <1>1, <1>3, <2>5, <2>6 DEF FreshInv, QueryInv
  <2>9. RowsInv(y) /\ CoverageInv(y)
    BY <1>1, <2>5, <2>6 DEF RowsInv, CoverageInv, QueryInv
  <2>10. IsQuery(y)
    BY <2>6, <2>7, <2>8, <2>9 DEF IsQuery, QueryInv, UnderLock
  <2> QED BY <1>1, <2>2, <2>3, <2>10, ReadingStep DEF r
<1>5. CASE idx.kind # "index"
  <2>1. /\ cache' = NoIndex
        /\ Answers(q, [back EXCEPT !.told = back.told \union {"top-up failed"}])
    BY <1>5 DEF RereadBlob
  <2>2. cache'.kind \in Kinds
    BY <2>1 DEF NoIndex, Kinds
  <2>3. r.at # "idle"
    BY <1>1
  <2> DEFINE news == back.told \union {"top-up failed"}
  <2>4. [back EXCEPT !.told = news]
          = [r EXCEPT !.read = NoFile, !.stat = 0, !.told = news]
    <3> HIDE DEF r, news
    <3> QED OBVIOUS
  <2>5. Ready([back EXCEPT !.told = news])
    <3>1. Ready([r EXCEPT !.read = NoFile, !.stat = 0, !.told = news])
      BY <1>1, <2>3, ReadyAgain
    <3> QED BY <2>4, <3>1
  <2>6. Answers(q, [back EXCEPT !.told = news])
    BY <2>1
  <2>7. PICK y : Become(q, y) /\ IsQuery(y)
    BY <2>5, <2>6, AnswersIsSound
  <2> QED BY <1>1, <2>2, <2>7, ReadingStep
<1> QED BY <1>4, <1>5

(* Builds.  One that leaves the lock, or never gets it.                    *)
Outside(a, r) ==
  /\ IsActor(r) /\ (a \in Indexers => r.at = "idle")
  /\ a \in Queries => IsQuery(r)

LEMMA IdleIsActor == IsActor(Idle) /\ Idle.at = "idle"
BY DEF IsActor, Idle, ActorFields, DraftFields, Kinds, NoIndex

LEMMA GiveUpLeaves ==
  ASSUME IndexInv, NEW a \in Actors, act[a].at \in UnderLock \union {"locking"}, GiveUp(a)
  PROVE  \E r : Become(a, r) /\ Outside(a, r) /\ r.at \in {"idle", "answered"}
<1>1. CASE a \in Indexers
  <2>1. Become(a, Idle)
    BY <1>1 DEF GiveUp
  <2>2. IsActor(Idle) /\ Idle.at = "idle"
    BY IdleIsActor
  <2> QED BY <1>1, <2>1, <2>2, ActorsAssumption DEF Outside
<1>2. CASE a \notin Indexers
  <2>1. a \in Queries
    BY <1>2 DEF Actors
  <2>2. IsActor(act[a]) /\ QueryInv(act[a]) /\ act[a].at # "idle"
    BY <2>1, QueryKnown DEF UnderLock
  <2>3. Answers(a, [act[a] EXCEPT !.told = act[a].told \union {"top-up failed"}])
    BY <1>2 DEF GiveUp
  <2>4. Ready([act[a] EXCEPT !.told = act[a].told \union {"top-up failed"}])
    BY <2>2, ReadyAgain
  <2>5. PICK r : Become(a, r) /\ IsQuery(r) /\ r.at = "answered"
    BY <2>3, <2>4, AnswersIsSound
  <2> QED BY <1>2, <2>5 DEF Outside, IsQuery
<1> QED BY <1>1, <1>2

(* What is drafted are the fingerprints of the rows that were read.        *)
LEMMA RowsAreDrafted ==
  ASSUME FilesTypes
  PROVE  [i \in DOMAIN InOrder(Live) |->
            Fingerprint(InOrder(Live)[i], memory[InOrder(Live)[i]].text)] \in Seq(Fingerprints)
<1>1. Live \in SUBSET Nat /\ IsFiniteSet(Live) /\ Live \in SUBSET Observations
  <2>1. Live \in SUBSET Observations
    BY DEF Live
  <2> QED BY <2>1, ObservationsAssumption, FS_Subset
<1> DEFINE n == Cardinality(Live)
           rows == InOrder(Live)
<1>2. n \in Nat /\ rows \in [1..n -> Live]
  BY <1>1, RowsInOrder
<1> HIDE DEF n, rows
<1>3. ASSUME NEW i \in 1..n PROVE Fingerprint(rows[i], memory[rows[i]].text) \in Fingerprints
  <2>1. rows[i] \in Observations
    BY <1>1, <1>2
  <2>2. memory[rows[i]].text \in 0..2
    BY <2>1 DEF FilesTypes
  <2> QED BY <2>1, <2>2 DEF Fingerprint, Fingerprints
<1>4. DOMAIN rows = 1..n
  BY <1>2
<1>5. [i \in 1..n |-> Fingerprint(rows[i], memory[rows[i]].text)] \in [1..n -> Fingerprints]
  BY <1>3
<1>6. [i \in 1..n |-> Fingerprint(rows[i], memory[rows[i]].text)] \in Seq(Fingerprints)
  BY <1>2, <1>5
<1> QED BY <1>4, <1>6 DEF rows

LEMMA ReadRowsKeeps ==
  ASSUME IndexInv, NEW a \in Actors, ReadRows(a)
  PROVE  IndexInv'
<1> DEFINE r == act[a]
           listed == [i \in DOMAIN InOrder(Live) |->
                       Fingerprint(InOrder(Live)[i], memory[InOrder(Live)[i]].text)]
<1>1. IsActor(r) /\ BuildInv(a) /\ FilesTypes
  BY DEF IndexInv, BuildInv
<1>2. r.at \in {"idle", "rows"} /\ (a \in Queries => r.at = "rows")
  BY ActorsAssumption DEF ReadRows, Actors
<1>3. listed \in Seq(Fingerprints)
  BY <1>1, RowsAreDrafted
<1>4. PICK y : Become(a, y) /\ y = [r EXCEPT !.at = "locking", !.draft.entries = listed]
  BY DEF ReadRows
<1>5. DOMAIN r = ActorFields /\ DOMAIN r.draft = DraftFields
  BY <1>1 DEF IsActor
<1> HIDE DEF listed
<1>6. act'[a] = y /\ DOMAIN act' = Actors /\ act' = [b \in Actors |-> act'[b]]
      /\ \A b \in Actors \ {a} : act'[b] = act[b]
  BY <1>1, <1>4 DEF Become, FilesTypes
<1> HIDE DEF r
<1>7. /\ DOMAIN y = ActorFields /\ y.at = "locking" /\ y.idx = r.idx
      /\ y.fresh = r.fresh /\ y.live = r.live /\ y.byID = r.byID /\ y.rows = r.rows
      /\ y.goal = r.goal /\ y.asked = r.asked /\ y.held = r.held /\ y.covered = r.covered
      /\ y.draft = [r.draft EXCEPT !.entries = listed] /\ y.told = r.told
  BY <1>4, <1>5 DEF ActorFields
<1>8. DOMAIN y.draft = DraftFields /\ y.draft.entries = listed
  BY <1>5, <1>7 DEF DraftFields
<1>9. IsActor(y)
  BY <1>1, <1>7, <1>8 DEF IsActor
<1>10. UNCHANGED <<memory, manifest, blob, builder, torn>> /\ FilesTypes'
  BY <1>1, <1>6 DEF ReadRows, FilesTypes, Live
<1>11. builder # a
  BY <1>1, <1>2 DEF BuildInv, UnderLock, r
<1>12. BuildInv(a)'
  BY <1>3, <1>6, <1>7, <1>8, <1>9, <1>10, <1>11 DEF BuildInv, IsActor, UnderLock
<1>13. BuildsDoNotMix'
  <2>1. (\A b \in Actors : act'[b].at # "between") => (\A b \in Actors : act[b].at # "between")
    BY <1>2, <1>6 DEF r
  <2> QED BY <1>10, <2>1 DEF BuildsDoNotMix, IndexInv
<1>14. ASSUME a \in Queries PROVE QueryInv(act[a])'
  <2>1. QueryInv(r)
    BY <1>14 DEF IndexInv, r
  <2>2. r.at = "rows"
    BY <1>2, <1>14
  <2>3. FreshInv(act[a])'
    BY <1>6, <1>7, <1>10, <2>1, <2>2 DEF QueryInv, FreshInv, NotOlder, StampOf
  <2>4. RowsInv(act[a])'
    BY <1>6, <1>7, <1>10, <2>1, <2>2 DEF QueryInv, RowsInv, Live, TopicVisibleUnderGoal
  <2>5. CoverageInv(act[a])'
    BY <1>6, <1>7, <2>1, <2>2 DEF QueryInv, CoverageInv, IndexedIDs
  <2> QED BY <2>3, <2>4, <2>5 DEF QueryInv
<1>15. StampOf(manifest') >= StampOf(manifest)
  BY <1>1, <1>10, StampIsNat DEF StampOf
<1>16. Become(a, y)
  BY <1>4
<1> QED BY <1>10, <1>12, <1>13, <1>14, <1>15, <1>16, ActorStep

(* A step of a build that leaves the lock, or goes on without it.          *)
LEMMA LeavingStep ==
  ASSUME IndexInv, NEW a \in Actors, act[a].at \in UnderLock \union {"locking"},
         NEW r, Become(a, r), Outside(a, r), FilesTypes',
         UNCHANGED <<memory, manifest, blob>>, builder' # a,
         \A b \in Actors \ {a} : builder' = b <=> builder = b,
         UNCHANGED torn \/ (builder = a /\ torn'),
         act[a].at = "between" => torn'
  PROVE  IndexInv'
<1>1. act'[a] = r /\ \A b \in Actors \ {a} : act'[b] = act[b]
  BY DEF Become, IndexInv, FilesTypes
<1>2. r.at \notin UnderLock /\ r.at # "locking" /\ r.at # "between" /\ IsActor(r)
      /\ (a \in Indexers => r.at = "idle")
  BY DEF Outside, IsQuery, UnderLock, Actors
<1>3. BuildInv(a)'
  BY <1>1, <1>2 DEF BuildInv, IsActor
<1>4. BuildsDoNotMix'
  <2> SUFFICES ASSUME ~torn', \A b \in Actors : act'[b].at # "between", manifest' # NoFile
               PROVE  (blob = manifest.entries)'
    BY DEF BuildsDoNotMix
  <2>1. ~torn
    OBVIOUS
  <2>2. \A b \in Actors : act[b].at # "between"
    BY <1>1
  <2> QED BY <2>1, <2>2 DEF IndexInv, BuildsDoNotMix
<1>5. ASSUME a \in Queries PROVE QueryInv(act[a])'
  <2>1. QueryInv(r)
    BY <1>5 DEF Outside, IsQuery
  <2>2. FreshInv(act[a])'
    BY <1>1, <2>1 DEF QueryInv, FreshInv, NotOlder, StampOf
  <2>3. RowsInv(act[a])'
    BY <1>1, <2>1 DEF QueryInv, RowsInv, Live, TopicVisibleUnderGoal
  <2>4. CoverageInv(act[a])'
    BY <1>1, <2>1 DEF QueryInv, CoverageInv, IndexedIDs
  <2> QED BY <2>2, <2>3, <2>4 DEF QueryInv
<1>6. StampOf(manifest') >= StampOf(manifest)
  BY StampIsNat DEF StampOf, IndexInv
<1>7. builder = a \/ UNCHANGED <<blob, torn>>
  OBVIOUS
<1> QED BY <1>3, <1>4, <1>5, <1>6, <1>7, ActorStep

LEMMA EmbedKeeps ==
  ASSUME IndexInv, NEW a \in Actors, Embed(a)
  PROVE  IndexInv'
<1> DEFINE r == act[a]
           idx == Loaded(manifest, blob)
           embedded == [i \in DOMAIN r.draft.entries |-> VectorFor(idx, r.draft.entries[i])]
<1>1. /\ IsActor(r) /\ BuildInv(a) /\ FilesTypes /\ r.at = "locking" /\ builder = NoFile
      /\ UNCHANGED <<memory, saves, manifest, blob, cache, torn, stops>>
  BY DEF IndexInv, BuildInv, Embed
<1>2. NoFile # a /\ \A b \in Actors : act[b].at # "between"
  <2>1. ASSUME NEW b \in Actors PROVE act[b].at # "between"
    BY <1>1, ActorsAssumption DEF IndexInv, BuildInv, UnderLock
  <2> QED BY <2>1, ActorsAssumption
<1>3. CASE /\ idx.kind # "corrupted" /\ builder' = a
           /\ Become(a, [r EXCEPT !.at = "saving", !.draft.vectors = embedded])
  <2>1. ~torn => idx.vectors = idx.entries
    <3>1. ASSUME ~torn, idx.kind = "index" PROVE idx.vectors = idx.entries
      <4>1. manifest # NoFile /\ idx.entries = manifest.entries /\ idx.vectors = blob
        BY <3>1, LoadedKinds
      <4>2. blob = manifest.entries
        BY <1>2, <3>1, <4>1 DEF IndexInv, BuildsDoNotMix
      <4> QED BY <4>1, <4>2
    <3>2. ASSUME idx.kind = "none" PROVE idx.vectors = idx.entries
      <4>1. idx = NoIndex
        BY <3>2, LoadedKinds
      <4> QED BY <4>1 DEF NoIndex
    <3>3. idx.kind \in Kinds
      BY LoadedKinds
    <3> QED BY <1>3, <3>1, <3>2, <3>3 DEF Kinds
  <2>2. r.draft.entries \in Seq(Fingerprints)
    BY <1>1 DEF BuildInv, UnderLock
  <2>3. ~torn => embedded = r.draft.entries
    <3> SUFFICES ASSUME ~torn PROVE embedded = r.draft.entries
      OBVIOUS
    <3> DEFINE drafted == r.draft.entries
    <3>1. ASSUME NEW i \in DOMAIN drafted PROVE VectorFor(idx, drafted[i]) = drafted[i]
      BY <2>1, OwnVector
    <3>2. drafted = [i \in DOMAIN drafted |-> drafted[i]]
      <4> HIDE DEF r
      <4> QED BY <2>2
    <3> HIDE DEF idx, r
    <3> QED BY <3>1, <3>2
  <2>4. PICK y : Become(a, y) /\ y = [r EXCEPT !.at = "saving", !.draft.vectors = embedded]
    BY <1>3
  <2> HIDE DEF embedded
  <2>5. act'[a] = y /\ DOMAIN act' = Actors /\ act' = [b \in Actors |-> act'[b]]
        /\ \A b \in Actors \ {a} : act'[b] = act[b]
    BY <1>1, <2>4 DEF Become, FilesTypes
  <2>6. DOMAIN r = ActorFields /\ DOMAIN r.draft = DraftFields
    BY <1>1 DEF IsActor
  <2> HIDE DEF r
  <2>7. /\ DOMAIN y = ActorFields /\ y.at = "saving" /\ y.idx = r.idx
        /\ y.fresh = r.fresh /\ y.live = r.live /\ y.byID = r.byID /\ y.rows = r.rows
        /\ y.goal = r.goal /\ y.asked = r.asked /\ y.held = r.held /\ y.covered = r.covered
        /\ y.draft = [r.draft EXCEPT !.vectors = embedded] /\ y.told = r.told
    BY <2>4, <2>6 DEF ActorFields
  <2>8. DOMAIN y.draft = DraftFields /\ y.draft.entries = r.draft.entries
        /\ y.draft.vectors = embedded
    BY <2>6, <2>7 DEF DraftFields
  <2>9. IsActor(y)
    BY <1>1, <2>7, <2>8 DEF IsActor
  <2>10. FilesTypes'
    BY <1>1, <1>3, <2>5 DEF FilesTypes, Live
  <2>11. BuildInv(a)'
    <3>1. y.at \in UnderLock /\ y.at # "between"
      BY <2>7 DEF UnderLock
    <3>2. y.draft.entries \in Seq(Fingerprints) /\ (~torn => y.draft.vectors = y.draft.entries)
      BY <2>2, <2>3, <2>8 DEF r
    <3>3. act'[a] = y /\ builder' = a /\ torn' = torn
      BY <1>1, <1>3, <2>5
    <3> QED BY <2>9, <3>1, <3>2, <3>3 DEF BuildInv, IsActor
  <2>12. BuildsDoNotMix'
    BY <1>1, <1>2 DEF BuildsDoNotMix, IndexInv
  <2>13. ASSUME a \in Queries PROVE QueryInv(act[a])'
    <3>1. QueryInv(r)
      BY <2>13 DEF IndexInv, r
    <3>2. FreshInv(act[a])'
      BY <1>1, <2>5, <2>7, <3>1 DEF QueryInv, FreshInv, NotOlder, StampOf
    <3>3. RowsInv(act[a])'
      BY <1>1, <2>5, <2>7, <3>1 DEF QueryInv, RowsInv, Live, TopicVisibleUnderGoal, r
    <3>4. CoverageInv(act[a])'
      BY <1>1, <2>5, <2>7, <3>1 DEF QueryInv, CoverageInv, IndexedIDs, r
    <3> QED BY <3>2, <3>3, <3>4 DEF QueryInv
  <2>14. StampOf(manifest') >= StampOf(manifest)
    BY <1>1, StampIsNat DEF StampOf
  <2>15. \A b \in Actors \ {a} : builder' = b <=> builder = b
    BY <1>1, <1>3, ActorsAssumption
  <2> QED BY <1>1, <2>4, <2>10, <2>11, <2>12, <2>13, <2>14, <2>15, ActorStep
<1>4. CASE GiveUp(a) /\ UNCHANGED builder
  <2>1. PICK y : Become(a, y) /\ Outside(a, y)
    BY <1>1, <1>4, GiveUpLeaves
  <2>2. DOMAIN act' = Actors /\ act' = [b \in Actors |-> act'[b]]
    BY <1>1, <2>1 DEF Become, FilesTypes
  <2>3. FilesTypes'
    BY <1>1, <1>4, <2>2 DEF FilesTypes, Live
  <2>4. act[a].at \in UnderLock \union {"locking"} /\ act[a].at # "between"
    BY <1>1
  <2>5. builder' # a /\ UNCHANGED torn
    BY <1>1, <1>2, <1>4
  <2>6. \A b \in Actors \ {a} : builder' = b <=> builder = b
    BY <1>4
  <2> QED BY <1>1, <2>1, <2>3, <2>4, <2>5, <2>6, LeavingStep
<1> QED BY <1>3, <1>4 DEF Embed

LEMMA FailWriteKeeps ==
  ASSUME IndexInv, NEW a \in Actors, FailWrite(a)
  PROVE  IndexInv'
<1>1. /\ BuildInv(a) /\ FilesTypes /\ act[a].at \in UnderLock
      /\ UNCHANGED <<memory, saves, manifest, blob, cache>> /\ builder' = NoFile
      /\ stops < MaxStops /\ stops' = stops + 1
  BY DEF IndexInv, BuildInv, FailWrite, UnderLock
<1>2. builder = a /\ NoFile # a
  BY <1>1, ActorsAssumption DEF BuildInv
<1>3. PICK y : Become(a, y) /\ Outside(a, y)
  BY <1>1, GiveUpLeaves DEF FailWrite
<1>4. DOMAIN act' = Actors /\ act' = [b \in Actors |-> act'[b]]
  BY <1>1, <1>3 DEF Become, FilesTypes
<1>5. torn' \in BOOLEAN /\ (act[a].at = "between" => torn') /\ (UNCHANGED torn \/ torn')
  <2>1. torn \in BOOLEAN
    BY <1>1 DEF FilesTypes
  <2>2. torn' = (torn \/ act[a].at = "between")
    BY DEF FailWrite
  <2> QED BY <2>1, <2>2
<1>6. stops' \in 0..MaxStops
  BY <1>1, IndexBoundsAssumption DEF FilesTypes
<1>7. FilesTypes'
  BY <1>1, <1>4, <1>5, <1>6 DEF FilesTypes, Live
<1>8. \A b \in Actors \ {a} : builder' = b <=> builder = b
  BY <1>1, <1>2, ActorsAssumption
<1>9. UNCHANGED <<memory, manifest, blob>> /\ builder' # a
  BY <1>1, <1>2
<1>10. UNCHANGED torn \/ (builder = a /\ torn')
  BY <1>2, <1>5
<1> QED BY <1>1, <1>3, <1>5, <1>7, <1>8, <1>9, <1>10, LeavingStep

LEMMA WriteBlobKeeps ==
  ASSUME IndexInv, NEW a \in Actors, WriteBlob(a)
  PROVE  IndexInv'
<1> DEFINE r == act[a]
<1>1. /\ IsActor(r) /\ BuildInv(a) /\ FilesTypes /\ r.at = "saving"
      /\ UNCHANGED <<memory, saves, manifest, builder, cache, torn, stops>>
      /\ blob' = r.draft.vectors
  BY DEF IndexInv, BuildInv, WriteBlob
<1>2. builder = a
  BY <1>1 DEF BuildInv, UnderLock
<1>3. PICK y : Become(a, y) /\ y = [r EXCEPT !.at = "between"]
  BY DEF WriteBlob
<1>4. act'[a] = y /\ DOMAIN act' = Actors /\ act' = [b \in Actors |-> act'[b]]
  BY <1>1, <1>3 DEF Become, FilesTypes
<1>5. DOMAIN r = ActorFields
  BY <1>1 DEF IsActor
<1> HIDE DEF r
<1>6. /\ DOMAIN y = ActorFields /\ y.at = "between" /\ y.idx = r.idx
      /\ y.fresh = r.fresh /\ y.live = r.live /\ y.byID = r.byID /\ y.rows = r.rows
      /\ y.goal = r.goal /\ y.asked = r.asked /\ y.held = r.held /\ y.covered = r.covered
      /\ y.draft = r.draft /\ y.told = r.told
  BY <1>3, <1>5 DEF ActorFields
<1>7. IsActor(y)
  BY <1>1, <1>6 DEF IsActor
<1>8. FilesTypes'
  BY <1>1, <1>4 DEF FilesTypes, Live
<1>9. BuildInv(a)'
  <2>1. r.draft.entries \in Seq(Fingerprints) /\ (~torn => r.draft.vectors = r.draft.entries)
    BY <1>1 DEF BuildInv, UnderLock, r
  <2>2. y.at \in UnderLock
    BY <1>6 DEF UnderLock
  <2> QED BY <1>1, <1>2, <1>4, <1>6, <1>7, <2>1, <2>2 DEF BuildInv, IsActor
<1>10. BuildsDoNotMix'
  BY <1>4, <1>6 DEF BuildsDoNotMix
<1>11. ASSUME a \in Queries PROVE QueryInv(act[a])'
  <2>1. QueryInv(r)
    BY <1>11 DEF IndexInv, r
  <2>2. FreshInv(act[a])'
    BY <1>1, <1>4, <1>6, <2>1 DEF QueryInv, FreshInv, NotOlder, StampOf
  <2>3. RowsInv(act[a])'
    BY <1>1, <1>4, <1>6, <2>1 DEF QueryInv, RowsInv, Live, TopicVisibleUnderGoal
  <2>4. CoverageInv(act[a])'
    BY <1>1, <1>4, <1>6, <2>1 DEF QueryInv, CoverageInv, IndexedIDs
  <2> QED BY <2>2, <2>3, <2>4 DEF QueryInv
<1>12. StampOf(manifest') >= StampOf(manifest)
  BY <1>1, StampIsNat DEF StampOf
<1>13. \A b \in Actors \ {a} : builder' = b <=> builder = b
  BY <1>1
<1> QED BY <1>1, <1>2, <1>3, <1>8, <1>9, <1>10, <1>11, <1>12, <1>13, ActorStep

LEMMA WriteManifestKeeps ==
  ASSUME IndexInv, NEW a \in Actors, WriteManifest(a)
  PROVE  IndexInv'
<1> DEFINE r == act[a]
           written == [stamp |-> StampOf(manifest) + 1, entries |-> r.draft.entries]
<1>1. /\ IsActor(r) /\ BuildInv(a) /\ FilesTypes /\ r.at = "between"
      /\ UNCHANGED <<memory, saves, blob, cache, stops>>
      /\ manifest' = written /\ builder' = NoFile
      /\ torn' = IF r.draft.vectors = r.draft.entries THEN FALSE ELSE torn
  BY DEF IndexInv, BuildInv, WriteManifest
<1>2. builder = a /\ NoFile # a /\ r.draft.entries \in Seq(Fingerprints) /\ blob = r.draft.vectors
      /\ StampOf(manifest) \in Nat
  BY <1>1, ActorsAssumption, StampIsNat DEF BuildInv, UnderLock
<1>3. written \in Manifests /\ written # NoFile
  <2>1. written \in Manifests
    BY <1>2 DEF Manifests
  <2> QED BY <2>1, NoFileAssumption DEF Manifests, Fingerprints
<1>4. StampOf(manifest') = StampOf(manifest) + 1
  BY <1>1, <1>3 DEF StampOf
<1>5. PICK y : Become(a, y) /\ y = IF a \in Indexers THEN Idle
                                  ELSE [r EXCEPT !.at = "built", !.draft = Idle.draft]
  BY DEF WriteManifest
<1>6. act'[a] = y /\ DOMAIN act' = Actors /\ act' = [b \in Actors |-> act'[b]]
      /\ \A b \in Actors \ {a} : act'[b] = act[b]
  BY <1>1, <1>5 DEF Become, FilesTypes
<1>7. torn' \in BOOLEAN
  BY <1>1 DEF FilesTypes
<1>8. FilesTypes'
  BY <1>1, <1>3, <1>6, <1>7 DEF FilesTypes, Live
<1>9. BuildsDoNotMix'
  <2> SUFFICES ASSUME ~torn' PROVE (blob = manifest.entries)'
    BY DEF BuildsDoNotMix
  <2>1. r.draft.vectors = r.draft.entries
    BY <1>1 DEF BuildInv, UnderLock
  <2> QED BY <1>1, <1>2, <2>1
<1>10. CASE a \in Indexers
  <2>1. y = Idle /\ a \notin Queries
    BY <1>5, <1>10, ActorsAssumption
  <2>2. BuildInv(a)'
    BY <1>1, <1>2, <1>6, <2>1, IdleIsActor DEF BuildInv, IsActor, UnderLock
  <2>3. StampOf(manifest') >= StampOf(manifest)
    BY <1>2, <1>4
  <2>4. \A b \in Actors \ {a} : builder' = b <=> builder = b
    BY <1>1, <1>2, ActorsAssumption
  <2> QED BY <1>1, <1>2, <1>5, <1>8, <1>9, <2>1, <2>2, <2>3, <2>4, ActorStep
<1>11. CASE a \notin Indexers
  <2>1. a \in Queries
    BY <1>11 DEF Actors
  <2>2. DOMAIN r = ActorFields /\ y = [r EXCEPT !.at = "built", !.draft = Idle.draft]
    BY <1>1, <1>5, <1>11 DEF IsActor
  <2>3. QueryInv(r)
    BY <2>1 DEF IndexInv
  <2> HIDE DEF r
  <2>4. /\ DOMAIN y = ActorFields /\ y.at = "built" /\ y.idx = r.idx
        /\ y.fresh = r.fresh /\ y.live = r.live /\ y.byID = r.byID /\ y.rows = r.rows
        /\ y.goal = r.goal /\ y.asked = r.asked /\ y.held = r.held /\ y.covered = r.covered
        /\ y.draft = Idle.draft /\ y.told = r.told
    BY <2>2 DEF ActorFields
  <2>5. IsActor(y)
    BY <1>1, <2>4, IdleIsActor DEF IsActor
  <2>6. BuildInv(a)'
    BY <1>1, <1>2, <1>6, <1>11, <2>4, <2>5 DEF BuildInv, IsActor, UnderLock
  <2>7. FreshInv(act[a])'
    <3>1. r.asked \in Nat /\ r.asked <= StampOf(manifest) /\ NotOlder(r.idx, r.asked)
          /\ NotOlder(r.fresh, r.asked)
      BY <2>3 DEF QueryInv, FreshInv
    <3>2. r.asked <= StampOf(manifest')
      BY <1>2, <1>4, <3>1
    <3> QED BY <1>6, <2>4, <3>1, <3>2 DEF FreshInv, NotOlder, StampOf
  <2>8. RowsInv(act[a])'
    BY <1>1, <1>6, <2>3, <2>4 DEF QueryInv, RowsInv, Live, TopicVisibleUnderGoal
  <2>9. CoverageInv(act[a])'
    BY <1>1, <1>6, <2>3, <2>4 DEF QueryInv, CoverageInv, IndexedIDs
  <2>10. QueryInv(act[a])'
    BY <2>7, <2>8, <2>9 DEF QueryInv
  <2>11. StampOf(manifest') >= StampOf(manifest)
    BY <1>2, <1>4
  <2>12. \A b \in Actors \ {a} : builder' = b <=> builder = b
    BY <1>1, <1>2, ActorsAssumption
  <2> QED BY <1>1, <1>2, <1>5, <1>8, <1>9, <2>6, <2>10, <2>11, <2>12, ActorStep
<1> QED BY <1>10, <1>11

(* The server or an indexer is killed.                                     *)
LEMMA KillKeeps ==
  ASSUME IndexInv, NEW killed \in SUBSET Actors, Kill(killed)
  PROVE  IndexInv'
<1>1. /\ FilesTypes /\ UNCHANGED <<memory, saves, manifest, blob>>
      /\ stops < MaxStops /\ stops' = stops + 1
      /\ builder' = IF builder \in killed THEN NoFile ELSE builder
      /\ act' = [a \in Actors |-> IF a \in killed THEN Idle ELSE act[a]]
  BY DEF IndexInv, Kill
<1>2. /\ DOMAIN act' = Actors /\ act' = [a \in Actors |-> act'[a]]
      /\ \A a \in Actors : act'[a] = IF a \in killed THEN Idle ELSE act[a]
  <2> DEFINE z == Idle
  <2>1. act' = [a \in Actors |-> IF a \in killed THEN z ELSE act[a]]
    BY <1>1
  <2> HIDE DEF z
  <2>2. DOMAIN act' = Actors /\ act' = [a \in Actors |-> act'[a]]
        /\ \A a \in Actors : act'[a] = IF a \in killed THEN z ELSE act[a]
    BY <2>1
  <2> QED BY <2>2 DEF z
<1>3. /\ torn' \in BOOLEAN /\ (torn => torn')
      /\ \A a \in killed : act[a].at = "between" => torn'
  <2>1. torn \in BOOLEAN
    BY <1>1 DEF FilesTypes
  <2>2. torn' = (torn \/ \E a \in killed : act[a].at = "between")
    BY DEF Kill
  <2> QED BY <2>1, <2>2
<1>4. cache'.kind \in Kinds
  BY <1>1 DEF Kill, FilesTypes, NoIndex, Kinds
<1>5. stops' \in 0..MaxStops
  BY <1>1, IndexBoundsAssumption DEF FilesTypes
<1>6. FilesTypes'
  BY <1>1, <1>2, <1>3, <1>4, <1>5 DEF FilesTypes, Live
<1>7. BuildsDoNotMix'
  <2> SUFFICES ASSUME ~torn', \A a \in Actors : act'[a].at # "between", manifest' # NoFile
               PROVE  (blob = manifest.entries)'
    BY DEF BuildsDoNotMix
  <2>1. ~torn /\ \A a \in Actors : act[a].at # "between"
    BY <1>2, <1>3
  <2> QED BY <1>1, <2>1 DEF IndexInv, BuildsDoNotMix
<1>8. ASSUME NEW a \in Actors PROVE BuildInv(a)'
  <2>1. CASE a \in killed
    <3>1. act'[a] = Idle /\ builder' # a
      BY <1>1, <1>2, <2>1, ActorsAssumption
    <3> QED BY <3>1, IdleIsActor DEF BuildInv, IsActor, UnderLock
  <2>2. CASE a \notin killed
    <3>1. act'[a] = act[a] /\ (builder' = a <=> builder = a) /\ BuildInv(a)
      BY <1>1, <1>2, <2>2, ActorsAssumption DEF IndexInv
    <3> QED BY <1>1, <1>3, <3>1 DEF BuildInv, IsActor
  <2> QED BY <2>1, <2>2
<1>9. ASSUME NEW q \in Queries PROVE QueryInv(act[q])'
  <2>0. q \in Actors
    BY DEF Actors
  <2>1. StampOf(manifest) \in Nat /\ UNCHANGED <<memory, manifest>>
    BY <1>1, StampIsNat
  <2>2. CASE q \in killed
    <3>1. act'[q] = Idle
      BY <1>2, <2>0, <2>2
    <3> QED BY <2>1, <3>1
            DEF QueryInv, FreshInv, RowsInv, CoverageInv, NotOlder, StampOf, Idle, NoIndex
  <2>3. CASE q \notin killed
    <3>1. act'[q] = act[q] /\ QueryInv(act[q])
      BY <1>2, <2>0, <2>3 DEF IndexInv
    <3>2. FreshInv(act[q])'
      BY <2>1, <3>1 DEF QueryInv, FreshInv, NotOlder, StampOf
    <3>3. RowsInv(act[q])'
      BY <2>1, <3>1 DEF QueryInv, RowsInv, Live, TopicVisibleUnderGoal
    <3>4. CoverageInv(act[q])'
      BY <3>1 DEF QueryInv, CoverageInv, IndexedIDs
    <3> QED BY <3>2, <3>3, <3>4 DEF QueryInv
  <2> QED BY <2>2, <2>3
<1> QED BY <1>6, <1>7, <1>8, <1>9 DEF IndexInv

(* A person changes the memory: what is live now was live while any actor  *)
(* that is busy ran.                                                       *)
LEMMA RememberKeeps ==
  ASSUME IndexInv, NEW o \in Observations, Remember(o)
  PROVE  IndexInv'
<1> DEFINE alive == {<<p, memory'[p].text>> :
                     p \in {s \in Observations : memory'[s].state = "live"}}
<1>1. /\ FilesTypes /\ saves < MaxSaves /\ saves' = saves + 1
      /\ UNCHANGED <<manifest, blob, builder, cache, torn, stops>>
  BY DEF IndexInv, Remember
<1>2. /\ DOMAIN act' = Actors /\ act' = [a \in Actors |-> act'[a]]
      /\ \A a \in Actors :
           act'[a] = IF act[a].at = "idle" THEN act[a] ELSE [act[a] EXCEPT !.held = @ \union alive]
  <2>1. act' = [a \in Actors |-> IF act[a].at = "idle" THEN act[a]
                                 ELSE [act[a] EXCEPT !.held = @ \union alive]]
    BY DEF Remember
  <2> HIDE DEF alive
  <2> QED BY <2>1
<1>3. ASSUME NEW a \in Actors
      PROVE  /\ DOMAIN act'[a] = ActorFields
             /\ \A f \in ActorFields \ {"held"} : act'[a][f] = act[a][f]
             /\ act[a].held \subseteq act'[a].held
             /\ act[a].at # "idle" => alive \subseteq act'[a].held
  <2>1. DOMAIN act[a] = ActorFields
    BY DEF IndexInv, BuildInv, IsActor
  <2> HIDE DEF alive
  <2>2. CASE act[a].at = "idle"
    BY <1>2, <2>1, <2>2
  <2>3. CASE act[a].at # "idle"
    <3>1. act'[a] = [act[a] EXCEPT !.held = @ \union alive]
      BY <1>2, <2>3
    <3> QED BY <2>1, <3>1 DEF ActorFields
  <2> QED BY <2>2, <2>3
<1>4. memory' \in [Observations -> [state : {"absent", "live", "deleted"}, text : 0..2]]
  <2>1. memory[o] \in [state : {"absent", "live", "deleted"}, text : 0..2]
    BY <1>1 DEF FilesTypes
  <2>2. PICK m \in [state : {"absent", "live", "deleted"}, text : 0..2] :
          memory' = [memory EXCEPT ![o] = m]
    <3>1. CASE memory' = [memory EXCEPT ![o] = [state |-> "live", text |-> 1]]
      <4>1. [state |-> "live", text |-> 1] \in [state : {"absent", "live", "deleted"}, text : 0..2]
        OBVIOUS
      <4> QED BY <3>1, <4>1
    <3>2. CASE memory' = [memory EXCEPT ![o].text = 3 - @] /\ memory[o].state = "live"
      <4>1. memory' = [memory EXCEPT ![o] = [memory[o] EXCEPT !.text = 3 - @]]
        BY <1>1, <3>2 DEF FilesTypes
      <4>2. memory[o].text \in 1..2
        BY <1>1, <2>1, <3>2 DEF FilesTypes, Live
      <4>3. [memory[o] EXCEPT !.text = 3 - @]
              \in [state : {"absent", "live", "deleted"}, text : 0..2]
        BY <2>1, <4>2
      <4> QED BY <4>1, <4>3
    <3>3. CASE memory' = [memory EXCEPT ![o].state = "deleted"]
      <4>1. memory' = [memory EXCEPT ![o] = [memory[o] EXCEPT !.state = "deleted"]]
        BY <1>1, <3>3 DEF FilesTypes
      <4>2. [memory[o] EXCEPT !.state = "deleted"]
              \in [state : {"absent", "live", "deleted"}, text : 0..2]
        BY <2>1
      <4> QED BY <4>1, <4>2
    <3> QED BY <3>1, <3>2, <3>3 DEF Remember
  <2> QED BY <1>1, <2>2 DEF FilesTypes
<1>5. saves' \in 0..MaxSaves
  BY <1>1, IndexBoundsAssumption DEF FilesTypes
<1>6. FilesTypes'
  <2>1. ASSUME NEW p \in Live' PROVE memory'[p].text # 0
    <3>1. CASE p # o
      <4>1. memory'[p] = memory[p]
        BY <1>1, <3>1 DEF Remember, FilesTypes, Live
      <4> QED BY <1>1, <4>1 DEF FilesTypes, Live
    <3>2. CASE p = o
      <4>1. memory[o].text \in 0..2 /\ (memory[o].state = "live" => memory[o].text \in 1..2)
        BY <1>1 DEF FilesTypes, Live
      <4>2. DOMAIN memory[o] = {"state", "text"} /\ DOMAIN memory = Observations
        BY <1>1 DEF FilesTypes
      <4> QED BY <3>2, <4>1, <4>2 DEF Remember, Live
    <3> QED BY <3>1, <3>2
  <2> QED BY <1>1, <1>2, <1>4, <1>5, <2>1 DEF FilesTypes
<1>7. BuildsDoNotMix'
  <2>1. \A a \in Actors : act'[a].at = act[a].at
    BY <1>3 DEF ActorFields
  <2> QED BY <1>1, <2>1 DEF IndexInv, BuildsDoNotMix
<1>8. ASSUME NEW a \in Actors PROVE BuildInv(a)'
  <2>1. BuildInv(a)
    BY DEF IndexInv
  <2>2. /\ DOMAIN act'[a] = ActorFields /\ act'[a].at = act[a].at /\ act'[a].idx = act[a].idx
        /\ act'[a].fresh = act[a].fresh /\ act'[a].draft = act[a].draft
    BY <1>3 DEF ActorFields
  <2> QED BY <1>1, <2>1, <2>2 DEF BuildInv, IsActor
<1>9. ASSUME NEW q \in Queries PROVE QueryInv(act[q])'
  <2> DEFINE r == act[q]
             y == act'[q]
  <2>1. QueryInv(r) /\ q \in Actors
    BY DEF IndexInv, Actors
  <2>2. /\ y.at = r.at /\ y.idx = r.idx /\ y.fresh = r.fresh /\ y.live = r.live
        /\ y.byID = r.byID /\ y.rows = r.rows /\ y.goal = r.goal /\ y.asked = r.asked
        /\ y.covered = r.covered /\ y.told = r.told /\ y.read = r.read
        /\ r.held \subseteq y.held /\ (r.at # "idle" => alive \subseteq y.held)
    <3> HIDE DEF alive
    <3> QED BY <1>3, <2>1 DEF ActorFields
  <2>3. FreshInv(act[q])'
    BY <1>1, <2>1, <2>2 DEF QueryInv, FreshInv, NotOlder, StampOf
  <2>4. RowsInv(act[q])'
    <3>1. \A p \in Live' : <<p, memory'[p].text>> \in alive
      BY DEF Live
    <3> HIDE DEF alive
    <3> QED BY <2>1, <2>2, <3>1 DEF QueryInv, RowsInv, TopicVisibleUnderGoal
  <2>5. CoverageInv(act[q])'
    BY <2>1, <2>2 DEF QueryInv, CoverageInv, IndexedIDs
  <2> QED BY <2>3, <2>4, <2>5 DEF QueryInv
<1> QED BY <1>6, <1>7, <1>8, <1>9 DEF IndexInv

LEMMA IndexStep == IndexInv /\ [IndexNext]_indexVars => IndexInv'
<1> SUFFICES ASSUME IndexInv, [IndexNext]_indexVars PROVE IndexInv'
  OBVIOUS
<1>1. ASSUME NEW o \in Observations, Remember(o) PROVE IndexInv'
  BY <1>1, RememberKeeps
<1>2. ASSUME NEW q \in Queries, NEW goal \in AskedGoals, NEW named \in BOOLEAN,
             Ask(q, goal, named)
      PROVE  IndexInv'
  BY <1>2, AskKeeps
<1>3. ASSUME NEW q \in Queries, QueryStep(q) PROVE IndexInv'
  BY <1>3, LookUpCacheKeeps, ReadManifestKeeps, ReadBlobKeeps, AnswerLexicallyKeeps,
     SnapshotKeeps, ReloadKeeps, RereadBlobKeeps, ResnapshotKeeps DEF QueryStep
<1>4. ASSUME NEW a \in Actors, BuildStep(a) PROVE IndexInv'
  BY <1>4, ReadRowsKeeps, EmbedKeeps, WriteBlobKeeps, WriteManifestKeeps, FailWriteKeeps
     DEF BuildStep
<1>5. CASE Kill(Queries)
  <2>1. Queries \in SUBSET Actors
    BY DEF Actors
  <2> QED BY <1>5, <2>1, KillKeeps
<1>6. ASSUME NEW a \in Indexers, Kill({a}) PROVE IndexInv'
  <2>1. {a} \in SUBSET Actors
    BY DEF Actors
  <2> QED BY <1>6, <2>1, KillKeeps
<1>7. CASE UNCHANGED indexVars
  <2>1. FilesTypes'
    BY <1>7 DEF indexVars, IndexInv, FilesTypes, Live
  <2>4. BuildsDoNotMix'
    BY <1>7 DEF indexVars, IndexInv, BuildsDoNotMix
  <2>2. ASSUME NEW a \in Actors PROVE BuildInv(a)' /\ (a \in Queries => QueryInv(act[a])')
    <3>1. StampOf(manifest') >= StampOf(manifest)
      BY <1>7, StampIsNat DEF indexVars, StampOf, IndexInv
    <3> QED BY <1>7, <2>1, <3>1, OtherActors DEF indexVars
  <2>3. Queries \subseteq Actors
    BY DEF Actors
  <2> QED BY <2>1, <2>2, <2>3, <2>4 DEF IndexInv
<1> QED BY <1>1, <1>2, <1>3, <1>4, <1>5, <1>6, <1>7 DEF IndexNext

LEMMA IndexInvImplies == IndexInv => IndexTypeOK /\ RecallHolds
<1> SUFFICES ASSUME IndexInv PROVE IndexTypeOK /\ RecallHolds
  OBVIOUS
<1>1. IndexTypeOK
  BY DEF IndexInv, FilesTypes, BuildInv, IsActor, Kinds, IndexTypeOK
<1>2. RowsAreCurrent
  BY DEF IndexInv, QueryInv, RowsInv, RowsAreCurrent
<1>3. CoverageIsOfTheAnswer
  BY DEF IndexInv, QueryInv, CoverageInv, CoverageIsOfTheAnswer
<1>4. CacheIsFresh
  BY DEF IndexInv, QueryInv, FreshInv, NotOlder, CacheIsFresh
<1> QED BY <1>1, <1>2, <1>3, <1>4 DEF RecallHolds, IndexInv

-----------------------------------------------------------------------------
(* The clearance: what a command has read, and the verdict it gave of it.  *)
IsRun(r) ==
  r = [step |-> r.step, verb |-> r.verb, in |-> r.in, paper |-> r.paper, verdict |-> r.verdict]

OnFile(in) ==
  /\ Subject(in) # Nothing /\ clearances[in.handoff] # Nothing
  /\ Affirmed(clearances[in.handoff])
  /\ BindsRecord(clearances[in.handoff], Evaluate(in, Nothing))

GivenFor(in, verdict) ==
  \/ verdict = Evaluate(in, Nothing)
  \/ OnFile(in) /\ verdict = Evaluate(in, ClearanceOf(Evaluate(in, Nothing)))

Readers == {"goal", "goal again", "tree", "judge", "publish"}

RunInv(c) ==
  /\ IsRun(runs[c])
  /\ runs[c].step \in {"handoff", "handoff again"} => runs[c].in = NoInput
  /\ runs[c].step \in Readers => runs[c].in \in Inputs
  /\ Judged(c) => runs[c].in \in Inputs /\ GivenFor(runs[c].in, runs[c].verdict)
  /\ runs[c].step = "publish" => runs[c].verb = "record"
  /\ runs[c].verb = "record" => \E a \in answers : a.told = runs[c].paper

(* What a person is shown, and what they answer to, is of documents that   *)
(* were judged together, and says what there was to say of them.           *)
IsSound(subject, view, flags) ==
  LET in == InputOf(subject)
  IN  /\ subject # Nothing /\ in \in Inputs
      /\ ParsesHandoff(HandoffOf(in))
      /\ subject = Subject(in) /\ view = View(in) /\ flags = Flags(in)

IsDialog(r) == r = [step |-> r.step, subject |-> r.subject, view |-> r.view, flags |-> r.flags]

DialogInv(d) ==
  LET r == dialogs[d]
  IN  /\ IsDialog(r)
      /\ r.step \in {"viewing", "shown"} => IsSound(r.subject, r.view, r.flags)
      /\ r.step = "shown" => Judged(d) /\ runs[d].verdict.view = r.view
      /\ r.step \in {"assessing", "viewing"} =>
           runs[d].verb \in {"assess", "view"} \/ runs[d].step = "failed"

AnswersInv ==
  \A a \in answers :
    a.saw = a.told.view /\ IsSound(a.told.subject, a.told.view, a.told.resolved)

RecordsInv ==
  /\ clearances = [name \in DOMAIN Plans |-> clearances[name]]
  /\ \A name \in DOMAIN Plans : clearances[name] # Nothing =>
       \E a \in answers : a.told = clearances[name] /\ a.told.subject.handoff = name

DiskStates ==
  [handoff : DOMAIN Plans \union {Nothing}, goal : DOMAIN Goals \union {Nothing}, tree : Trees]

ClearanceInv ==
  /\ disk \in DiskStates
  /\ DOMAIN runs = Callers /\ runs = [c \in Callers |-> runs[c]]
  /\ DOMAIN dialogs = Dialogs /\ dialogs = [d \in Dialogs |-> dialogs[d]]
  /\ \A c \in Callers : RunInv(c)
  /\ \A d \in Dialogs : DialogInv(d)
  /\ AnswersInv /\ RecordsInv

LEMMA EndedRun ==
  ASSUME NEW step, NEW r, r = [NoRun EXCEPT !.step = step]
  PROVE  IsRun(r) /\ r.step = step /\ r.verb = ""
<1>1. PICK n : n = NoRun
  OBVIOUS
<1>2. n = [step |-> "idle", verb |-> "", in |-> Nothing, paper |-> Nothing, verdict |-> Nothing]
  BY <1>1 DEF NoRun
<1>3. r = [n EXCEPT !.step = step]
  BY <1>1
<1>4. /\ DOMAIN r = {"step", "verb", "in", "paper", "verdict"} /\ r = [f \in DOMAIN r |-> r[f]]
      /\ r.step = step /\ r.verb = ""
  BY <1>2, <1>3
<1> QED BY <1>4 DEF IsRun

LEMMA NoRunKnown == IsRun(NoRun) /\ NoRun.step = "idle" /\ NoRun.verb = ""
BY DEF IsRun, NoRun

LEMMA ClearanceInitInv == ClearanceInit => ClearanceInv
<1> SUFFICES ASSUME ClearanceInit PROVE ClearanceInv
  OBVIOUS
<1>1. disk \in DiskStates
  BY DEF ClearanceInit, DiskStates
<1>2. DOMAIN runs = Callers /\ runs = [c \in Callers |-> runs[c]]
      /\ \A c \in Callers : runs[c] = NoRun
  <2> DEFINE z == NoRun
  <2>1. runs = [c \in Callers |-> z]
    BY DEF ClearanceInit
  <2> HIDE DEF z
  <2>2. DOMAIN runs = Callers /\ runs = [c \in Callers |-> runs[c]]
        /\ \A c \in Callers : runs[c] = z
    BY <2>1
  <2> QED BY <2>2 DEF z
<1>3. DOMAIN dialogs = Dialogs /\ dialogs = [d \in Dialogs |-> dialogs[d]]
      /\ \A d \in Dialogs : dialogs[d] = Closed
  <2> DEFINE z == Closed
  <2>1. dialogs = [d \in Dialogs |-> z]
    BY DEF ClearanceInit
  <2> HIDE DEF z
  <2>2. DOMAIN dialogs = Dialogs /\ dialogs = [d \in Dialogs |-> dialogs[d]]
        /\ \A d \in Dialogs : dialogs[d] = z
    BY <2>1
  <2> QED BY <2>2 DEF z
<1>4. ASSUME NEW c \in Callers PROVE RunInv(c)
  <2>1. IsRun(runs[c]) /\ runs[c].step = "idle" /\ runs[c].verb = ""
    BY <1>2, NoRunKnown
  <2> QED BY <2>1 DEF RunInv, Readers, Judged
<1>5. ASSUME NEW d \in Dialogs PROVE DialogInv(d)
  BY <1>3 DEF DialogInv, IsDialog, Closed
<1>6. AnswersInv
  BY DEF ClearanceInit, AnswersInv
<1>7. RecordsInv
  <2>1. clearances = [name \in DOMAIN Plans |-> Nothing]
    BY DEF ClearanceInit
  <2>2. clearances = [name \in DOMAIN Plans |-> clearances[name]]
    BY <2>1
  <2> QED BY <2>1, <2>2 DEF RecordsInv
<1> QED BY <1>1, <1>2, <1>3, <1>4, <1>5, <1>6, <1>7 DEF ClearanceInv

(* A step in which one caller moves, alone or in its dialog, and no record *)
(* is filed.                                                               *)
LEMMA OneMoves ==
  ASSUME ClearanceInv, NEW c \in Callers, NEW r, runs' = [runs EXCEPT ![c] = r],
         UNCHANGED <<disk, clearances>>, answers \subseteq answers', AnswersInv', RunInv(c)',
         UNCHANGED dialogs \/ \E s : dialogs' = [dialogs EXCEPT ![c] = s],
         c \in Dialogs => DialogInv(c)'
  PROVE  ClearanceInv'
<1>1. /\ DOMAIN runs' = Callers /\ runs' = [b \in Callers |-> runs'[b]]
      /\ \A b \in Callers \ {c} : runs'[b] = runs[b]
  BY DEF ClearanceInv
<1>2. /\ DOMAIN dialogs' = Dialogs /\ dialogs' = [d \in Dialogs |-> dialogs'[d]]
      /\ \A d \in Dialogs \ {c} : dialogs'[d] = dialogs[d]
  BY DEF ClearanceInv
<1>3. ASSUME NEW b \in Callers PROVE RunInv(b)'
  <2>1. CASE b = c
    BY <2>1
  <2>2. CASE b # c
    <3>1. runs'[b] = runs[b] /\ RunInv(b)
      BY <1>1, <2>2 DEF ClearanceInv
    <3> QED BY <3>1 DEF RunInv, Judged, GivenFor, OnFile
  <2> QED BY <2>1, <2>2
<1>4. ASSUME NEW d \in Dialogs PROVE DialogInv(d)'
  <2>1. CASE d = c
    BY <2>1
  <2>2. CASE d # c
    <3>1. dialogs'[d] = dialogs[d] /\ runs'[d] = runs[d] /\ DialogInv(d)
      BY <1>1, <1>2, <2>2 DEF ClearanceInv, Callers
    <3> QED BY <3>1 DEF DialogInv, Judged
  <2> QED BY <2>1, <2>2
<1>5. RecordsInv'
  <2>1. RecordsInv
    BY DEF ClearanceInv
  <2> QED BY <2>1 DEF RecordsInv
<1> QED BY <1>1, <1>2, <1>3, <1>4, <1>5 DEF ClearanceInv

(* A step of a command that has given no verdict yet, or that fails.       *)
LEMMA CommandMoves ==
  ASSUME ClearanceInv, NEW c \in Callers, NEW r, runs' = [runs EXCEPT ![c] = r],
         RunsOnly, RunInv(c)', runs[c].step \notin {"done", "failed"},
         r.verb = runs[c].verb \/ r.step = "failed"
  PROVE  ClearanceInv'
<1>1. runs'[c] = r /\ UNCHANGED <<disk, dialogs, clearances, answers>>
  BY DEF ClearanceInv, RunsOnly
<1>2. AnswersInv'
  BY <1>1 DEF ClearanceInv, AnswersInv
<1>3. ASSUME c \in Dialogs PROVE DialogInv(c)'
  <2>1. DialogInv(c) /\ ~Judged(c)
    BY <1>3 DEF ClearanceInv, Judged
  <2>2. dialogs[c].step # "shown" /\ IsDialog(dialogs[c])
    BY <2>1 DEF DialogInv
  <2>3. dialogs[c].step \in {"viewing", "shown"} =>
          IsSound(dialogs[c].subject, dialogs[c].view, dialogs[c].flags)
    BY <2>1 DEF DialogInv
  <2>4. dialogs[c].step \in {"assessing", "viewing"} =>
          r.verb \in {"assess", "view"} \/ r.step = "failed"
    BY <2>1 DEF DialogInv
  <2> QED BY <1>1, <2>2, <2>3, <2>4 DEF DialogInv
<1> QED BY <1>1, <1>2, <1>3, OneMoves

LEMMA FailMoves ==
  ASSUME ClearanceInv, NEW c \in Callers, Fail(c), RunsOnly, runs[c].step \notin {"done", "failed"}
  PROVE  ClearanceInv'
<1> DEFINE r == [NoRun EXCEPT !.step = "failed"]
<1>1. runs' = [runs EXCEPT ![c] = r]
  BY DEF Fail, EndsAs
<1>2. IsRun(r) /\ r.step = "failed" /\ r.verb = ""
  BY EndedRun
<1> HIDE DEF r
<1>3. runs'[c] = r
  BY <1>1 DEF ClearanceInv
<1>4. RunInv(c)'
  BY <1>2, <1>3 DEF RunInv, Readers, Judged
<1>5. r.step = "failed"
  BY <1>2
<1> QED BY <1>1, <1>4, <1>5, CommandMoves

-----------------------------------------------------------------------------
(* Commands that read.                                                     *)
LEMMA ReadMoves ==
  ASSUME ClearanceInv, NEW c \in Callers, NEW field \in {"handoff", "goal", "tree"},
         NEW next \in Readers \ {"publish"}, Read(c, field, next), RunsOnly,
         runs[c].step \notin {"done", "failed"}, runs[c].in = NoInput \/ runs[c].in \in Inputs,
         field = "handoff" => disk.handoff \in DOMAIN Plans /\ runs[c].in = NoInput,
         field # "handoff" => runs[c].in \in Inputs
  PROVE  ClearanceInv'
<1> DEFINE r == [runs[c] EXCEPT !.in = [runs[c].in EXCEPT ![field] = disk[field]],
                                !.step = next]
<1>1. runs' = [runs EXCEPT ![c] = r]
  <2>1. DOMAIN runs = Callers
    BY DEF ClearanceInv
  <2> QED BY <2>1 DEF Read
<1>2. PICK in : in = [runs[c].in EXCEPT ![field] = disk[field]]
  OBVIOUS
<1>3. in \in Inputs
  <2>1. disk.handoff \in DOMAIN Plans \union {Nothing} /\ disk.goal \in DOMAIN Goals \union {Nothing}
        /\ disk.tree \in Trees
    BY DEF ClearanceInv, DiskStates
  <2>2. CASE field = "handoff"
    <3>1. in = [handoff |-> disk.handoff, goal |-> Nothing, tree |-> Nothing]
      BY <1>2, <2>2 DEF NoInput
    <3> QED BY <2>1, <2>2, <3>1 DEF Inputs
  <2>3. CASE field = "goal"
    BY <1>2, <2>1, <2>3 DEF Inputs
  <2>4. CASE field = "tree"
    BY <1>2, <2>1, <2>4 DEF Inputs
  <2> QED BY <2>2, <2>3, <2>4
<1>4. IsRun(runs[c]) /\ RunInv(c)
  BY DEF ClearanceInv, RunInv
<1>5. PICK y : y = runs[c]
  OBVIOUS
<1>6. y = [step |-> y.step, verb |-> y.verb, in |-> y.in, paper |-> y.paper,
           verdict |-> y.verdict]
  BY <1>4, <1>5 DEF IsRun
<1>7. PICK z : z = [y EXCEPT !.in = in, !.step = next]
  OBVIOUS
<1>8. DOMAIN z = {"step", "verb", "in", "paper", "verdict"} /\ z = [f \in DOMAIN z |-> z[f]]
      /\ z.step = next /\ z.verb = y.verb /\ z.in = in /\ z.paper = y.paper
      /\ z.verdict = y.verdict
  BY <1>6, <1>7
<1>9. IsRun(z)
  BY <1>8 DEF IsRun
<1>10. r = z
  BY <1>2, <1>5, <1>7
<1> HIDE DEF r
<1>11. runs'[c] = z
  BY <1>1, <1>10 DEF ClearanceInv
<1>12. RunInv(c)'
  <2>1. next \notin {"handoff", "handoff again", "publish", "done"}
    BY DEF Readers
  <2>2. y.verb = "record" => \E a \in answers : a.told = y.paper
    BY <1>4, <1>5 DEF RunInv
  <2> QED BY <1>3, <1>8, <1>9, <1>11, <2>1, <2>2 DEF RunInv, Judged, RunsOnly
<1>13. z.verb = runs[c].verb
  BY <1>5, <1>8
<1> QED BY <1>1, <1>10, <1>12, <1>13, CommandMoves

(* A command that looks again, or that knows what it read and ends.        *)
LEMMA StepMoves ==
  ASSUME ClearanceInv, NEW c \in Callers, NEW next, RunsOnly,
         runs' = [runs EXCEPT ![c].step = next], runs[c].step \notin {"done", "failed"},
         \/ runs[c].step = "handoff" /\ next = "handoff again"
         \/ runs[c].step = "goal" /\ next = "goal again"
  PROVE  ClearanceInv'
<1> DEFINE r == [runs[c] EXCEPT !.step = next]
<1>1. runs' = [runs EXCEPT ![c] = r] /\ runs'[c] = r
  <2>1. DOMAIN runs = Callers
    BY DEF ClearanceInv
  <2> QED BY <2>1
<1>2. IsRun(runs[c]) /\ RunInv(c)
  BY DEF ClearanceInv, RunInv
<1>3. PICK y : y = runs[c]
  OBVIOUS
<1>4. y = [step |-> y.step, verb |-> y.verb, in |-> y.in, paper |-> y.paper,
           verdict |-> y.verdict]
  BY <1>2, <1>3 DEF IsRun
<1>5. PICK z : z = [y EXCEPT !.step = next]
  OBVIOUS
<1>6. DOMAIN z = {"step", "verb", "in", "paper", "verdict"} /\ z = [f \in DOMAIN z |-> z[f]]
      /\ z.step = next /\ z.verb = y.verb /\ z.in = y.in /\ z.paper = y.paper
      /\ z.verdict = y.verdict
  BY <1>4, <1>5
<1>7. IsRun(z)
  BY <1>6 DEF IsRun
<1>8. r = z
  BY <1>3, <1>5
<1> HIDE DEF r
<1>9. RunInv(c)'
  <2>1. runs'[c] = z /\ UNCHANGED answers
    BY <1>1, <1>8 DEF RunsOnly
  <2>2. z.verb = "record" => \E a \in answers : a.told = z.paper
    BY <1>2, <1>3, <1>6 DEF RunInv
  <2>3. next = "handoff again" => z.in = NoInput
    BY <1>2, <1>3, <1>6 DEF RunInv
  <2>4. next = "goal again" => z.in \in Inputs
    BY <1>2, <1>3, <1>6 DEF RunInv, Readers
  <2> QED BY <1>6, <1>7, <2>1, <2>2, <2>3, <2>4 DEF RunInv, Judged, Readers
<1>10. z.verb = runs[c].verb
  BY <1>3, <1>6
<1> QED BY <1>1, <1>8, <1>9, <1>10, CommandMoves

LEMMA ReadersMove ==
  ASSUME ClearanceInv, NEW c \in Callers,
         \/ ReadHandoff(c) \/ ReadHandoffAgain(c) \/ ReadGoal(c) \/ ReadGoalAgain(c)
         \/ Observe(c)
  PROVE  ClearanceInv'
<1>0. RunInv(c) /\ disk \in DiskStates
  BY DEF ClearanceInv
<1>1. CASE ReadHandoff(c)
  <2>1. /\ runs[c].step = "handoff" /\ runs[c].in = NoInput /\ RunsOnly /\ runs[c].step \notin {"done", "failed"}
    BY <1>0, <1>1 DEF ReadHandoff, RunInv
  <2>2. CASE disk.handoff \in WellFormed
    <3>1. disk.handoff \in DOMAIN Plans
      BY <2>2 DEF WellFormed
    <3>2. Read(c, "handoff", "goal") /\ "goal" \in Readers \ {"publish"}
      BY <1>1, <2>2 DEF ReadHandoff, Readers
    <3> QED BY <2>1, <2>2, <3>1, <3>2, ReadMoves
  <2>3. CASE disk.handoff \notin WellFormed
    <3>1. runs' = [runs EXCEPT ![c].step = "handoff again"]
      BY <1>1, <2>3 DEF ReadHandoff
    <3> QED BY <2>1, <3>1, StepMoves
  <2> QED BY <2>2, <2>3
<1>2. CASE ReadHandoffAgain(c)
  <2>1. /\ runs[c].in = NoInput /\ RunsOnly /\ runs[c].step \notin {"done", "failed"}
    BY <1>0, <1>2 DEF ReadHandoffAgain, RunInv
  <2>2. CASE disk.handoff = Nothing
    BY <1>2, <2>1, <2>2, FailMoves DEF ReadHandoffAgain
  <2>3. CASE disk.handoff # Nothing
    <3>1. Read(c, "handoff", "judge") /\ "judge" \in Readers \ {"publish"}
      BY <1>2, <2>3 DEF ReadHandoffAgain, Readers
    <3>2. disk.handoff \in DOMAIN Plans
      BY <1>0, <2>3 DEF DiskStates
    <3> QED BY <2>1, <3>1, <3>2, ReadMoves
  <2> QED BY <2>2, <2>3
<1>3. CASE ReadGoal(c)
  <2>1. /\ runs[c].step = "goal" /\ runs[c].in \in Inputs /\ RunsOnly /\ runs[c].step \notin {"done", "failed"}
    BY <1>0, <1>3 DEF ReadGoal, RunInv, Readers
  <2>2. CASE Read(c, "goal", "tree")
    <3>1. "tree" \in Readers \ {"publish"}
      BY DEF Readers
    <3> QED BY <2>1, <2>2, <3>1, ReadMoves
  <2>3. CASE runs' = [runs EXCEPT ![c].step = "goal again"]
    BY <2>1, <2>3, StepMoves
  <2> QED BY <1>3, <2>2, <2>3 DEF ReadGoal
<1>4. CASE ReadGoalAgain(c)
  <2>1. /\ runs[c].in \in Inputs /\ RunsOnly /\ runs[c].step \notin {"done", "failed"}
    BY <1>0, <1>4 DEF ReadGoalAgain, RunInv, Readers
  <2>2. CASE Fail(c)
    BY <2>1, <2>2, FailMoves
  <2>3. CASE Read(c, "goal", "tree")
    <3>1. "tree" \in Readers \ {"publish"}
      BY DEF Readers
    <3> QED BY <2>1, <2>3, <3>1, ReadMoves
  <2> QED BY <1>4, <2>2, <2>3 DEF ReadGoalAgain
<1>5. CASE Observe(c)
  <2>1. /\ runs[c].in \in Inputs /\ RunsOnly /\ runs[c].step \notin {"done", "failed"}
    BY <1>0, <1>5 DEF Observe, RunInv, Readers
  <2>2. Read(c, "tree", "judge") /\ "judge" \in Readers \ {"publish"}
    BY <1>5 DEF Observe, Readers
  <2> QED BY <2>1, <2>2, ReadMoves
<1> QED BY <1>1, <1>2, <1>3, <1>4, <1>5

-----------------------------------------------------------------------------
(* What a verdict says of its input.                                       *)
LEMMA VerdictSays ==
  ASSUME NEW in, NEW cleared, State(Evaluate(in, cleared)) # "invalid"
  PROVE  /\ ParsesHandoff(HandoffOf(in))
         /\ Evaluate(in, cleared).subject = Subject(in)
         /\ Evaluate(in, cleared).view = View(in) /\ Evaluate(in, cleared).flags = Flags(in)
         /\ Evaluate(in, cleared).blockers = Blockers(in, cleared)
<1>1. ParsesHandoff(HandoffOf(in))
  BY DEF Evaluate, State
<1> QED BY <1>1 DEF Evaluate

LEMMA SubjectSays ==
  ASSUME NEW in, NEW cleared, Evaluate(in, cleared).subject # Nothing
  PROVE  /\ ParsesHandoff(HandoffOf(in))
         /\ Evaluate(in, cleared).subject = Subject(in)
         /\ Evaluate(in, cleared).view = View(in) /\ Evaluate(in, cleared).flags = Flags(in)
<1>1. ParsesHandoff(HandoffOf(in))
  BY DEF Evaluate
<1> QED BY <1>1 DEF Evaluate

(* A subject names the input it was made of.                               *)
LEMMA SubjectOfInput ==
  ASSUME NEW in \in Inputs, Subject(in) # Nothing
  PROVE  /\ InputOf(Subject(in)) = in /\ Subject(in).handoff = in.handoff
         /\ Subject(in).goal = in.goal /\ Subject(in).tree = in.tree
         /\ Refusals(in) = {} /\ Presentable(in)
<1>1. Refusals(in) = {} /\ Presentable(in)
  BY DEF Subject
<1>2. Subject(in) = [project |-> HandoffOf(in).project, goalId |-> HandoffOf(in).goal,
                     handoff |-> in.handoff, goal |-> in.goal, tree |-> in.tree]
  BY <1>1 DEF Subject
<1>3. Subject(in).handoff = in.handoff /\ Subject(in).goal = in.goal /\ Subject(in).tree = in.tree
  BY <1>2
<1>4. in = [handoff |-> in.handoff, goal |-> in.goal, tree |-> in.tree]
  BY DEF Inputs
<1>5. InputOf(Subject(in)) = in
  BY <1>3, <1>4 DEF InputOf
<1> QED BY <1>1, <1>3, <1>5

(* The first verdict of an input is the one without a clearance.           *)
LEMMA FirstIsFirst ==
  ASSUME NEW in \in Inputs PROVE FirstVerdict[in] = Evaluate(in, Nothing)
BY DEF FirstVerdict

(* What is looked up was affirmed for the very input.                      *)
LEMMA LookUpBinds ==
  ASSUME NEW in \in Inputs, LookUp(Evaluate(in, Nothing)) # Nothing
  PROVE  OnFile(in) /\ LookUp(Evaluate(in, Nothing)) = ClearanceOf(Evaluate(in, Nothing))
<1> DEFINE first == Evaluate(in, Nothing)
           record == clearances[first.subject.handoff]
<1>1. /\ first.subject # Nothing /\ record # Nothing /\ Verify(record, first) # Nothing
      /\ LookUp(first) = Verify(record, first)
  BY DEF LookUp, KeyOf
<1>2. first.subject = Subject(in)
  BY <1>1, SubjectSays
<1>3. first.subject.handoff = in.handoff
  BY <1>1, <1>2, SubjectOfInput
<1> HIDE DEF first, record
<1>4. Affirmed(record) /\ BindsRecord(record, first)
  BY <1>1 DEF Verify
<1>5. LookUp(first) = ClearanceOf(first)
  BY <1>1, <1>4 DEF Verify, ClearanceOf, BindsRecord
<1>6. OnFile(in)
  BY <1>1, <1>2, <1>3, <1>4 DEF OnFile, first, record
<1> QED BY <1>5, <1>6 DEF first

LEMMA AssessKeeps ==
  ASSUME ClearanceInv, NEW c \in Callers, Assess(c)
  PROVE  ClearanceInv'
<1> DEFINE in == runs[c].in
           first == Evaluate(in, Nothing)
           cleared == LookUp(first)
           verdict == IF cleared = Nothing THEN first ELSE Evaluate(in, cleared)
<1>1. RunInv(c) /\ runs[c].step = "judge" /\ runs[c].verb \in {"assess", "view"} /\ RunsOnly
  BY DEF ClearanceInv, Assess
<1>2. in \in Inputs
  BY <1>1 DEF RunInv, Readers
<1>3. runs' = [runs EXCEPT ![c].step = "done", ![c].verdict = verdict]
  BY <1>2, FirstIsFirst DEF Assess
<1>4. GivenFor(in, verdict)
  <2>1. CASE cleared = Nothing
    BY <2>1 DEF GivenFor
  <2>2. CASE cleared # Nothing
    <3>1. OnFile(in) /\ cleared = ClearanceOf(first)
      BY <1>2, <2>2, LookUpBinds
    <3>2. verdict = Evaluate(in, ClearanceOf(first))
      BY <2>2, <3>1
    <3> QED BY <3>1, <3>2 DEF GivenFor
  <2> QED BY <2>1, <2>2
<1> HIDE DEF verdict
<1>5. PICK y : y = runs[c]
  OBVIOUS
<1>6. y = [step |-> y.step, verb |-> y.verb, in |-> y.in, paper |-> y.paper,
           verdict |-> y.verdict]
  BY <1>1, <1>5 DEF RunInv, IsRun
<1>7. PICK z : z = [y EXCEPT !.step = "done", !.verdict = verdict]
  OBVIOUS
<1>8. DOMAIN z = {"step", "verb", "in", "paper", "verdict"} /\ z = [f \in DOMAIN z |-> z[f]]
      /\ z.step = "done" /\ z.verb = y.verb /\ z.in = y.in /\ z.paper = y.paper
      /\ z.verdict = verdict
  BY <1>6, <1>7
<1>9. IsRun(z)
  BY <1>8 DEF IsRun
<1>10. runs' = [runs EXCEPT ![c] = z] /\ runs'[c] = z
  <2>1. DOMAIN runs = Callers
    BY DEF ClearanceInv
  <2> QED BY <1>3, <1>5, <1>7, <2>1
<1>11. UNCHANGED <<disk, dialogs, clearances, answers>>
  BY <1>1 DEF RunsOnly
<1>12. RunInv(c)'
  <2>2. z.in = in /\ z.verb \in {"assess", "view"}
    BY <1>1, <1>5, <1>8
  <2> QED BY <1>2, <1>4, <1>8, <1>9, <1>10, <1>11, <2>2
          DEF RunInv, Judged, Readers, GivenFor, OnFile
<1>13. ASSUME c \in Dialogs PROVE DialogInv(c)'
  <2>1. DialogInv(c) /\ ~Judged(c)
    BY <1>1, <1>13 DEF ClearanceInv, Judged
  <2>2. dialogs[c].step # "shown" /\ IsDialog(dialogs[c])
    BY <2>1 DEF DialogInv
  <2>3. dialogs[c].step \in {"viewing", "shown"} =>
          IsSound(dialogs[c].subject, dialogs[c].view, dialogs[c].flags)
    BY <2>1 DEF DialogInv
  <2>4. z.verb \in {"assess", "view"}
    BY <1>1, <1>5, <1>8
  <2> QED BY <1>10, <1>11, <2>2, <2>3, <2>4 DEF DialogInv
<1>14. AnswersInv'
  BY <1>11 DEF ClearanceInv, AnswersInv
<1> QED BY <1>10, <1>11, <1>12, <1>13, <1>14, OneMoves

LEMMA CheckKeeps ==
  ASSUME ClearanceInv, NEW c \in Callers, Check(c)
  PROVE  ClearanceInv'
<1>1. RunInv(c) /\ runs[c].step = "judge" /\ runs[c].verb = "record" /\ RunsOnly
      /\ runs[c].step \notin {"done", "failed"}
  BY DEF ClearanceInv, Check
<1>2. runs[c].in \in Inputs
  BY <1>1 DEF RunInv, Readers
<1>3. CASE Fail(c)
  BY <1>1, <1>3, FailMoves
<1>4. ASSUME NEW verdict, runs' = [runs EXCEPT ![c].step = "publish", ![c].verdict = verdict]
      PROVE  ClearanceInv'
  <2>1. PICK y : y = runs[c]
    OBVIOUS
  <2>2. y = [step |-> y.step, verb |-> y.verb, in |-> y.in, paper |-> y.paper,
             verdict |-> y.verdict]
    BY <1>1, <2>1 DEF RunInv, IsRun
  <2>3. PICK z : z = [y EXCEPT !.step = "publish", !.verdict = verdict]
    OBVIOUS
  <2>4. DOMAIN z = {"step", "verb", "in", "paper", "verdict"} /\ z = [f \in DOMAIN z |-> z[f]]
        /\ z.step = "publish" /\ z.verb = y.verb /\ z.in = y.in /\ z.paper = y.paper
        /\ z.verdict = verdict
    BY <2>2, <2>3
  <2>5. IsRun(z)
    BY <2>4 DEF IsRun
  <2>6. runs' = [runs EXCEPT ![c] = z] /\ runs'[c] = z
    <3>1. DOMAIN runs = Callers
      BY DEF ClearanceInv
    <3> QED BY <1>4, <2>1, <2>3, <3>1
  <2>7. z.in \in Inputs /\ z.verb = "record" /\ \E a \in answers : a.told = z.paper
    BY <1>1, <1>2, <2>1, <2>4 DEF RunInv
  <2>8. RunInv(c)'
    BY <1>1, <2>4, <2>5, <2>6, <2>7 DEF RunInv, Judged, Readers, RunsOnly
  <2>9. z.verb = runs[c].verb
    BY <2>1, <2>4
  <2> QED BY <1>1, <2>6, <2>8, <2>9, CommandMoves
<1> QED BY <1>3, <1>4 DEF Check

(* A record that is filed stays, so what was on file is still on file.     *)
LEMMA PutKeepsFile ==
  ASSUME RecordsInv, NEW record, clearances' = Put(record)
  PROVE  /\ \A name \in DOMAIN Plans : clearances[name] # Nothing => clearances'[name] = clearances[name]
         /\ \A name \in DOMAIN Plans :
              clearances'[name] = clearances[name]
                \/ (clearances'[name] = record /\ name = record.subject.handoff)
         /\ clearances' = [name \in DOMAIN Plans |-> clearances'[name]]
<1>1. clearances = [name \in DOMAIN Plans |-> clearances[name]] /\ DOMAIN clearances = DOMAIN Plans
  BY DEF RecordsInv
<1>2. PICK key : key = record.subject.handoff
  OBVIOUS
<1>3. CASE clearances[key] = Nothing
  <2>1. clearances' = [clearances EXCEPT ![key] = record]
    BY <1>2, <1>3 DEF Put, KeyOf
  <2>2. \A name \in DOMAIN Plans : name # key => clearances'[name] = clearances[name]
    BY <1>1, <2>1
  <2>3. key \in DOMAIN Plans => clearances'[key] = record
    BY <1>1, <2>1
  <2>4. DOMAIN clearances' = DOMAIN Plans
    BY <1>1, <2>1
  <2>5. clearances' = [name \in DOMAIN Plans |-> clearances'[name]]
    BY <1>1, <2>1, <2>4
  <2> QED BY <1>2, <1>3, <2>2, <2>3, <2>5
<1>4. CASE clearances[key] # Nothing
  <2>1. clearances' = clearances
    BY <1>2, <1>4 DEF Put, KeyOf
  <2> QED BY <1>1, <2>1
<1> QED BY <1>3, <1>4

LEMMA PublishKeeps ==
  ASSUME ClearanceInv, NEW c \in Callers, Publish(c)
  PROVE  ClearanceInv'
<1> DEFINE record == runs[c].paper
           r == [NoRun EXCEPT !.step = IF Filed(record) THEN "done" ELSE "failed"]
<1>1. /\ RunInv(c) /\ runs[c].step = "publish" /\ runs[c].verb = "record"
      /\ clearances' = Put(record) /\ UNCHANGED <<disk, dialogs, answers>>
      /\ runs' = [runs EXCEPT ![c] = r]
  BY DEF ClearanceInv, RunInv, Publish, EndsAs
<1>2. RecordsInv /\ AnswersInv
  BY DEF ClearanceInv
<1>3. /\ \A name \in DOMAIN Plans :
           clearances[name] # Nothing => clearances'[name] = clearances[name]
      /\ \A name \in DOMAIN Plans :
           clearances'[name] = clearances[name]
             \/ (clearances'[name] = record /\ name = record.subject.handoff)
      /\ clearances' = [name \in DOMAIN Plans |-> clearances'[name]]
  BY <1>1, <1>2, PutKeepsFile
<1>4. PICK a \in answers : a.told = record
  BY <1>1 DEF RunInv
<1>5. IsRun(r) /\ r.verb = "" /\ r.step \in {"done", "failed"}
  BY EndedRun
<1> HIDE DEF r, record
<1>6. /\ DOMAIN runs' = Callers /\ runs' = [b \in Callers |-> runs'[b]] /\ runs'[c] = r
      /\ \A b \in Callers \ {c} : runs'[b] = runs[b]
  BY <1>1 DEF ClearanceInv
<1>7. ASSUME NEW b \in Callers PROVE RunInv(b)'
  <2>1. CASE b = c
    BY <1>5, <1>6, <2>1 DEF RunInv, Judged, Readers
  <2>2. CASE b # c
    <3>1. runs'[b] = runs[b] /\ RunInv(b)
      BY <1>6, <2>2 DEF ClearanceInv
    <3>2. ASSUME NEW in \in Inputs, NEW verdict, GivenFor(in, verdict) PROVE GivenFor(in, verdict)'
      <4>1. CASE verdict = Evaluate(in, Nothing)
        BY <4>1 DEF GivenFor
      <4>2. CASE OnFile(in) /\ verdict = Evaluate(in, ClearanceOf(Evaluate(in, Nothing)))
        <5>1. in.handoff \in DOMAIN Plans
          BY DEF Inputs
        <5>2. clearances'[in.handoff] = clearances[in.handoff]
          BY <1>3, <4>2, <5>1 DEF OnFile
        <5> QED BY <4>2, <5>2 DEF GivenFor, OnFile
      <4> QED BY <3>2, <4>1, <4>2 DEF GivenFor
    <3>3. Judged(b)' => runs'[b].in \in Inputs /\ GivenFor(runs[b].in, runs[b].verdict)'
      BY <3>1, <3>2 DEF RunInv, Judged
    <3> QED BY <1>1, <3>1, <3>3 DEF RunInv, Judged, GivenFor, OnFile
  <2> QED BY <2>1, <2>2
<1>8. ASSUME NEW d \in Dialogs PROVE DialogInv(d)'
  <2>1. DialogInv(d) /\ d \in Callers
    BY DEF ClearanceInv, Callers
  <2>2. CASE d = c
    <3>1. dialogs[d].step \notin {"shown", "assessing", "viewing"}
      BY <1>1, <2>1, <2>2 DEF DialogInv, Judged
    <3> QED BY <1>1, <2>1, <3>1 DEF DialogInv
  <2>3. CASE d # c
    BY <1>1, <1>6, <2>1, <2>3 DEF DialogInv, Judged
  <2> QED BY <2>2, <2>3
<1>9. AnswersInv'
  BY <1>1, <1>2 DEF AnswersInv
<1>10. RecordsInv'
  <2>1. ASSUME NEW name \in DOMAIN Plans, clearances'[name] # Nothing
        PROVE  \E w \in answers : w.told = clearances'[name] /\ w.told.subject.handoff = name
    <3>1. CASE clearances'[name] = clearances[name]
      BY <1>2, <2>1, <3>1 DEF RecordsInv
    <3>2. CASE clearances'[name] = record /\ name = record.subject.handoff
      BY <1>4, <3>2
    <3> QED BY <1>3, <3>1, <3>2
  <2> QED BY <1>1, <1>3, <2>1 DEF RecordsInv
<1>11. disk' \in DiskStates /\ DOMAIN dialogs' = Dialogs /\ dialogs' = [d \in Dialogs |-> dialogs'[d]]
  BY <1>1 DEF ClearanceInv
<1> QED BY <1>6, <1>7, <1>8, <1>9, <1>10, <1>11 DEF ClearanceInv

LEMMA InterruptKeeps ==
  ASSUME ClearanceInv, NEW c \in Callers, Interrupt(c)
  PROVE  ClearanceInv'
BY FailMoves DEF Interrupt

LEMMA RunningKnown ==
  ASSUME NEW verb, NEW paper, NEW r, r = Running(verb, paper)
  PROVE  IsRun(r) /\ r.step = "handoff" /\ r.verb = verb /\ r.in = NoInput /\ r.paper = paper
<1>1. r = [step |-> "handoff", verb |-> verb, in |-> NoInput, paper |-> paper, verdict |-> Nothing]
  BY DEF Running
<1> QED BY <1>1 DEF IsRun

LEMMA StartAssessingKeeps ==
  ASSUME ClearanceInv, NEW c \in Callers, StartAssessing(c)
  PROVE  ClearanceInv'
<1> DEFINE r == Running("assess", Nothing)
<1>1. IsRun(r) /\ r.step = "handoff" /\ r.verb = "assess" /\ r.in = NoInput
  BY RunningKnown
<1>2. runs' = [runs EXCEPT ![c] = r] /\ UNCHANGED <<disk, dialogs, clearances, answers>>
  BY DEF StartAssessing, RunsOnly
<1> HIDE DEF r
<1>3. runs'[c] = r
  BY <1>2 DEF ClearanceInv
<1>4. RunInv(c)'
  BY <1>1, <1>3 DEF RunInv, Judged, Readers
<1>5. AnswersInv'
  BY <1>2 DEF ClearanceInv, AnswersInv
<1>6. c \notin Dialogs
  BY CallersAssumption DEF StartAssessing
<1> QED BY <1>2, <1>4, <1>5, <1>6, OneMoves

-----------------------------------------------------------------------------
(* The dialog.                                                             *)
LEMMA OpenDialogKeeps ==
  ASSUME ClearanceInv, NEW d \in Dialogs, OpenDialog(d)
  PROVE  ClearanceInv'
<1> DEFINE r == Running("assess", Nothing)
<1>1. IsRun(r) /\ r.step = "handoff" /\ r.verb = "assess" /\ r.in = NoInput
  BY RunningKnown
<1>2. /\ runs' = [runs EXCEPT ![d] = r] /\ UNCHANGED <<disk, clearances, answers>>
      /\ dialogs[d].step = "closed" /\ dialogs' = [dialogs EXCEPT ![d].step = "assessing"]
  BY DEF OpenDialog
<1> HIDE DEF r
<1>3. runs'[d] = r /\ d \in Callers
  BY <1>2 DEF ClearanceInv, Callers
<1>4. PICK y : y = dialogs[d]
  OBVIOUS
<1>5. y = [step |-> y.step, subject |-> y.subject, view |-> y.view, flags |-> y.flags]
  BY <1>4 DEF ClearanceInv, DialogInv, IsDialog
<1>6. PICK z : z = [y EXCEPT !.step = "assessing"]
  OBVIOUS
<1>7. DOMAIN z = {"step", "subject", "view", "flags"} /\ z = [f \in DOMAIN z |-> z[f]]
      /\ z.step = "assessing"
  BY <1>5, <1>6
<1>8. IsDialog(z)
  BY <1>7 DEF IsDialog
<1>9. dialogs' = [dialogs EXCEPT ![d] = z] /\ dialogs'[d] = z
  <2>1. DOMAIN dialogs = Dialogs
    BY DEF ClearanceInv
  <2> QED BY <1>2, <1>4, <1>6, <2>1
<1>10. RunInv(d)'
  BY <1>1, <1>3 DEF RunInv, Judged, Readers
<1>11. DialogInv(d)'
  BY <1>1, <1>3, <1>7, <1>8, <1>9 DEF DialogInv
<1>12. AnswersInv'
  BY <1>2 DEF ClearanceInv, AnswersInv
<1> QED BY <1>2, <1>3, <1>9, <1>10, <1>11, <1>12, OneMoves

(* What a dialog is told was judged.                                       *)
LEMMA ToldIsJudged ==
  ASSUME ClearanceInv, NEW d \in Dialogs, Told(d),
         dialogs[d].step \in {"assessing", "viewing"}
  PROVE  Judged(d) /\ runs[d].in \in Inputs
           /\ \E cleared : runs[d].verdict = Evaluate(runs[d].in, cleared)
           /\ State(runs[d].verdict) # "invalid"
<1>1. DialogInv(d) /\ RunInv(d)
  BY DEF ClearanceInv, Callers
<1>2. Judged(d)
  BY <1>1 DEF DialogInv, Told, Judged
<1>3. runs[d].in \in Inputs /\ GivenFor(runs[d].in, runs[d].verdict)
  BY <1>1, <1>2 DEF RunInv
<1>4. \E cleared : runs[d].verdict = Evaluate(runs[d].in, cleared)
  BY <1>3 DEF GivenFor
<1>5. State(runs[d].verdict) # "invalid"
  BY DEF Told, ExitCode
<1> QED BY <1>2, <1>3, <1>4, <1>5

LEMMA TakeAssessmentKeeps ==
  ASSUME ClearanceInv, NEW d \in Dialogs, TakeAssessment(d)
  PROVE  ClearanceInv'
<1> DEFINE r == Running("view", Nothing)
           verdict == runs[d].verdict
           in == runs[d].in
           z == [step |-> "viewing", subject |-> verdict.subject,
                 view |-> verdict.view, flags |-> verdict.flags]
<1>1. IsRun(r) /\ r.step = "handoff" /\ r.verb = "view" /\ r.in = NoInput
  BY RunningKnown
<1>2. /\ runs' = [runs EXCEPT ![d] = r] /\ UNCHANGED <<disk, clearances, answers>>
      /\ dialogs' = [dialogs EXCEPT ![d] = z] /\ Told(d) /\ dialogs[d].step = "assessing"
      /\ verdict.subject # Nothing
  BY DEF TakeAssessment
<1>3. IsSound(verdict.subject, verdict.view, verdict.flags)
  <2>1. in \in Inputs /\ State(verdict) # "invalid"
    BY <1>2, ToldIsJudged
  <2>2. PICK cleared : verdict = Evaluate(in, cleared)
    BY <1>2, ToldIsJudged
  <2> HIDE DEF verdict, in
  <2>3. /\ ParsesHandoff(HandoffOf(in)) /\ verdict.subject = Subject(in)
        /\ verdict.view = View(in) /\ verdict.flags = Flags(in)
    BY <2>1, <2>2, VerdictSays
  <2>4. InputOf(verdict.subject) = in
    BY <1>2, <2>1, <2>3, SubjectOfInput
  <2> QED BY <1>2, <2>1, <2>3, <2>4 DEF IsSound
<1> HIDE DEF r, verdict
<1>4. IsDialog(z) /\ z.step = "viewing" /\ z.subject = verdict.subject /\ z.view = verdict.view
      /\ z.flags = verdict.flags
  BY DEF IsDialog
<1> HIDE DEF z
<1>5. runs'[d] = r /\ dialogs'[d] = z /\ d \in Callers
  BY <1>2 DEF ClearanceInv, Callers
<1>6. RunInv(d)'
  BY <1>1, <1>5 DEF RunInv, Judged, Readers
<1>7. DialogInv(d)'
  BY <1>1, <1>3, <1>4, <1>5 DEF DialogInv
<1>8. AnswersInv'
  BY <1>2 DEF ClearanceInv, AnswersInv
<1> QED BY <1>2, <1>5, <1>6, <1>7, <1>8, OneMoves

LEMMA ShowKeeps ==
  ASSUME ClearanceInv, NEW d \in Dialogs, Show(d)
  PROVE  ClearanceInv'
<1>1. /\ UNCHANGED <<disk, runs, clearances, answers>> /\ Told(d)
      /\ dialogs[d].step = "viewing" /\ dialogs' = [dialogs EXCEPT ![d].step = "shown"]
      /\ runs[d].verdict.view = dialogs[d].view
  BY DEF Show, ViewIsAssessed
<1>2. PICK y : y = dialogs[d]
  OBVIOUS
<1>3. /\ y = [step |-> y.step, subject |-> y.subject, view |-> y.view, flags |-> y.flags]
      /\ IsSound(y.subject, y.view, y.flags)
  BY <1>1, <1>2 DEF ClearanceInv, DialogInv, IsDialog
<1>4. PICK z : z = [y EXCEPT !.step = "shown"]
  OBVIOUS
<1>5. DOMAIN z = {"step", "subject", "view", "flags"} /\ z = [f \in DOMAIN z |-> z[f]]
      /\ z.step = "shown" /\ z.subject = y.subject /\ z.view = y.view /\ z.flags = y.flags
  BY <1>3, <1>4
<1>6. IsDialog(z)
  BY <1>5 DEF IsDialog
<1>7. dialogs' = [dialogs EXCEPT ![d] = z] /\ dialogs'[d] = z
  <2>1. DOMAIN dialogs = Dialogs
    BY DEF ClearanceInv
  <2> QED BY <1>1, <1>2, <1>4, <2>1
<1>8. Judged(d) /\ d \in Callers /\ RunInv(d)
  BY <1>1, ToldIsJudged DEF ClearanceInv, Callers
<1>9. RunInv(d)'
  BY <1>1, <1>8 DEF RunInv, Judged, GivenFor, OnFile
<1>10. DialogInv(d)'
  BY <1>1, <1>2, <1>3, <1>5, <1>6, <1>7, <1>8 DEF DialogInv, Judged
<1>11. runs' = [runs EXCEPT ![d] = runs[d]]
  BY <1>1 DEF ClearanceInv
<1>12. AnswersInv'
  BY <1>1 DEF ClearanceInv, AnswersInv
<1> QED BY <1>1, <1>7, <1>8, <1>9, <1>10, <1>11, <1>12, OneMoves

LEMMA AnswerKeeps ==
  ASSUME ClearanceInv, NEW d \in Dialogs, NEW decision, Answer(d, decision)
  PROVE  ClearanceInv'
<1> DEFINE record == [subject |-> dialogs[d].subject, view |-> dialogs[d].view,
                      resolved |-> dialogs[d].flags, decision |-> decision]
           r == Running("record", record)
           given == [saw |-> runs[d].verdict.view, told |-> record]
<1>1. IsRun(r) /\ r.step = "handoff" /\ r.verb = "record" /\ r.in = NoInput /\ r.paper = record
  BY RunningKnown
<1>2. /\ runs' = [runs EXCEPT ![d] = r] /\ UNCHANGED <<disk, clearances>>
      /\ dialogs[d].step = "shown" /\ dialogs' = [dialogs EXCEPT ![d].step = "recording"]
      /\ answers' = answers \union {given}
  BY DEF Answer
<1>3. PICK y : y = dialogs[d]
  OBVIOUS
<1>4. /\ y = [step |-> y.step, subject |-> y.subject, view |-> y.view, flags |-> y.flags]
      /\ IsSound(y.subject, y.view, y.flags) /\ runs[d].verdict.view = y.view
  BY <1>2, <1>3 DEF ClearanceInv, DialogInv, IsDialog
<1>5. /\ record.subject = y.subject /\ record.view = y.view /\ record.resolved = y.flags
      /\ given.saw = runs[d].verdict.view /\ given.told = record
  BY <1>3
<1> HIDE DEF r, record, given
<1>6. PICK z : z = [y EXCEPT !.step = "recording"]
  OBVIOUS
<1>7. DOMAIN z = {"step", "subject", "view", "flags"} /\ z = [f \in DOMAIN z |-> z[f]]
      /\ z.step = "recording"
  BY <1>4, <1>6
<1>8. IsDialog(z)
  BY <1>7 DEF IsDialog
<1>9. dialogs' = [dialogs EXCEPT ![d] = z] /\ dialogs'[d] = z
  <2>1. DOMAIN dialogs = Dialogs
    BY DEF ClearanceInv
  <2> QED BY <1>2, <1>3, <1>6, <2>1
<1>10. runs'[d] = r /\ d \in Callers
  BY <1>2 DEF ClearanceInv, Callers
<1>11. given \in answers' /\ answers \subseteq answers'
  BY <1>2
<1>12. RunInv(d)'
  BY <1>1, <1>5, <1>10, <1>11 DEF RunInv, Judged, Readers
<1>13. DialogInv(d)'
  BY <1>7, <1>8, <1>9 DEF DialogInv
<1>14. AnswersInv'
  <2>1. AnswersInv
    BY DEF ClearanceInv
  <2> QED BY <1>2, <1>4, <1>5, <2>1 DEF AnswersInv
<1> QED BY <1>2, <1>9, <1>10, <1>11, <1>12, <1>13, <1>14, OneMoves

LEMMA AbandonKeeps ==
  ASSUME ClearanceInv, NEW d \in Dialogs, Abandon(d)
  PROVE  ClearanceInv'
<1>1. /\ runs' = [runs EXCEPT ![d] = NoRun] /\ UNCHANGED <<disk, clearances, answers>>
      /\ dialogs' = [dialogs EXCEPT ![d] = Closed]
  BY DEF Abandon, CloseDialog
<1>2. runs'[d] = NoRun /\ dialogs'[d] = Closed /\ d \in Callers
  BY <1>1 DEF ClearanceInv, Callers
<1>3. RunInv(d)'
  BY <1>2, NoRunKnown DEF RunInv, Judged, Readers
<1>4. IsDialog(Closed) /\ Closed.step = "closed"
  BY DEF IsDialog, Closed
<1>5. DialogInv(d)'
  BY <1>2, <1>4 DEF DialogInv
<1>6. AnswersInv'
  BY <1>1 DEF ClearanceInv, AnswersInv
<1> QED BY <1>1, <1>2, <1>3, <1>5, <1>6, OneMoves

(* Nothing but the documents and the worktree changes.                     *)
LEMMA DiskMoves ==
  ASSUME ClearanceInv, disk' \in DiskStates, UNCHANGED <<runs, dialogs, clearances, answers>>
  PROVE  ClearanceInv'
<1>1. ASSUME NEW c \in Callers PROVE RunInv(c)'
  <2>1. RunInv(c)
    BY DEF ClearanceInv
  <2> QED BY <2>1 DEF RunInv, Judged, GivenFor, OnFile
<1>2. ASSUME NEW d \in Dialogs PROVE DialogInv(d)'
  <2>1. DialogInv(d)
    BY DEF ClearanceInv
  <2> QED BY <2>1 DEF DialogInv, Judged
<1>3. AnswersInv' /\ RecordsInv'
  BY DEF ClearanceInv, AnswersInv, RecordsInv
<1>4. /\ DOMAIN runs' = Callers /\ runs' = [c \in Callers |-> runs'[c]]
      /\ DOMAIN dialogs' = Dialogs /\ dialogs' = [d \in Dialogs |-> dialogs'[d]]
  BY DEF ClearanceInv
<1> QED BY <1>1, <1>2, <1>3, <1>4 DEF ClearanceInv

LEMMA EditKeeps ==
  ASSUME ClearanceInv, NEW field, NEW value, Edit(field, value),
         \/ field = "handoff" /\ value \in DOMAIN Plans \union {Nothing}
         \/ field = "goal" /\ value \in DOMAIN Goals \union {Nothing}
         \/ field = "tree" /\ value \in Trees
  PROVE  ClearanceInv'
<1>1. disk' = [disk EXCEPT ![field] = value] /\ disk \in DiskStates
      /\ UNCHANGED <<runs, dialogs, clearances, answers>>
  BY DEF Edit, ClearanceInv
<1>2. disk' \in DiskStates
  BY <1>1 DEF DiskStates
<1> QED BY <1>1, <1>2, DiskMoves

LEMMA ClearanceStep == ClearanceInv /\ [ClearanceNext]_clearanceVars => ClearanceInv'
<1> SUFFICES ASSUME ClearanceInv, [ClearanceNext]_clearanceVars PROVE ClearanceInv'
  OBVIOUS
<1>1. ASSUME NEW c \in Callers,
             \/ StartAssessing(c) \/ Interrupt(c)
             \/ ReadHandoff(c) \/ ReadHandoffAgain(c) \/ ReadGoal(c) \/ ReadGoalAgain(c)
             \/ Observe(c) \/ Assess(c) \/ Check(c) \/ Publish(c)
      PROVE  ClearanceInv'
  <2>1. CASE StartAssessing(c) \/ Interrupt(c)
    BY <2>1, StartAssessingKeeps, InterruptKeeps
  <2>2. CASE \/ ReadHandoff(c) \/ ReadHandoffAgain(c) \/ ReadGoal(c) \/ ReadGoalAgain(c)
             \/ Observe(c)
    BY <2>2, ReadersMove
  <2>3. CASE Assess(c) \/ Check(c) \/ Publish(c)
    BY <2>3, AssessKeeps, CheckKeeps, PublishKeeps
  <2> QED BY <1>1, <2>1, <2>2, <2>3
<1>2. ASSUME NEW d \in Dialogs,
             \/ OpenDialog(d) \/ TakeAssessment(d) \/ Show(d) \/ Abandon(d)
             \/ \E decision \in {"affirm", "decline"} : Answer(d, decision)
      PROVE  ClearanceInv'
  BY <1>2, OpenDialogKeeps, TakeAssessmentKeeps, ShowKeeps, AbandonKeeps, AnswerKeeps
<1>3. ASSUME NEW value \in DOMAIN Plans \union {Nothing}, Edit("handoff", value)
      PROVE  ClearanceInv'
  BY <1>3, EditKeeps
<1>4. ASSUME NEW value \in DOMAIN Goals \union {Nothing}, Edit("goal", value)
      PROVE  ClearanceInv'
  BY <1>4, EditKeeps
<1>5. ASSUME NEW value \in Trees, Edit("tree", value) PROVE ClearanceInv'
  BY <1>5, EditKeeps
<1>6. CASE UNCHANGED clearanceVars
  BY <1>6, DiskMoves DEF clearanceVars, ClearanceInv
<1> QED BY <1>1, <1>2, <1>3, <1>4, <1>5, <1>6 DEF ClearanceNext

-----------------------------------------------------------------------------
(* What holds of a plan's lists.                                           *)
LEMMA CommittedNone ==
  ASSUME NEW h, NEW excluded, HoldsNone(CommittedLists(h), excluded),
         h.version > 2 => HoldsNone(PlannedLists(h), excluded)
  PROVE  CommittedItems(h) \intersect Range(excluded) = {}
<1>1. /\ Range(h.stages) \intersect Range(excluded) = {}
      /\ Range(Each(h.acceptance, "criterion")) \intersect Range(excluded) = {}
  <2> DEFINE lists == CommittedLists(h)
  <2>1. /\ DOMAIN lists = {"stages", "acceptance"} /\ lists["stages"] = h.stages
        /\ lists["acceptance"] = Each(h.acceptance, "criterion")
    BY DEF CommittedLists
  <2>2. \A field \in DOMAIN lists : Range(lists[field]) \intersect Range(excluded) = {}
    BY DEF HoldsNone
  <2> HIDE DEF lists
  <2> QED BY <2>1, <2>2
<1>2. h.version > 2 =>
        /\ Range(h.tests) \intersect Range(excluded) = {}
        /\ Range(Each(h.roles, "duty")) \intersect Range(excluded) = {}
  <2> SUFFICES ASSUME h.version > 2
               PROVE  /\ Range(h.tests) \intersect Range(excluded) = {}
                      /\ Range(Each(h.roles, "duty")) \intersect Range(excluded) = {}
    OBVIOUS
  <2> DEFINE lists == PlannedLists(h)
  <2>1. /\ DOMAIN lists = {"tests", "duties"} /\ lists["tests"] = h.tests
        /\ lists["duties"] = Each(h.roles, "duty")
    BY DEF PlannedLists
  <2>2. \A field \in DOMAIN lists : Range(lists[field]) \intersect Range(excluded) = {}
    BY DEF HoldsNone
  <2> HIDE DEF lists
  <2> QED BY <2>1, <2>2
<1> QED BY <1>1, <1>2 DEF CommittedItems

LEMMA ExcludedNone ==
  ASSUME NEW lists, NEW g, ExcludedIn(lists, g) = {}
  PROVE  HoldsNone(lists, g.nonGoals)
<1> SUFFICES ASSUME NEW field \in DOMAIN lists, NEW text \in Range(lists[field]),
                    text \in Range(g.nonGoals)
             PROVE  FALSE
  BY DEF HoldsNone
<1>1. PICK i \in DOMAIN lists[field] : lists[field][i] = text
  BY DEF Range
<1>2. <<field, i>> \in ExcludedIn(lists, g)
  BY <1>1 DEF ExcludedIn
<1> QED BY <1>2

(* What is flagged is an item of a list, by its place.                     *)
LEMMA StagesFlagged ==
  ASSUME NEW h, NEW g, NEW i \in DOMAIN h.stages, h.stages[i] \in Range(g.nonGoals)
  PROVE  <<"stages", i>> \in ExcludedIn(CommittedLists(h), g)
<1> DEFINE lists == CommittedLists(h)
<1>1. "stages" \in DOMAIN lists /\ lists["stages"] = h.stages
  BY DEF CommittedLists
<1> HIDE DEF lists
<1>2. <<"stages", i>> \in ExcludedIn(lists, g)
  BY <1>1 DEF ExcludedIn
<1> QED BY <1>2 DEF lists

(* As many estimates as stages, no stage estimated twice: each has one.    *)
LEMMA OnceEach ==
  ASSUME NEW n \in Nat, NEW all, NEW s \in Surjection(1..n, all), NEW m \in Injection(1..n, all),
         NEW t \in all
  PROVE  \E j \in 1..n : {k \in 1..n : m[k] = t} = {j}
<1>1. IsFiniteSet(1..n) /\ Cardinality(1..n) = n
  BY FS_Interval
<1>2. IsFiniteSet(all) /\ Cardinality(all) <= n /\ Cardinality(all) \in Nat
  BY <1>1, FS_Surjection, FS_CardinalityType
<1>3. m \in Surjection(1..n, all)
  <2>1. n <= Cardinality(all) /\ (n = Cardinality(all) => m \in Surjection(1..n, all))
    BY <1>1, <1>2, FS_Injection
  <2> QED BY <1>2, <2>1
<1>4. PICK j \in 1..n : m[j] = t
  BY <1>3 DEF Surjection
<1>5. {k \in 1..n : m[k] = t} = {j}
  BY <1>4 DEF Injection, IsInjective
<1> QED BY <1>5

LEMMA EstimatesAreWhole ==
  ASSUME NEW h \in Range(Plans), EstimatesFit(h)
  PROVE  /\ \A i \in DOMAIN h.stages :
              Cardinality({j \in DOMAIN h.estimates : h.estimates[j].stage = h.stages[i]}) = 1
         /\ \A e \in Range(h.estimates) : e.low \in 1..e.high
<1> DEFINE s == h.stages
           e == h.estimates
           m == Each(h.estimates, "stage")
<1>1. PICK n : n = Len(s)
  OBVIOUS
<1>2. /\ n \in Nat /\ DOMAIN s = 1..n /\ s = [i \in 1..n |-> s[i]] /\ DOMAIN e = 1..n
  <2>1. s \in Seq(Range(s)) /\ e \in Seq(Range(e)) /\ Len(e) = Len(s)
    BY DocumentsAssumption DEF EstimatesFit
  <2> HIDE DEF s, e
  <2> QED BY <1>1, <2>1
<1>3. /\ s \in Surjection(1..n, Range(s)) /\ m \in Injection(1..n, Range(s))
      /\ \A k \in 1..n : m[k] = e[k].stage
  <2>1. /\ m = [i \in 1..n |-> m[i]] /\ IsInjective(m) /\ Range(m) \subseteq Range(s)
        /\ \A k \in 1..n : m[k] = e[k].stage
    BY <1>2 DEF EstimatesFit, Each
  <2> HIDE DEF s, m, e
  <2>2. s \in Surjection(1..n, Range(s))
    BY <1>2 DEF Surjection, Range
  <2>3. m \in Injection(1..n, Range(s))
    BY <2>1 DEF Injection, Range
  <2> QED BY <2>1, <2>2, <2>3
<1>4. ASSUME NEW i \in DOMAIN s PROVE Cardinality({j \in DOMAIN e : e[j].stage = s[i]}) = 1
  <2>1. s[i] \in Range(s)
    BY DEF Range
  <2> HIDE DEF m, s, e
  <2>2. PICK j \in 1..n : {k \in 1..n : m[k] = s[i]} = {j}
    BY <1>2, <1>3, <2>1, OnceEach
  <2>3. {k \in DOMAIN e : e[k].stage = s[i]} = {j}
    BY <1>2, <1>3, <2>2
  <2> QED BY <2>3, FS_Singleton
<1>5. \A x \in Range(e) : x.low \in 1..x.high
  BY DocumentsAssumption DEF EstimatesFit
<1> QED BY <1>4, <1>5

LEMMA ParsedIsWhole ==
  ASSUME NEW h \in Range(Plans), ParsesHandoff(h)
  PROVE  IsWhole(h)
<1>1. /\ ValidCore(h) /\ ValidCriteria(h) /\ h.version \in 1..4
      /\ h.version > 2 => ValidPlan(h)
  BY DEF ParsesHandoff
<1>2. ASSUME h.version > 1, NEW item \in Range(h.acceptance)
      PROVE  Cardinality(DOMAIN item.ways) = 1
  <2>1. PICK way : DOMAIN item.ways = {way}
    BY <1>1, <1>2 DEF ValidCriteria, Verifiable
  <2> QED BY <2>1, FS_Singleton
<1>3. CommittedItems(h) \intersect Range(h.outOfScope) = {}
  BY <1>1, CommittedNone DEF ValidCore, ValidPlan
<1>4. h.version > 2 =>
        /\ \A i \in DOMAIN h.stages :
             Cardinality({j \in DOMAIN h.estimates : h.estimates[j].stage = h.stages[i]}) = 1
        /\ \A e \in Range(h.estimates) : e.low \in 1..e.high
  BY <1>1, EstimatesAreWhole DEF ValidPlan
<1> QED BY <1>2, <1>3, <1>4 DEF IsWhole

LEMMA JudgedIsWhole == ClearanceInv => PlansAreWhole
<1> SUFFICES ASSUME ClearanceInv, NEW c \in Callers, Judged(c),
                    State(runs[c].verdict) # "invalid"
             PROVE  IsWhole(HandoffOf(runs[c].in))
  BY DEF PlansAreWhole
<1>1. runs[c].in \in Inputs /\ GivenFor(runs[c].in, runs[c].verdict)
  BY DEF ClearanceInv, RunInv
<1>2. PICK in \in Inputs : in = runs[c].in
  BY <1>1
<1>3. PICK cleared : runs[c].verdict = Evaluate(in, cleared)
  BY <1>1, <1>2 DEF GivenFor
<1>4. ParsesHandoff(HandoffOf(in))
  BY <1>3, VerdictSays
<1>5. in.handoff \in DOMAIN Plans
  BY DEF Inputs
<1>6. HandoffOf(in) \in Range(Plans)
  BY <1>5 DEF HandoffOf, Range
<1> QED BY <1>2, <1>4, <1>6, ParsedIsWhole

-----------------------------------------------------------------------------
(* What a person affirmed, and what is on file.                            *)
LEMMA ReadyIsOnFile ==
  ASSUME NEW in \in Inputs, NEW verdict, GivenFor(in, verdict), State(verdict) = "ready"
  PROVE  /\ OnFile(in) /\ ParsesHandoff(HandoffOf(in)) /\ Refusals(in) = {}
         /\ OverlapBlockers(in) = {} /\ HandoffOf(in).version # 1
<1>1. verdict.blockers = {}
  BY DEF State
<1>2. PICK cleared : verdict = Evaluate(in, cleared)
  BY DEF GivenFor
<1>3. ParsesHandoff(HandoffOf(in)) /\ Blockers(in, cleared) = {}
  BY <1>1, <1>2 DEF Evaluate
<1>4. OnFile(in)
  <2>1. "clearance_missing" \in Blockers(in, Nothing)
    BY DEF Blockers, ClearanceBlockers
  <2>2. Evaluate(in, Nothing).blockers # {}
    BY <1>3, <2>1 DEF Evaluate
  <2> QED BY <1>1, <2>2 DEF GivenFor
<1>5. Refusals(in) = {} /\ OverlapBlockers(in) = {} /\ HandoffOf(in).version # 1
  BY <1>3 DEF Blockers
<1> QED BY <1>3, <1>4, <1>5

LEMMA BoundWhenReady ==
  ASSUME NEW in \in Inputs, Refusals(in) = {}
  PROVE  Bound(in) /\ in.tree # Nothing /\ in.tree.toplevel = Root
<1>1. in.goal # Nothing /\ BindsGoal(HandoffOf(in), GoalOf(in))
  BY DEF Refusals, GoalRefusals, BindsGoal
<1>2. in.tree # Nothing /\ in.tree.toplevel = Root
  BY DEF Refusals, TreeRefusals
<1> QED BY <1>1, <1>2 DEF Bound

(* A record on file that binds an input is an answer to its view.          *)
LEMMA OnFileIsAnswered ==
  ASSUME ClearanceInv, NEW in \in Inputs, OnFile(in), ParsesHandoff(HandoffOf(in))
  PROVE  \E a \in answers :
           /\ Affirmed(a.told) /\ a.saw.plan = in.handoff /\ a.saw.goal = in.goal
           /\ a.told.subject.tree = in.tree /\ a.told.resolved = Flags(in)
<1>1. /\ Subject(in) # Nothing /\ clearances[in.handoff] # Nothing
      /\ Affirmed(clearances[in.handoff])
      /\ BindsRecord(clearances[in.handoff], Evaluate(in, Nothing))
  BY DEF OnFile
<1>2. in.handoff \in DOMAIN Plans
  BY DEF Inputs
<1>3. PICK a \in answers : a.told = clearances[in.handoff]
  BY <1>1, <1>2 DEF ClearanceInv, RecordsInv
<1>4. a.saw = a.told.view
  BY DEF ClearanceInv, AnswersInv
<1>5. a.told.subject = Subject(in) /\ a.told.view = View(in) /\ a.told.resolved = Flags(in)
  BY <1>1, <1>3 DEF BindsRecord, Evaluate
<1>6. View(in) = [goal |-> in.goal, plan |-> in.handoff, flags |-> Flags(in)]
  BY <1>1 DEF View
<1>7. Subject(in).tree = in.tree
  BY <1>1, SubjectOfInput
<1> QED BY <1>1, <1>3, <1>4, <1>5, <1>6, <1>7

LEMMA ReadyIsJudged ==
  ASSUME ClearanceInv, NEW c \in Callers, SaidReady(c)
  PROVE  runs[c].in \in Inputs /\ GivenFor(runs[c].in, runs[c].verdict)
         /\ State(runs[c].verdict) = "ready"
BY DEF ClearanceInv, RunInv, SaidReady

LEMMA ReadyAffirmed == ClearanceInv => ReadyIsAffirmed /\ DeclineStands
<1> SUFFICES ASSUME ClearanceInv, NEW c \in Callers, SaidReady(c)
             PROVE  LET in == runs[c].in
                        h == HandoffOf(in)
                        excluded == Range(GoalOf(in).nonGoals)
                    IN  /\ h.version > 1 /\ in.tree.toplevel = Root
                        /\ h.version > 2 => CommittedItems(h) \intersect excluded = {}
                        /\ \E a \in answers :
                             /\ Affirmed(a.told) /\ a.saw.plan = in.handoff
                             /\ a.saw.goal = in.goal /\ a.told.subject.tree = in.tree
                             /\ \A i \in DOMAIN h.stages :
                                  h.stages[i] \in excluded => <<"stages", i>> \in a.told.resolved
                        /\ Affirmed(clearances[in.handoff])
  BY DEF ReadyIsAffirmed, DeclineStands
<1>1. PICK in \in Inputs : in = runs[c].in
  BY ReadyIsJudged
<1>2. /\ OnFile(in) /\ ParsesHandoff(HandoffOf(in)) /\ Refusals(in) = {}
      /\ OverlapBlockers(in) = {} /\ HandoffOf(in).version # 1
  BY <1>1, ReadyIsJudged, ReadyIsOnFile
<1>3. Bound(in) /\ in.tree.toplevel = Root
  BY <1>2, BoundWhenReady
<1>4. PICK h, g : h = HandoffOf(in) /\ g = GoalOf(in)
  OBVIOUS
<1>5. h.version \in 1..4 /\ h.version > 1
  BY <1>2, <1>4 DEF ParsesHandoff
<1>6. h.version > 2 => CommittedItems(h) \intersect Range(g.nonGoals) = {}
  <2> SUFFICES ASSUME h.version > 2
               PROVE  CommittedItems(h) \intersect Range(g.nonGoals) = {}
    OBVIOUS
  <2>1. PlanOverlaps(h, g) = {}
    BY <1>2, <1>3, <1>4, <1>5 DEF OverlapBlockers
  <2>2. HoldsNone(CommittedLists(h), g.nonGoals) /\ HoldsNone(PlannedLists(h), g.nonGoals)
    BY <2>1, ExcludedNone DEF PlanOverlaps
  <2> QED BY <2>2, CommittedNone
<1>7. PICK a \in answers :
         /\ Affirmed(a.told) /\ a.saw.plan = in.handoff /\ a.saw.goal = in.goal
         /\ a.told.subject.tree = in.tree /\ a.told.resolved = Flags(in)
  BY <1>2, OnFileIsAnswered
<1>8. ASSUME NEW i \in DOMAIN h.stages, h.stages[i] \in Range(g.nonGoals)
      PROVE  <<"stages", i>> \in a.told.resolved
  <2>1. h.version < 3
    <3>1. h.stages[i] \in CommittedItems(h)
      BY <1>8 DEF CommittedItems, Range
    <3> QED BY <1>5, <1>6, <1>8, <3>1
  <2>2. Flags(in) = ExcludedIn(CommittedLists(h), g)
    BY <1>3, <1>4, <2>1 DEF Flags
  <2> QED BY <1>7, <1>8, <2>2, StagesFlagged
<1>9. Affirmed(clearances[in.handoff])
  BY <1>2 DEF OnFile
<1> QED BY <1>1, <1>3, <1>4, <1>5, <1>6, <1>7, <1>8, <1>9

(* What a person saw was fit to be shown.                                  *)
LEMMA ShownIsPlain ==
  ASSUME NEW in, ParsesHandoff(HandoffOf(in)), Presentable(in)
  PROVE  /\ HandoffOf(in).raw = "plain" /\ GoalOf(in).raw = "plain"
         /\ HandoffOf(in).version > 1 =>
              Range(Each(HandoffOf(in).acceptance, "criterion")) \intersect HiddenTexts = {}
         /\ \A flag \in Flags(in) :
              CommittedLists(HandoffOf(in))[flag[1]][flag[2]] \notin HiddenTexts
<1>1. /\ HandoffOf(in).raw = "plain" /\ GoalOf(in).raw = "plain"
      /\ ShownTexts(in) \intersect HiddenTexts = {}
  BY DEF Presentable
<1>2. FlaggedTexts(in) \subseteq ShownTexts(in)
  BY DEF ShownTexts
<1>3. \A flag \in Flags(in) :
        CommittedLists(HandoffOf(in))[flag[1]][flag[2]] \in FlaggedTexts(in)
  BY DEF FlaggedTexts
<1>4. HandoffOf(in).version > 1 =>
        \A item \in Range(HandoffOf(in).acceptance) : item.criterion \in ShownTexts(in)
  BY DEF ShownTexts, ItemTexts
<1>5. \A text \in Range(Each(HandoffOf(in).acceptance, "criterion")) :
        \E item \in Range(HandoffOf(in).acceptance) : text = item.criterion
  BY DEF Range, Each
<1> QED BY <1>1, <1>2, <1>3, <1>4, <1>5

LEMMA RecordsAreSeen == ClearanceInv => RecordsArePeoples
<1> SUFFICES ASSUME ClearanceInv, NEW name \in DOMAIN Plans, clearances[name] # Nothing
             PROVE  LET h == Plans[name]
                    IN  \E a \in answers :
                          /\ a.told = clearances[name]
                          /\ a.saw.plan = name /\ a.saw.goal = a.told.subject.goal
                          /\ h.raw = "plain" /\ Goals[a.saw.goal].raw = "plain"
                          /\ h.version > 1 =>
                               Range(Each(h.acceptance, "criterion"))
                                 \intersect HiddenTexts = {}
                          /\ \A flag \in a.saw.flags :
                               CommittedLists(h)[flag[1]][flag[2]] \notin HiddenTexts
  BY DEF RecordsArePeoples
<1>1. PICK a \in answers : a.told = clearances[name] /\ a.told.subject.handoff = name
  BY DEF ClearanceInv, RecordsInv
<1>2. a.saw = a.told.view /\ IsSound(a.told.subject, a.told.view, a.told.resolved)
  BY DEF ClearanceInv, AnswersInv
<1>3. PICK in \in Inputs :
         /\ ParsesHandoff(HandoffOf(in)) /\ a.told.subject # Nothing
         /\ a.told.subject = Subject(in) /\ a.told.view = View(in)
  BY <1>2 DEF IsSound
<1>4. in.handoff = name /\ a.told.subject.goal = in.goal /\ Presentable(in)
  BY <1>1, <1>3, SubjectOfInput
<1>5. a.saw = [goal |-> in.goal, plan |-> in.handoff, flags |-> Flags(in)]
  BY <1>2, <1>3 DEF View
<1>6. a.saw.goal = in.goal /\ a.saw.plan = in.handoff /\ a.saw.flags = Flags(in)
  BY <1>5
<1>7. HandoffOf(in) = Plans[name] /\ GoalOf(in) = Goals[a.saw.goal]
  BY <1>4, <1>6 DEF HandoffOf, GoalOf
<1>8. /\ HandoffOf(in).raw = "plain" /\ GoalOf(in).raw = "plain"
      /\ HandoffOf(in).version > 1 =>
           Range(Each(HandoffOf(in).acceptance, "criterion")) \intersect HiddenTexts = {}
      /\ \A flag \in Flags(in) :
           CommittedLists(HandoffOf(in))[flag[1]][flag[2]] \notin HiddenTexts
  BY <1>3, <1>4, ShownIsPlain
<1> QED BY <1>1, <1>4, <1>6, <1>7, <1>8

(* An affirmation clears what it was given for.                            *)
LEMMA ClearedBlockers ==
  ASSUME NEW in, Subject(in) # Nothing, ParsesHandoff(HandoffOf(in)),
         NEW cleared, cleared # Nothing, ClearanceMatches(in, cleared)
  PROVE  Evaluate(in, cleared).blockers
           = Evaluate(in, Nothing).blockers \ {"clearance_missing", "flags_unresolved"}
<1>1. ClearanceBlockers(in, cleared) = {} /\ ClearanceBlockers(in, Nothing) = {"clearance_missing"}
  BY DEF ClearanceBlockers
<1>2. Refusals(in) = {} /\ Presentable(in)
  BY DEF Subject
<1>3. Blockers(in, cleared) = Blockers(in, Nothing) \ {"clearance_missing", "flags_unresolved"}
  BY <1>1, <1>2 DEF Blockers, OverlapBlockers
<1> QED BY <1>3 DEF Evaluate

LEMMA AffirmedClears == ClearanceInv => AffirmationClears
<1> SUFFICES ASSUME ClearanceInv, NEW name \in DOMAIN Plans, clearances[name] # Nothing,
                    Affirmed(clearances[name])
             PROVE  \E in \in {InputOf(clearances[name].subject)} :
                      \E first \in {FirstVerdict[in]} : \E cleared \in {LookUp(first)} :
                         /\ cleared = ClearanceOf(first)
                         /\ Evaluate(in, cleared).blockers
                              = first.blockers \ {"clearance_missing", "flags_unresolved"}
  BY DEF AffirmationClears
<1>1. PICK record : record = clearances[name]
  OBVIOUS
<1>2. PICK a \in answers : a.told = record /\ record.subject.handoff = name
  BY <1>1 DEF ClearanceInv, RecordsInv
<1>3. IsSound(record.subject, record.view, record.resolved)
  BY <1>2 DEF ClearanceInv, AnswersInv
<1>4. PICK in \in Inputs :
         /\ ParsesHandoff(HandoffOf(in)) /\ record.subject # Nothing
         /\ record.subject = Subject(in) /\ record.view = View(in) /\ record.resolved = Flags(in)
         /\ in = InputOf(record.subject)
  BY <1>3 DEF IsSound
<1>5. PICK first : first = Evaluate(in, Nothing)
  OBVIOUS
<1>6. /\ first = FirstVerdict[in] /\ first.subject = Subject(in) /\ first.view = View(in)
      /\ first.flags = Flags(in) /\ ClearanceOf(first) # Nothing
  BY <1>4, <1>5, FirstIsFirst, NothingAssumption DEF Evaluate
<1>7. LookUp(first) = ClearanceOf(first)
  <2>1. BindsRecord(record, first)
    BY <1>4, <1>6 DEF BindsRecord
  <2>2. first.subject # Nothing /\ clearances[KeyOf(first.subject)] = record /\ record # Nothing
    BY <1>1, <1>2, <1>4, <1>6 DEF KeyOf
  <2>3. Verify(record, first) = ClearanceOf(first)
    BY <1>1, <2>1 DEF Verify, ClearanceOf, BindsRecord
  <2> QED BY <2>2, <2>3 DEF LookUp
<1>8. ClearanceMatches(in, ClearanceOf(first))
  BY <1>6 DEF ClearanceMatches, ClearanceOf
<1>9. Evaluate(in, ClearanceOf(first)).blockers
        = first.blockers \ {"clearance_missing", "flags_unresolved"}
  BY <1>4, <1>5, <1>6, <1>8, ClearedBlockers
<1> QED BY <1>1, <1>4, <1>6, <1>7, <1>9

LEMMA ClearanceInvImplies == ClearanceInv => ClearanceIsSound
BY ReadyAffirmed, RecordsAreSeen, AffirmedClears, JudgedIsWhole DEF ClearanceIsSound

(* The index, for any observations, queries and indexers: rows are current *)
(* and of the goal, coverage is of the answer, no cached index is older    *)
(* than the query, and builds do not mix.                                  *)
THEOREM IndexStaysSound == IndexSpec => [](IndexTypeOK /\ RecallHolds)
<1>1. IndexInit => IndexInv
  BY IndexInitInv
<1>2. IndexInv /\ [IndexNext]_indexVars => IndexInv'
  BY IndexStep
<1>3. IndexInv => IndexTypeOK /\ RecallHolds
  BY IndexInvImplies
<1> QED BY <1>1, <1>2, <1>3, PTL DEF IndexSpec

(* A step of the composition is a step of each part, or none of it.        *)
LEMMA ReadsSteps ==
  [ReadsNext]_readsVars =>
    [IndexNext]_indexVars /\ [ClearanceNext]_clearanceVars /\ [ContainedNext]_containedVars
      /\ UNCHANGED part
<1>1. CASE ReadsNext
  BY <1>1 DEF ReadsNext, ReadsStill
<1>2. CASE UNCHANGED readsVars
  BY <1>2 DEF readsVars
<1> QED BY <1>1, <1>2

(* What a run of the composition checks of the index, for any constants:   *)
(* an answer from the embedding index is current, says what it left out,   *)
(* and comes from no index older than the question.                        *)
THEOREM AnswersAreCurrent == ReadsSpec => []IndexHolds
<1>1. ReadsInit => IndexInv
  BY IndexInitInv DEF ReadsInit
<1>2. IndexInv /\ [ReadsNext]_readsVars => IndexInv'
  BY IndexStep, ReadsSteps
<1>3. IndexInv => IndexHolds
  BY IndexInvImplies DEF IndexHolds
<1> QED BY <1>1, <1>2, <1>3, PTL DEF ReadsSpec

(* A plan that is said ready was affirmed, in this worktree, by a person   *)
(* who was shown these documents; a decline stands, a record is an answer, *)
(* an affirmation clears what it was given for, and a plan that is judged  *)
(* well formed is whole; for any documents, dialogs, assessors and edits.  *)
THEOREM ClearanceStaysSound ==
  ClearanceInit /\ [][ClearanceNext]_clearanceVars => []ClearanceIsSound
<1>1. ClearanceInit => ClearanceInv
  BY ClearanceInitInv
<1>2. ClearanceInv /\ [ClearanceNext]_clearanceVars => ClearanceInv'
  BY ClearanceStep
<1>3. ClearanceInv => ClearanceIsSound
  BY ClearanceInvImplies
<1> QED BY <1>1, <1>2, <1>3, PTL

(* What is read of a document, wherever it is moved and whatever is planted*)
(* in its place, is a file that lay in the worktree.                       *)
THEOREM ReadStaysInside ==
  ContainedInit /\ [][ContainedNext]_containedVars => []ReadsStayInside
<1>1. ContainedInit => ContainedInv
  BY ContainedInitInv
<1>2. ContainedInv /\ [ContainedNext]_containedVars => ContainedInv'
  BY ContainedStep
<1>3. ContainedInv => ReadsStayInside
  BY ContainedInvImplies
<1> QED BY <1>1, <1>2, <1>3, PTL

(* And of the clearance and the contained read: a plan is ready only when  *)
(* it was affirmed by a person who saw it, a decline stands, records are   *)
(* answers, affirmations clear, plans are whole; and what is read of a     *)
(* document lay in the worktree.                                           *)
THEOREM ReadsHold == ReadsSpec => []ClearingHolds
<1>1. ReadsInit => ClearanceInv /\ ContainedInv
  BY ClearanceInitInv, ContainedInitInv DEF ReadsInit
<1>2. ClearanceInv /\ ContainedInv /\ [ReadsNext]_readsVars => ClearanceInv' /\ ContainedInv'
  BY ClearanceStep, ContainedStep, ReadsSteps
<1>3. ClearanceInv /\ ContainedInv => ClearingHolds
  BY ClearanceInvImplies, ContainedInvImplies DEF ClearingHolds
<1> QED BY <1>1, <1>2, <1>3, PTL DEF ReadsSpec
=============================================================================
