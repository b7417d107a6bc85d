---------------------------- MODULE VectorIndex ----------------------------
(***************************************************************************)
(* The embedding index of a project's memory, and the queries that answer  *)
(* from it (longterm-mem: vecindex.Builder.Build, Index.Save, Load,        *)
(* LoadCache, Repository; embedindex.UseCase; query.embeddingArm; engram   *)
(* Store.CoverageSnapshot).                                                *)
(*                                                                         *)
(* The index is two files, replaced one after another by a build and read  *)
(* one after another by a query that takes no lock: the manifest, whose    *)
(* entries name observations and the fingerprints of the texts embedded,   *)
(* and the blob, whose i-th vector belongs to the manifest's i-th entry.   *)
(* People edit, delete and add observations meanwhile.  A query that finds *)
(* a small gap between the index and the live observations builds first    *)
(* and answers from the index it reloads.                                  *)
(*                                                                         *)
(* A vector is known by the text it embeds, so a text's fingerprint stands *)
(* for its vector too; similarity is left out: `rows` are all the rows the *)
(* search may offer, of which it shows the most similar.                   *)
(***************************************************************************)
EXTENDS Naturals, Sequences, FiniteSets

CONSTANTS
  Observations,  \* identifiers of observations, a set of numbers
  TopicGoal,        \* the goal whose topic an observation has, or NoGoal
  AskedGoals,         \* the goals a query may ask under; NoGoal asks for all
  NoGoal,
  Queries,       \* queries of one MCP server, which share its cache
  Indexers,      \* runs of `longterm-mem index --embeddings`
  NoFile,       \* no build under way, no file, no reading
  TopUpMaxRows,  \* 25 in the code
  MaxSaves,      \* bound on the changes to the memory
  MaxBuilds,     \* bound on the builds that write
  MaxStops       \* bound on killed processes and failed writes

Actors == Queries \union Indexers

ASSUME ObservationsAssumption == Observations \subseteq Nat /\ IsFiniteSet(Observations)
ASSUME ActorsAssumption == Queries \intersect Indexers = {} /\ NoFile \notin Actors
ASSUME NoFileAssumption ==
  NoFile \notin [stamp : Nat, entries : Seq(Observations \X (0..2))]
ASSUME IndexBoundsAssumption == MaxSaves \in Nat /\ MaxStops \in Nat

VARIABLES
  memory,        \* what engram holds of an observation
  saves,
  manifest,      \* [stamp, entries] or NoFile
  blob,          \* the vectors, or NoFile
  builder,       \* the build that holds the directory's lock
  cache,         \* the server's cached index with the stamp it was read at
  torn,          \* a write of an index stopped between its two files
  stops,
  act            \* what every actor is doing

indexVars ==
  <<memory, saves, manifest, blob, builder, cache, torn, stops, act>>

----------------------------------------------------------------------------
(* The memory.                                                             *)

NotThere == [state |-> "absent", text |-> 0]
Live == {o \in Observations : memory[o].state = "live"}

(* Repository.Fingerprint of an observation's present text, and the vector *)
(* the backend gives for it.                                               *)
Fingerprint(o, text) == <<o, text>>

(* ListObservations gives rows in the order of their identifiers.          *)
InOrder(S) ==
  CHOOSE s \in [1..Cardinality(S) -> S] :
    \A i, j \in DOMAIN s : i < j => s[i] < s[j]

TopicVisibleUnderGoal(o, goal) ==
  goal = NoGoal \/ TopicGoal[o] \in {NoGoal, goal}

(* A person or an agent saves, changes or deletes an observation.  Engram  *)
(* itself is not in the repository; identifiers are not used again.        *)
Remember(o) ==
  /\ saves < MaxSaves
  /\ saves' = saves + 1
  /\ \/ /\ memory[o].state = "absent"
        /\ memory' = [memory EXCEPT ![o] = [state |-> "live", text |-> 1]]
     \/ /\ memory[o].state = "live"
        /\ memory' = [memory EXCEPT ![o].text = 3 - @]
     \/ /\ memory[o].state = "live"
        /\ memory' = [memory EXCEPT ![o].state = "deleted"]
  /\ act' = [a \in Actors |->
              IF act[a].at = "idle" THEN act[a]
              ELSE [act[a] EXCEPT !.held = @ \union
                      {<<p, memory'[p].text>> : p \in
                         {r \in Observations : memory'[r].state = "live"}}]]
  /\ UNCHANGED <<manifest, blob, builder, cache, torn, stops>>

----------------------------------------------------------------------------
(* Readings of the index.                                                  *)

NoIndex == [kind |-> "none", stamp |-> 0, entries |-> <<>>, vectors |-> <<>>]
Corrupted == [NoIndex EXCEPT !.kind = "corrupted"]

(* Load, once it has read the manifest `m` and the blob `b`: the length is *)
(* the only thing that ties one to the other.                              *)
Loaded(m, b) ==
  IF m = NoFile THEN NoIndex
  ELSE IF b = NoFile THEN Corrupted
  ELSE IF Len(b) # Len(m.entries) THEN Corrupted
  ELSE [kind |-> "index", stamp |-> m.stamp,
        entries |-> m.entries, vectors |-> b]

IndexedIDs(idx) == {idx.entries[i][1] : i \in DOMAIN idx.entries}

(* Mutant: a deleted observation is read as well.                          *)
KnownByID(idx) ==
  [o \in {p \in IndexedIDs(idx) : memory[p].state # "absent"} |-> memory[o].text]

(* CoverageSnapshot: one transaction counts the live observations and      *)
(* reads those the index names.                                            *)
LiveByID(idx) ==
  [o \in Live \intersect IndexedIDs(idx) |-> memory[o].text]

(* The stamp of the manifest file as os.Stat sees it (its time and size).  *)
StampOf(m) == IF m = NoFile THEN 0 ELSE m.stamp

----------------------------------------------------------------------------
(* Actors.                                                                 *)

(* Of a query: its goal, whether it names the embedding source itself, the *)
(* reading under way (stat, read), the reading it answers from (idx) with  *)
(* its snapshot (live, byID), the reading after a top-up (fresh), and what *)
(* it answers (told, rows, covered).  Of a build: its draft.  `asked` and  *)
(* `held` are history: the stamp when the query began, and the texts that  *)
(* were live since.                                                        *)
Idle == [at |-> "idle", goal |-> NoGoal, named |-> FALSE, stat |-> 0,
         read |-> NoFile, idx |-> NoIndex, fresh |-> NoIndex, live |-> {},
         byID |-> <<>>, told |-> {}, rows |-> {}, covered |-> FALSE,
         draft |-> [entries |-> <<>>, vectors |-> <<>>],
         asked |-> 0, held |-> {}]

IndexInit ==
  /\ memory \in [Observations -> {NotThere, [state |-> "live", text |-> 1]}]
  /\ saves = 0
  /\ manifest = NoFile /\ blob = NoFile /\ builder = NoFile
  /\ cache = NoIndex
  /\ torn = FALSE /\ stops = 0
  /\ act = [a \in Actors |-> Idle]

Become(a, r) == act' = [act EXCEPT ![a] = r]

(* A query begins (query.Run).  It reads the index once, to choose its     *)
(* sources or, when they are named, to search it; that reading serves the  *)
(* whole query.                                                            *)
Ask(q, goal, named) ==
  /\ act[q].at \in {"idle", "answered"}
  /\ Become(q, [Idle EXCEPT !.at = "looking", !.goal = goal,
                            !.named = named,
                            !.asked = StampOf(manifest),
                            !.held = {<<o, memory[o].text>> : o \in Live}])
  /\ UNCHANGED <<memory, saves, manifest, blob, builder, cache, torn, stops>>

(* Mutant: what is cached is not compared with what is on disk.            *)
CachedForGood(stamp) == stamp # 0 /\ cache.kind = "index"

(* LoadCache.Load up to its use of the cache: the manifest's stamp alone   *)
(* says whether the cached index is the one on disk.                       *)
Cached(stamp) == stamp # 0 /\ cache.kind = "index" /\ cache.stamp = stamp

LookUpCache(q) ==
  /\ act[q].at = "looking"
  /\ LET stamp == StampOf(manifest)
     IN Become(q, IF Cached(stamp)
                  THEN [act[q] EXCEPT !.at = "loaded", !.idx = cache]
                  ELSE [act[q] EXCEPT !.at = "manifest", !.stat = stamp])
  /\ UNCHANGED <<memory, saves, manifest, blob, builder, cache, torn, stops>>

ReadManifest(q) ==
  /\ act[q].at = "manifest"
  /\ Become(q, [act[q] EXCEPT !.at = "blob", !.read = manifest])
  /\ UNCHANGED <<memory, saves, manifest, blob, builder, cache, torn, stops>>

(* The rest of Load and of LoadCache.Load: what was read is cached under   *)
(* the stamp taken before the reading, and a failed reading is forgotten.  *)
ReadBlob(q) ==
  /\ act[q].at = "blob"
  /\ LET idx == Loaded(act[q].read, blob)
     IN /\ Become(q, [act[q] EXCEPT !.at = "loaded", !.idx = idx,
                                    !.read = NoFile, !.stat = 0])
        /\ cache' = IF idx.kind = "index" /\ act[q].stat # 0
                    THEN [idx EXCEPT !.stamp = act[q].stat] ELSE NoIndex
  /\ UNCHANGED <<memory, saves, manifest, blob, builder, torn, stops>>

----------------------------------------------------------------------------
(* The embedding arm (embeddingArm.run, topUp).                            *)

Diagnosed(idx, told) ==
  IF idx.kind = "corrupted" THEN told \union {"unreadable"} ELSE told

(* Mutant: only an index that is not there counts as incomplete.           *)
IncompleteIfNone(idx, unindexed) ==
  IF idx.kind # "index" THEN {"incomplete"} ELSE {}

(* coverageIncompleteDiagnostic.                                           *)
Incomplete(idx, unindexed) ==
  IF idx.kind # "index" \/ unindexed > 0 THEN {"incomplete"} ELSE {}

(* Mutant: the goal of the question is not looked at.                      *)
OfferedToAll(idx, byID, goal) ==
  {[of |-> idx.entries[i][1], text |-> byID[idx.entries[i][1]],
    vector |-> idx.vectors[i]] :
     i \in {j \in DOMAIN idx.entries :
              /\ idx.entries[j][1] \in DOMAIN byID
              /\ idx.entries[j] = Fingerprint(idx.entries[j][1], byID[idx.entries[j][1]])}}

(* Offered says which entries become rows: the observation is live in the  *)
(* snapshot, may be seen under the goal, and its text is the one embedded. *)
Offered(idx, byID, goal) ==
  {[of |-> idx.entries[i][1], text |-> byID[idx.entries[i][1]],
    vector |-> idx.vectors[i]] :
     i \in {j \in DOMAIN idx.entries :
              LET o == idx.entries[j][1]
              IN /\ o \in DOMAIN byID
                 /\ TopicVisibleUnderGoal(o, goal)
                 /\ Fingerprint(o, byID[o]) = idx.entries[j]}}

Unindexed(r) == Cardinality(r.live) - Cardinality(DOMAIN r.byID)

(* The answer of a query that holds the reading r; embedding the question  *)
(* itself may fail, which leaves the answer without rows and says so.      *)
Answered(r, embeds) ==
  LET told == Diagnosed(r.idx, r.told)
                \union Incomplete(r.idx, Unindexed(r))
                \union (IF r.idx.kind = "index" /\ ~embeds
                        THEN {"backend"} ELSE {})
  IN [r EXCEPT !.at = "answered", !.told = told, !.covered = TRUE,
               !.fresh = NoIndex, !.draft = Idle.draft,
               !.rows = IF r.idx.kind = "index" /\ embeds
                        THEN Offered(r.idx, r.byID, r.goal) ELSE {}]

Answers(q, r) == \E embeds \in BOOLEAN : Become(q, Answered(r, embeds))

(* defaultSources: a query whose sources are not named and that finds no   *)
(* index to read leaves the embedding arm out, and says why unless no      *)
(* index was ever built.                                                   *)
AnswerLexically(q) ==
  /\ act[q].at = "loaded" /\ ~act[q].named /\ act[q].idx.kind # "index"
  /\ Become(q, [act[q] EXCEPT !.at = "answered",
                              !.told = Diagnosed(act[q].idx, @)])
  /\ UNCHANGED <<memory, saves, manifest, blob, builder, cache, torn, stops>>

(* The snapshot, and whether a build is tried before the answer.  Engram   *)
(* may fail to give one; the counts are then zeros, and the answer says so.*)
Snapshot(q) ==
  /\ act[q].at = "loaded" /\ (act[q].named \/ act[q].idx.kind = "index")
  /\ LET idx == act[q].idx
         seen == [act[q] EXCEPT !.live = Live, !.byID = LiveByID(idx)]
     IN \/ /\ idx.kind = "index" /\ Unindexed(seen) \in 1..TopUpMaxRows
           /\ Become(q, [seen EXCEPT !.at = "rows"])
        \/ /\ ~(idx.kind = "index" /\ Unindexed(seen) \in 1..TopUpMaxRows)
           /\ Answers(q, seen)
        \/ Become(q, [act[q] EXCEPT
                        !.at = "answered", !.covered = TRUE,
                        !.told = {"coverage unreadable", "incomplete"}])
  /\ UNCHANGED <<memory, saves, manifest, blob, builder, cache, torn, stops>>

(* The snapshot after a top-up; without one the query answers with the     *)
(* index and the snapshot it had before.                                   *)
Resnapshot(q) ==
  /\ act[q].at = "reloaded"
  /\ LET fresh == act[q].fresh
     IN \/ Answers(q, [act[q] EXCEPT
                         !.idx = fresh, !.live = Live,
                         !.byID = LiveByID(fresh),
                         !.told = @ \union {"topped up"}])
        \/ Answers(q, [act[q] EXCEPT
                         !.told = @ \union {"coverage unreadable"}])
  /\ UNCHANGED <<memory, saves, manifest, blob, builder, cache, torn, stops>>

(* The reload of a top-up reads the files anew (Invalidate).  A reload     *)
(* that fails leaves the query with the index and the snapshot it had.     *)
Reload(q) ==
  /\ act[q].at = "built"
  /\ cache' = NoIndex
  /\ Become(q, [act[q] EXCEPT !.at = "remanifest",
                              !.stat = StampOf(manifest)])
  /\ UNCHANGED <<memory, saves, manifest, blob, builder, torn, stops>>

RereadManifest(q) ==
  /\ act[q].at = "remanifest"
  /\ Become(q, [act[q] EXCEPT !.at = "reblob", !.read = manifest])
  /\ UNCHANGED <<memory, saves, manifest, blob, builder, cache, torn, stops>>

RereadBlob(q) ==
  /\ act[q].at = "reblob"
  /\ LET idx == Loaded(act[q].read, blob)
         back == [act[q] EXCEPT !.read = NoFile, !.stat = 0]
     IN IF idx.kind = "index"
        THEN /\ cache' = [idx EXCEPT !.stamp = act[q].stat]
             /\ Become(q, [back EXCEPT !.at = "reloaded", !.fresh = idx])
        ELSE /\ cache' = NoIndex
             /\ Answers(q, [back EXCEPT !.told = @ \union
                                            {"top-up failed"}])
  /\ UNCHANGED <<memory, saves, manifest, blob, builder, torn, stops>>

----------------------------------------------------------------------------
(* Builds (Repository.BuildEmbeddingIndex, UseCase.Build, Builder.Build).  *)

(* A build that fails: an indexer reports it, a query answers with what it *)
(* had before.                                                             *)
GiveUp(a) ==
  IF a \in Indexers THEN Become(a, Idle)
  ELSE Answers(a, [act[a] EXCEPT !.told = @ \union {"top-up failed"}])

(* The live rows are read before the lock is taken.                        *)
ReadRows(a) ==
  /\ act[a].at = (IF a \in Indexers THEN "idle" ELSE "rows")
  /\ StampOf(manifest) < MaxBuilds
  /\ LET rows == InOrder(Live)
     IN Become(a, [act[a] EXCEPT
                     !.at = "locking",
                     !.draft.entries = [i \in DOMAIN rows |->
                        Fingerprint(rows[i], memory[rows[i]].text)]])
  /\ UNCHANGED <<memory, saves, manifest, blob, builder, cache, torn, stops>>

(* Reused says the vector an existing index holds for a fingerprint; a     *)
(* row without one is embedded.                                            *)
VectorFor(idx, fp) ==
  IF \E i \in DOMAIN idx.entries : idx.entries[i] = fp
  THEN idx.vectors[CHOOSE i \in DOMAIN idx.entries : idx.entries[i] = fp]
  ELSE fp

(* Mutant: a build does not wait for another's.                            *)
EmbedAtOnce(a) ==
  /\ act[a].at = "locking"
  /\ LET idx == Loaded(manifest, blob)
     IN \/ /\ idx.kind # "corrupted"
           /\ builder' = a
           /\ Become(a, [act[a] EXCEPT
                !.at = "saving",
                !.draft.vectors = [i \in DOMAIN act[a].draft.entries |->
                   VectorFor(idx, act[a].draft.entries[i])]])
        \/ GiveUp(a) /\ UNCHANGED builder
  /\ UNCHANGED <<memory, saves, manifest, blob, cache, torn, stops>>

(* Under the lock: load the index there is, embed what changed.  The load  *)
(* refuses a corrupted index; the backend may fail.                        *)
Embed(a) ==
  /\ act[a].at = "locking" /\ builder = NoFile
  /\ LET idx == Loaded(manifest, blob)
     IN \/ /\ idx.kind # "corrupted"
           /\ builder' = a
           /\ Become(a, [act[a] EXCEPT
                !.at = "saving",
                !.draft.vectors = [i \in DOMAIN act[a].draft.entries |->
                   VectorFor(idx, act[a].draft.entries[i])]])
        \/ GiveUp(a) /\ UNCHANGED builder
  /\ UNCHANGED <<memory, saves, manifest, blob, cache, torn, stops>>

(* Index.Save: the blob, then the manifest.                                *)
WriteBlob(a) ==
  /\ act[a].at = "saving"
  /\ blob' = act[a].draft.vectors
  /\ Become(a, [act[a] EXCEPT !.at = "between"])
  /\ UNCHANGED <<memory, saves, manifest, builder, cache, torn, stops>>

WriteManifest(a) ==
  /\ act[a].at = "between"
  /\ manifest' = [stamp |-> StampOf(manifest) + 1,
                  entries |-> act[a].draft.entries]
  /\ builder' = NoFile
  /\ torn' = IF act[a].draft.vectors = act[a].draft.entries
             THEN FALSE ELSE torn
  /\ Become(a, IF a \in Indexers THEN Idle
               ELSE [act[a] EXCEPT !.at = "built", !.draft = Idle.draft])
  /\ UNCHANGED <<memory, saves, blob, cache, stops>>

(* A write of one of the two files fails.                                  *)
FailWrite(a) ==
  /\ stops < MaxStops
  /\ act[a].at \in {"saving", "between"}
  /\ stops' = stops + 1
  /\ torn' = (torn \/ act[a].at = "between")
  /\ builder' = NoFile
  /\ GiveUp(a)
  /\ UNCHANGED <<memory, saves, manifest, blob, cache>>

(* The server or an indexer is killed; the kernel drops its lock.          *)
Kill(killed) ==
  /\ stops < MaxStops
  /\ \E a \in killed : act[a].at # "idle"
  /\ stops' = stops + 1
  /\ torn' = (torn \/ \E a \in killed : act[a].at = "between")
  /\ builder' = IF builder \in killed THEN NoFile ELSE builder
  /\ cache' = IF killed = Queries THEN NoIndex ELSE cache
  /\ act' = [a \in Actors |-> IF a \in killed THEN Idle ELSE act[a]]
  /\ UNCHANGED <<memory, saves, manifest, blob>>

BuildStep(a) ==
  ReadRows(a) \/ Embed(a) \/ WriteBlob(a) \/ WriteManifest(a) \/ FailWrite(a)

QueryStep(q) ==
  \/ LookUpCache(q) \/ ReadManifest(q) \/ ReadBlob(q)
  \/ AnswerLexically(q) \/ Snapshot(q)
  \/ Reload(q) \/ RereadManifest(q) \/ RereadBlob(q) \/ Resnapshot(q)

IndexNext ==
  \/ \E o \in Observations : Remember(o)
  \/ \E q \in Queries, goal \in AskedGoals, named \in BOOLEAN :
       Ask(q, goal, named)
  \/ \E q \in Queries : QueryStep(q)
  \/ \E a \in Actors : BuildStep(a)
  \/ Kill(Queries)
  \/ \E a \in Indexers : Kill({a})

IndexSpec == IndexInit /\ [][IndexNext]_indexVars
----------------------------------------------------------------------------
IndexTypeOK ==
  /\ memory \in [Observations -> [state : {"absent", "live", "deleted"},
                                  text : 0..2]]
  /\ saves \in 0..MaxSaves /\ stops \in 0..MaxStops /\ torn \in BOOLEAN
  /\ builder \in Actors \union {NoFile}
  /\ \A a \in Actors : act[a].idx.kind \in {"none", "corrupted", "index"}

(* A row of an answer is an observation's text as it was while the query   *)
(* ran, never a deleted or a former one, and of no other goal than the one *)
(* asked under (embedarm.go:158-165, 243-252).                             *)
RowsAreCurrent ==
  \A q \in Queries : act[q].at = "answered" =>
    \A row \in act[q].rows : /\ <<row.of, row.text>> \in act[q].held
                            /\ TopicVisibleUnderGoal(row.of, act[q].goal)

(* An answer that searched the index and does not call it incomplete       *)
(* searched every observation that was live (embedarm.go:57-84): coverage  *)
(* and rows are of one reading, before a top-up or after it.               *)
CoverageIsOfTheAnswer ==
  \A q \in Queries : LET r == act[q] IN
    r.at = "answered" /\ r.covered /\ "incomplete" \notin r.told =>
      r.live \subseteq IndexedIDs(r.idx)

(* A query answers from an index no older than the one on disk when it     *)
(* began, whatever is cached (loadcache.go:14-36).                         *)
CacheIsFresh ==
  \A q \in Queries : act[q].idx.kind = "index" =>
                        act[q].idx.stamp >= act[q].asked

(* When no build is between its two writes, and none stopped there, every  *)
(* vector on disk is the one of its entry's text: builds of two processes  *)
(* never mix (builder.go:16-32).                                           *)
BuildsDoNotMix ==
  ~torn /\ (\A a \in Actors : act[a].at # "between") /\ manifest # NoFile
    => blob = manifest.entries

RecallHolds ==
  RowsAreCurrent /\ CoverageIsOfTheAnswer /\ CacheIsFresh /\ BuildsDoNotMix

(* A row is found by its own text's vector.  Load "fails with a corruption *)
(* error rather than serving stale or invalid vectors" (index.go:170-173), *)
(* but nothing ties the blob to the manifest except its length.            *)
ServesOwnVectors ==
  \A q \in Queries : act[q].at = "answered" =>
    \A row \in act[q].rows : row.vector = Fingerprint(row.of, row.text)
=============================================================================
