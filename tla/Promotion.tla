------------------------------ MODULE Promotion ------------------------------
(***************************************************************************)
(* The long-term memory's promotion (longterm-mem/internal/promote): the   *)
(* observations of Engram are written as pages of a vault that people edit *)
(* too.  Beside every page the precedence sidecar keeps the fingerprint of *)
(* what longterm-mem last wrote there; a page that no longer matches it    *)
(* was edited by a person and is left alone, unless it can be shown to be  *)
(* a write of longterm-mem whose fingerprint an interruption lost.         *)
(*                                                                         *)
(* A text stands for its hash.  What a person changed in a page is the set *)
(* of its marks: "key", a line of the frontmatter that no render moves;    *)
(* "title", one that renders move; "mid", the middle of the body; "end",   *)
(* its footer.  The two dates of a page are the day it was rendered.       *)
(***************************************************************************)
EXTENDS Integers, FiniteSets

CONSTANTS
  Processes,     \* processes of longterm-mem
  Observations,  \* what Engram remembers; all of them eligible
  Successor,     \* the observation that would supersede an observation
  NoObservation, \* where there is none
  Projects,      \* the projects that share the vault
  Days,          \* the days a page is rendered on
  Marks,         \* the changes people make, of {"key", "title", "mid", "end"}
  MaxPages,      \* bound on the addresses that are allocated
  MaxRevision,   \* bound on the revisions of an observation
  MaxCommands,   \* bound on the commands that are run
  MaxFaults,     \* bound on kills and failed writes
  MaxTouches,    \* bound on what people do to the vault
  MayMove,       \* whether an observation may move to another project
  MayChangeFate  \* whether observations are superseded and deleted

ASSUME SuccessorAssumption ==
  Successor \in [Observations -> Observations \cup {NoObservation}]
ASSUME MarksAssumption == Marks \subseteq {"key", "title", "mid", "end"}
ASSUME MaxPagesAssumption == MaxPages \in Nat \ {0}

VARIABLES
  memory,        \* Engram: every observation
  pages,         \* the promoted pages, by address
  unreadable,    \* the addresses whose file cannot be read for now
  precedence,    \* the precedence sidecar: fingerprints, by address
  catalog,       \* the addresses index.md lists
  allocated,     \* the addresses taken, in the allocator and the address map
  cmd,           \* what every process is doing
  adopted,       \* the addresses a person reconciled (not part of the program)
  lost,          \* whether the sidecar was lost, or is from an older build
                 \*   (not part of the program)
  counts         \* what happened so far (not part of the program)

promotionVars == <<memory, pages, unreadable, precedence, catalog, allocated,
                   cmd, adopted, lost, counts>>
vault == <<pages, precedence, catalog, allocated>>
people == <<memory, unreadable, adopted, lost>>

None == 0
Addresses == 1 .. MaxPages

Revised(o, day) ==
  [id |-> o, rev |-> memory[o].rev, project |-> memory[o].project, day |-> day]

(* EmitPage.                                                               *)
Render(obs) ==
  [front |-> [id |-> obs.id, project |-> obs.project, rev |-> obs.rev, day |-> obs.day,
              status |-> "developing", related |-> None, marks |-> {}],
   body |-> [id |-> obs.id, rev |-> obs.rev, marks |-> {}]]

NoText == [id |-> NoObservation, rev |-> 0, marks |-> {}]

EntryFor(page) == [front |-> page.front, body |-> page.body, rev |-> page.front.rev]
Matches(entry, page) == entry.front = page.front /\ entry.body = page.body

(* Set on the sidecar, or on the copy of it a process holds.               *)
With(store, a, entry) ==
  [b \in DOMAIN store \cup {a} |-> IF b = a THEN entry ELSE store[b]]
Less(store, a) == [b \in DOMAIN store \ {a} |-> store[b]]

-----------------------------------------------------------------------------
(* findPromotedPage, findMovedPages and UpdateInPlace's judgement.         *)

PagesOf(o) == {a \in DOMAIN pages \ unreadable : pages[a].front.id = o}
Found(o, project) == {a \in PagesOf(o) : pages[a].front.project = project}
FirstFound(o, project) == CHOOSE a \in Found(o, project) : \A b \in Found(o, project) : a <= b
MovedPages(o, project) == PagesOf(o) \ Found(o, project)
(* Mutant: a page that cannot be read is no page.                          *)
NoneIsOneOf(o) == FALSE
MayBeOneOf(o) == DOMAIN pages \cap unreadable # {}

OwnUnrecordedWrite(page, new) == [page EXCEPT !.front.day = new.front.day] = new

RevisionsAllowAdoption(entry, page, new) ==
  entry.rev > 0 /\ page.front.rev > entry.rev /\ page.front.rev <= new.front.rev

(* Mutant: the footer is looked for as this render has it.                 *)
OwnUpdateOfThisRevision(entry, page, new) ==
  /\ RevisionsAllowAdoption(entry, page, new)
  /\ page.body.id = new.front.id /\ page.body.rev = new.front.rev
  /\ "end" \notin page.body.marks
  /\ "key" \notin page.front.marks
OwnUnrecordedUpdate(entry, page, new) ==
  /\ RevisionsAllowAdoption(entry, page, new)
  /\ page.body.id = new.front.id /\ page.body.rev = page.front.rev
  /\ "end" \notin page.body.marks
  /\ "key" \notin page.front.marks

MayOverwrite(store, a, page, new) ==
  \/ OwnUnrecordedWrite(page, new)
  \/ a \in DOMAIN store
       /\ (Matches(store[a], page) \/ OwnUnrecordedUpdate(store[a], page, new))

(* resolveStatus: the status Engram gives a promoted page, and the page of *)
(* the successor.                                                          *)
Fate(o, project) ==
  LET next == Successor[o]
      superseded == memory[o].superseded /\ next # NoObservation
                      /\ memory[next].project = project
  IN  IF superseded
      THEN [status |-> "superseded",
            related |-> IF Found(next, project) = {} THEN None ELSE FirstFound(next, project)]
      ELSE [status |-> IF memory[o].deleted THEN "archived" ELSE "none", related |-> None]

(* PatchStatusFields.                                                      *)
Patched(page, fate) ==
  [page EXCEPT !.front.status = fate.status, !.front.related = fate.related]

(* Mutant: a patch takes the whole page for ours.                          *)
PatchedEntryWhole(store, a, page) ==
  [front |-> page.front, body |-> page.body,
   rev |-> IF a \in DOMAIN store THEN store[a].rev ELSE 0]

(* The fingerprint after a patch: only the frontmatter is ours.            *)
PatchedEntry(store, a, page) ==
  IF a \in DOMAIN store THEN [store[a] EXCEPT !.front = page.front]
  ELSE [front |-> page.front, body |-> NoText, rev |-> 0]

-----------------------------------------------------------------------------
SomeDay == CHOOSE day \in Days : TRUE
Nobody ==
  [id |-> NoObservation, rev |-> 0, project |-> CHOOSE q \in Projects : TRUE, day |-> SomeDay]
NoPage == Render(Nobody)
Free == [at |-> "free", syncs |-> FALSE, project |-> Nobody.project, todo |-> {},
         obs |-> Nobody, address |-> None, seen |-> NoPage, moved |-> {},
         patched |-> FALSE, store |-> <<>>]

(* A vault starts empty, or holds a page an older build wrote: with a      *)
(* fingerprint that names no revision, or with none.                       *)
PromotionInit ==
  /\ \E p0 \in Projects :
       /\ memory = [o \in Observations |-> [rev |-> 1, project |-> p0,
                                            deleted |-> FALSE, superseded |-> FALSE]]
       /\ \/ /\ pages = <<>> /\ precedence = <<>> /\ allocated = {} /\ catalog = {}
             /\ lost = FALSE
          \/ \E o \in Observations :
               LET page == Render([id |-> o, rev |-> 1, project |-> p0, day |-> SomeDay])
               IN  /\ pages = With(<<>>, 1, page)
                   /\ precedence \in {<<>>, With(<<>>, 1, [EntryFor(page) EXCEPT !.rev = 0])}
                   /\ allocated = {1} /\ catalog = {1}
                   /\ lost = TRUE
  /\ unreadable = {} /\ adopted = {}
  /\ cmd = [p \in Processes |-> Free]
  /\ counts = [commands |-> 0, faults |-> 0, touches |-> 0]

At(p, where) == cmd[p].at = where
Goes(p, where) == cmd' = [cmd EXCEPT ![p].at = where]

(* The next observation of a sync, or the end of an explicit promotion.    *)
Next1(p, store) ==
  cmd' = [cmd EXCEPT ![p] =
            IF @.syncs THEN [@ EXCEPT !.at = "sync", !.obs = Nobody, !.address = None,
                                      !.seen = NoPage, !.moved = {}, !.patched = FALSE,
                                      !.store = store]
            ELSE Free]
Passes(p) == Next1(p, cmd[p].store)

BeginsSync(p, project, day) ==
  /\ At(p, "free") /\ counts.commands < MaxCommands
  /\ counts' = [counts EXCEPT !.commands = @ + 1]
  /\ cmd' = [cmd EXCEPT ![p] =
       [Free EXCEPT !.at = "sync", !.syncs = TRUE, !.project = project, !.store = precedence,
          !.todo = {Revised(o, day) : o \in {x \in Observations :
                      memory[x].project = project /\ ~memory[x].deleted}}]]
  /\ UNCHANGED <<people, vault>>

(* An explicit promotion looks the observation up by its number.           *)
BeginsPromote(p, o, day) ==
  /\ At(p, "free") /\ counts.commands < MaxCommands
  /\ counts' = [counts EXCEPT !.commands = @ + 1]
  /\ cmd' = [cmd EXCEPT ![p] = [Free EXCEPT !.at = "promote", !.obs = Revised(o, day),
                                            !.store = precedence]]
  /\ UNCHANGED <<people, vault>>

(* decidePromotion: the page is missing or behind; one that cannot be read *)
(* may be the one.                                                         *)
Needed(obs) ==
  IF Found(obs.id, obs.project) = {} THEN ~MayBeOneOf(obs.id)
  ELSE pages[FirstFound(obs.id, obs.project)].front.rev < obs.rev

Decides(p) ==
  /\ At(p, "sync")
  /\ \E obs \in cmd[p].todo :
       cmd' = [cmd EXCEPT ![p].todo = @ \ {obs},
                          ![p].at = IF Needed(obs) THEN "promote" ELSE "sync",
                          ![p].obs = IF Needed(obs) THEN obs ELSE Nobody]
  /\ UNCHANGED <<people, vault, counts>>

(* Promote: the page the observation has in its project is updated, when   *)
(* the judgement allows it; with none, and none that it might be, a new    *)
(* one is created.                                                         *)
StartsPromote(p) ==
  LET obs == cmd[p].obs
      has == Found(obs.id, obs.project) # {}
      a == FirstFound(obs.id, obs.project)
      allowed == MayOverwrite(cmd[p].store, a, pages[a], Render(obs))
  IN
  /\ At(p, "promote")
  /\ IF ~has /\ MayBeOneOf(obs.id) THEN Passes(p)
     ELSE cmd' = [cmd EXCEPT
            ![p].at = IF ~has THEN "address" ELSE IF allowed THEN "update" ELSE "supersede",
            ![p].address = IF has THEN a ELSE None,
            ![p].seen = IF has /\ allowed THEN pages[a] ELSE NoPage,
            ![p].moved = MovedPages(obs.id, obs.project)]
  /\ UNCHANGED <<people, vault, counts>>

(* Mutant: the address is used and not entered.                            *)
TakesAddressUnentered(p) ==
  /\ At(p, "address")
  /\ Cardinality(allocated) + 1 \in Addresses
  /\ cmd' = [cmd EXCEPT ![p].at = "entry", ![p].address = Cardinality(allocated) + 1]
  /\ UNCHANGED <<people, counts, vault>>

(* takeAddress: the allocator's counter only goes on.                      *)
TakesAddress(p) ==
  LET a == Cardinality(allocated) + 1
  IN
  /\ At(p, "address")
  /\ a \in Addresses
  /\ allocated' = allocated \cup {a}
  /\ cmd' = [cmd EXCEPT ![p].at = "entry", ![p].address = a]
  /\ UNCHANGED <<people, counts, pages, precedence, catalog>>

(* publishNew: the fingerprint first, the page second.                     *)
Saves(p, store, where) ==
  /\ precedence' = store
  /\ cmd' = [cmd EXCEPT ![p].store = store, ![p].at = where]
  /\ UNCHANGED <<people, counts, pages, catalog, allocated>>

(* Mutant: the fingerprint is kept in memory until the page is there.      *)
HoldsEntry(p) ==
  /\ At(p, "entry")
  /\ cmd' = [cmd EXCEPT ![p].at = "page",
       ![p].store = With(@, cmd[p].address, EntryFor(Render(cmd[p].obs)))]
  /\ UNCHANGED <<people, counts, vault>>

SavesEntry(p) ==
  /\ At(p, "entry")
  /\ Saves(p, With(cmd[p].store, cmd[p].address, EntryFor(Render(cmd[p].obs))), "page")

WritesPage(p) ==
  /\ At(p, "page")
  /\ pages' = With(pages, cmd[p].address, Render(cmd[p].obs))
  /\ Goes(p, "register")
  /\ UNCHANGED <<people, counts, precedence, catalog, allocated>>

(* Mutant: the page is registered though it could not be written.          *)
PageFailsUnnoticed(p) ==
  /\ At(p, "page") /\ counts.faults < MaxFaults
  /\ counts' = [counts EXCEPT !.faults = @ + 1]
  /\ Goes(p, "register")
  /\ UNCHANGED <<people, vault>>

(* A page that cannot be written has its fingerprint withdrawn.            *)
PageFails(p) ==
  LET store == Less(cmd[p].store, cmd[p].address)
  IN
  /\ At(p, "page") /\ counts.faults < MaxFaults
  /\ counts' = [counts EXCEPT !.faults = @ + 1]
  /\ precedence' = store
  /\ Next1(p, store)
  /\ UNCHANGED <<people, pages, catalog, allocated>>

(* UpdateInPlace: the page first, then, in Promote, its fingerprint.       *)
UpdatesPage(p) ==
  /\ At(p, "update")
  /\ pages' = With(pages, cmd[p].address, Render(cmd[p].obs))
  /\ cmd' = [cmd EXCEPT ![p].at = "recorded",
       ![p].store = With(@, cmd[p].address, EntryFor(Render(cmd[p].obs)))]
  /\ UNCHANGED <<people, counts, precedence, catalog, allocated>>

SavesUpdate(p) ==
  /\ At(p, "recorded")
  /\ Saves(p, cmd[p].store, "register")

(* register: index.md, and the log beside it.                              *)
Registers(p) ==
  /\ At(p, "register")
  /\ catalog' = catalog \cup {cmd[p].address}
  /\ Goes(p, "supersede")
  /\ UNCHANGED <<people, counts, pages, precedence, allocated>>

(* supersedeMoved: the pages the observation left in other projects point  *)
(* to the one it has now; one that is superseded already is not touched.   *)
Supersedes(p) ==
  /\ At(p, "supersede")
  /\ \E a \in cmd[p].moved :
       LET left == a \in unreadable \/ a \notin DOMAIN pages \/ pages[a].front.status = "superseded"
           page == Patched(pages[a], [status |-> "superseded", related |-> cmd[p].address])
       IN  IF left
           THEN cmd' = [cmd EXCEPT ![p].moved = @ \ {a}] /\ UNCHANGED pages
           ELSE /\ pages' = With(pages, a, page)
                /\ cmd' = [cmd EXCEPT ![p].moved = @ \ {a}, ![p].patched = TRUE,
                                      ![p].store = With(@, a, PatchedEntry(@, a, page))]
  /\ UNCHANGED <<people, counts, precedence, catalog, allocated>>

EndsPromote(p) ==
  /\ At(p, "supersede") /\ cmd[p].moved = {}
  /\ precedence' = IF cmd[p].patched THEN cmd[p].store ELSE precedence
  /\ Passes(p)
  /\ UNCHANGED <<people, counts, pages, catalog, allocated>>

(* Propagate, after the observations of a sync: every promoted page of the *)
(* project, of a deleted observation too, gets the status Engram gives it. *)
BeginsPropagate(p) ==
  /\ At(p, "sync") /\ cmd[p].todo = {}
  /\ cmd' = [cmd EXCEPT ![p].at = "propagate",
       ![p].todo = {x \in Observations : memory[x].project = cmd[p].project}]
  /\ UNCHANGED <<people, vault, counts>>

Propagates(p) ==
  /\ At(p, "propagate")
  /\ \E o \in cmd[p].todo :
       LET a == FirstFound(o, cmd[p].project)
           fate == Fate(o, cmd[p].project)
           page == Patched(pages[a], fate)
       IN  IF Found(o, cmd[p].project) = {} \/ fate.status = "none"
           THEN cmd' = [cmd EXCEPT ![p].todo = @ \ {o}] /\ UNCHANGED pages
           ELSE /\ pages' = With(pages, a, page)
                /\ cmd' = [cmd EXCEPT ![p].todo = @ \ {o}, ![p].patched = TRUE,
                                      ![p].store = With(@, a, PatchedEntry(@, a, page))]
  /\ UNCHANGED <<people, counts, precedence, catalog, allocated>>

EndsSync(p) ==
  /\ At(p, "propagate") /\ cmd[p].todo = {}
  /\ precedence' = IF cmd[p].patched THEN cmd[p].store ELSE precedence
  /\ cmd' = [cmd EXCEPT ![p] = Free]
  /\ UNCHANGED <<people, counts, pages, catalog, allocated>>

(* A write fails: this observation is given up and the sync goes on, with  *)
(* what the process holds of the sidecar as it is.                         *)
WriteFails(p) ==
  /\ cmd[p].at \in {"address", "entry", "update", "recorded", "register"}
  /\ counts.faults < MaxFaults
  /\ counts' = [counts EXCEPT !.faults = @ + 1]
  /\ Passes(p)
  /\ UNCHANGED <<people, vault>>

Killed(p) ==
  /\ ~At(p, "free")
  /\ counts.faults < MaxFaults
  /\ counts' = [counts EXCEPT !.faults = @ + 1]
  /\ cmd' = [cmd EXCEPT ![p] = Free]
  /\ UNCHANGED <<people, vault>>

(* Reconcile: a person has one page taken as longterm-mem's own.           *)
Reconciles(a) ==
  /\ counts.commands < MaxCommands
  /\ counts' = [counts EXCEPT !.commands = @ + 1]
  /\ a \in DOMAIN pages \ unreadable
  /\ a \in DOMAIN precedence => (~Matches(precedence[a], pages[a]) /\ precedence[a].rev = 0)
  /\ precedence' = With(precedence, a, EntryFor(pages[a]))
  /\ adopted' = adopted \cup {a}
  /\ UNCHANGED <<memory, unreadable, lost, cmd, pages, catalog, allocated>>

-----------------------------------------------------------------------------
(* Engram and the people around the vault.                                 *)

Touches == counts.touches < MaxTouches /\ counts' = [counts EXCEPT !.touches = @ + 1]

Edits(a, mark) ==
  /\ Touches
  /\ a \in DOMAIN pages
  /\ pages' = With(pages, a,
       IF mark \in {"key", "title"} THEN [pages[a] EXCEPT !.front.marks = @ \cup {mark}]
       ELSE [pages[a] EXCEPT !.body.marks = @ \cup {mark}])
  /\ UNCHANGED <<people, cmd, precedence, catalog, allocated>>

LosesSidecar ==
  /\ Touches
  /\ precedence # <<>>
  /\ precedence' = <<>> /\ lost' = TRUE
  /\ UNCHANGED <<memory, unreadable, adopted, cmd, pages, catalog, allocated>>

CannotBeRead(a) ==
  /\ Touches
  /\ a \in DOMAIN pages
  /\ unreadable' = IF a \in unreadable THEN unreadable \ {a} ELSE unreadable \cup {a}
  /\ UNCHANGED <<memory, adopted, lost, cmd, vault>>

Changes(o) ==
  /\ \/ /\ memory[o].rev < MaxRevision
        /\ memory' = [memory EXCEPT ![o].rev = @ + 1]
     \/ /\ MayMove
        /\ \E q \in Projects \ {memory[o].project} :
             memory' = [memory EXCEPT ![o].project = q]
     \/ /\ MayChangeFate /\ Successor[o] # NoObservation /\ ~memory[o].superseded
        /\ memory' = [memory EXCEPT ![o].superseded = TRUE]
     \/ /\ MayChangeFate /\ ~memory[o].deleted
        /\ memory' = [memory EXCEPT ![o].deleted = TRUE]
  /\ Touches
  /\ UNCHANGED <<unreadable, adopted, lost, cmd, vault>>

Step(p) ==
  \/ Decides(p) \/ StartsPromote(p) \/ TakesAddress(p) \/ SavesEntry(p) \/ WritesPage(p)
  \/ UpdatesPage(p) \/ SavesUpdate(p) \/ Registers(p) \/ Supersedes(p) \/ EndsPromote(p)
  \/ BeginsPropagate(p) \/ Propagates(p) \/ EndsSync(p)

PromotionNext ==
  \/ \E p \in Processes :
       \/ Step(p) \/ PageFails(p) \/ WriteFails(p) \/ Killed(p)
       \/ \E day \in Days : \/ \E q \in Projects : BeginsSync(p, q, day)
                            \/ \E o \in Observations : BeginsPromote(p, o, day)
  \/ \E a \in Addresses : Reconciles(a) \/ CannotBeRead(a) \/ \E mark \in Marks : Edits(a, mark)
  \/ \E o \in Observations : Changes(o)
  \/ LosesSidecar

PromotionSpec == PromotionInit /\ [][PromotionNext]_promotionVars

-----------------------------------------------------------------------------
(* Properties.                                                             *)

(* Types; every page and every fingerprint is at an address that was       *)
(* allocated.                                                              *)
PromotionTypeOK ==
  /\ DOMAIN pages \subseteq allocated
  /\ DOMAIN precedence \subseteq allocated
  /\ allocated \subseteq Addresses
  /\ catalog \subseteq Addresses
  /\ \A a \in DOMAIN pages :
       pages[a].front.status \in {"developing", "superseded", "archived"}

(* A page is never published without its fingerprint: unless the sidecar   *)
(* itself was lost, every page has an entry, whenever the run that wrote   *)
(* it was killed or whichever of its writes failed (Promote: fingerprint   *)
(* first, page second).                                                    *)
PublishedIsTracked == lost \/ DOMAIN pages \subseteq DOMAIN precedence

(* Nothing points to a page that is not there: neither the page of an      *)
(* observation that was superseded or moved, nor the catalog               *)
(* (supersedeMoved: only after the successor page is on disk).             *)
PointsToPages ==
  /\ catalog \subseteq DOMAIN pages
  /\ \A a \in DOMAIN pages : pages[a].front.related \in DOMAIN pages \cup {None}

(* An observation has at most one page in a project, also when a page      *)
(* cannot be read for a while (allocateAddress, R-008).                    *)
OnePagePerObservation ==
  \A a, b \in DOMAIN pages :
    pages[a].front.id = pages[b].front.id /\ pages[a].front.project = pages[b].front.project
      => a = b

(* What a promotion may take out of the body of the page it updates: what  *)
(* the person gave up by reconciling the page; the middle of the body, in  *)
(* a page an interrupted update left ahead of its fingerprint; and what    *)
(* was written after the promotion read the page.                          *)
Interrupted(p) ==
  cmd[p].address \in DOMAIN cmd[p].store
    /\ cmd[p].seen.front.rev > cmd[p].store[cmd[p].address].rev
GivenUp(p, mark) ==
  LET a == cmd[p].address
  IN  a \in adopted /\ a \in DOMAIN cmd[p].store /\ mark \in cmd[p].store[a].body.marks
Forgoes(p, mark) ==
  \/ GivenUp(p, mark)
  \/ mark = "mid" /\ Interrupted(p)
  \/ mark \notin cmd[p].seen.body.marks

(* No step takes out of the body of a page what a person wrote there but   *)
(* the update of that page, and the update only what was given up, the     *)
(* middle of an interrupted update, or what was written between its read   *)
(* of the page and its write of it, a window that nothing closes           *)
(* (UpdateInPlace).  A patch of a status has such a window too, which is   *)
(* not modelled: here it reads and writes the page in one step.            *)
BodyEditsAreKept ==
  [][\A a \in DOMAIN pages :
       LET kept == IF a \in DOMAIN pages' THEN pages'[a].body.marks ELSE {}
       IN  \A mark \in pages[a].body.marks \ kept :
             \E p \in Processes :
               UpdatesPage(p) /\ cmd[p].address = a /\ Forgoes(p, mark)]_promotionVars

(* Nothing a person wrote in a page is overwritten, the lines of the       *)
(* frontmatter that no render moves among it (R-030).                      *)
EditsAreKept ==
  [][\A p \in Processes :
       UpdatesPage(p) /\ "key" \in cmd[p].seen.front.marks
         => cmd[p].address \in adopted]_promotionVars

(* What no person has touched.                                             *)
Untouched(page) == page.front.marks = {} /\ page.body.marks = {}
(* The next revision of a page's observation.                              *)
Newer(page) == Render([id |-> page.front.id, rev |-> page.front.rev + 1,
                       project |-> page.front.project, day |-> SomeDay])
(* The pages that every later sync is going to refuse though no person has *)
(* touched them and doctor does not name them; a page whose status the     *)
(* next sync patches is not one, its fingerprint is renewed with it.       *)
RefusedInSilence ==
  {a \in DOMAIN pages \cap DOMAIN precedence :
     /\ \A p \in Processes : At(p, "free")
     /\ Untouched(pages[a]) /\ ~MayOverwrite(precedence, a, pages[a], Newer(pages[a]))
     /\ precedence[a].rev > 0
     /\ Fate(pages[a].front.id, pages[a].front.project).status = "none"}

(* An update that an interruption left without its fingerprint does not    *)
(* make the page look edited for good when the update brought a new        *)
(* revision: only a page level with its fingerprint may be refused         *)
(* (isOwnUnrecordedUpdate).                                                *)
InterruptedIsTakenUp == \A a \in RefusedInSilence : pages[a].front.rev = precedence[a].rev

(* What longterm-mem refuses to update for good was edited by a person, or *)
(* is named by doctor (update.go: a page standing level with its entry "is *)
(* a page someone else changed").                                          *)
NoSilentRefusal == RefusedInSilence = {}

(* Wherever a promotion stops, the vault stays one page per observation,   *)
(* every page of it tracked, linked to pages and open to later updates     *)
(* (Writer.Promote, UpdateInPlace, findPromotedPage).                      *)
PagesAreSound ==
  PublishedIsTracked /\ PointsToPages /\ OnePagePerObservation /\ InterruptedIsTakenUp
=============================================================================
