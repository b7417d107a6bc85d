--------------------------- MODULE SettingsHooks ---------------------------
(***************************************************************************)
(* The hooks the overlay keeps in the settings of Claude Code and in the   *)
(* hooks file of Codex (engine/settings).  Both files are the person's:    *)
(* the overlay reads one whole, changes its own entries in it, backs the   *)
(* old one up and renames the new one over it, under no lock.  An entry is *)
(* told from a person's by the words its commands mention: the path of a   *)
(* binary and the identity of a family of hooks.                           *)
(***************************************************************************)
EXTENDS Integers, FiniteSets, SequencesExt

CONSTANTS
  HookCommands,    \* processes that install or remove hooks
  Binaries,    \* paths of installed binaries
  PathHolds,   \* the paths each path holds as a piece of text
  Starts,      \* the files there may be at first: a kind and its content
  MaxHookRuns, \* bound on how many commands begin
  MaxHands     \* bound on how often a person changes the file

ASSUME MaxHookRunsAssumption == MaxHookRuns \in Nat
ASSUME MaxHandsAssumption == MaxHands \in Nat
ASSUME PathAssumption == \A b \in Binaries : b \in PathHolds[b] /\ PathHolds[b] \subseteq Binaries

----------------------------------------------------------------------------
(* The families of hooks, in the order of a merge, and for each event the  *)
(* matchers of its entries in order; "" is an entry without one.           *)
FileTools == "Write|Edit|MultiEdit|NotebookEdit"
ContractSpecs == [UserPromptSubmit |-> <<"">>, PreToolUse |-> <<"Agent">>]
TriggerSpecs == [SessionEnd |-> <<"">>]
ReceiptSpecs == [PreToolUse |-> <<"Bash">>]
GuardSpecs == [PreToolUse |-> <<"Bash", FileTools>>]
ApproveSpecs == GuardSpecs
StopSpecs == [Stop |-> <<"">>]
BuilderSpecs == [PreToolUse |-> <<"Agent">>]
Projected == <<FileTools, "query", "get", "engram", "Skill|Read", "memorycard">>
ProjectionSpecs ==
  [UserPromptSubmit |-> <<"">>, PreToolUse |-> Projected, SessionStart |-> <<"">>,
   PostToolUse |-> Tail(Projected)]

Specs ==
  [minimalism |-> ContractSpecs, design |-> ContractSpecs, trigger |-> TriggerSpecs,
   receipt |-> ReceiptSpecs, shaper |-> GuardSpecs, projection |-> ProjectionSpecs,
   approve |-> ApproveSpecs, stop |-> StopSpecs, builder |-> BuilderSpecs]

InstalledFamilies ==
  <<"minimalism", "design", "trigger", "receipt", "shaper", "projection", "approve", "stop", "builder">>
Retired == {"skill-discovery-safety", "review-projection-contract"}
Families == DOMAIN Specs
HookEvents == UNION {DOMAIN Specs[f] : f \in Families}
SpecsFor(f, ev) == IF ev \in DOMAIN Specs[f] THEN Specs[f][ev] ELSE <<>>

(* An entry: the words its commands mention, its matcher, and whether its  *)
(* bytes are what this version writes for them or a text of someone's.     *)
HookEntry(words, matcher, text) == [words |-> words, matcher |-> matcher, text |-> text]
BuildEntry(b, f, matcher) == HookEntry(PathHolds[b] \union {f}, matcher, "built")
(* A form it must not have: every family is known by the binary alone.     *)
OwnsAnyFamily(e, b, f) == b \in e.words

Owns(e, b, f) == {b, f} \subseteq e.words
OwnedByAFamily(e, b) == \E f \in Families \union Retired : Owns(e, b, f)

(* An owned entry matches when it is the first of the bytes this version   *)
(* writes for one of the specs of its event; other owned ones have drifted.*)
Matched(entries, b, f, ev) ==
  {i \in DOMAIN entries :
     /\ \E k \in DOMAIN SpecsFor(f, ev) : entries[i] = BuildEntry(b, f, SpecsFor(f, ev)[k])
     /\ \A j \in 1..(i - 1) : entries[j] # entries[i]}
(* A form it must not have: the second of two equal entries stays.         *)
DriftedKeepsSecond(entries, b, f, ev) ==
  {i \in DOMAIN entries :
     /\ Owns(entries[i], b, f)
     /\ \A k \in DOMAIN SpecsFor(f, ev) : entries[i] # BuildEntry(b, f, SpecsFor(f, ev)[k])}

Drifted(entries, b, f, ev) ==
  {i \in DOMAIN entries : Owns(entries[i], b, f)} \ Matched(entries, b, f, ev)
(* The entries in order, without those at some places; what this version   *)
(* writes for a family, and what of it a file has not got.                 *)
WithoutAt(entries, gone) ==
  FlattenSeq([i \in DOMAIN entries |-> IF i \in gone THEN <<>> ELSE <<entries[i]>>])
Built(b, f, ev) == [k \in DOMAIN SpecsFor(f, ev) |-> BuildEntry(b, f, SpecsFor(f, ev)[k])]
Unseen(entries, b, f, ev) ==
  WithoutAt(Built(b, f, ev),
            {k \in DOMAIN SpecsFor(f, ev) : \E i \in DOMAIN entries : entries[i] = Built(b, f, ev)[k]})

(* One family in one event: drifted entries go, missing ones are appended. *)
MergeFamily(entries, b, f, ev) ==
  WithoutAt(entries, Drifted(entries, b, f, ev)) \o Unseen(entries, b, f, ev)

(* A document: the entries of each event, the rules of permissions.deny    *)
(* and whether all hooks are disabled.                                     *)
DenyRule == "deny clearance"
Document(hooks, deny, disabled) == [hooks |-> hooks, deny |-> deny, disabled |-> disabled]
NoHooks == [ev \in HookEvents |-> <<>>]

(* The families of the event, each merged into what the last one left.     *)
MergeEvent(entries, b, ev) ==
  LET merged[k \in 0..Len(InstalledFamilies)] ==
        IF k = 0 THEN entries
        ELSE IF ev \in DOMAIN Specs[InstalledFamilies[k]]
        THEN MergeFamily(merged[k - 1], b, InstalledFamilies[k], ev)
        ELSE merged[k - 1]
  IN  merged[Len(InstalledFamilies)]
MergeHooks(doc, b) ==
  Document([ev \in HookEvents |-> MergeEvent(doc.hooks[ev], b, ev)],
           IF Contains(doc.deny, DenyRule) THEN doc.deny ELSE Append(doc.deny, DenyRule),
           doc.disabled)

(* A removal takes the families of every version, in the event Stop only   *)
(* the one that has an entry there, and the rule.                          *)
Removable(ev, e, b) == IF ev = "Stop" THEN Owns(e, b, "stop") ELSE OwnedByAFamily(e, b)
RemoveHooks(doc, b) ==
  Document([ev \in HookEvents |->
              WithoutAt(doc.hooks[ev], {i \in DOMAIN doc.hooks[ev] : Removable(ev, doc.hooks[ev][i], b)})],
           SelectSeq(doc.deny, LAMBDA r : r # DenyRule),
           doc.disabled)

FamilyMissing(doc, b, f) ==
  \E ev \in DOMAIN Specs[f] :
    \/ Unseen(doc.hooks[ev], b, f, ev) # <<>>
    \/ Drifted(doc.hooks[ev], b, f, ev) # {}
ApproveMissing(doc, b) == FamilyMissing(doc, b, "approve") \/ doc.disabled
MissingParts(doc, b, f) == IF f = "approve" THEN ApproveMissing(doc, b) ELSE FamilyMissing(doc, b, f)
Carried(doc, b, f, ev) == \E i \in DOMAIN doc.hooks[ev] : Owns(doc.hooks[ev][i], b, f)
Guarded(doc, b) ==
  /\ \A k \in 1..2 : \E i \in DOMAIN doc.hooks.PreToolUse :
       /\ Owns(doc.hooks.PreToolUse[i], b, "shaper")
       /\ doc.hooks.PreToolUse[i].matcher = Specs.shaper.PreToolUse[k]
  /\ Contains(doc.deny, DenyRule)
  /\ ~ doc.disabled
SupportedState(doc, b) ==
  /\ \A f \in {"minimalism", "design", "trigger", "receipt"} :
       \A ev \in DOMAIN Specs[f] : Carried(doc, b, f, ev)
  /\ Guarded(doc, b)
  /\ \A f \in {"projection", "approve", "stop", "builder"} : ~ MissingParts(doc, b, f)

----------------------------------------------------------------------------
(* Codex: per event a sequence of groups, each a matcher and handlers, and *)
(* for each handler the words its command mentions.  A person's handlers   *)
(* of a group we share stay, in a group of their own, before ours.         *)
CodexSpecs == [SessionStart |-> "start", PreToolUse |-> "memory", PostToolUse |-> "memory"]
Group(matcher, handlers) == [matcher |-> matcher, handlers |-> handlers]
Handler(words, text) == [words |-> words, text |-> text]
Desired(b, ev) == Group(CodexSpecs[ev], <<Handler(PathHolds[b] \union {"projection"}, "built")>>)
OwnsHandler(h, b) == {b, "projection"} \subseteq h.words
(* A form it must not have: a person's handlers go with a group of ours.   *)
FilteredWhole(g, b) ==
  IF \E i \in DOMAIN g.handlers : OwnsHandler(g.handlers[i], b) THEN <<>> ELSE g.handlers

Filtered(g, b) == WithoutAt(g.handlers, {i \in DOMAIN g.handlers : OwnsHandler(g.handlers[i], b)})

EditEvent(groups, b, wanted, install) ==
  LET owned == {i \in DOMAIN groups : Filtered(groups[i], b) # groups[i].handlers}
      first == IF owned = {} THEN 0 ELSE CHOOSE i \in owned : \A j \in owned : i <= j
      Left(i) == IF Filtered(groups[i], b) = <<>> THEN <<>>
                 ELSE <<Group(groups[i].matcher, Filtered(groups[i], b))>>
      Placed(i) == IF i \notin owned THEN <<groups[i]>>
                   ELSE IF ~ install \/ i # first THEN Left(i)
                   ELSE IF groups[i] = wanted THEN <<wanted>>
                   ELSE Append(Left(i), wanted)
  IN  FlattenSeq([i \in DOMAIN groups |-> Placed(i)])
        \o (IF install /\ owned = {} THEN <<wanted>> ELSE <<>>)

Change(doc, b, install) ==
  [ev \in DOMAIN CodexSpecs |-> EditEvent(doc[ev], b, Desired(b, ev), install)]
CodexPresent(doc, b) == \A ev \in DOMAIN CodexSpecs : Contains(doc[ev], Desired(b, ev))
NoGroups == [ev \in DOMAIN CodexSpecs |-> <<>>]

(* What a file that reads well holds: for each event a sequence of entries,*)
(* or of groups.                                                           *)
IsSequence(s) == Len(s) \in Nat /\ s = [i \in 1..Len(s) |-> s[i]]
IsGroup(g) == g = Group(g.matcher, g.handlers) /\ IsSequence(g.handlers)
IsDocument(k, doc) ==
  IF k = "codex"
  THEN /\ doc = [ev \in DOMAIN CodexSpecs |-> doc[ev]]
       /\ \A ev \in DOMAIN CodexSpecs :
            IsSequence(doc[ev]) /\ \A i \in DOMAIN doc[ev] : IsGroup(doc[ev][i])
  ELSE /\ doc = Document(doc.hooks, doc.deny, doc.disabled)
       /\ doc.hooks = [ev \in HookEvents |-> doc.hooks[ev]]
       /\ \A ev \in HookEvents : IsSequence(doc.hooks[ev])

ASSUME StartsAssumption ==
  \A s \in Starts : /\ s.kind \in {"claude", "codex"}
                    /\ s.file.reads \in {"missing", "well", "invalid", "null", "dangling"}
                    /\ s.file.reads = "well" => IsDocument(s.kind, s.file.doc)

----------------------------------------------------------------------------
VARIABLES
  kind,      \* whose file it is: "claude" or "codex"
  settings,  \* the file: how it reads, and the document when it reads well
  backup,    \* the .bak beside it
  command,   \* each process: where it is and what it has in memory
  hookRuns,  \* counts the commands
  hands      \* counts what people do

settingsVars == <<kind, settings, backup, command, hookRuns, hands>>

(* reads: "missing", "well", "invalid" (not JSON, or a shape that is       *)
(* refused), "null", or "dangling" (a link that cannot be followed).       *)
FileThat(reads, doc) == [reads |-> reads, doc |-> doc]
EmptyDocument == IF kind = "claude" THEN Document(NoHooks, <<>>, FALSE) ELSE NoGroups
NoCommand == [at |-> "idle", install |-> TRUE, binary |-> CHOOSE b \in Binaries : TRUE,
              read |-> FileThat("missing", <<>>), raced |-> FALSE]

SettingsInit ==
  /\ \E s \in Starts : kind = s.kind /\ settings = s.file
  /\ backup = FileThat("missing", <<>>)
  /\ command = [p \in HookCommands |-> NoCommand]
  /\ hookRuns = 0 /\ hands = 0

HookAt(p, where) == command[p].at = where
Edited(install, doc, b) ==
  IF kind = "codex" THEN Change(doc, b, install)
  ELSE IF install THEN MergeHooks(doc, b) ELSE RemoveHooks(doc, b)

(* merge-settings and uninstall-hooks: read.  A missing file reads as the  *)
(* empty document; null refuses an install and has nothing to remove.      *)
BeginHooks(p, b, install) ==
  /\ HookAt(p, "idle") \/ HookAt(p, "done") \/ HookAt(p, "refused")
  /\ hookRuns < MaxHookRuns
  /\ hookRuns' = hookRuns + 1
  /\ LET reads == settings.reads
         doc == IF reads = "well" THEN settings.doc ELSE EmptyDocument
         refused == reads \in {"invalid", "dangling"} \/ (reads = "null" /\ (install \/ kind = "codex"))
         nothing == reads = "null" \/ Edited(install, doc, b) = doc
     IN  command' = [command EXCEPT ![p] =
           [at |-> IF refused THEN "refused" ELSE IF nothing THEN "done" ELSE "stage",
            install |-> install, binary |-> b,
            read |-> FileThat(reads, doc), raced |-> FALSE]]
  /\ UNCHANGED <<kind, settings, backup, hands>>

(* A form it must not have: the backup is taken of what was read.          *)
BackUpOfTheRead(p) ==
  /\ HookAt(p, "stage")
  /\ settings.reads # "dangling"
  /\ backup' = IF command[p].read.reads = "missing" THEN backup ELSE command[p].read
  /\ command' = [command EXCEPT ![p].at = "rename", ![p].raced = FALSE]
  /\ UNCHANGED <<kind, settings, hookRuns, hands>>

(* The staged file replaces the one there, which is backed up first.       *)
BackUp(p) ==
  /\ HookAt(p, "stage")
  /\ settings.reads # "dangling"
  /\ backup' = IF settings.reads = "missing" THEN backup ELSE settings
  /\ command' = [command EXCEPT ![p].at = "rename", ![p].raced = FALSE]
  /\ UNCHANGED <<kind, settings, hookRuns, hands>>

RacedBy(p) == [q \in HookCommands |-> IF q # p /\ HookAt(q, "rename") THEN [command[q] EXCEPT !.raced = TRUE]
                                  ELSE command[q]]
Rename(p) ==
  /\ HookAt(p, "rename")
  /\ settings' = FileThat("well", Edited(command[p].install, command[p].read.doc, command[p].binary))
  /\ command' = [RacedBy(p) EXCEPT ![p].at = "done"]
  /\ UNCHANGED <<kind, backup, hookRuns, hands>>

(* The command stops, or staging, the backup or the rename fails.          *)
HooksStop(p) ==
  /\ HookAt(p, "stage") \/ HookAt(p, "rename")
  /\ command' = [command EXCEPT ![p].at = "refused"]
  /\ UNCHANGED <<kind, settings, backup, hookRuns, hands>>

(* A person writes the file: an entry of theirs first or last, one of ours *)
(* written again, changed or taken out, the rule dropped, hooks disabled,  *)
(* the backup taken back, the file broken.                                 *)
Theirs(e) == IF kind = "claude" THEN [e EXCEPT !.text = "theirs"]
             ELSE Group(e.matcher, Append(e.handlers, Handler({}, "theirs")))
Own == IF kind = "claude" THEN HookEntry({}, "Bash", "theirs") ELSE Group("memory", <<Handler({}, "theirs")>>)
Outer(entries) == {1, Len(entries)} \intersect DOMAIN entries
HandWritten(entries) ==
  {<<Own>> \o entries, Append(entries, Own)}
    \union {Append(entries, entries[i]) : i \in Outer(entries)}
    \union {ReplaceAt(entries, i, Theirs(entries[i])) : i \in Outer(entries)}
    \union {RemoveAt(entries, i) : i \in Outer(entries)}
HandDocuments(doc) ==
  (UNION {{[doc EXCEPT !.hooks[ev] = s] : s \in HandWritten(doc.hooks[ev])} :
            ev \in {"Stop", "UserPromptSubmit"}})
    \union {[doc EXCEPT !.deny = <<>>], [doc EXCEPT !.disabled = TRUE]}
HandGroups(doc) == {[doc EXCEPT !.PreToolUse = s] : s \in HandWritten(doc.PreToolUse)}

ByHandOfAPerson ==
  /\ hands < MaxHands
  /\ hands' = hands + 1
  /\ settings' \in
       {FileThat("invalid", <<>>), backup}
         \union IF settings.reads # "well" THEN {}
                ELSE {FileThat("well", d) : d \in
                        IF kind = "claude" THEN HandDocuments(settings.doc) ELSE HandGroups(settings.doc)}
  /\ command' = [q \in HookCommands |-> IF HookAt(q, "rename") THEN [command[q] EXCEPT !.raced = TRUE] ELSE command[q]]
  /\ UNCHANGED <<kind, backup, hookRuns>>

SettingsNext ==
  \/ ByHandOfAPerson
  \/ \E p \in HookCommands :
       \/ \E b \in Binaries, install \in BOOLEAN : BeginHooks(p, b, install)
       \/ BackUp(p) \/ Rename(p) \/ HooksStop(p)

----------------------------------------------------------------------------
WellRead(file) == file.reads = "well" => IsDocument(kind, file.doc)

SettingsTypeOK ==
  /\ kind \in {"claude", "codex"}
  /\ settings.reads \in {"missing", "well", "invalid", "null", "dangling"}
  /\ backup.reads \in {"missing", "well", "invalid", "null"}
  /\ WellRead(settings) /\ WellRead(backup)
  /\ \A p \in HookCommands :
       /\ command[p].at \in {"idle", "stage", "rename", "done", "refused"}
       /\ command[p].at \in {"stage", "rename"} =>
            /\ command[p].binary \in Binaries /\ command[p].install \in BOOLEAN
            /\ IsDocument(kind, command[p].read.doc)
  /\ hookRuns \in 0..MaxHookRuns /\ hands \in 0..MaxHands

(* What is not ours in a file, in its order.                               *)
ForeignEntries(doc, b) ==
  [ev \in HookEvents |->
     WithoutAt(doc.hooks[ev], {i \in DOMAIN doc.hooks[ev] : OwnedByAFamily(doc.hooks[ev][i], b)})]
ForeignRules(doc) == SelectSeq(doc.deny, LAMBDA r : r # DenyRule)
ForeignHandlers(doc, b) ==
  [ev \in DOMAIN CodexSpecs |->
     FlattenSeq([i \in DOMAIN doc[ev] |-> Filtered(doc[ev][i], b)])]

(* Whatever the file has become, an install for a binary makes it whole,   *)
(* as the two reports of what is missing see it, each hook once; it leaves *)
(* what is not ours where it was, and a removal after it leaves what a     *)
(* removal before it would have: nothing of ours stays, and no family takes*)
(* the entries of another (mergeHooks, removeHooks).                       *)
MergeIsWhole ==
  (kind = "claude" /\ settings.reads = "well") =>
    \A b \in Binaries :
      LET doc == settings.doc
          merged == MergeHooks(doc, b)
      IN  /\ MergeHooks(merged, b) = merged
          /\ SupportedState(merged, b) <=> ~ doc.disabled
          /\ \A f \in Families : MissingParts(merged, b, f) => doc.disabled /\ f = "approve"
          /\ \A f \in Families : \A ev \in DOMAIN Specs[f] :
               Cardinality({i \in DOMAIN merged.hooks[ev] : Owns(merged.hooks[ev][i], b, f)})
                 = Len(Specs[f][ev])
          /\ ForeignEntries(merged, b) = ForeignEntries(doc, b)
          /\ ForeignRules(merged) = ForeignRules(doc)
          /\ RemoveHooks(merged, b) = RemoveHooks(doc, b)
          /\ \A f \in Families \ {"approve", "shaper"} : MissingParts(RemoveHooks(doc, b), b, f)

(* The same of Codex, where a person's handler in a group of ours stays.   *)
CodexIsWhole ==
  (kind = "codex" /\ settings.reads = "well") =>
    \A b \in Binaries :
      LET doc == settings.doc
          merged == Change(doc, b, TRUE)
      IN  /\ Change(merged, b, TRUE) = merged
          /\ CodexPresent(merged, b)
          /\ ForeignHandlers(merged, b) = ForeignHandlers(doc, b)
          /\ Change(merged, b, FALSE) = Change(doc, b, FALSE)
          /\ ForeignHandlers(Change(doc, b, FALSE), b) = ForeignHandlers(doc, b)

(* The hooks of two binaries live side by side: to install or remove those *)
(* of one leaves those of another as they were, unless one path is a piece *)
(* of the other (commandMentions).                                         *)
BinariesKeepApart ==
  settings.reads = "well" =>
    \A b, c \in Binaries : (b \notin PathHolds[c] /\ c \notin PathHolds[b]) =>
      IF kind = "codex"
      THEN \A install \in BOOLEAN :
             CodexPresent(settings.doc, c) => CodexPresent(Change(settings.doc, b, install), c)
      ELSE LET Lacking(doc) == {f \in Families : MissingParts(doc, c, f)}
           IN  /\ Lacking(MergeHooks(settings.doc, b)) = Lacking(settings.doc)
               /\ Lacking(RemoveHooks(settings.doc, b)) = Lacking(settings.doc)

SettingsAreSound ==
  (\A p \in HookCommands : command[p].at \in {"idle", "done"}) =>
    MergeIsWhole /\ CodexIsWhole /\ BinariesKeepApart

(* What a command writes over is in the backup, unless another wrote the   *)
(* file since it was backed up: and a write that nothing came before since *)
(* the read leaves everything of the person's in place (WriteBytes).       *)
ReplacesWhatItKeeps ==
  \A p \in HookCommands :
    HookAt(p, "rename") /\ command'[p].at = "done" =>
      /\ (settings.reads # "missing" /\ ~ command[p].raced) => backup = settings
      /\ (settings.reads = "well" /\ settings.doc = command[p].read.doc) =>
           IF kind = "codex"
           THEN ForeignHandlers(settings'.doc, command[p].binary)
                  = ForeignHandlers(settings.doc, command[p].binary)
           ELSE ForeignEntries(settings'.doc, command[p].binary)
                  = ForeignEntries(settings.doc, command[p].binary)

=============================================================================
