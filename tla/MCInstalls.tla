----------------------------- MODULE MCInstalls -----------------------------
(***************************************************************************)
(* What the overlay installs and keeps a record of, checked in one run: its*)
(* own registry of skills (OverlayRegistry), a project's copies of them    *)
(* (ProjectSkills), the runtimes that share the memory's binary            *)
(* (InstalledTargets), the contracts in the skill registry of a project    *)
(* (ContractRegistry), the hooks in the settings of a runtime              *)
(* (SettingsHooks), and these hooks as the runtime runs them (HookCalls and*)
(* the StreamSplitter of their largest input).  They share no state, so a  *)
(* behaviour is one of theirs, told by `part`.                             *)
(***************************************************************************)
EXTENDS OverlayRegistry, ProjectSkills, InstalledTargets, ContractRegistry,
        SettingsHooks, HookCalls, StreamSplitter, TLC

VARIABLE part

(* The paths of two binaries, and the files of hooks there may be: none,   *)
(* ones that cannot be used, and ones with entries of an older release     *)
(* among a person's.                                                       *)
MCPathHolds == "old" :> {"old"} @@ "new" :> {"new"}
OlderEntry(f, matcher) == HookEntry({"old", f}, matcher, "older")
OlderHooks ==
  [NoHooks EXCEPT
     !.PreToolUse = <<OlderEntry("receipt", "Bash"), HookEntry({}, "Bash", "theirs")>>,
     !.UserPromptSubmit = <<OlderEntry("skill-discovery-safety", ""), BuildEntry("old", "minimalism", "")>>]
OlderGroups ==
  [NoGroups EXCEPT
     !.PreToolUse = <<Group("memory", <<Handler({}, "theirs"), Handler({"old", "projection"}, "older")>>)>>]
StartOf(whose, reads, doc) == [kind |-> whose, file |-> FileThat(reads, doc)]
MCStarts ==
  {StartOf("claude", reads, <<>>) : reads \in {"missing", "null", "dangling"}}
    \union {StartOf("claude", "well", Document(OlderHooks, <<"theirs">>, FALSE)),
            StartOf("codex", "missing", <<>>), StartOf("codex", "well", OlderGroups)}

(* Commands that approve, that read about it and that only look so; prompts*)
(* with and without what gate-task adds; contracts of every kind; launches *)
(* that cite a designed task, and ones that do not.                        *)
Approve == <<"labdrian", "skills", "approve">>
MCShellCommands ==
  {<<>>, <<Approve>>, <<<<"echo">>, <<"labdrian", "skills", "list">>>>,
   <<<<"A=1", "rg">> \o Approve>>, <<<<"rg", "--pre">> \o Approve>>, <<<<"echo", "x">> \o Approve>>}
MCAgentPrompts ==
  {<<"">>, <<"do", "">>, <<"do", "", Header, "other path", "">>, <<"do", Header, ContractEntry, "more">>,
   <<"do", InstructionBlock, "", "">>, <<"do", "", ContractEntry, "", InstructionBlock>>,
   <<"do", Header, "x", Header>>}
Key(key, list) == [key |-> key, list |-> list, well |-> TRUE]
FrontRule == Key("---", {})
Fronted(lines) == <<FrontRule>> \o lines \o <<FrontRule, Key("excluded_phases", {"apply"})>>
Applying(phases) == <<Key("applies_to_phases", phases), Key("excluded_phases", {"design"})>>
Known(from, file) == [from |-> from, file |-> file]
MCGateContracts ==
  {Known("nowhere", <<>>), Known("file", Applying({"apply"})), Known("file", Fronted(<<>>)),
   Known("file", Fronted(Applying({"apply"}))), Known("embedded", Fronted(Applying({"apply"}))),
   Known("file", Fronted(Append(Applying({"apply", "design"}), Key("language_context", {"go"}))))}
MCWorkContexts ==
  {NoWorkContext,
   [trusted |-> TRUE, languages |-> {"go"}, activations |-> {}, kinds |-> {"application-code"}]}
Cite(shape, items) == [shape |-> shape, items |-> items]
TaskLine(id, marks) == [id |-> id, marks |-> marks]
DocumentAt(place, tasks, log) == [place |-> place, tasks |-> tasks, log |-> log]
MCLaunches ==
  [cites : {<<>>, <<Cite(TRUE, <<"T1">>)>>, <<Cite(TRUE, <<"T1", "S1", "T2">>)>>,
            <<Cite(TRUE, <<"S1">>)>>, <<Cite(TRUE, <<"T1">>), Cite(TRUE, <<"T2">>)>>},
   doc : {DocumentAt("regular", <<TaskLine("T1", <<1>>)>>, <<1>>),
          DocumentAt("regular", <<TaskLine("T1", <<1>>), TaskLine("T2", <<2>>)>>, <<1, 2, 2>>),
          DocumentAt("regular", <<TaskLine("T1", <<1, 1>>)>>, <<1>>),
          DocumentAt("link", <<>>, <<>>)}]

(* The objects of up to ten tokens, and the smaller ones with a token left *)
(* out, told twice or replaced by white space.                             *)
MCObjects == Objects(10)
LeftOut(o, i) == SubSeq(o, 1, i - 1) \o SubSeq(o, i + 1, Len(o))
Twice(o, i) == SubSeq(o, 1, i) \o SubSeq(o, i, Len(o))
Blank(o, i) == SubSeq(o, 1, i) \o <<" ">> \o SubSeq(o, i + 1, Len(o))
MCStreams ==
  MCObjects
    \union UNION {UNION {{LeftOut(o, i), Twice(o, i), Blank(o, i)} : i \in DOMAIN o} :
                    o \in {x \in MCObjects : Len(x) <= 9}}

InstallsInit ==
  /\ part \in {"overlay", "project", "targets", "contracts", "settings", "hooks", "stream"}
  /\ RegistryInit /\ SkillsInit /\ TargetsInit /\ ContractInit /\ SettingsInit
  /\ HookInit /\ SplitInit
  /\ part # "contracts" => skillRegistry = NotThere
  /\ part # "settings" => kind = "claude" /\ settings.reads = "missing"
  /\ part # "stream" => stream = <<"{", "}">>

(* The parts that do not move stand still.                                 *)
InstallsStill ==
  /\ part # "overlay" => UNCHANGED registryVars
  /\ part # "project" => UNCHANGED skillVars
  /\ part # "targets" => UNCHANGED targetsVars
  /\ part # "contracts" => UNCHANGED contractVars
  /\ part # "settings" => UNCHANGED settingsVars
  /\ part # "hooks" => UNCHANGED hookVars
  /\ part # "stream" => UNCHANGED splitVars
InstallsNext ==
  /\ \/ part = "overlay" /\ RegistryNext
     \/ part = "project" /\ SkillsNext
     \/ part = "targets" /\ TargetsNext
     \/ part = "contracts" /\ ContractNext
     \/ part = "settings" /\ SettingsNext
     \/ part = "hooks" /\ HookNext
     \/ part = "stream" /\ SplitNext
  /\ InstallsStill
  /\ UNCHANGED part

installsVars ==
  <<registryVars, skillVars, targetsVars, contractVars, settingsVars, hookVars, splitVars, part>>
InstallsSpec == InstallsInit /\ [][InstallsNext]_installsVars

(* The skills and the contracts are the same two values.                   *)
Symmetry == Permutations(Contracts) \union Permutations(Runs)

InstallsTypeOK == RegistryTypeOK /\ SkillsTypeOK /\ TargetsTypeOK /\ ContractTypeOK
                    /\ SettingsTypeOK /\ HookTypeOK /\ SplitTypeOK

(* The promises of the part that moves; the others stand still.            *)
HooksAreSound ==
  CASE part = "settings" -> SettingsAreSound
    [] part = "hooks" -> HookCallsAreSound
    [] part = "stream" -> TakesExactly(MCObjects) /\ KeepsAndHashes
    [] OTHER -> TRUE

(* What no step may do: tell of a pair of files that never was, write a    *)
(* lock before the files it names, remove a binary that is recorded, change*)
(* lines of the registry that are another's, or write over settings that   *)
(* are not backed up (ReadConsistently, projectCommitOrder, Service.Retire,*)
(* replaceBlock, WriteBytes).                                              *)
StepsAreSound ==
  [][ValidatesOnePair /\ LockIsWrittenLast /\ RecordedKeepsBinary /\ KeepsTheRest
       /\ ReplacesWhatItKeeps]_installsVars
=============================================================================
