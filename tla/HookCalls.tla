----------------------------- MODULE HookCalls -----------------------------
(***************************************************************************)
(* A hook as the runtime runs it: the shell wrapper of its entry, then the *)
(* command of the binary, which reads its arguments and a bounded part of  *)
(* its input, decodes it, rules on it and answers with an exit code or a   *)
(* line of JSON (engine/hookwire, engine/cmd, engine/gate, oddtask).  What *)
(* the projection, the reviews and the receipts rule is their own models'  *)
(* concern; here a ruling of theirs is any they may give.                  *)
(***************************************************************************)
EXTENDS Integers, FiniteSets, SequencesExt

CONSTANTS
  ShellCommands, \* commands a tool call may hold: sequences of segments, each of words
  AgentPrompts,  \* prompts of a launch: sequences of lines
  GateContracts, \* contracts that gate-task may be told of
  WorkContexts,  \* work contexts it may be told of
  Launches       \* what a launch cites and what its document holds

ASSUME ShellCommandsAssumption ==
  ShellCommands # {} /\ \A command \in ShellCommands : command \in Seq(Seq(STRING))

----------------------------------------------------------------------------
(* The fields each decoder reads, and so must find of the right type; the  *)
(* input of a tool is decoded at once by the guards and later, leniently,  *)
(* by the projection.                                                      *)
Projection == {"prompt", "start", "pre", "post"}
HookNames == Projection \union {"gate", "approve", "shaper", "builder", "stop", "receipt"}
PromptFields == {"event", "cwd"}
PreToolFields == {"event", "cwd", "tool"}
PostToolFields == PreToolFields \union {"session", "call"}
StopFields == {"event", "cwd", "session", "active"}
ToolCallFields == {"tool", "input", "command", "path"}
CommandFields == {"tool", "input", "command"}
AgentFields == {"tool", "input", "agent", "text"}
FieldsRead ==
  [prompt |-> PromptFields, start |-> PromptFields, pre |-> PreToolFields, post |-> PostToolFields,
   stop |-> StopFields, approve |-> ToolCallFields, shaper |-> ToolCallFields,
   receipt |-> CommandFields, gate |-> AgentFields, builder |-> AgentFields]
NeedsObject == Projection \union {"stop"}
NeedsToolInput == {"gate", "builder"}
(* The receipt's reads its input whole; gate-task reads no byte past its   *)
(* limit, so a larger input is cut, and undecodable; the others read one   *)
(* more and see that it is too large.                                      *)
HasLimit(h) == h # "receipt"

Decodes(h, in) ==
  /\ in.size = "fits" \/ ~ HasLimit(h)
  /\ in.json = "object" \/ (in.json = "null" /\ h \notin NeedsObject)
  /\ in.json = "object" => in.wrong \notin FieldsRead[h]
  /\ h \in NeedsToolInput => in.json = "object" /\ in.wrong # "no input"

(* The tool names of a source: Codex spells the memory's server its way.   *)
Sources == {"claude", "codex"}
AdaptToolName(source, tool) ==
  IF source = "codex" /\ tool \in {"mcp__longterm_mem__query", "mcp__longterm_mem__get"}
  THEN IF tool = "mcp__longterm_mem__query" THEN "mcp__longterm-mem__query" ELSE "mcp__longterm-mem__get"
  ELSE tool

----------------------------------------------------------------------------
(* The approve guard: a segment of a command that runs an entry point with *)
(* skills approve, unless the segment begins, after assignments, with a    *)
(* reader that runs no command of its own.                                 *)
EntryPoints == {"labdrian", "labdrian-overlay", "gentle-ai-overlay"}
Readers == {"rg", "grep", "egrep", "fgrep"}
CommandFlags == {"--pre", "--hostname-bin"}
Assignments == {"A=1"}
FileToolNames == {"Write", "Edit", "MultiEdit", "NotebookEdit"}

(* A form it must not have: a reader's flags are not looked at.            *)
AnyReader(words) ==
  \E i \in DOMAIN words : words[i] \in Readers /\ \A j \in 1..(i - 1) : words[j] \in Assignments
IsReader(words) ==
  \E i \in DOMAIN words :
    /\ words[i] \in Readers
    /\ \A j \in 1..(i - 1) : words[j] \in Assignments
    /\ \A j \in (i + 1)..Len(words) : words[j] \notin CommandFlags
CommandMatches(command) ==
  \E k \in DOMAIN command :
    /\ ~ IsReader(command[k])
    /\ \E i \in 1..(Len(command[k]) - 2) :
         /\ command[k][i] \in EntryPoints
         /\ command[k][i + 1] = "skills"
         /\ command[k][i + 2] = "approve"
DecideApproveGuard(in) ==
  \/ in.tool = "Bash" /\ CommandMatches(in.command)
  \/ in.tool \in FileToolNames /\ in.path = "record"

(* The shaper guard: how a call names the clearance, by the command itself,*)
(* by the command broken over lines, by the path of the store, or only in  *)
(* a field the guard does not read.  The shell fallback of a missing binary*)
(* sees the whole input, but not over a break.                             *)
DecideGuard(in) == in.marker \in {"plain", "spaced", "store"} \/ in.path = "store"
FallbackDenies(in) == in.marker \in {"plain", "store", "elsewhere"} \/ in.path = "store"

----------------------------------------------------------------------------
(* gate-task: the prompt of a launch, as lines.                            *)
Header == "## Skills to load before work"
ContractEntry == "path of the contract"
InstructionBlock == "instructions"
(* The contract file: lines, of which those between the first two          *)
(* delimiters count.  The last line of a key holds; a list that is not one,*)
(* or no phase to apply to, is no contract.                                *)
Delimiters(file) == {i \in DOMAIN file : file[i].key = "---"}
Frontmatter(file) ==
  LET first == CHOOSE i \in Delimiters(file) : \A j \in Delimiters(file) : i <= j
      later == Delimiters(file) \ {first}
      second == CHOOSE i \in later : \A j \in later : i <= j
  IN  SubSeq(file, first + 1, second - 1)
ListUnder(file, key) ==
  FoldLeft(LAMBDA list, line : IF line.key = key THEN line.list ELSE list, {}, Frontmatter(file))
ListKeys == {"applies_to_phases", "excluded_phases", "language_context", "activation_context"}
Parses(file) ==
  /\ Cardinality(Delimiters(file)) >= 2
  /\ \A i \in DOMAIN Frontmatter(file) :
       LET line == Frontmatter(file)[i]
       IN  line.key # "context_operator" /\ (line.key \in ListKeys => line.well)
  /\ ListUnder(file, "applies_to_phases") # {}
ParseBoth(file) ==
  [applies |-> ListUnder(file, "applies_to_phases"), excluded |-> ListUnder(file, "excluded_phases"),
   languages |-> ListUnder(file, "language_context"),
   activations |-> ListUnder(file, "activation_context")]

NoWorkContext == [trusted |-> FALSE, languages |-> {}, activations |-> {}, kinds |-> {}]

WorkContextMatches(work, c) ==
  /\ work.trusted
  /\ c.languages # {} => c.languages \cap work.languages # {}
  /\ c.activations # {} => c.activations \cap work.activations # {}
  /\ "application-code" \in work.kinds
ContextRequired(c) == c.languages # {} \/ c.activations # {}

InjectEntry(lines) ==
  IF Contains(lines, ContractEntry) THEN lines
  ELSE IF Contains(lines, Header)
  THEN FlattenSeq([i \in DOMAIN lines |->
                     IF lines[i] = Header THEN <<Header, ContractEntry>> ELSE <<lines[i]>>])
  ELSE lines \o (IF lines[Len(lines)] = "" THEN <<>> ELSE <<"">>) \o <<Header, ContractEntry, "">>
StripEntry(lines) == SelectSeq(lines, LAMBDA l : l # ContractEntry)

EvaluateContract(lines, phase, file, work) ==
  LET c == ParseBoth(file)
  IN  IF ~ Parses(file) THEN lines
      ELSE IF phase \in c.excluded THEN StripEntry(lines)
      ELSE IF phase \notin c.applies \/ (ContextRequired(c) /\ ~ WorkContextMatches(work, c)) THEN lines
      ELSE InjectEntry(lines)

(* The block goes last, whatever blank lines followed the text.            *)
Trimmed(lines) ==
  SubSeq(lines, 1, IF \A i \in DOMAIN lines : lines[i] = "" THEN 1
                   ELSE CHOOSE i \in DOMAIN lines :
                          lines[i] # "" /\ \A j \in (i + 1)..Len(lines) : lines[j] = "")
(* A form it must not have: the block is looked for only at the very end.  *)
AppendAtEveryCall(lines, block) ==
  IF block = "" \/ lines[Len(lines)] = block THEN lines
  ELSE Trimmed(lines) \o <<"", block, "">>
AppendInstructions(lines, block) ==
  IF block = "" \/ Trimmed(lines)[Len(Trimmed(lines))] = block THEN lines
  ELSE Trimmed(lines) \o <<"", block, "">>

(* No contract is known without its file, or under a name that is not      *)
(* embedded; an embedded contract carries no instructions.                 *)
Managed(cfg) == cfg.contract.from # "nowhere"
InstructionsOf(cfg) == IF cfg.contract.from = "embedded" THEN "" ELSE cfg.instructions
Rewrite(lines, phase, cfg) ==
  IF lines = <<"">> THEN lines
  ELSE AppendInstructions(
         IF phase = "" \/ ~ Managed(cfg) THEN lines
         ELSE EvaluateContract(lines, phase, cfg.contract.file, cfg.work),
         InstructionsOf(cfg))

----------------------------------------------------------------------------
(* The builder guard: the one citation of the prompt names a document and  *)
(* tasks; each task has one line there, with one mark, and the log has one *)
(* entry of the shaper under the number of the mark.                       *)
IsTask(item) == item \in {"T1", "T2"}
IsReference(item) == item = "S1"
ParseCitation(cites) ==
  IF Len(cites) # 1 THEN {}
  ELSE LET c == cites[1]
           tasks == {c.items[i] : i \in {j \in DOMAIN c.items : IsTask(c.items[j])}}
       IN  IF c.shape /\ \A i \in DOMAIN c.items : IsTask(c.items[i]) \/ IsReference(c.items[i])
           THEN tasks ELSE {}
LinesOf(doc, task) == {i \in DOMAIN doc.tasks : doc.tasks[i].id = task}
MarkOf(line) == IF Len(line.marks) = 1 THEN line.marks[1] ELSE 0
EntriesOf(doc, n) == Cardinality({i \in DOMAIN doc.log : doc.log[i] = n})
Designed(doc, task) ==
  /\ Cardinality(LinesOf(doc, task)) = 1
  /\ \A i \in LinesOf(doc, task) : MarkOf(doc.tasks[i]) # 0 /\ EntriesOf(doc, MarkOf(doc.tasks[i])) = 1
(* The document is a regular file that a person keeps in the repository:   *)
(* not missing, a link, another kind, too large, replaced between the look *)
(* and the open, outside of it, or with no repository to look in.          *)
ReadsDocument(doc) == doc.place = "regular"
CheckLaunch(in) ==
  LET tasks == ParseCitation(in.launch.cites)
  IN  tasks # {} /\ ReadsDocument(in.launch.doc) /\ \A t \in tasks : Designed(in.launch.doc, t)

----------------------------------------------------------------------------
VARIABLES
  hookCall, \* the call: its hook, the wrapper's luck, its arguments, its input
  hookStep, \* how far the command is
  ruled,    \* what was ruled: "none" until then, "deny", "speak", "silent", "failed", "panic"
  hookAnswer    \* the exit code the runtime sees, and what the line of JSON says

hookVars == <<hookCall, hookStep, ruled, hookAnswer>>

(* The inputs: nominal ones with every content, and ones that cannot be    *)
(* read, are too large, or are not what the decoder looks for.             *)
Content(h) ==
  IF h \in {"approve", "shaper"}
  THEN [tool : {"Bash", "Write"}, command : ShellCommands,
        path : {"none", "record", "store"}, marker : {"none", "plain", "spaced", "store", "elsewhere"}]
  ELSE IF h = "gate" THEN [phase : {"", "design", "apply"}, lines : AgentPrompts]
  ELSE IF h = "builder" THEN [agent : {"builder", "explorer"}, launch : Launches]
  ELSE {[tool |-> "any"]}
Plain(h) == CHOOSE c \in Content(h) : TRUE
GateConfigs ==
  [contract : GateContracts, work : WorkContexts, instructions : {"", InstructionBlock}]
Faults ==
  {[reads |-> FALSE, size |-> "fits", json |-> "object", wrong |-> "none", event |-> ""]}
    \union [reads : {TRUE}, size : {"fits", "over"}, json : {"object", "null", "other"},
            wrong : {"none", "no input"} \union UNION {FieldsRead[h] : h \in HookNames},
            event : {"", "own", "other"}]
Nominal == [reads |-> TRUE, size |-> "fits", json |-> "object", wrong |-> "none", event |-> "own"]

NoCall == [hook |-> "none"]
CallOf(h, binary, args, fault, content, cfg) ==
  [hook |-> h, binary |-> binary, args |-> args, fault |-> fault, content |-> content, cfg |-> cfg]
SomeConfig == CHOOSE cfg \in GateConfigs : TRUE
Calls(h) ==
  {CallOf(h, TRUE, "well", Nominal, c, cfg) :
     c \in Content(h), cfg \in (IF h = "gate" THEN GateConfigs ELSE {SomeConfig})}
    \union {CallOf(h, TRUE, args, f, Plain(h), SomeConfig) : args \in {"well", "bad"}, f \in Faults}
    \union {CallOf(h, FALSE, "well", Nominal, c, SomeConfig) : c \in Content(h)}

Silent == [code |-> 0, deny |-> FALSE, context |-> FALSE, warning |-> FALSE]
HookInit ==
  /\ hookCall = NoCall
  /\ hookStep = "idle"
  /\ ruled = "none"
  /\ hookAnswer = Silent

----------------------------------------------------------------------------
(* The wrapper hides the exit code of every hook but two: the receipt's and*)
(* the shaper's are the command's own.  A missing binary is silence, save  *)
(* for the shaper, whose wrapper looks at the input by itself.             *)
KeepsCode(h) == h \in {"receipt", "shaper"}
Exits(code) == [Silent EXCEPT !.code = IF KeepsCode(hookCall.hook) THEN code ELSE 0]
HookAnswers(reply) ==
  /\ hookStep' = "answered"
  /\ hookAnswer' = reply

RunHook ==
  /\ hookStep = "idle"
  /\ \E h \in HookNames : \E c \in Calls(h) :
       /\ hookCall' = c
       /\ hookStep' = IF c.binary THEN "begun" ELSE "without binary"
  /\ UNCHANGED <<ruled, hookAnswer>>

MissingBinary ==
  /\ hookStep = "without binary"
  /\ HookAnswers(Exits(IF hookCall.hook = "shaper" /\ FallbackDenies(hookCall.content) THEN 2 ELSE 0))
  /\ UNCHANGED <<hookCall, ruled>>

(* Arguments that cannot be used end the command; gate-task and the shaper *)
(* take what they know.  The receipt's needs its directory.                *)
ChecksArguments(h) == h \notin {"gate", "shaper"}
ParseArguments ==
  /\ hookStep = "begun"
  /\ IF hookCall.args = "bad" /\ ChecksArguments(hookCall.hook)
     THEN HookAnswers(Exits(IF hookCall.hook = "receipt" THEN 2 ELSE 1))
     ELSE hookStep' = "reading" /\ UNCHANGED hookAnswer
  /\ UNCHANGED <<hookCall, ruled>>

(* An input that cannot be read is let through, and gate-task says so with *)
(* an empty object; the shaper and the receipt block it.                   *)
ReadInput ==
  /\ hookStep = "reading"
  /\ IF ~ hookCall.fault.reads
     THEN HookAnswers(Exits(IF KeepsCode(hookCall.hook) THEN 2 ELSE 0))
     ELSE hookStep' = "decoding" /\ UNCHANGED hookAnswer
  /\ UNCHANGED <<hookCall, ruled>>

Denial == [Silent EXCEPT !.deny = TRUE]
(* A form it must not have: a call that is too large passes like one that  *)
(* cannot be decoded.                                                      *)
UndecodedPasses(h) == IF h = "shaper" THEN Exits(2) ELSE Silent
(* The guards deny what is too large; of what they cannot decode only the  *)
(* shaper's blocks.                                                        *)
Undecoded(h) ==
  IF h = "shaper" THEN Exits(2)
  ELSE IF h \in {"approve", "builder"} /\ hookCall.fault.size = "over" THEN Denial
  ELSE Silent
NamesAnotherEvent(h) ==
  h \in NeedsObject /\ hookCall.fault.event = "other"

(* The receipt's service is set up before its input is decoded.            *)
DecodeInput ==
  /\ hookStep = "decoding"
  /\ \/ /\ hookCall.hook = "receipt"
        /\ HookAnswers(Exits(2))
     \/ /\ ~ Decodes(hookCall.hook, hookCall.fault)
        /\ HookAnswers(Undecoded(hookCall.hook))
     \/ /\ Decodes(hookCall.hook, hookCall.fault)
        /\ IF NamesAnotherEvent(hookCall.hook)
           THEN HookAnswers(Silent)
           ELSE hookStep' = "ruling" /\ UNCHANGED hookAnswer
  /\ UNCHANGED <<hookCall, ruled>>

----------------------------------------------------------------------------
(* What the hooks rule.  The approve guard and the shaper's judge the call *)
(* alone; the builder's lets launches of other agents through unseen, then *)
(* the citation, then the workflow (OpenTask) decide.  A stop check that   *)
(* fails says so and lets the stop happen.                                 *)
Either(deny) == {IF deny THEN "deny" ELSE "silent"}
ApproveRulings == Either(DecideApproveGuard(hookCall.content))
ShaperRulings == Either(DecideGuard(hookCall.content))
Launched == hookCall.content.agent = "builder"
BuilderRulings ==
  IF ~ Launched THEN {"silent"}
  ELSE IF CheckLaunch(hookCall.content) THEN {"silent", "deny"} ELSE {"deny"}
GateRulings ==
  LET lines == hookCall.content.lines
  IN  {IF Rewrite(lines, hookCall.content.phase, hookCall.cfg) # lines THEN "speak" ELSE "silent"}
StopRulings == {"deny", "silent", "failed"}
ReceiptRulings == {"deny", "silent"}
ProjectionRulings(h) == {"speak", "silent"} \union (IF h = "pre" THEN {"deny"} ELSE {})
Rulings(h) ==
  CASE h = "approve" -> ApproveRulings
    [] h = "shaper"  -> ShaperRulings
    [] h = "builder" -> BuilderRulings
    [] h = "gate"    -> GateRulings
    [] h = "stop"    -> StopRulings
    [] h = "receipt" -> ReceiptRulings
    [] OTHER         -> ProjectionRulings(h)

(* How a ruling reaches the runtime: a denial of the shaper or the receipt *)
(* as exit code 2, others as JSON.  A panic of these two ends the program  *)
(* with Go's code 2; it is a warning of the projection and of the approve  *)
(* guard, a denial of the builder guard once it knows the launch for one,  *)
(* and silence of the others.                                              *)
PanicReply(h) ==
  CASE KeepsCode(h)    -> Exits(2)
    [] h = "builder"   -> IF Launched THEN Denial ELSE Silent
    [] h = "post"      -> [Silent EXCEPT !.context = TRUE]
    [] h \in {"gate", "stop"} -> Silent
    [] OTHER           -> [Silent EXCEPT !.warning = TRUE]
Reply(h, ruling) ==
  CASE ruling = "deny"  -> IF KeepsCode(h) THEN Exits(2) ELSE Denial
    [] ruling = "speak" -> IF h = "pre" THEN [Silent EXCEPT !.warning = TRUE]
                           ELSE [Silent EXCEPT !.context = TRUE]
    [] ruling = "panic" -> PanicReply(h)
    [] OTHER            -> Silent

Rule ==
  /\ hookStep = "ruling"
  /\ \E ruling \in Rulings(hookCall.hook) \union {"panic"} :
       /\ ruled' = ruling
       /\ HookAnswers(Reply(hookCall.hook, ruling))
  /\ UNCHANGED hookCall

(* The runtime goes on, with the call or without it.                       *)
GoesOn ==
  /\ hookStep = "answered"
  /\ hookCall' = NoCall
  /\ hookStep' = "idle"
  /\ ruled' = "none"
  /\ hookAnswer' = Silent

HookNext ==
  RunHook \/ MissingBinary \/ ParseArguments \/ ReadInput \/ DecodeInput \/ Rule \/ GoesOn

----------------------------------------------------------------------------
HookTypeOK ==
  /\ hookCall.hook \in HookNames \union {"none"}
  /\ hookStep \in {"idle", "begun", "without binary", "reading", "decoding", "ruling", "answered"}
  /\ ruled \in {"none", "deny", "speak", "silent", "failed", "panic"}
  /\ hookAnswer.code \in {0, 1, 2}

(* What an exit code and a line of JSON mean to the runtime.               *)
Blocked == hookAnswer.code = 2 \/ hookAnswer.deny
Judged == ruled \in {"deny", "speak", "silent", "failed"}

(* A hook that could judge blocks exactly what it judged must not be.  One *)
(* that could not is let through, except where a guard must not be passed  *)
(* by what it could not look at: the shaper's and the receipt's in every   *)
(* such case (an undecodable call runs no git command, so the receipt's    *)
(* lets it go), the others for a call too large to be read, and the        *)
(* builder's once it knows that a builder is launched (the comments of     *)
(* skills_guard.go, roles_builder_guard.go, shaper.go, review_receipt.go). *)
BlocksOnlyWhatItMust ==
  hookStep = "answered" =>
    IF Judged THEN Blocked <=> ruled = "deny"
    ELSE IF ruled = "panic"
    THEN Blocked <=> KeepsCode(hookCall.hook) \/ (hookCall.hook = "builder" /\ Launched)
    ELSE IF ~ hookCall.binary THEN Blocked => hookCall.hook = "shaper"
    ELSE /\ Blocked => \/ KeepsCode(hookCall.hook)
                       \/ hookCall.hook \in {"approve", "builder"} /\ hookCall.fault.size = "over"
         /\ hookCall.hook = "shaper" => Blocked
         /\ hookCall.hook \in {"approve", "builder"} /\ hookCall.args = "well"
              /\ hookCall.fault.reads /\ hookCall.fault.size = "over" => Blocked

(* Without its binary the shaper's wrapper still denies a call that names  *)
(* the clearance command or its store, save for one broken over lines.     *)
FallbackGuards ==
  hookStep = "answered" /\ ~ hookCall.binary /\ hookCall.hook = "shaper"
    => (DecideGuard(hookCall.content) /\ ~ Blocked => hookCall.content.marker = "spaced")

(* A launch that passes through gate-task again, as a resumed one does, is *)
(* not changed again; a phase the contract excludes never carries its path,*)
(* one it applies to does; what the person wrote stays, in its order, and  *)
(* the instructions are last.                                              *)
WrittenBy(lines) == SelectSeq(lines, LAMBDA l : l \notin {"", Header, ContractEntry, InstructionBlock})
RewriteSettles ==
  hookStep = "answered" /\ hookCall.hook = "gate" =>
    LET lines == hookCall.content.lines
        phase == hookCall.content.phase
        cfg == hookCall.cfg
        out == Rewrite(lines, phase, cfg)
    IN  /\ Rewrite(out, phase, cfg) = out
        /\ WrittenBy(out) = WrittenBy(lines)
        /\ lines # <<"">> /\ Managed(cfg) /\ Parses(cfg.contract.file) /\ phase # "" =>
             LET c == ParseBoth(cfg.contract.file)
             IN  /\ phase \in c.excluded => ~ Contains(out, ContractEntry)
                 /\ phase \in c.applies \ c.excluded /\ ~ ContextRequired(c)
                      => Contains(out, ContractEntry)
        /\ lines # <<"">> /\ InstructionsOf(cfg) # "" => Trimmed(out)[Len(Trimmed(out))] = InstructionBlock

(* A command that reads text about an approval is let through, one that a  *)
(* reader is told to run is not.                                           *)
ReadersOnlyRead ==
  hookStep = "answered" /\ hookCall.hook = "approve" /\ ruled = "silent"
    /\ hookCall.content.tool = "Bash" =>
      \A k \in DOMAIN hookCall.content.command :
        LET words == hookCall.content.command[k]
        IN  (\E i \in DOMAIN words : words[i] = "approve" /\ i > 2 /\ words[i - 1] = "skills"
                                        /\ words[i - 2] \in EntryPoints)
              => words[1] \notin EntryPoints /\ \A j \in DOMAIN words : words[j] \notin CommandFlags

HookCallsAreSound ==
  BlocksOnlyWhatItMust /\ FallbackGuards /\ RewriteSettles /\ ReadersOnlyRead
=============================================================================
