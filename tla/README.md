# A verification of the overlay's engine

This directory models parts of the labdrian SDD overlay in TLA+, checks them
with TLC on small instances and proves theorems about them with TLAPS. Paths
below are relative to the repository.

The overlay installs skills, agents and roles into coding-agent runtimes and
keeps the records of the work done with them. It is a Go program, the engine
(`engine/`, with its command line in `engine/cmd`), a second Go program, the
long-term memory (`longterm-mem/`), a terminal interface (`tui/`), validators
(`tools/`) and a bash front end (`bin/overlay`, `bin/lib/`). Nothing in it
serves requests or runs for long, but for the memory's MCP server. What makes it
hard is elsewhere: **many short processes of the same program** (commands, hooks
that a runtime starts on every prompt, a detached sync child) **share files**,
with advisory locks in some places and none in others; any of them may be killed
between two system calls, and the machine may lose power.

Contents: 1 the system, 2 the modules, 3 the plan, 4 the runs, 5 fairness,
6 assumptions on the environment, 7 proofs, 8 where the code and its documents
disagree, 9 what is not modelled.

## 1. The system

### File primitives

| part | what it does | hard cases |
| --- | --- | --- |
| `engine/filelock` | advisory `flock` of a file or directory: exclusive without a wait, with a bounded wait, or shared and *provisional* (a shared lock on a file that is not there holds nothing and must be confirmed after the read) | a holder that dies, a wait that times out, a writer that begins during a provisional read |
| `engine/atomicfile` | replaces or creates a file: temporary file, write, flush, rename (or hard link for create), flush of the directory | a stop between any two of these; the rename done and the flush failed |
| `engine/statestore` | publishes a record once: the same bytes again are a success, other bytes a refusal | two writers of one name; a retry after a failure |

### Components of the engine

| component | state | operations | who it interacts with |
| --- | --- | --- | --- |
| workflow (`engine/workflow`, `filelog`) | one hash-chained log of events per workflow; its state is replayed, never stored | create, start, pause, resume, record a stage, narrow, verify, close | reads the goal file and the role chain; its log is read by the binding and the hooks |
| repository binding (`engine/projection`, `fsstore`) | one file per repository: the workflow it follows | bind, replace a stale binding, unbind, unbind if unchanged | reads workflow logs without their lock |
| prompt hook and gate (`engine/projection`, `memoryscope`) | none | project the bound workflow into a prompt; unbind a closed one; hold each tool call against the plan of memory; record evidence of memory reads | binding, workflow log, evidence log |
| memory evidence (`engine/projection/evidencelog`) | JSON lines, appended under a lock | append, repairing a torn last line | hook |
| role handoffs (`engine/roles`, `filechain`) | a directory of immutable, hash-chained records | append, load, resume, next | workflow binds the head of a chain |
| task opening (`engine/workflow/app/open.go`, `oddtask`) | none of its own | writes handoffs, a workflow, its first stages and a binding; a guard lets a builder be launched inside it | all of the above |
| skill registry (`engine/skills`) | a registry and a manifest, a project's lock file and its copies of a skill | add, remove, validate; register, revise, retire, install, adopt, uninstall | exclusive, shared and provisional locks |
| propagation (`engine/propagator`, `sddregistry`) | rows and marker blocks in a consumer's file | propagate with verification and retries, repair | a lock of its own; another program that takes none |
| sync trigger (`engine/synctrigger`) | a log that rotates under a lock | start a detached child, run one bounded sync | long-term memory |
| ownership (`engine/runtime/ownership`) | which runtimes a shared binary is installed for | record, release, retire | `bin/lib/longterm_mem.sh` |
| review (`engine/review`, `reviewverdict`) | files stored once under numbers: results, verdicts, exemptions, sweeps, role records | record, verify, exempt, sweep, check, the stop hook | statestore, a lock per feature and per repository |
| receipts (`engine/reviewreceipt`) | copies of approved receipts | capture by hand and before an acknowledgement | the stores of an external review tool |
| shaper (`engine/shaper`) | immutable clearance records | assess, show, record, look up | the handoff and goal documents, the worktree |
| settings (`engine/settings`, `codexhooks`) | files that runtimes and people write too | add and remove entries, back up, report | runtimes |
| hooks (`engine/hookwire`, `gate`, `cmd`) | none | decode a bounded input, rule, answer | a shell wrapper and the runtime around them |
| package building (`engine/pipkg`) | an installed tree | build beside, swap | - |

### Components outside the engine

The bash overlay keeps a deploy state and backups and applies, restores and
updates itself. The long-term memory keeps durable files, identity ledgers, a
vault of pages, an address map, the record of the last sync and a vector index;
its promotion writes several of them in an order that a crash may cut.
`identity`, `telemetry` and `archguard` read, compute and report.

### What correctness means here

* **Workflow log.** The log of a workflow is one history. Whatever processes
  do at the same time, each event is a legal successor of the ones before it, no
  event is lost to another process's rewrite, an acknowledged event survives a
  power loss, a file the program does not own is left as it is, and no lock stays
  behind. Rules that no append looks at hold all the same: stages come in the
  order of the profile the workflow was created with, a verification concerns the
  goal and the chain bound at creation, and narrowings only go forward.
* **Binding.** A decision made before the lock is never applied to another
  binding than the one it was made on; an open workflow is not unbound by
  anything but a person; a closed one does not stay bound.
* **Role chain.** Without any lock, the directory holds one verified chain,
  records never change, exactly one of rival records wins and its rivals learn of
  it; a delivery has gone through review.
* **Task.** A task is opened as a whole or can be opened again; a builder is only
  launched into a workflow that was started; a role reads no memory that a
  directive took away; no approved receipt is burned before it is kept.
* **Logs.** A torn line never corrupts its neighbour; a log is shifted only when
  it is full; each sync that starts is logged, where its log can be opened and written.
* **Installs.** Registry and manifest differ by one skill at most; a person's file
  is not written over and comes back when a verb fails; a shared binary is not
  removed while a runtime needs it; a report of success is true of the file.
* **Decisions from files others write.** An answer from an index is of one build
  and current; a plan said ready was affirmed by a person who was shown these very
  documents; a document read lay in the worktree.
* **Stores.** A page is tracked and made once; a person's edit of its body survives,
  if it was made before the update read the page; what clears a head was looked at,
  and a candidate is corrected once.

`PROJECT.json` lists every component with its status, and under `hazards` the
places in the code where these can go wrong, each with the properties that would
notice. Four further hazards were met and have no property of their own: a
workflow's log that is lost and restored while a bind judges it (`bind.go:72`),
parents of a new directory that are not flushed (`statestore.go:154`), the listing
of a chain's directory while records are added (`filechain/store.go:153`), and the
rewrite of a whole log for each append (`filelog/store.go:227`, whose effect is
part of `ImplementsLedger`).

## 2. The modules

| module | models | kind |
| --- | --- | --- |
| `LifecycleRules` | `statemachine.go`, `log.go`: replay, `CheckTransition`, `ClassifyLog`, `AdmitAppend`, the stage prefix | operators |
| `WorkflowLedger` | what the log promises: legal events, added one at a time, of which a firm part stays | abstract specification |
| `WorkflowLog`, `WorkflowLogProps`, `WorkflowLogProofs` | `lifecycle.go` over `filelog/store.go`, `filelog/lock.go`, `atomicfile.Replace` | detailed specification, properties, proofs |
| `Bindings`, `BindingsProps`, `BindingsProofs` | `projection/fsstore/store.go`, `bindingstore.go`, `app/bind.go` and the unbinding in `app/hook.go` | specification, properties, proofs |
| `RoleRules` | `roles.go`, `chain.go`: transitions, `VerifyChain`, `AdmitRecord`, `Next` | operators |
| `HandoffLedger` | what a chain promises, with the properties of the rules themselves | abstract specification |
| `RoleChain`, `RoleChainProps`, `RoleChainProofs` | `filechain/store.go` over `statestore.Publish` and `atomicfile.Create` | detailed specification, properties, proofs |
| `OpenTask` | `workflow/app/open.go` and the launch guard of `oddtask`, over abstract forms of the three stores above | specification |
| `MemoryGate` | `memoryscope.go`, `plan.go`, `gate.go`, `evidence.go` | specification |
| `Receipts` | `reviewreceipt` and its store | specification |
| `TaskProofs` | theorems about `OpenTask`, `MemoryGate`, `HandoffLedger`, `Receipts` and `MCTask` | proofs |
| `EvidenceLog`, `SyncTrigger` | `evidencelog/log.go`; `synctrigger.go` with `osproc` | specifications |
| `LogsProofs` | theorems about both and `MCLive` | proofs |
| `OverlayRegistry`, `ProjectSkills` | `skills/lock.go`, `stagedwrites.go`, `app/add.go`, ...; `project_*.go`, `install_*.go`, `uninstall_plan.go` | specifications |
| `InstalledTargets` | `runtime/ownership` and `bin/lib/longterm_mem.sh` | specification |
| `ContractRegistry` | `propagator`, `sddregistry` beside gentle-ai's refresh | specification |
| `SettingsHooks`, `HookCalls`, `StreamSplitter` | `settings` and `codexhooks`; `hookwire`, `gate`, `contract`, the guards; `jsonsplit.go` | specifications and operators |
| `InstallsProofs` | theorems about `OverlayRegistry`, `InstalledTargets` and `MCInstalls` | proofs |
| `VectorIndex`, `Clearance`, `ContainedRead` | `vecindex`, `embedindex`, `embedarm.go`; `shaper` with `labdrian-gate.ts`; `fsadapter/contained.go` | specifications |
| `ReadsProofs` | theorems about the three and `MCReads` | proofs |
| `Promotion` | `longterm-mem/internal/promote` over `vaultfs` and `durable` | specification |
| `ReviewRules`, `ReviewStore` | `review/app`, `reviewverdict`; what clears, and the files it is judged by | operators, specification |
| `StoresProofs` | theorems about `ReviewStore`, `Promotion` and `MCStores` | proofs |
| `MCWorkflowLog`, `MCBindings`, `MCRoleChain` | instances of one specification | for TLC |
| `MCTask`, `MCLive`, `MCInstalls`, `MCReads`, `MCStores` | compositions: several specifications that share no state; a behaviour is one of theirs, told by `part` | for TLC and for the composed theorems |

A composition has the types and promises of its parts, `XHolds == part = "x" =>
XIsSound`; the parts that do not move stand still in one of their initial states.

Operators named `...Unguarded`, `...Skipped`, `...Any` and the like, marked
"Mutant of" or "a form it must not have", are not part of a model. Each is a
definition as a plausible bug would have it, and stands there to show that a
property notices the bug; the table is in `PROJECT.json` under `mutants`.

### WorkflowLog and the code

A log is a sequence of events. An event's digest covers the digest of the one
before it, so `Digest(log)` is the contents of the log: SHA-256 is taken to have
no collisions. The status, the recorded stages and the last head of a log are
operators on it, as the program replays them from it.

An operation is the chain of steps its system calls cut it into. `Begin` is
`loadOwned`, without a lock. `Build` reads the goal, the role chain and the
catalog and makes the event, or the operation ends. `TakeLock` or `Conflict` is
the one try for the append lock. `Stage` reads the file again, classifies it,
admits the event and writes the temporary file, or `Refuse`. `Publish` renames,
`FlushDir` flushes the directory, and `Succeed` or `Fail` frees the lock.
`PublishFails` and `FlushFails` are the error paths, and `Crash` stops a process
anywhere. `BeginCreate` and `LoadForCreate` are `Create`, which gathers its
inputs before it looks for a log. Outside the program, the goal file changes, the
catalog is released anew or drops the profile, the chain grows or is replaced by
another of the same id, the file is damaged or an older copy put back, and the
power fails.

`damaged` stands for every classification that is neither absent nor owned;
`firm` counts the events a power loss cannot take; `acked` and `restores` only
record history for the properties.

### Bindings and the code

`file` is the binding file: absent, not ours, or a binding with its workflow and
`bound_at` in whole seconds. `made` numbers the bindings for the properties; no
action compares it. `BeginBind`, `LoadCurrent`, `JudgeCurrent`, `EnterBind`
follow `BindWorkflow.Bind`; `BeginUnbind` is `Unbind`; `BeginPrompt`,
`JudgePrompt`, `EnterUnbind` follow `HookService.OnPrompt`. Under the lock
`Admit` evaluates the four admission functions of `bindingstore.go` on the file
as it is now, `Rename` and `Flush` are `writeBinding`, and `Remove` is
`removeBinding`, which does not flush. A workflow is only its status here, and
`status` changes at any moment.

### RoleChain and the code

Each record is a file named by its seq, so `chain` is the directory. `Offer` is
the record a caller hands in: written against any prefix of the chain, skipping a
seq perhaps, or a copy of one that is there. `Admit` is `loadChain` and
`AdmitRecord`; `Look`, `Create`, `FlushDir` and `SameBytes` are `Publish`.
`content` stands for everything in a record that no rule looks at.

### The parts of a task and the code (`MCTask`)

**OpenTask.** `hops`, `flow` and `boundTo` are the three stores, as far as `Open`
looks at them: whom a record hands to and the bytes it tells, a workflow's status
and the number of its stages, the bound task. Each call of a store is a step,
`CheckChain` to `Bind` in the order of `open.go`, and each may fail after it wrote
(`CallFails`). `BeginLaunch`, `ReadFlow` and `ReadRole` are the guard of a
builder's launch, which reads the same stores one after another. `ByHand` is what
people write with the other commands, `EditDocument` an edit of the document.

**MemoryGate.** `memory` is what a workflow recorded: the ceiling of its profile,
the goal's directive, the handoff's and the role's. `PlanOf` and `Resolves` are
`Resolve`; `NarrowTo` is the lifecycle's narrowing with the refusal of a wider one;
`Gate` and `Evidence` are the two hooks. What the gate lets through and what the
evidence notes are functions of a state, so the properties quantify over every tool.

**Receipts.** `held` are the two stores of the external review tool, `kept` the
copies. `CheckCommand` is the hook before an agent's command; `Documents`, `EndRead`,
`Persist`, `Survivors`, `WriteReceipt`, `Compare` follow `service.go` over
`fsstore/store.go`; `CaptureByHand` is the command. Reading and then writing a kept
file is not atomic in the code and not here.

### The logs and the code (`MCLive`)

**EvidenceLog.** The file is a sequence of pieces: two halves of a line and a
newline, so that an append may be cut before, within or after a line.
`LockSidecar`, the look at the last byte, the write and the unlock are `Append`;
`SessionDies` stops a session anywhere. **SyncTrigger.** A start is two processes,
`<<t, "trigger">>` and `<<t, "child">>`; `slot` are the log and its rotated
predecessors, `opened` the file each process holds open, which it keeps when the
file is moved. Rotation is one `Shift` per slot under `rotateLock`.
`RefusesArguments` and `CannotOpenLog` are the returns of `Run` that log nothing,
after which a child goes on without a log, and a line that `Logs` writes may be lost,
as `appendLog` looks at no error; whom any of this happens to is in `unlogged`.
`SyncEnds` and `Kill` come from outside.

### What is installed and the code (`MCInstalls`)

**OverlayRegistry.** `registry` and `manifest` are the two files; a writing verb
locks, stages from what it read, renames the manifest and then the registry, and may
fail or die before each. `LockShared`, `Recheck` are the provisional shared lock
with its one repetition. **ProjectSkills.** `tree` holds the bytes of every file of
a skill and of the project's lock, `run` the verb with its plan and what it did, so
that `UndoOne` is the stager's way back; a person writes, deletes and removes
directories meanwhile, and a killed verb leaves `litter`. **InstalledTargets.** The
steps of the script around `record`, `release` and `retire`; a torn record glues two
names to one that nobody knows (`Garbled`). **ContractRegistry.** The registry is a
sequence of lines `<<kind, contract, text>>`; `RunStep` is a propagation with its
reads, its write and its verification up to `MaxAttempts` times, or a repair;
`Refresh...` is gentle-ai's, in place and without a lock. **SettingsHooks.** An entry
is the words its commands mention, its matcher and whose bytes it has;
`BeginHooks` reads and merges, `BackUp` and `Rename` write. **HookCalls** runs one
hook through wrapper, arguments, read, decoding and ruling; an input is its size,
shape and wrong fields. **StreamSplitter** is the machine of `jsonsplit.go` on tokens.

### Decisions from files and the code (`MCReads`)

**VectorIndex.** `manifest` and `blob` are the two files of an index, replaced one
after another; an observation's text is a version, and its fingerprint stands for its
vector. `Ask` and `QueryStep` are a query with its coverage snapshot, cache, top-up
and answer, `BuildStep` a build by a query or an indexer under the directory's
lock. **Clearance.** `disk` holds the handoff, the goal and the worktree; a dialog
reads, shows, asks and records, an assessor reads, judges and looks a record up; the
three change between any two reads. `FirstVerdict` is the judgement of a plan and
its goal, evaluated from the rules of `readiness_evaluation.go`. **ContainedRead.**
A document is reached over a directory that may be turned into a link; the steps are
the look, the open, the look at the opened file and the read.

### The stores and the code (`MCStores`)

**Promotion.** `pages` are the vault's files with what they say of themselves and
the hashes that were recorded, the catalog and the address map the two files beside
them. A promotion allocates an address, writes the entry, the page and the record of
its hashes, in the code's order and with a stop between any two; `sync`, a pass over
a project and a promotion by hand are its three callers. A person edits bodies and
frontmatter, loses sidecars, and makes files unreadable. **ReviewStore.** `files`
are a feature's stored files, `[kind, head, n, base, says, also, of]`; `List` and
`Create` are the two steps of taking a number, `TakeLock`, `CheckRound` those of a
blocking verdict, `Sweep` and `Swept` a sweep under the repository's lock, `AskStop`,
`AddAsked`, `BlockStop` the stop hook. A history is a commit graph with the risk of
each commit, the files stored at first, and the bounds of its own.

## 3. The plan

Modelled, in the order they were written: the workflow log with its ledger, the
binding and the role chain (each refined or proved), the opening of a task, memory,
evidence, the sync trigger, the registry of skills and a project's skills, the
installed targets, contracts, receipts and reviews, promotion, the hooks and the
settings they are in, clearance and its contained read, and the embedding index.

Open:

1. Proofs: of `HooksAreSound` the merges for several binaries, `gate-task`'s
   rewriting and the splitter's grammar.
2. `PackageSwap`: the tree `pipkg` builds beside the old one and swaps in.
3. `ApplyRestore`: apply, backup, restore and self-update of the bash overlay.
4. The registration of runtimes, ingestion and the rebuild of the memory's indexes.

## 4. The runs

Every passing run explores its whole bounded state space. Symmetry over processes
(and workflows, contents, skills) is used in runs without liveness only.

| run | question | bounds and why they are enough |
| --- | --- | --- |
| `WorkflowLog_races` | is the log one history whatever two processes, crashes, power losses and other programs do, and does it implement `WorkflowLedger`? | two processes, since each interference is between the holder of the lock and one that is not; logs of up to two events admit a third one past the size bound, so every path beyond the bound occurs; two outside changes, so that damage can be repaired and a power loss can follow a restore |
| `WorkflowLog_binding` | do stages follow the profile, and do `verified` and `narrowed` events belong to the goal and chain bound at creation? | two stages in both orders, logs of the oldest version that carry no profile, two goals, a chain of up to two records that grows and may be replaced, three events; one process, since the inputs change between its steps |
| `Bindings_races` (`MCReads`) | do concurrent binds, unbinds and prompts respect each other; is an answer from the index current; is what was cleared what was shown; is what was read inside? | binding: two processes, two workflows, two bindings, two seconds, two outside changes. Index: two observations, one with a topic, one session and one indexer, two saves, two builds, one stop, a top-up of one row (25 in the code). Clearance: one dialog session and one assessor; one edit and two dialogs, or two edits and one. Contained read: two files, four moves, which puts a link, a pipe and another file in the path in any order |
| `Bindings_prompts` | do operations end, and does a closed workflow get unbound? | two processes, one workflow, one outside change; a prompt does not look at the clock, so there is one second |
| `RoleChain_races` | does a directory without a lock hold one verified chain? | two processes, two records, two contents, interrupted handoffs and both versions, a power loss |
| `Task_work` (`MCTask`) | is opening a task all or again; is memory the narrowest; is a delivery earned and a chain never stuck; is no receipt burned unkept? | two actors and two tasks, two versions of a document, chains of three records around an opening; all directives over three sources, narrowed once after creation; every handoff there is in chains of up to eight, the seven steps to delivery and one rework or interruption; one agent and one person, two receipts of which one has an unusable name, two changes, one feature |
| `Installs_races` (`MCInstalls`) | are registry, project, binary, contracts, settings and hooks left sound by every failure and interleaving? | three verbs of which two write; two directories and two drafts, three verbs, one edit by a person; two scripts, two runtimes, four jobs; two runs, two contracts, two passes, two refreshes, one kill; two hook commands and one change by hand; every hook against every shape of input; every stream of objects up to ten tokens and every corrupted one up to nine, with limits scaled down (`RestLimit` 26, `SinkBuffer` 3, `RunLength` 3, `MaxNesting` 2) so that each is reached |
| `Live_locks` (`MCLive`) | does every operation end and every lock come free; is every start of a sync logged, where it can be? | two processes that crash or fail anywhere; two sessions, four lines; three starts, logs of one line, two rotated slots, one kill and one process that cannot log, so that the other of its start, and another start, go on beside it |
| `Stores_work` (`MCStores`) | are pages tracked, made once and linked, and edits of bodies kept that an update had read; is what clears a head reviewed, and a candidate corrected once? | one process, two observations, one of which may supersede the other, two projects, two pages, three revisions and commands, one fault, two touches; two verifiers, one session, and seven histories, each with bounds of its own on files and stops |
| `Bindings_aba`, `Vault_edits`, `Targets_orphan` | see section 8 | the smallest bounds that show it |

What they show of the properties beyond the first reading:

* `LogVerifies` needs the digest in `AdmitAppend`: an event that is legal by its
  kind alone may have been built on another log.
* `StageOrder` and `InputsAreOne` hold though `Append` looks at neither: the digest
  makes an event built on an older log inadmissible.
* `ImplementsLedger` says the lock, the temporary file, the rename and the flush
  amount to adding one legal event to the current log.
* `OpenStaysBound` is the promise behind the "if unchanged" forms of the store. It
  speaks of workflows that were open all along. A workflow whose log was lost and
  then restored may be replaced by a bind that judged it in between, since the
  store compares the binding and not the workflow.
* `IndexHolds` says that an answer is of current texts and of the goal asked for
  and that what was left out is told; it does not say that the vector ranked is the
  entry's own (section 8).
* `HandoffsHold`: interruptions, rework and exemptions mix in one chain, and a
  delivery still has every mandatory role behind it with the reviewer last.
* `EveryStartIsLogged` is claimed for starts whose arguments are valid and whose log
  can be opened and written, and whose processes were not killed: `Run` reports the
  rest on stderr and returns (`synctrigger.go:201-204`), a child's `finish` skips a log
  it does not have, and `appendLog` ignores a failed write. That a start ends is
  claimed of all of them.
* `BodyEditsAreKept` compares a page before and after every step, the write of an
  update included, and names what an update may take out: what was given up by
  reconciling, the middle of a page an interrupted update left ahead of its entry, and
  what was written between the update's read and its write (section 8). Without the
  last of these TLC finds such an edit lost.
* `StoredHold` is about what is on disk at any moment, `ReviewsHold` about what the
  walks over the history conclude from it. Its part `StopAgreesWithCheck` is for one
  feature; `CheckChain` takes the base of the first result only (`chain.go:118`), so a
  head that only a later result covers leaves the stop hook silent while `review
  check` refuses.

## 5. Fairness

`FairSpec` of `WorkflowLog`, and `LiveFairness` for it and the two logs beside it, is
weak fairness of the steps of an operation that has begun: a running process goes on
to its next system call. No fairness is given to the beginning of an operation, to
crashes or to anything outside, and none to success: at every point where a call may
fail, weak fairness is met by its failing. The end of a sync is one of the outside
steps; that a start is logged all the same rests on the bound of its run, after which
the child kills it. `EverythingEnds` and `EveryStartIsLogged` rest on that alone in
`Live_locks`.

`PromptsSpec` adds what the code leaves to its user. The unbinding of a closed
workflow is best effort (`hook.go` ignores its failure), so `ClosedIsUnbound` can
only hold if people go on prompting and not every attempt fails: strong fairness
of beginning a prompt, of a prompt's getting the lock and of an admitted removal's
success. `Bindings_prompts` also checks `OperationsEnd`, so that the bounded wait
for the lock is part of what is checked; no operation needs a prompt in order to end.

## 6. Assumptions on the environment

* SHA-256 has no collisions; a digest is what it is taken of.
* A rename, a hard link and a listing of a directory are atomic. A power loss
  takes back directory entries that were not flushed, later ones before earlier
  ones, and never file contents, which are flushed before the rename.
* A lock binds this program only. Other programs write the log or the binding
  between operations of this one, not during them. The programs that do write
  during them are modelled: gentle-ai's refresh, people's edits of settings, pages,
  documents and skills.
* A process that stops, or a machine, frees its locks (`flock`).
* The directories exist and are durable; see the hazards at the end of section 1.
* All events have one size, so that the bound on a log's bytes is one on events.
* The counters (`changes`, `made`, `now`, `losses`, `MaxRecords`, `MaxOpens`,
  `writes`, `jobs`, `stops`, `edits`, `counts`, ...) are bounds of the models and not
  of the program, except `MaxStages` (256 in the code), `MaxLogEvents` (16 MiB),
  `MaxAttempts`, `PreWork`, `TopUpMaxRows` and the limits of `StreamSplitter`.

The ASSUMEs on constants, which TLC evaluates in each run and the proofs use:

* a value that stands for nobody or nothing is none of the others (`NoneAssumption`,
  `NoProcessAssumption`, `NobodyAssumption`, `NoVerbAssumption`,
  `NoScriptAssumption`, `GarbledAssumption`, `TasksAssumption`, `NoFileAssumption`,
  `NothingAssumption`, `NoReviewerAssumption`, `NoCommitIsNone`, `FilesAssumption`,
  `NoHolderAssumption`, `NoContractAssumption`, `AbsentAssumption`, `PersonsAssumption`);
* bounds are natural numbers, and a switch is a Boolean (`MaxHookRunsAssumption`,
  `MaxHandsAssumption`, `MayPurgeAssumption`, ...);
* a profile's order names stages once, goals are numbers, handoffs are handoffs and
  a record has some bytes (`OrdersAssumption`, `GoalsAssumption`,
  `HandoffsAssumption`, `RecordsAssumption`);
* dialogs and assessors, queries and indexers are different processes, and
  observations have numbers and, like runtimes' directories, are finitely many
  (`CallersAssumption`, `ActorsAssumption`, `ObservationsAssumption`, `DirsAssumption`);
* the changes people make to a page are of four kinds, and the successor of an
  observation is one or none (`MarksAssumption`, `SuccessorAssumption`);
* a path holds itself as a piece of text (`PathAssumption`); a document of a plan has
  the fields its version has (`DocumentsAssumption`);
* what an older build left was made by rules of the program: an old log verifies and
  its inputs agree (`LegacyAssumption`, `LegacyInputsAssumption`), and the files a
  review's history starts with have names of their own, results under their verdicts
  and one blocked head per base (`HistoriesAssumption`); they and the first parents
  of its commits are named by commits (`HistoriesTyped`), finitely many
  (`CommitsAssumption`);
* a history is one git can tell (`HistoriesOfGit`): the first parents of a commit are
  it and those of its parent, ancestry is transitive, a commit's risk is one of three,
  and an exemption that was stored before is, as those the program stores, of one commit;
* settings that read well at first are a document of their kind
  (`StartsAssumption`); a stream is a sequence of tokens and a shell command a
  sequence of words (`StreamsAssumption`, `ShellCommandsAssumption`).

## 7. Proofs

Eight modules hold theorems, for any number of processes, workflows, events, records,
sessions, verbs, scripts, queries, dialogs, reviewers and bounds. `PROJECT.json` lists
them under `theorems`; here is what they say and along which argument.

| module | theorem | says |
| --- | --- | --- |
| `WorkflowLogProofs` | `SpecInv`, `SpecTypeOK` | the inductive invariant, types included |
| | `SpecLogVerifies` | the file is absent or a log that verifies and replays |
| | `SpecStagedIsCurrent` | a temporary file about to be renamed holds the current log and one event more |
| | `SpecAckedIsFirm` | acknowledged events survive a power loss |
| | `SpecStageOrder` | stages come in the order of the profile |
| | `SpecInputsAreOne` | verified and narrowed events belong to one goal and one growing chain |
| | `SpecAppendOnly`, `SpecRefusedIsLeftAlone` | no step takes back or changes an event, or touches a file that is refused |
| | `SpecImplementsLedger` | `WorkflowLog` implements `WorkflowLedger` |
| `BindingsProofs` | `SpecInv`, `SpecTypeOK` | the inductive invariant, types included |
| | `SpecDecisionHolds` | what was decided on under the lock is so when it is acted on |
| | `SpecKeptIsFirm` | a reported binding survives a power loss |
| | `SpecOpenStaysBound`, `SpecNotOursLeftAlone` | an open workflow stays bound; a file that is not ours is left alone |
| `RoleChainProofs` | `SpecInv`, `SpecTypeOK` | the inductive invariant, types included |
| | `SpecChainVerifies` | the directory holds one verified chain |
| | `SpecReportedIsStored` | a reported record is the stored one |
| | `SpecRecordsAreImmutable` | records never change |
| | `SpecImplementsLedger` | `RoleChain` implements `HandoffLedger` |
| `TaskProofs` | `OpeningStaysSound` | a task is reported opened once and whole, and a builder is launched into a started workflow handed to one |
| | `MemoryStaysNarrowest` | the plan in force is the narrowest on record, and gate and evidence follow it |
| | `HandoffsStaySound` | a delivery is earned, and a chain that was not delivered can go on |
| | `ReceiptsStayKept` | no approved receipt the hook saw is burned unless it is kept |
| | `TaskStaysTyped`, `TaskOpeningHolds`, `TaskMemoryHolds`, `TaskHandoffsHold`, `TaskReceiptsHold` | the types, and the four in their composition |
| `LogsProofs` | `EvidenceIsReadable` | a recorded line is read by every reader, whatever was torn |
| | `RotationIsSound` | a log is only shifted when it was full |
| | `LiveTypes`, `LogsStayWhole`, `OldestLeaves` | the types, both in their composition, and a kept log leaves from the last slot only |
| `InstallsProofs` | `RegistryStaysSound` | an added skill stays in both files, which differ by one skill at most |
| | `ValidatesAsOne` | a validation judges a registry and a manifest of one moment |
| | `InstalledStaysHeld`, `BinaryIsKept` | an installed runtime is in the record; the binary goes only when the record names nobody, `--purge` aside |
| | `ContractsStaySound` | what a run said is written stays, no contract gets a second row, and blame needs a refresh |
| | `OthersLinesStay` | a propagation or repair changes no line but its own |
| | `SkillsStaySound` | a verb is done as a whole or undone, and leaves what a person wrote |
| | `LockComesLast` | the lock is written when the files it names are |
| | `RegistryHolds`, `RecordHolds`, `ContractsHold`, `SkillsHold` | the invariants in the composition |
| | `StepsHold` | all that no step of the composition may do, writes of the settings included |
| | `EditsLeaveTheirs` | an install or a removal of hooks leaves every entry and handler that is not ours |
| | `GuardsBlock` | a hook blocks what it judged must not be, and what it could not judge only where a guard must not be passed unseen |
| | `InstallsTyped` | the types, and settings that read well are a document of their kind |
| `ReadsProofs` | `IndexStaysSound` | answers of the index are current and of the goal, omissions are told, builds never mix their stages |
| | `ClearanceStaysSound` | a ready plan was affirmed by a person shown these documents; a decline stands |
| | `ReadStaysInside` | what is read is a file that lay in the worktree |
| | `AnswersAreCurrent`, `ReadsHold` | the same in the composition |
| `StoresProofs` | `StoredStaySound` | nothing stored is written over, one head of a base is blocked at most, a blocked head never clears, a question blocks a stop once |
| | `StoredHolds` | the same in the composition |
| | `SpecPagesAreTyped` | pages and entries are at allocated addresses, and nothing points to a page that is not there |
| | `SpecStoresTyped` | that, and every file of a review is named by commits and a number |
| | `ReviewedHolds` | what clears was reviewed commit by commit, the stop hook asks nothing of it, and a merge that lands brings no more |
| | `SpecBodyEditsAreKept` | no step takes out of a body what a person wrote, but an update what was given up, the middle after an interrupted update, or what came after it had read the page |
| | `SpecPagesHold` | for one process: every page is tracked, made once, linked, and open to later updates |

**WorkflowLog.** The invariant is `IInv == TypeOK /\ LockInv /\ PlaceInv /\ LogInv
/\ DraftInv /\ StageOrder`. None of the properties is inductive alone:

* `StagedIsCurrent` needs `LockInv`, that a process between its lock and its
  unlock is the lock's holder, so that no other process changes the log there.
* `LogVerifies` needs that what is staged is the log and one admitted event
  (`PlaceInv`), and then a lemma: appending an admitted event to a log that verifies
  gives one that verifies. A prefix of a log that verifies verifies too, which
  covers power losses and restored files.
* `StageOrder` needs `DraftInv`, the heart of the argument: *a stage event carries
  the digest of a log for which it was the next stage*. When it is admitted its
  digest is that of the current log, and two logs of our events with one digest
  agree on everything `IsNextStage` looks at.
* `InputsAreOne` needs `InputInv` beside it. The role chain on disk is the records
  1, 2, ... of one generation; *an event that waits to be appended records a goal
  and a chain that agree with what the log it was built on had recorded*, the chain
  being a growth of it; and its digest pins that log, so that it still agrees when it
  is appended (`InputsAppend`).
* `SpecImplementsLedger` maps `Publish` to the ledger's `Extend`, `FlushDir` to
  `Settle`, and so on; `InOrder` follows from `DraftInv` again.

**Bindings.** `ProcInv` says what a process knows where it stands. Before the lock
it knows one thing that others cannot make untrue: the workflow it judged is
*settled*, closed, lost or restored after that, so never again open all along.
Under the lock it knows that its admission still holds. `OpenStaysBound` follows:
a write or a removal that nobody asked for concerns a binding equal to the one
judged, hence one to a settled workflow. That needs `BoundInv`, that only created
workflows were ever bound, since one that does not exist counts as stale.

**RoleChain.** With no lock, a record admitted to an older chain may be linked
later. `AdmittedInv` says why that is safe: *an admitted record stays admissible*,
since either nothing was added in between, or its seq is taken by now and the
link fails. `AppendedNamesChain` then gives that a linked record names the very
chain it extends, which is what the refinement needs.

**Task.** `OpenInv`: what an opener did is still there, since the others only add to
the stores, so its report is true when it is made; the creator of a workflow is one,
and reports once. `MemoryInv`: the recorded directives always resolve, and along
ceiling, goal, handoff and role each narrows the one before, so that the last is the
narrowest. `LedgerInv`: each record of a chain is sound by itself: valid, with
every mandatory role behind the one it has reached, and reviewed if it delivers.
`ReceiptInv`: a receipt the hook saw is still unread, or found, or kept, until the
command is let through.

**Logs.** `EvidenceInv`: a recorded line stands whole, from the beginning of the file
or a newline to its own newline; what a session noted of the file's end stays true
while it holds the lock, so that the line it writes is not glued to a torn one; and
writes only add. `TriggerInv`: one process rotates at a time, the slot above the one it
moves next is free, and the log it set out to rotate is full until it is moved.

**Installs.** `RegistryInv`: a writer excludes readers; what a verb has read under
its lock is what is there; between the two renames the files differ by the one skill
that is written. `TargetsInv`: a script between its lock and its unlock is the
lock's holder, and nobody is told of a runtime that a script makes leave; a runtime
told as installed is on record, or a glued name stands in for it. `ContractInv`, for
registries that do not start damaged: the registry is *tidy*, every block in it is whole
and no contract has two rows, which generating, cutting, repairing and splicing all
preserve (the lemmas on `Tidy`); a run past its wait holds the lock; and a run that is
about to write does so from a registry that is still there, or was refreshed since, so
that what it writes holds every block that was vouched for. `OthersLinesStay` follows
from the same. `SkillsInv` joins a plan to what became of it. A plan writes no file
twice and the lock last, replaces nothing of a person, knows what it replaces, and is
*whole*: carried out, it leaves what the lock it leaves names (one lemma per verb). On the
way a file nobody touched is as the plan says when its write was reached, else as it
was; while undoing it is as it was, or still to be undone, or given up. A directory nobody
touched was there or is of the verb's making. So a verb that ends has
carried out all of a whole plan, or nothing.

`SettingsInv` is about a file that people write too. What reads well is a document of
its kind (`WellRead`), the file, its backup and what a command has read alike; and a
command about to rename, since when nobody else wrote, *has in the backup what is
there* (`BackedUp`), which `ReplacesStep` reads `ReplacesWhatItKeeps` off. That a merge
loses nothing is about the documents alone (`EditedKeeps`). What is a person's in a
sequence of entries, or of groups of handlers, is what a function keeps of each item,
joined (`Over`); to leave out items of which nothing is kept changes nothing
(`WithoutKeeps`), nor does an appended entry that a family owns. A merge of one family
is such a step (`MergeFamilyKeeps`); the merges of all are a recursive function, taken
one family after another (`MergeEventKeeps`), and an edit of a Codex event drops and
appends groups in the same way (`EditEventKeeps`). `SettingsHooks` filters by `WithoutAt`
and merges by a function for this reason: `SelectSeq` and `FoldLeft` take operators.
`HookInv` says what a call has been through: its answer is the one its judgement asks
for, once there is one.

`InstallsTyped` and `StepsHold` suppose `~MayBeDamaged`, as `ContractsHold` does, and
for its sake only.

**Reads.** `IndexInv`: one build at a time is at its files; a row a query may show was
so in the memory at some moment while it ran, and is of the goal; no index it answers
from is older than its beginning; and what it left out is told. It rests on
`RowsInOrder`, that a finite set of numbers has an increasing enumeration.
`ClearanceInv`: what a person is shown, and answers, is of a plan and a goal that were
judged together and says what there was to say of them; a record waits to be kept only
with an answer behind it, and a kept one is an answer. `ContainedInv`: what lies
inside was inside, and what was proven to lie there is kept as the one file that is
open.

**Stores.** `ReviewInv == FilesOK(files) /\ SeatsOK /\ HookOK`: who is about to store
a blocking verdict holds the feature's lock and found no other one of its base; a
verdict that waits has its result stored; and a question that is being put was never
put before, since it is recorded first. `BlockedStaysBlocked` follows from the rules
alone: clearance asks every verdict of the head. `ReviewTypes` adds what a process will
store to `StoresTypeOK`; a next free number is one since the numbers of a head are
finitely many (`NextNumberTyped`), and a candidate is a commit since the first parents
of a branch are (`CandidatesTyped`).

`ReviewedHolds` needs no more of the state than that, `HistoriesOfGit`, and a long
argument about two walks. That of a chain goes down the first parents one commit or
one reviewed range at a time; it is a function on its steps, which are shown to exist
and to be what the definition chooses (`StepsExist`, `WalkIs`). A line of first
parents never comes back (`LineGoesDown`), so where the walk stands tells what it has
passed, and all of that lacks nothing (`WalkCovers`). The stop hook goes up instead,
from the base along the ranges of what is stored; it gets up wherever the walk came
down (`WalkReaches`), so the two agree. A landing follows by the transitivity of
ancestry.

`VaultInv`, for any number of processes: a page's body is of the revision its
frontmatter tells, an entry carries a person's mark of a body only when they gave the
page up, what a process will write to or point to is there and stays there, and its
judgement of the page it read holds. For `SpecBodyEditsAreKept` the judgement says
what an update may take out (`OverwritesGivenUp`), and `AddressesOwn`, that processes
which create pages have addresses of their own at which there is no page, that no
other step takes anything: a new page replaces none. `AloneInv` is for one process, `Processes = {s}`, and needs it: two that
sync at once each write back the sidecar they read, and may each make a page of one
observation; longterm-mem takes no lock against that, and TLC shows it with two
processes. It says that every page has an entry in the sidecar and in the copy the
process holds, and no entry is of a later revision than its page; that no page is of a
later revision than its observation, nor than any observation the process still has to
promote, so that no update takes a revision back and no entry gets ahead of its page;
and that a page about to be made is not there. `InterruptedIsTakenUp` follows: a page
ahead of its entry, with the entry's revision known and no edits, is one whose update
was interrupted, and is recognised as such.

What stays with TLC, and why:

* liveness under fairness (`OperationsEnd`, `ClosedIsUnbound`, `EverythingEnds`,
  `EveryStartIsLogged`) is out of the prover's reach;
* `HooksAreSound`, of which the guards are `GuardsBlock`, and of its `SettingsAreSound`
  that no person's entry is lost is `EditsLeaveTheirs`. What is left: that a second
  merge changes nothing, that binaries whose paths do not hold one another stand side
  by side, what `gate-task` makes of a prompt it has rewritten, and that the splitter
  agrees with the grammar of its input, which is a recursive definition over the input.

## 8. Where the code and its documents disagree

Three are runs that expect a violation; `PROJECT.json` quotes the lines.

* `Bindings_aba`: `bound_at` is cut to whole seconds (`bindingstore.go:131`), so a
  binding removed and made again within a second counts as unchanged, and a prompt
  may remove it.
* `Vault_edits`: a patch of a page's status records a person's line of frontmatter
  as the program's own (`writer.go:395`), and the next promotion writes over it.
* `Targets_orphan`: an install registers an entry before it records the target
  (`longterm_mem.sh:278`); stopped in between, an uninstall of another target removes
  the binary the entry points at.

Others were met with the same models and other bounds:

* `AdmitAppend` does not look at the size the log will have (`log.go:187`). Events
  that are legal one by one can carry a log past `MaxLogBytes`, after which it is
  malformed and no operation, abandoning it included, is possible;
  `RefusedIsLeftAlone` shows it is never touched again.
* When the flush of the directory fails (`atomicfile.go:219`), an operation reports an
  error with its event in the log. The comment on `Verify` says nothing was appended.
* `Publish` reports success for bytes that are already there and does not flush the
  directory then (`statestore.go:282`). A retry after a failed flush is told that the
  record is stored, and a power loss may still take it.
* Two promotions at once make two pages of one observation (`writer.go:368`): with
  `Processes = {s1, s2}` `OnePagePerObservation` is violated. The run has one.
* A page that an update left with a new day only is refused for good and not named
  (`NoSilentRefusal` with `Days = {1, 2}`; `writer.go:30-36`).
* A propagation answers "unchanged" for a block that lost its end marker
  (`outcome.go:16` against `propagator.go:149-157`; `SettledIsHeld` with
  `MayBeDamaged = TRUE`).
* A query may serve vectors of another build under the entries of a manifest:
  blob and manifest are replaced one after another, and `Load` compares their
  lengths only (`vecindex/index.go:153-164`, `170-173`). `ServesOwnVectors` of
  `VectorIndex` states it and is violated; no run checks it.
* `settings/doc.go:4-5` says every foreign hook stays; an entry of Claude's settings
  whose inner hooks mix ours with a person's is dropped whole (Codex's keeps them).
* `labdrian-gate.ts:315` says it mirrors `unpresentableRune`, and lacks variation
  selectors, fillers and separators that the Go side refuses first.
  `readiness.go:38-41` says only version 2 of a handoff can become ready; versions 3
  and 4 can.

Observations that no document contradicts:

* the guard of a launch advises `labdrian workflow open` also when leftovers make
  `Open` refuse; `Open` looks at the binding only after it has written the rest;
* `checkStillAsPlanned` compares the existence of files, not their bytes
  (`install_exec.go:13-14`); `retire` leaves the directory, and registering the skill
  again is refused as foreign; a crash in the middle of an install makes installs
  refuse until a person acts;
* a torn refresh of the registry that a propagation reads and writes back stays
  torn; a repair adds blank lines;
* a removal of hooks for one binary drops the deny rule another still uses, and
  ownership is by substring, so binaries whose paths contain one another disturb each
  other; a person's edit between read and rename of the settings is in the backup
  at best;
* an uncaught panic of a guard ends with Go's exit code 2, which blocks;
* the key of a clearance is the handoff's digest: a decline, or an affirmation for a
  goal or worktree that has moved since, blocks a later record for the same bytes;
  an assessor reads its documents one after another, and judges a pair that may
  never have been on disk together (the clearance binds both);
* live rows are read before the build's lock, so a build with an older reading may
  drop a row after a query was told it was topped up; edited entries count as
  indexed and trigger no top-up;
* a person's edit of a page's body between the read of `UpdateInPlace`
  (`update.go:127`) and its write (`update.go:158`) is overwritten: no lock binds the
  editor, and the page is not looked at again. `BodyEditsAreKept` excepts that window;
  `PatchStatusFields` has one too (`frontmatter.go:28`, `:42`), which the model does not
  have, since a patch is one step there;
* a start of the sync whose log cannot be opened or written leaves no line, by design;
* a result and a file of another kind may get one number when their writers race
  (`service.go:191-193`); a merge of the default branch into the branch makes
  `CheckOnto` refuse;
* a receipt's capture reads and then writes, with no lock; with no active change an
  acknowledgement passes uncopied, by design.

## 9. What is not modelled, and why

Parts planned in section 3 are only not modelled yet. Left out for good:

* texts and their rendering, argument parsing, generated agents, the terminal
  interface, the validators: sequential code with no state of its own;
* ranking, embeddings and similarity in the long-term memory: numeric;
* reads of git and probes of installed programs: their result is a value a model
  of their callers picks;
* in the modelled parts: time stamps in events and observations (no transition
  depends on them), a record's evidence and context; the linter and the parsers of
  skills; the layout of the view a person is shown and the JSON of a clearance; the
  bytes around an entry of the settings; replies of reviewers, worktrees they run in
  and files a person removes from a feature; cards, ineligible observations and the
  record of the last sync in a promotion; the merge of sources in a query and the cap
  on its answer; Codex's set of hooks beyond the names it gives tools; what a
  runtime does with several hooks at once.
