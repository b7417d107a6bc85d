-------------------------- MODULE ContractRegistry --------------------------
(***************************************************************************)
(* The skill registry of a project (.atl/skill-registry.md) and everything *)
(* that writes it: `engine propagate`, which scopes the row of a contract  *)
(* into it and reads the write back (engine/propagator), the repair of the *)
(* rows of the SDD phase skills (engine/sddregistry), and the refresh of   *)
(* gentle-ai, which takes no lock and writes the registry whole.           *)
(*                                                                         *)
(* A registry is a sequence of lines, a line is <<kind, contract, text>>;  *)
(* lines that no rule tells apart, and blank lines, are left out.          *)
(***************************************************************************)
EXTENDS Integers, Sequences, FiniteSets, SequencesExt

CONSTANTS
  Runs,          \* processes of the engine
  NoHolder,      \* holds the registry's lock when no process does
  Contracts,     \* the managed contracts
  NoContract,    \* what a line of no contract carries
  MaxAttempts,   \* passes of a verified propagation (MaxAttempts, 3 in the code)
  MaxRuns,       \* bound on how many commands are run
  MaxRefreshes,  \* bound on how often the registry is refreshed
  MaxContractEdits, \* bound on how often the text of a contract changes
  MaxKills,      \* bound on how many processes are killed
  MayBeDamaged   \* whether the registry may have lost the end of a block

ASSUME MaxAttemptsAssumption == MaxAttempts \in Nat \ {0}
ASSUME NoHolderAssumption == NoHolder \notin Runs
ASSUME NoContractAssumption == NoContract \notin Contracts
ASSUME MaxContractEditsAssumption == MaxContractEdits \in Nat
ASSUME MayBeDamagedAssumption == MayBeDamaged \in BOOLEAN

VARIABLES
  skillRegistry,   \* the registry: whether it is there, and its lines
  contractText,    \* the text of every contract, as a number
  registryLock,    \* the process that holds <registry>.lock
  active,             \* what every process is doing
  answer,          \* what the last command of every process said
  refresh,         \* what the refresh is doing
  settled,         \* the text of every contract a run last vouched for, 0 when
                   \*   something else was written since (not part of the program)
  spent           \* commands, refreshes and kills so far (not part of the program)

contractVars == <<skillRegistry, contractText, registryLock, active, answer,
                  refresh, settled, spent>>

Line(kind) == <<kind, NoContract, 0>>
Row(c) == <<"row", c, 0>>
Block(c, text) == << <<"begin", c, 0>>, <<"scoped", c, text>>, <<"end", c, 0>> >>

There(lines) == [there |-> TRUE, lines |-> lines]
NotThere == [there |-> FALSE, lines |-> <<>>]

(* FreshRegistry: what a repair starts from when there is no registry.       *)
FreshRegistry == <<Line("skills"), Line("protocol")>>

(* What the refresh of gentle-ai generates: with or without a table of     *)
(* shared contracts, which may have an unscoped row.                       *)
Generated ==
  {FreshRegistry,
   <<Line("skills"), Line("protocol"), Line("shared"), Line("table")>>}
    \cup {<<Line("shared"), Line("table"), Row(c), Line("skills"), Line("protocol")>> :
            c \in Contracts}

Damaged ==
  {<<Line("skills"), <<"begin", c, 0>>, <<"scoped", c, 0>>, Line("protocol")>> :
     c \in Contracts}

-----------------------------------------------------------------------------
(* Propagate: what the registry becomes.                                   *)

Indices(lines, kind, c) ==
  {i \in DOMAIN lines : lines[i][1] = kind /\ lines[i][2] = c}
First(S) == CHOOSE i \in S : \A j \in S : i <= j
Final(S) == CHOOSE i \in S : \A j \in S : j <= i

(* newLineScanner: line i is in a block when the last marker line of any   *)
(* contract up to it, itself included, opens one.                          *)
InBlock(lines, i) ==
  LET markers == {j \in 1 .. i : lines[j][1] \in {"begin", "end"}}
  IN  markers # {} /\ lines[Final(markers)][1] = "begin"

Holds(lines, c, text) ==
  \E i \in 1 .. Len(lines) - 2 : SubSeq(lines, i, i + 2) = Block(c, text)

(* Mutant of ReplaceBlock: up to the last end of any block.                *)
ReplaceBlockGreedily(lines, c, text) ==
  SubSeq(lines, 1, First(Indices(lines, "begin", c)) - 1) \o Block(c, text)
    \o SubSeq(lines, Final({0} \cup {i \in DOMAIN lines : lines[i][1] = "end"}) + 1, Len(lines))

ReplaceBlock(lines, c, text) ==
  LET begins == Indices(lines, "begin", c)
      ends == Indices(lines, "end", c)
  IN  IF ends = {} \/ First(ends) < First(begins) THEN lines
      ELSE SubSeq(lines, 1, First(begins) - 1) \o Block(c, text)
             \o SubSeq(lines, First(ends) + 1, Len(lines))


UnscopedRows(lines, c) ==
  {i \in Indices(lines, "row", c) : ~InBlock(lines, i)}

ReplaceUnscopedRow(lines, c, text) ==
  FlattenSeq([i \in DOMAIN lines |->
                IF i \in UnscopedRows(lines, c) THEN Block(c, text) ELSE <<lines[i]>>])

(* The lines of the section of the shared contracts that a new block may   *)
(* go after: from the heading to the next heading outside a block, the     *)
(* ends of blocks and the rows outside of them.                            *)
SharedTableEnds(lines) ==
  LET Bare(i) == lines[i][1] # "end" /\ ~InBlock(lines, i)
      opens == {i \in DOMAIN lines : lines[i][1] = "shared"}
      Inside(i) ==
        \E s \in opens :
          /\ s <= i
          /\ \A j \in s .. i : Bare(j) => lines[j][1] \notin {"skills", "protocol"}
  IN  {i \in DOMAIN lines :
         /\ Inside(i)
         /\ \/ lines[i][1] = "end"
            \/ Bare(i) /\ lines[i][1] \in {"row", "table"}}

AppendToSharedContracts(lines, c, text) ==
  LET ends == SharedTableEnds(lines)
  IN  IF ends = {} THEN lines \o Block(c, text)
      ELSE SubSeq(lines, 1, Final(ends)) \o Block(c, text)
             \o SubSeq(lines, Final(ends) + 1, Len(lines))

(* Mutant of Propagated: an unscoped row is left where it is.              *)
PropagatedBesideTheRow(lines, c, text) ==
  IF Holds(lines, c, text) THEN lines
  ELSE IF Indices(lines, "begin", c) # {} THEN ReplaceBlock(lines, c, text)
  ELSE AppendToSharedContracts(lines, c, text)

Propagated(lines, c, text) ==
  IF Holds(lines, c, text) THEN lines
  ELSE IF Indices(lines, "begin", c) # {} THEN ReplaceBlock(lines, c, text)
  ELSE IF UnscopedRows(lines, c) # {} THEN ReplaceUnscopedRow(lines, c, text)
  ELSE AppendToSharedContracts(lines, c, text)

(* Repair: the note and the rows of the phase skills, written anew.        *)
OfRepair == {"note", "executor"}

Repaired(lines, installed) ==
  LET rows == IF installed THEN <<Line("executor")>> ELSE <<>>
  IN  FlattenSeq([i \in DOMAIN lines |->
        IF lines[i][1] \in OfRepair THEN <<>>
        ELSE IF lines[i][1] = "skills" THEN <<Line("note"), lines[i]>>
        ELSE IF lines[i][1] = "protocol" THEN rows \o <<lines[i]>>
        ELSE <<lines[i]>>])

HasHeadings(lines) ==
  /\ \E i \in DOMAIN lines : lines[i][1] = "skills"
  /\ \E i \in DOMAIN lines : lines[i][1] = "protocol"

(* A registry that was propagated to before, with texts that are older.    *)
Older ==
  {Propagated(Propagated(FreshRegistry, c, 0), d, 0) : c, d \in Contracts}

-----------------------------------------------------------------------------
Jobs == {[verb |-> "repair", contract |-> NoContract, required |-> FALSE]}
          \cup [verb : {"propagate"}, contract : Contracts, required : BOOLEAN]

Idle == [at |-> "idle", job |-> [verb |-> "repair", contract |-> NoContract, required |-> FALSE],
         text |-> 0, out |-> <<>>, attempt |-> 0, saw |-> {}, raced |-> "no"]

ContractInit ==
  /\ \E lines \in Generated \cup Older \cup (IF MayBeDamaged THEN Damaged ELSE {}) :
       skillRegistry \in {NotThere, There(lines)}
  /\ contractText = [c \in Contracts |-> 1]
  /\ registryLock = NoHolder
  /\ active = [p \in Runs |-> Idle]
  /\ answer = [p \in Runs |-> "none"]
  /\ refresh = [at |-> "idle", fresh |-> <<>>, linked |-> FALSE]
  /\ settled = [c \in Contracts |-> 0]
  /\ spent = [runs |-> 0, refreshes |-> 0, kills |-> 0]

Does(p, where) == active[p].at = where
IsPropagation(p) == active[p].job.verb = "propagate"
LastAttempt(p) == active[p].attempt = MaxAttempts

(* Mutant of RunEnds: the lock is left behind.                             *)
RunEndsHoldingOn(p, said) ==
  /\ active' = [active EXCEPT ![p] = [Idle EXCEPT !.raced = active[p].raced]]
  /\ answer' = [answer EXCEPT ![p] = said]
  /\ UNCHANGED registryLock

(* A command ends: its lock is released and the person told.               *)
RunEnds(p, said) ==
  /\ active' = [active EXCEPT ![p] = [Idle EXCEPT !.raced = active[p].raced]]
  /\ answer' = [answer EXCEPT ![p] = said]
  /\ registryLock' = IF registryLock = p THEN NoHolder ELSE registryLock

Commands(p, job) ==
  /\ Does(p, "idle")
  /\ spent.runs < MaxRuns
  /\ active' = [active EXCEPT ![p] = [Idle EXCEPT !.at = "waiting", !.job = job]]
  /\ answer' = [answer EXCEPT ![p] = "none"]
  /\ spent' = [spent EXCEPT !.runs = @ + 1]
  /\ UNCHANGED <<skillRegistry, contractText, registryLock, refresh, settled>>

(* Mutant of TakesLock: the lock keeps nobody out.                         *)
TakesLockAnyway(p) ==
  /\ Does(p, "waiting")
  /\ registryLock' = p
  /\ active' = [active EXCEPT ![p].at = IF IsPropagation(p) THEN "contract" ELSE "registry",
                        ![p].attempt = 1]
  /\ UNCHANGED <<skillRegistry, contractText, answer, refresh, settled, spent>>

(* acquireRegistryLock: a holder is waited for, for a bounded time.        *)
TakesLock(p) ==
  /\ Does(p, "waiting")
  /\ registryLock = NoHolder
  /\ registryLock' = p
  /\ active' = [active EXCEPT ![p].at = IF IsPropagation(p) THEN "contract" ELSE "registry",
                        ![p].attempt = 1]
  /\ UNCHANGED <<skillRegistry, contractText, answer, refresh, settled, spent>>

GivesUp(p) ==
  /\ Does(p, "waiting")
  /\ registryLock \notin {NoHolder, p}
  /\ RunEnds(p, "busy")
  /\ UNCHANGED <<skillRegistry, contractText, refresh, settled, spent>>

(* The contract is read at the start of every pass; a text that cannot be  *)
(* read or parsed ends the run.                                            *)
ReadsContract(p) ==
  /\ Does(p, "contract")
  /\ \/ /\ active' = [active EXCEPT ![p].at = "registry",
                              ![p].text = contractText[active[p].job.contract]]
        /\ UNCHANGED <<answer, registryLock>>
     \/ RunEnds(p, "refused")
  /\ UNCHANGED <<skillRegistry, contractText, refresh, settled, spent>>

(* PropagateVerified after a pass that is no answer: another pass, or what *)
(* all the passes together have shown.                                     *)
Retries(p, found) ==
  active' = [active EXCEPT ![p].at = "contract", ![p].attempt = @ + 1, ![p].saw = @ \cup {found}]

(* Mutant of Concludes: what this pass found counts as another finding.    *)
ConcludesOfAny(p, found) ==
  RunEnds(p, IF active[p].saw # {} THEN "inconsistent" ELSE found)

Concludes(p, found) ==
  RunEnds(p, IF active[p].saw \ {found} # {} THEN "inconsistent" ELSE found)

PassesEmptyHanded(p, found) ==
  IF LastAttempt(p) THEN Concludes(p, found)
  ELSE Retries(p, found) /\ UNCHANGED <<answer, registryLock>>

Lines == skillRegistry.lines

WillWrite(p, lines) ==
  /\ active' = [active EXCEPT ![p].at = "writing", ![p].out = lines,
                        ![p].raced = IF @ = "now" THEN "earlier" ELSE @]
  /\ UNCHANGED <<answer, registryLock>>

(* The registry is read and what it should be is decided.                  *)
ReadsToPropagate(p) ==
  LET c == active[p].job.contract
      out == Propagated(Lines, c, active[p].text)
  IN
  /\ Does(p, "registry") /\ IsPropagation(p)
  /\ IF ~skillRegistry.there
     THEN IF active[p].job.required THEN RunEnds(p, "refused")
          ELSE PassesEmptyHanded(p, "absent")
     ELSE IF Lines = <<>> THEN PassesEmptyHanded(p, "empty")
     ELSE IF out = Lines THEN RunEnds(p, "unchanged")
     ELSE WillWrite(p, out)
  /\ settled' = IF skillRegistry.there /\ Lines # <<>> /\ out = Lines
                THEN [settled EXCEPT ![c] = active[p].text] ELSE settled
  /\ UNCHANGED <<skillRegistry, contractText, refresh, spent>>

ReadsToRepair(p) ==
  LET lines == IF skillRegistry.there THEN Lines ELSE FreshRegistry
  IN
  /\ Does(p, "registry") /\ ~IsPropagation(p)
  /\ IF HasHeadings(lines)
     THEN \E installed \in BOOLEAN : WillWrite(p, Repaired(lines, installed))
     ELSE RunEnds(p, "refused")
  /\ UNCHANGED <<skillRegistry, contractText, refresh, settled, spent>>

(* Registry.Write: a whole temporary file and a rename.  A refresh that    *)
(* has the old file open goes on writing to that one.                      *)
WritesBack(p) ==
  /\ Does(p, "writing")
  /\ skillRegistry' = There(active[p].out)
  /\ refresh' = [refresh EXCEPT !.linked = FALSE]
  /\ IF IsPropagation(p)
     THEN /\ active' = [active EXCEPT ![p].at = "checking"]
          /\ settled' = [settled EXCEPT ![active[p].job.contract] = 0]
          /\ UNCHANGED <<answer, registryLock>>
     ELSE RunEnds(p, "repaired") /\ UNCHANGED settled
  /\ UNCHANGED <<contractText, spent>>

CannotWrite(p) ==
  /\ Does(p, "writing")
  /\ RunEnds(p, "failed")
  /\ UNCHANGED <<skillRegistry, contractText, refresh, settled, spent>>

(* The write is read back and compared with what was written.              *)
Stayed(p) == skillRegistry = There(active[p].out)

ChecksWrite(p) ==
  /\ Does(p, "checking")
  /\ IF Stayed(p) THEN RunEnds(p, "written")
     ELSE IF LastAttempt(p)
          THEN RunEnds(p, IF skillRegistry.there THEN "lost" ELSE "unverified")
     ELSE Retries(p, "write") /\ UNCHANGED <<answer, registryLock>>
  /\ settled' = IF Stayed(p) THEN [settled EXCEPT ![active[p].job.contract] = active[p].text]
                ELSE settled
  /\ UNCHANGED <<skillRegistry, contractText, refresh, spent>>

RunKilled(p) ==
  /\ active[p].at # "idle"
  /\ spent.kills < MaxKills
  /\ RunEnds(p, "none")
  /\ spent' = [spent EXCEPT !.kills = @ + 1]
  /\ UNCHANGED <<skillRegistry, contractText, refresh, settled>>

RunStep(p) ==
  \/ TakesLock(p) \/ GivesUp(p) \/ ReadsContract(p) \/ ReadsToPropagate(p)
  \/ ReadsToRepair(p) \/ WritesBack(p) \/ CannotWrite(p) \/ ChecksWrite(p)

-----------------------------------------------------------------------------
(* The refresh: it replaces the registry at once, removes it and writes it *)
(* anew, or writes over it in place, and may die in the middle.            *)

RefreshSets(registry) ==
  /\ skillRegistry' = registry
  /\ settled' = [c \in Contracts |-> 0]
  /\ active' = [p \in Runs |-> IF Does(p, "idle") THEN active[p]
                            ELSE [active[p] EXCEPT !.raced = "now"]]

RefreshBegins ==
  /\ refresh.at = "idle"
  /\ spent.refreshes < MaxRefreshes
  /\ spent' = [spent EXCEPT !.refreshes = @ + 1]
  /\ \E fresh \in Generated :
       \/ RefreshSets(There(fresh)) /\ UNCHANGED refresh
       \/ /\ skillRegistry.there
          /\ RefreshSets(NotThere)
          /\ refresh' = [at |-> "gone", fresh |-> fresh, linked |-> FALSE]
       \/ /\ skillRegistry.there
          /\ RefreshSets(There(<<>>))
          /\ refresh' = [at |-> "cut", fresh |-> fresh, linked |-> TRUE]
  /\ UNCHANGED <<contractText, registryLock, answer>>

RefreshGoesOn ==
  /\ \/ /\ refresh.at = "gone"
        /\ RefreshSets(There(refresh.fresh))
        /\ refresh' = [refresh EXCEPT !.at = "idle"]
     \/ /\ refresh.at = "cut"
        /\ IF refresh.linked THEN RefreshSets(There(SubSeq(refresh.fresh, 1, 2)))
           ELSE UNCHANGED <<skillRegistry, settled, active>>
        /\ refresh' = [refresh EXCEPT !.at = "part"]
     \/ /\ refresh.at = "part"
        /\ IF refresh.linked THEN RefreshSets(There(refresh.fresh))
           ELSE UNCHANGED <<skillRegistry, settled, active>>
        /\ refresh' = [refresh EXCEPT !.at = "idle"]
  /\ UNCHANGED <<contractText, registryLock, answer, spent>>

RefreshDies ==
  /\ refresh.at # "idle"
  /\ refresh' = [refresh EXCEPT !.at = "idle"]
  /\ UNCHANGED <<skillRegistry, contractText, registryLock, active, answer, settled, spent>>

ContractEdited(c) ==
  /\ contractText[c] <= MaxContractEdits
  /\ contractText' = [contractText EXCEPT ![c] = @ + 1]
  /\ UNCHANGED <<skillRegistry, registryLock, active, answer, refresh, settled, spent>>

ContractNext ==
  \/ \E p \in Runs : RunStep(p) \/ RunKilled(p) \/ \E job \in Jobs : Commands(p, job)
  \/ RefreshBegins \/ RefreshGoesOn \/ RefreshDies
  \/ \E c \in Contracts : ContractEdited(c)

ContractSpec == ContractInit /\ [][ContractNext]_contractVars

-----------------------------------------------------------------------------
Answers == {"none", "busy", "refused", "failed", "repaired", "unchanged", "written",
            "absent", "empty", "inconsistent", "lost", "unverified"}

(* Types, and who holds the lock: the registry's lock is held by exactly   *)
(* the process that is past taking it and has not answered.                *)
ContractTypeOK ==
  /\ skillRegistry.there \in BOOLEAN /\ (skillRegistry.there \/ Lines = <<>>)
  /\ contractText \in [Contracts -> 1 .. MaxContractEdits + 1]
  /\ registryLock \in Runs \cup {NoHolder}
  /\ \A p \in Runs : (registryLock = p) <=> active[p].at \notin {"idle", "waiting"}
  /\ \A p \in Runs : active[p].attempt \in 0 .. MaxAttempts
  /\ answer \in [Runs -> Answers]
  /\ refresh.at \in {"idle", "gone", "cut", "part"}

(* What a run vouched for stays: once a run has said of a contract that    *)
(* its block is written, or was there already, the registry holds that     *)
(* block until a refresh writes the registry or another run of the same    *)
(* contract does.  A run of another contract, a repair, a run that fails   *)
(* and a process that is killed take nothing of it.                        *)
SettledIsHeld ==
  \A c \in Contracts :
    settled[c] > 0 => skillRegistry.there /\ Holds(Lines, c, settled[c])

(* A contract never gets a second row: whatever was generated, torn,       *)
(* repaired or propagated, in whatever order, no contract has two rows in  *)
(* the registry, a scoped one and one that injects it everywhere among     *)
(* them.                                                                   *)
AtMostOneScope ==
  \A c \in Contracts :
    Cardinality({i \in DOMAIN Lines : Lines[i][1] \in {"row", "scoped"} /\ Lines[i][2] = c}) <= 1

(* A run blames a foreign writer only when there was one: an answer that   *)
(* the write was lost, cannot be verified, or that the registry keeps      *)
(* changing, comes only of a run during which the registry was refreshed.  *)
BlamesOnlyARefresh ==
  \A p \in Runs :
    answer[p] \in {"lost", "unverified", "inconsistent"} => active[p].raced # "no"

Rest(lines, job) ==
  LET Other(line) == IF job.verb = "repair" THEN line[1] \notin OfRepair
                     ELSE line[2] # job.contract
  IN  FlattenSeq([i \in DOMAIN lines |-> IF Other(lines[i]) THEN <<lines[i]>> ELSE <<>>])

(* A run that writes the registry changes its own lines and no other,      *)
(* unless the registry was refreshed after the run read it: every line     *)
(* that is not of its contract (not of the repair) is there as before, in  *)
(* the same order.                                                         *)
KeepsTheRest ==
  \A p \in Runs :
    (/\ Does(p, "writing") /\ active'[p].at # "writing"
     /\ skillRegistry' # skillRegistry /\ skillRegistry.there
     /\ active[p].raced # "now")
      => Rest(skillRegistry'.lines, active[p].job) = Rest(Lines, active[p].job)

(* What a run reported is there, once, whatever replaced the registry      *)
(* meanwhile (PropagateVerified).                                          *)
ContractsAreSound == SettledIsHeld /\ AtMostOneScope /\ BlamesOnlyARefresh
=============================================================================
