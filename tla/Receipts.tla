------------------------------ MODULE Receipts ------------------------------
(***************************************************************************)
(* Receipts of approved reviews.  The review tool holds them in its own    *)
(* stores and burns a lineage's when it is acknowledged.  A hook before    *)
(* the command of an agent copies every approved receipt into the active   *)
(* change first, and denies the command when it cannot.                    *)
(*                                                                         *)
(* A receipt is its shape and its lineage, which make its name, and its    *)
(* bytes; one that is not approved is passed over, so the stores here hold *)
(* the approved ones.  A kept file is [to, receipt, data]: its folder, its *)
(* name, and "own", the bytes of the tool, or "other".  Agents run in a    *)
(* worktree, whose store is read before the common one.                    *)
(***************************************************************************)
EXTENDS Naturals, FiniteSets, Sequences

CONSTANTS
  Agents,       \* the agents
  People,       \* the people who capture by hand
  Approved,     \* the receipts that may be approved
  Unsafe,       \* those whose name is no safe path component
  AllChanges,   \* the folders of openspec/changes
  Features,     \* the folders of odd/review-receipts
  MaxApprovals, \* bound: how many receipts are approved in all
  MaxTurns      \* bound: how often a change is made or archived

TxStores == <<"worktree", "common">>

VARIABLES
  held,    \* the receipts in each store of the tool
  active,  \* the changes that hold a file of an active one
  kept,    \* the files that were kept
  early,   \* those of an earlier time
  agent,   \* what each agent is doing
  burned,  \* the receipts burned though a change was active, as the hook saw
  turns    \* counts

receiptVars == <<held, active, kept, early, agent, burned, turns>>

Free == [at |-> "free", into |-> {}, acks |-> FALSE, sees |-> {}, todo |-> {}, read |-> 0, next |-> {}, now |-> {}, unusable |-> FALSE]

Kept(to, receipt, data) == [to |-> to, receipt |-> receipt, data |-> data]

ReceiptInit ==
  /\ held = [s \in {"worktree", "common"} |-> {}]
  /\ active \in SUBSET AllChanges
  /\ kept \in {{}} \union {{Kept(to, r, "other")} : to \in AllChanges, r \in Approved \ Unsafe}
  /\ early = kept
  /\ agent = [a \in Agents \union People |-> Free]
  /\ burned = {}
  /\ turns = [approvals |-> 0, turns |-> 0]

AgentAt(a, where) == agent[a].at = where
AgentGoes(a, where) == agent' = [agent EXCEPT ![a].at = where]
Denied(a) == agent' = [agent EXCEPT ![a] = Free]
Surviving == held["worktree"] \union held["common"]

----------------------------------------------------------------------------
(* The hook sees an acknowledgement, and which changes are active: with    *)
(* none it lets the command pass.                                          *)
CheckCommand(a) ==
  /\ AgentAt(a, "free")
  /\ agent' = [agent EXCEPT ![a] = [Free EXCEPT !.acks = TRUE, !.into = active, !.sees = Surviving,
                                      !.at = IF active = {} THEN "allowed" ELSE "reading"]]
  /\ UNCHANGED <<held, active, kept, early, burned, turns>>

CaptureByHand(a, to) ==
  /\ AgentAt(a, "free")
  /\ agent' = [agent EXCEPT ![a] = [Free EXCEPT !.into = {to}, !.at = "reading"]]
  /\ UNCHANGED <<held, active, kept, early, burned, turns>>

(* The receipts of the next store; of two with one name the first counts.  *)
Documents(a) ==
  LET i == agent[a].read + 1
      names == held[TxStores[i]] \ agent[a].next
  IN /\ AgentAt(a, "reading") /\ agent[a].todo = {} /\ i <= Len(TxStores)
     /\ agent' = [agent EXCEPT ![a].read = i, ![a].next = @ \union names, ![a].todo = names]
     /\ UNCHANGED <<held, active, kept, early, burned, turns>>

----------------------------------------------------------------------------
(* Each receipt in turn.  One whose name is unsafe is passed over, and     *)
(* fails the whole in the end.                                             *)
Alone(a) == Cardinality(agent[a].into) = 1
Into(a) == CHOOSE to \in agent[a].into : TRUE
Done(a, name) == agent' = [agent EXCEPT ![a].todo = @ \ {name}]
KeptAs(to, name) == {k \in kept : k.to = to /\ k.receipt = name}

PassOver(a, name) ==
  /\ AgentAt(a, "reading") /\ name \in agent[a].todo
  /\ name \in Unsafe
  /\ agent' = [agent EXCEPT ![a].todo = @ \ {name}, ![a].unusable = TRUE]
  /\ UNCHANGED <<held, active, kept, early, burned, turns>>

(* Mutant of Persist: a file that is there counts as the receipt.          *)
PersistIfThere(a, name) ==
  /\ AgentAt(a, "reading") /\ name \in agent[a].todo /\ Alone(a)
  /\ name \notin Unsafe
  /\ \/ KeptAs(Into(a), name) # {} /\ Done(a, name)
     \/ KeptAs(Into(a), name) = {} /\ agent' = [agent EXCEPT ![a].at = "writing", ![a].now = {name}]
  /\ UNCHANGED <<held, active, kept, early, burned, turns>>

(* A file with other bytes is left as it is, and the command is denied.    *)
Persist(a, name) ==
  /\ AgentAt(a, "reading") /\ name \in agent[a].todo /\ Alone(a)
  /\ name \notin Unsafe
  /\ \/ \E k \in KeptAs(Into(a), name) : k.data = "own" /\ Done(a, name)
     \/ \E k \in KeptAs(Into(a), name) : k.data = "other" /\ Denied(a)
     \/ KeptAs(Into(a), name) = {} /\ agent' = [agent EXCEPT ![a].at = "writing", ![a].now = {name}]
  /\ UNCHANGED <<held, active, kept, early, burned, turns>>

(* The file that was not there is renamed into place.                      *)
WriteReceipt(a) ==
  LET name == CHOOSE n \in agent[a].now : TRUE
  IN /\ AgentAt(a, "writing")
     /\ kept' = (kept \ KeptAs(Into(a), name)) \union {Kept(Into(a), name, "own")}
     /\ agent' = [agent EXCEPT ![a].at = "reading", ![a].now = {}, ![a].todo = @ \ {name}]
     /\ UNCHANGED <<held, active, early, burned, turns>>

----------------------------------------------------------------------------
(* Mutant of Unpersisted: a file of the name counts, whatever it holds.    *)
UnpersistedIfThere(names, dests) ==
  {n \in names : ~\E to \in dests : KeptAs(to, n) # {}}

(* With several changes active nothing is written: every receipt must be   *)
(* kept in one of them, or in a feature.                                   *)
Unpersisted(names, dests) ==
  {n \in names : ~\E to \in dests : Kept(to, n, "own") \in kept}

Survivors(a, name) ==
  /\ AgentAt(a, "reading") /\ name \in agent[a].todo /\ ~Alone(a)
  /\ name \notin Unsafe
  /\ Done(a, name)
  /\ UNCHANGED <<held, active, kept, early, burned, turns>>

(* Mutant of EndRead: what was passed over is forgotten.                   *)
EndReadForgetful(a) ==
  /\ AgentAt(a, "reading") /\ agent[a].todo = {} /\ agent[a].read = Len(TxStores)
  /\ CASE Alone(a) /\ agent[a].acks -> AgentGoes(a, "allowed")
       [] Alone(a) /\ ~agent[a].acks -> Denied(a)
       [] OTHER -> agent' = [agent EXCEPT ![a].next = Unpersisted(@, agent[a].into), ![a].at = "comparing"]
  /\ UNCHANGED <<held, active, kept, early, burned, turns>>

EndRead(a) ==
  /\ AgentAt(a, "reading") /\ agent[a].todo = {} /\ agent[a].read = Len(TxStores)
  /\ IF agent[a].unusable \/ (Alone(a) /\ ~agent[a].acks) THEN Denied(a)
     ELSE IF Alone(a) THEN AgentGoes(a, "allowed")
     ELSE agent' = [agent EXCEPT ![a].next = Unpersisted(@, agent[a].into), ![a].at = "comparing"]
  /\ UNCHANGED <<held, active, kept, early, burned, turns>>

Compare(a) ==
  /\ AgentAt(a, "comparing")
  /\ IF Unpersisted(agent[a].next, Features) = {} THEN AgentGoes(a, "allowed") ELSE Denied(a)
  /\ UNCHANGED <<held, active, kept, early, burned, turns>>

----------------------------------------------------------------------------
(* The review tool and people.                                             *)
Approve(s, r) ==
  /\ turns.approvals < MaxApprovals
  /\ r \notin held[s]
  /\ held' = [held EXCEPT ![s] = @ \union {r}]
  /\ turns' = [turns EXCEPT !.approvals = @ + 1]
  /\ UNCHANGED <<active, kept, early, agent, burned>>

(* The command that was let through burns a review in every store.         *)
Acknowledge(a, r) ==
  LET gone == {r} \intersect Surviving
  IN /\ AgentAt(a, "allowed") /\ agent[a].acks
     /\ held' = [s \in DOMAIN held |-> held[s] \ {r}]
     /\ burned' = IF agent[a].into = {} THEN burned ELSE burned \union (gone \intersect agent[a].sees)
     /\ agent' = [b \in DOMAIN agent |-> IF b = a THEN Free ELSE [agent[b] EXCEPT !.sees = @ \ gone]]
     /\ UNCHANGED <<active, kept, early, turns>>

TurnChange(c) ==
  /\ turns.turns < MaxTurns
  /\ active' = IF c \in active THEN active \ {c} ELSE active \union {c}
  /\ turns' = [turns EXCEPT !.turns = @ + 1]
  /\ UNCHANGED <<held, kept, early, agent, burned>>

(* A step fails, which denies the command, or the process stops.           *)
AgentStops(a) ==
  /\ ~AgentAt(a, "free")
  /\ Denied(a)
  /\ UNCHANGED <<held, active, kept, early, burned, turns>>

ReceiptNext ==
  \/ \E a \in Agents : CheckCommand(a)
  \/ \E a \in People, to \in AllChanges \union Features : CaptureByHand(a, to)
  \/ \E a \in DOMAIN agent :
       \/ Documents(a) \/ EndRead(a) \/ WriteReceipt(a) \/ Compare(a) \/ AgentStops(a)
       \/ \E name \in agent[a].todo :
            PassOver(a, name) \/ Persist(a, name) \/ Survivors(a, name)
       \/ \E r \in Approved : Acknowledge(a, r)
  \/ \E s \in DOMAIN held : \E r \in Approved : Approve(s, r)
  \/ \E c \in AllChanges : TurnChange(c)

ReceiptTypeOK ==
  /\ active \subseteq AllChanges
  /\ \A a \in DOMAIN agent : agent[a].at \in {"free", "reading", "writing", "comparing", "allowed"}
  /\ \A k \in kept : k.to \in AllChanges \union Features /\ k.receipt \in Approved \ Unsafe

(* No approved receipt that was there when the hook looked is burned by a  *)
(* command it let through, unless its bytes are kept, or no change was     *)
(* active; and no file that was kept before is written over                *)
(* (reviewreceipt/service.go, CheckCommand, persist).                      *)
ReceiptsAreKept ==
  /\ early \subseteq kept
  /\ \A name \in burned : \E k \in kept : k.receipt = name /\ k.data = "own"
=============================================================================
