--------------------------- MODULE RoleChainProps ---------------------------
(***************************************************************************)
(* The properties of RoleChain.                                            *)
(***************************************************************************)
EXTENDS RoleChain

PcValues == {"idle", "offered", "admitted", "staged", "taken", "linked", "done"}

Records ==
  [from : Roles, to : Roles, payload : Payloads, status : Statuses,
   version : HandoffVersions, seq : Nat \ {0}, content : Contents,
   prev : Seq([from : Roles, to : Roles, payload : Payloads,
               status : Statuses, version : HandoffVersions,
               content : Contents])]

(* Every variable has its type, and a process that compares with or has    *)
(* linked a record works on a seq the chain has (statestore.Publish).      *)
TypeOK ==
  /\ chain \in Seq(Records)
  /\ firm \in 0..Len(chain)
  /\ pc \in [Proc -> PcValues]
  /\ rec \in [Proc -> Records \union {NoRecord}]
  /\ losses \in Nat
  /\ \A p \in Proc : pc[p] \in {"taken", "linked", "done"} => rec[p].seq \in 1..Len(chain)

(* Whatever records are offered at the same time, and however stale what   *)
(* they were written against, the directory holds one verified chain and   *)
(* the next load does not fail (filechain.Append, without a lock).         *)
ChainVerifies == VerifyChain(chain)

(* No append replaces or removes a record; only a power loss does, and only*)
(* records that were not flushed (statestore.Publish).                     *)
IsPrefixOf(a, b) == Len(a) <= Len(b) /\ SubSeq(b, 1, Len(a)) = a
RecordsAreImmutable ==
  [][ \/ IsPrefixOf(chain, chain') /\ Len(chain') = Len(chain) + 1
      \/ IsPrefixOf(chain', chain) /\ Len(chain') >= firm /\ losses' # losses
    ]_chain

(* Of records that race for one seq, only that one's writers are told that *)
(* it is stored (statestore.Publish, "exactly one wins").                  *)
ReportedIsStored ==
  \A p \in Proc : pc[p] = "done" => chain[rec[p].seq] = rec[p]

(* RoleChain keeps every promise of the abstract ledger of handoffs.       *)
Ledger == INSTANCE HandoffLedger
ImplementsLedger == Ledger!LedgerSpec
=============================================================================
