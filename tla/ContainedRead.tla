--------------------------- MODULE ContainedRead ---------------------------
(***************************************************************************)
(* Reading a document that must lie in the worktree (fsadapter of          *)
(* engine/shaper) while others move files about.  The path names an entry  *)
(* of one directory; an ancestor of it may become a link, after which the  *)
(* path leads to a directory outside.  The check looks at the path, opens  *)
(* it, asks where the file it opened lies, and only then reads.            *)
(***************************************************************************)
EXTENDS Naturals

CONSTANTS
  RegularFiles,  \* regular files
  MaxMoves    \* bound on what others do to the directories

VARIABLES
  place,      \* where each file lies: within the worktree, outside or nowhere
  other,      \* what else stands at the name, in the worktree and outside
  leads,      \* where the path leads
  reading,    \* the read: its step, and the file it opened
  wasInside,  \* history: the files that lay in the worktree during the read
  moves

containedVars == <<place, other, leads, reading, wasInside, moves>>

Sides == {"inside", "outside"}

FilesAt(side) == {f \in RegularFiles : place[f] = side}

(* What the path names: a file, or a link, a pipe or nothing in its place. *)
Named == IF FilesAt(leads) # {} THEN "file" ELSE other[leads]

Refuse == reading' = [reading EXCEPT !.step = "refused"]

ReadStep == UNCHANGED <<place, other, leads, wasInside, moves>>

BeginRead ==
  /\ reading.step \in {"none", "refused", "read"}
  /\ reading' = [step |-> "look", opened |-> {}]
  /\ wasInside' = FilesAt("inside")
  /\ UNCHANGED <<place, other, leads, moves>>

(* Lstat: a link or another kind of file is refused.                       *)
LookAt ==
  /\ reading.step = "look"
  /\ IF Named = "file" THEN reading' = [reading EXCEPT !.step = "open"] ELSE Refuse
  /\ ReadStep

(* The open follows no link at the end of the path, and does not wait for a*)
(* pipe, which the file that was opened is then asked about.               *)
OpenIt ==
  /\ reading.step = "open"
  /\ IF Named = "file"
     THEN reading' = [step |-> "prove", opened |-> FilesAt(leads)] ELSE Refuse
  /\ ReadStep

(* Mutant: the path is resolved once more.                                 *)
PathWithin == leads = "inside" /\ Named = "file"

(* The descriptor says where the file lies now; one that was removed lies  *)
(* nowhere.                                                                *)
ProvenWithin == \A f \in reading.opened : place[f] = "inside"

Prove ==
  /\ reading.step = "prove"
  /\ IF ProvenWithin THEN reading' = [reading EXCEPT !.step = "proven"] ELSE Refuse
  /\ ReadStep

ReadIt ==
  /\ reading.step = "proven"
  /\ reading' = [reading EXCEPT !.step = "read"]
  /\ ReadStep

(* Others rename a file over the name, on either side, or out of the way;  *)
(* put a link or a pipe there; and turn the ancestor.                      *)
Moved(newPlace, newOther, newLeads) ==
  /\ moves < MaxMoves /\ moves' = moves + 1
  /\ place' = newPlace /\ other' = newOther /\ leads' = newLeads
  /\ wasInside' = wasInside \union {f \in RegularFiles : newPlace[f] = "inside"}
  /\ UNCHANGED reading

Move(f, side) ==
  Moved([g \in RegularFiles |-> IF g = f THEN side
                         ELSE IF place[g] = side THEN "nowhere" ELSE place[g]],
        other, leads)

Plant(side, kind) == FilesAt(side) = {} /\ Moved(place, [other EXCEPT ![side] = kind], leads)

TurnAncestor(side) == side # leads /\ Moved(place, other, side)

ContainedInit ==
  /\ place \in [RegularFiles -> Sides] /\ \A f, g \in RegularFiles : f # g => place[f] # place[g]
  /\ other = [side \in Sides |-> "nothing"] /\ leads = "inside"
  /\ reading = [step |-> "none", opened |-> {}]
  /\ wasInside = FilesAt("inside") /\ moves = 0

ContainedNext ==
  \/ BeginRead \/ LookAt \/ OpenIt \/ Prove \/ ReadIt
  \/ \E f \in RegularFiles, side \in Sides : place[f] # "nowhere" /\ place[f] # side /\ Move(f, side)
  \/ \E side \in Sides, kind \in {"nothing", "link", "pipe"} : Plant(side, kind)
  \/ \E side \in Sides : TurnAncestor(side)

(* What is handed out was, at some time of the read, a file within the     *)
(* worktree, whatever was moved between the look, the open and the proof.  *)
ReadsStayInside == reading.step = "read" => reading.opened \subseteq wasInside
=============================================================================
