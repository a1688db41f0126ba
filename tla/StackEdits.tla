----------------------------- MODULE StackEdits -----------------------------
(***************************************************************************)
(* Stack definitions (backend/plus/stacks/service.py): create, edit with   *)
(* an etag, restore, delete, and what happens to a stack whose owner goes. *)
(*                                                                         *)
(* One stack id stands for all of them: no statement relates two stacks.   *)
(* With SQLite the id of a purged stack may be given to the next one, and  *)
(* foreign keys may be off; with PostgreSQL neither.                       *)
(*                                                                         *)
(* The etag is a hash of the text, so a text stands for its own etag.  An  *)
(* edit reads the row in one transaction, the highest version number       *)
(* before the first statement that starts the second, writes in the second *)
(* and prunes the history in a third.                                      *)
(***************************************************************************)
EXTENDS Portal

CONSTANTS
  Yamls,            \* valid definitions
  Owners,           \* ids of local_users
  Writers,          \* requests that can be in flight
  VersionCap,       \* stack_version_cap
  MaxEdits,         \* bound: texts written, after which only deletions happen
  MaxStacks,        \* bound: stacks created
  EditDeployments   \* see `edDeployment'

ASSUME StackEditsAssumption ==
  /\ VersionCap \in Nat \ {0}
  /\ MaxEdits \in Nat /\ MaxStacks \in Nat
  /\ EditDeployments \subseteq [sqlite : BOOLEAN, overlap : BOOLEAN]
  /\ None \notin Yamls \cup Owners

VARIABLES
  edDeployment, \* chosen at the start: the database, and whether a second edit
                \* may begin before the first has ended
  stack,        \* the row of stacks, or None
  archive,      \* its stack_versions in the order they were inserted
  write,        \* requests between two of their transactions
  parked,       \* undecided approvals for edits and deletions
  owners,       \* owners[u]: here, about to be deleted, or deleted
  written,      \* how many texts were written
  stacks        \* how many stacks there were

edVars == <<edDeployment, stack, archive, write, parked, owners, written, stacks>>
-----------------------------------------------------------------------------
Stack == [no : 1..MaxStacks, text : Yamls, resources : Yamls, deleted : BOOLEAN,
          orphan : BOOLEAN, owner : Owners \cup {None}]

ASSUME NoStackAssumption == None \notin Stack

\* no is history: which of the stacks that bore the id a request was made for.
EditRequest == [op : {"edit", "delete"}, base : Yamls, new : Yamls, no : 1..MaxStacks]

\* seen is history: the text whose etag the request carries.
NoWrite ==
  [pc |-> "idle", seen |-> None, base |-> None, new |-> None, n |-> 0, owner |-> None]

EdInit ==
  /\ edDeployment \in EditDeployments
  /\ stack = None
  /\ archive = <<>>
  /\ write = [w \in Writers |-> NoWrite]
  /\ parked = {}
  /\ owners = [u \in Owners |-> "here"]
  /\ written = 0
  /\ stacks = 0

\* _get_stack_row: neither missing nor soft-deleted.
Found == stack # None /\ ~stack.deleted

edWorld == <<edDeployment, owners, stacks>>

Continue(w, c) == write' = [write EXCEPT ![w] = c]

EditInFlight == \E w \in Writers : write[w].pc \in {"checked", "numbered", "prune"}
-----------------------------------------------------------------------------
(***************************************************************************)
(* Creating.                                                               *)
(***************************************************************************)
CreateStack(u, t) ==
  /\ stack = None
  /\ stacks < MaxStacks
  /\ stacks > 0 => edDeployment.sqlite
  /\ owners[u] # "gone"
  /\ stacks' = stacks + 1
  /\ stack' = [no |-> stacks + 1, text |-> t, resources |-> t, deleted |-> FALSE,
               orphan |-> FALSE, owner |-> u]
  /\ UNCHANGED <<edDeployment, archive, write, parked, owners, written>>
-----------------------------------------------------------------------------
(***************************************************************************)
(* Editing.  The author saw one text, the row holds one: where they differ *)
(* the request ends without a trace.                                       *)
(***************************************************************************)
BeginEdit(w, seen, new) ==
  /\ Found
  /\ write[w] = NoWrite
  /\ edDeployment.overlap \/ ~EditInFlight
  /\ written < MaxEdits
  /\ written' = written + 1
  /\ Continue(w, [NoWrite EXCEPT !.pc = "checked", !.seen = seen, !.base = stack.text,
                                 !.new = new])

\* Mutant of Check: the etag is not compared.
CheckNothing(w, seen, new) == BeginEdit(w, seen, new)

Check(w, seen, new) ==
  /\ BeginEdit(w, seen, new)
  /\ seen = stack.text

\* update_with_etag up to the comparison with the row it has read.
UpdateWithEtag(w, seen, new) ==
  /\ Check(w, seen, new)
  /\ UNCHANGED <<stack, archive, parked, edWorld>>

\* restore_version: the new text comes from the history; the etag is optional, and
\* without one the restore replaces whatever there is.
RestoreVersion(w, i) ==
  /\ i \in DOMAIN archive
  /\ Check(w, stack.text, archive[i].text)
  /\ UNCHANGED <<stack, archive, parked, edWorld>>

\* apply_pending_edit: the request is approved, and its base is compared again.
ApplyPendingEdit(w, r) ==
  /\ r \in parked /\ r.op = "edit"
  /\ Check(w, r.base, r.new)
  /\ parked' = parked \ {r}
  /\ UNCHANGED <<stack, archive, edWorld>>

\* Found wanting, the approved request is dropped.
DropPending(r) ==
  /\ r \in parked
  /\ Found => r.op = "edit" /\ r.base # stack.text
  /\ parked' = parked \ {r}
  /\ UNCHANGED <<stack, archive, write, written, edWorld>>

HighestNumber ==
  IF archive = <<>> THEN 0
  ELSE CHOOSE n \in {archive[i].n : i \in DOMAIN archive} :
         \A i \in DOMAIN archive : archive[i].n <= n

\* _commit_edit: MAX(version_number) ...
ReadMax(w) ==
  /\ write[w].pc = "checked"
  /\ Continue(w, [write[w] EXCEPT !.pc = "numbered", !.n = HighestNumber + 1])
  /\ UNCHANGED <<stack, archive, parked, written, edWorld>>

\* Mutant of Archived: the new text goes into the history, not the old one.
ArchivedNew(w) == Append(archive, [n |-> write[w].n, text |-> write[w].new])

Archived(w) == Append(archive, [n |-> write[w].n, text |-> write[w].base])

\* ... and the transaction: history, row and resources.  If the stack was purged
\* meanwhile, the foreign key refuses, or the entry is left for the id's next stack.
CommitEdit(w) ==
  /\ write[w].pc = "numbered"
  /\ IF stack = None /\ ~edDeployment.sqlite
     THEN Continue(w, NoWrite) /\ UNCHANGED <<stack, archive>>
     ELSE /\ archive' = Archived(w)
          /\ stack' = IF stack = None THEN None
                      ELSE [stack EXCEPT !.text = write[w].new, !.resources = write[w].new]
          /\ Continue(w, [NoWrite EXCEPT !.pc = "prune"])
  /\ UNCHANGED <<parked, written, edWorld>>

\* The entries whose number is among the highest VersionCap.
Kept == {i \in DOMAIN archive :
           Cardinality({k \in DOMAIN archive : archive[k].n > archive[i].n}) < VersionCap}

\* _apply_fifo_cap.
ApplyFifoCap(w) ==
  /\ write[w].pc = "prune"
  /\ archive' = [k \in 1..Cardinality(Kept) |->
       archive[CHOOSE i \in Kept : Cardinality({j \in Kept : j <= i}) = k]]
  /\ Continue(w, NoWrite)
  /\ UNCHANGED <<stack, parked, written, edWorld>>
-----------------------------------------------------------------------------
(***************************************************************************)
(* Approvals and deletion.                                                 *)
(***************************************************************************)

\* The router asks for an approval before it calls the service.
AskApproval(op, new) ==
  /\ Found
  /\ parked = {}
  /\ parked' = {[op |-> op, base |-> stack.text, new |-> new, no |-> stack.no]}
  /\ UNCHANGED <<stack, archive, write, written, edWorld>>

SoftDelete == stack' = [stack EXCEPT !.deleted = TRUE]

\* delete_stack: soft_delete ...
DeleteStack(w) ==
  /\ Found
  /\ write[w] = NoWrite
  /\ SoftDelete
  /\ Continue(w, [NoWrite EXCEPT !.pc = "cancel"])
  /\ UNCHANGED <<archive, parked, written, edWorld>>

\* ... then on_stack_deleted_cancel_approvals, by the id.
CancelApprovals(w) ==
  /\ write[w].pc = "cancel"
  /\ parked' = {}
  /\ Continue(w, NoWrite)
  /\ UNCHANGED <<stack, archive, written, edWorld>>

\* apply_pending_delete: the id is all it has.
ApplyPendingDelete(r) ==
  /\ r \in parked /\ r.op = "delete"
  /\ Found
  /\ SoftDelete
  /\ parked' = parked \ {r}
  /\ UNCHANGED <<archive, write, written, edWorld>>
-----------------------------------------------------------------------------
(***************************************************************************)
(* Owners go, orphans are given away or purged.                            *)
(***************************************************************************)

\* on_user_deleted_stacks ...
OrphanStacks(u) ==
  /\ owners[u] = "here"
  /\ owners' = [owners EXCEPT ![u] = "going"]
  /\ stack' = IF Found /\ stack.owner = u THEN [stack EXCEPT !.orphan = TRUE] ELSE stack
  /\ UNCHANGED <<edDeployment, archive, write, parked, written, stacks>>

\* ... and the core deletes the user; a foreign key empties the column.
DeleteOwner(u) ==
  /\ owners[u] = "going"
  /\ owners' = [owners EXCEPT ![u] = "gone"]
  /\ stack' = IF stack # None /\ stack.owner = u /\ ~edDeployment.sqlite
              THEN [stack EXCEPT !.owner = None] ELSE stack
  /\ UNCHANGED <<edDeployment, archive, write, parked, written, stacks>>

\* reassign_orphan looks at stack and new owner ...
FindOrphan(w, u) ==
  /\ Found /\ stack.orphan
  /\ owners[u] # "gone"
  /\ write[w] = NoWrite
  /\ Continue(w, [NoWrite EXCEPT !.pc = "reassign", !.owner = u])
  /\ UNCHANGED <<stack, archive, parked, written, edWorld>>

\* ... and updates the row by its id; a foreign key refuses a deleted owner.
Reassign(w) ==
  /\ write[w].pc = "reassign"
  /\ stack' = IF stack = None \/ (owners[write[w].owner] = "gone" /\ ~edDeployment.sqlite)
              THEN stack
              ELSE [stack EXCEPT !.owner = write[w].owner, !.orphan = FALSE]
  /\ Continue(w, NoWrite)
  /\ UNCHANGED <<archive, parked, written, edWorld>>

\* purge_orphan, of a soft-deleted stack too: no approval is cancelled.
PurgeOrphan ==
  /\ stack # None /\ stack.orphan
  /\ stack' = None
  /\ archive' = <<>>
  /\ UNCHANGED <<write, parked, written, edWorld>>
-----------------------------------------------------------------------------
WriteStep(w) ==
  \/ \E seen, t \in Yamls : UpdateWithEtag(w, seen, t)
  \/ \E i \in DOMAIN archive : RestoreVersion(w, i)
  \/ \E r \in parked : ApplyPendingEdit(w, r)
  \/ ReadMax(w) \/ CommitEdit(w) \/ ApplyFifoCap(w)
  \/ DeleteStack(w) \/ CancelApprovals(w)
  \/ \E u \in Owners : FindOrphan(w, u)
  \/ Reassign(w)

EdNext ==
  \/ \E u \in Owners : \/ \E t \in Yamls : CreateStack(u, t)
                       \/ OrphanStacks(u) \/ DeleteOwner(u)
  \/ \E w \in Writers : WriteStep(w)
  \/ \E op \in {"edit", "delete"}, t \in Yamls : AskApproval(op, t)
  \/ \E r \in parked : DropPending(r) \/ ApplyPendingDelete(r)
  \/ PurgeOrphan

EdSpec == EdInit /\ [][EdNext]_edVars
-----------------------------------------------------------------------------
WriteInfo == [pc : {"idle", "checked", "numbered", "prune", "cancel", "reassign"},
              seen : Yamls \cup {None}, base : Yamls \cup {None},
              new : Yamls \cup {None}, n : Nat,
              owner : Owners \cup {None}]

EdTypeOK ==
  /\ edDeployment \in EditDeployments
  /\ stack \in Stack \cup {None}
  /\ archive \in Seq([n : Nat, text : Yamls])
  /\ write \in [Writers -> WriteInfo]
  /\ parked \subseteq EditRequest
  /\ owners \in [Owners -> {"here", "going", "gone"}]
  /\ written \in 0..MaxEdits
  /\ stacks \in 0..MaxStacks

Versioned == INSTANCE VersionedText WITH
  Texts <- Yamls, Cap <- VersionCap, Gone <- None,
  now <- IF stack = None THEN None ELSE stack.text, past <- archive

\* The history promises of VersionedText: as long as edits do not overlap and ids
\* are not reused, every text an edit, a restore or an approved edit replaces goes
\* into the history under the next number and only the oldest are dropped, whatever
\* deletions, purges, reassignments and user deletions do between the transactions.
HistoryComplete == Versioned!VSpec

\* "ETag concurrency check (AC-CONC-2)" (service.py): an edit replaces the text its
\* author saw, never one that somebody else wrote after; so does an edit that waited
\* for its approval while the stack was edited.  Only as long as edits do not overlap.
NoLostEdit ==
  [][\A w \in Writers : write[w].pc = "numbered" /\ write'[w].pc = "prune" /\ Found
       => stack.text = write[w].seen]_edVars

\* The same over rows and requests of their types.
EditsSound == []EdTypeOK /\ NoLostEdit

\* "Cancel pending stack_edit / stack_delete approvals for a soft-/hard-deleted
\* stack" (cleanup.py): no stack is deleted for a request made for another.
DeleteAsRequested ==
  [][\A r \in parked : r \notin parked' /\ stack # None /\ stack' # None
        /\ stack'.deleted /\ ~stack.deleted => r.no = stack.no]_edVars
=============================================================================
