--------------------------- MODULE StackProofs ------------------------------
(***************************************************************************)
(* Stacks next to their deployment: their definitions, the networks,       *)
(* numbers and disks the checks before a plan look at, their firewall.     *)
(***************************************************************************)
EXTENDS StackEdits, StackNetworks, StackFirewall, FiniteSetTheorems, SequenceTheorems, TLAPS

(***************************************************************************)
(* Definitions implement the history of VersionedText, for every set of    *)
(* texts, writers and owners and every cap, as long as edits do not        *)
(* overlap and ids are not reused.                                         *)
(***************************************************************************)

\* The database is PostgreSQL and an edit begins when no other one is under way.
OneAtATime == \A d \in EditDeployments : ~d.sqlite /\ ~d.overlap

Editing(w) == write[w].pc \in {"checked", "numbered", "prune"}

\* Past the etag check and before the transaction that writes.
Writing(w) == write[w].pc \in {"checked", "numbered"}

SoleEditor == \A v, w \in Writers : Editing(v) /\ Editing(w) => v = w

\* The numbers of the history leave none out.
Consecutive == \A i \in DOMAIN archive : archive[i].n = archive[1].n + i - 1

\* No history without its stack, no edit before the first stack.
StackFirst ==
  /\ stack = None => archive = <<>>
  /\ stack # None => stacks > 0
  /\ \A w \in Writers : Writing(w) => stacks > 0

\* What a request holds at each of its points.
WritesFilled ==
  \A w \in Writers :
    /\ Writing(w) => /\ write[w].base \in Yamls /\ write[w].new \in Yamls
                     /\ write[w].seen = write[w].base
    /\ write[w].pc = "reassign" => write[w].owner \in Owners

\* What the edit under way has read is still so when it writes.
ReadsHold ==
  \A w \in Writers : stack # None =>
    /\ Writing(w) => stack.text = write[w].base
    /\ write[w].pc = "numbered" => write[w].n = Versioned!LastNumber + 1

IInv == /\ EdTypeOK /\ SoleEditor /\ Consecutive
        /\ StackFirst /\ WritesFilled /\ ReadsHold

-----------------------------------------------------------------------------
(***************************************************************************)
(* The two computations over the history.                                  *)
(***************************************************************************)

Entry == [n : Nat, text : Yamls]

\* The history as a function.
LEMMA HistoryShape ==
  ASSUME archive \in Seq(Entry)
  PROVE  /\ Len(archive) \in Nat /\ DOMAIN archive = 1..Len(archive)
         /\ \A i \in 1..Len(archive) : archive[i] \in Entry /\ archive[i].n \in Nat
         /\ archive # <<>> => Len(archive) > 0
<1>1. Len(archive) \in Nat /\ archive \in [1..Len(archive) -> Entry]
  BY LenProperties
<1>2. archive # <<>> => Len(archive) > 0
  BY <1>1, EmptySeq
<1>3. \A e \in Entry : e.n \in Nat
  BY DEF Entry
<1> QED
  BY <1>1, <1>2, <1>3

\* How many numbers there are after a up to b.
LEMMA IntervalCount ==
  ASSUME NEW a \in Nat, NEW b \in Nat, a <= b PROVE Cardinality((a + 1)..b) = b - a
<1>1. a + 1 \in Int /\ b \in Int
  OBVIOUS
<1>2. Cardinality((a + 1)..b) = IF a + 1 > b THEN 0 ELSE b - (a + 1) + 1
  BY <1>1, FS_Interval
<1> QED
  BY <1>2

\* MAX(version_number) is the number of the last entry.
LEMMA HighestIsLast ==
  ASSUME EdTypeOK, Consecutive PROVE HighestNumber = Versioned!LastNumber
<1>0. archive \in Seq(Entry)
  BY DEF EdTypeOK, Entry
<1>1. CASE archive = <<>>
  BY <1>1 DEF HighestNumber, Versioned!LastNumber
<1>2. CASE archive # <<>>
  <2> DEFINE numbers == {archive[i].n : i \in DOMAIN archive}
             last == archive[Len(archive)].n
  <2>1. /\ Len(archive) \in DOMAIN archive
        /\ \A i \in DOMAIN archive : archive[i].n \in Nat /\ archive[i].n <= last
    <3>1. /\ Len(archive) \in Nat /\ Len(archive) > 0 /\ DOMAIN archive = 1..Len(archive)
          /\ \A i \in DOMAIN archive : archive[i].n \in Nat
          /\ \A i \in DOMAIN archive : archive[i].n = archive[1].n + i - 1
      BY <1>0, <1>2, HistoryShape DEF Consecutive
    <3>2. archive[1].n \in Nat
      BY <3>1
    <3> QED
      BY <3>1, <3>2
  <2>2. last \in numbers /\ \A i \in DOMAIN archive : archive[i].n <= last
    BY <2>1
  <2>3. \A n \in numbers : (\A i \in DOMAIN archive : archive[i].n <= n) => n = last
    BY <2>1
  <2>4. HighestNumber = CHOOSE n \in numbers : \A i \in DOMAIN archive : archive[i].n <= n
    BY <1>2 DEF HighestNumber
  <2> HIDE DEF numbers, last
  <2>5. HighestNumber = last
    BY <2>2, <2>3, <2>4
  <2> QED
    BY <1>2, <2>5 DEF Versioned!LastNumber, last
<1> QED
  BY <1>1, <1>2

\* How many entries _apply_fifo_cap drops.
Dropped == IF Len(archive) > VersionCap THEN Len(archive) - VersionCap ELSE 0

\* Among the highest VersionCap numbers are those of the last VersionCap entries.
LEMMA KeptIsSuffix ==
  ASSUME EdTypeOK, Consecutive
  PROVE  /\ Dropped \in 0..Len(archive)
         /\ Kept = (Dropped + 1)..Len(archive)
<1>1. /\ Len(archive) \in Nat /\ DOMAIN archive = 1..Len(archive)
      /\ VersionCap \in Nat \ {0}
      /\ \A i \in DOMAIN archive : archive[i].n \in Nat
  <2>1. archive \in Seq(Entry)
    BY DEF EdTypeOK, Entry
  <2> QED
    BY <2>1, HistoryShape, StackEditsAssumption DEF StackEditsAssumption
<1>2. Dropped \in 0..Len(archive)
  BY <1>1 DEF Dropped
<1>3. ASSUME NEW i \in DOMAIN archive
      PROVE  Cardinality({k \in DOMAIN archive : archive[k].n > archive[i].n})
               = Len(archive) - i
  <2>1. {k \in DOMAIN archive : archive[k].n > archive[i].n} = (i + 1)..Len(archive)
    <3>1. archive[1].n \in Nat /\ \A k \in 1..Len(archive) : archive[k].n = archive[1].n + k - 1
      BY <1>1, <1>3 DEF Consecutive
    <3> QED
      BY <1>1, <1>3, <3>1
  <2>2. Cardinality((i + 1)..Len(archive)) = Len(archive) - i
    BY <1>1, <1>3, FS_Interval
  <2> QED
    BY <2>1, <2>2
<1>4. Kept = {i \in 1..Len(archive) : Len(archive) - i < VersionCap}
  BY <1>1, <1>3 DEF Kept
<1> QED
  BY <1>1, <1>2, <1>4 DEF Dropped

\* So _apply_fifo_cap leaves the history without its first entries.
LEMMA CutIsSuffix ==
  ASSUME EdTypeOK, Consecutive, NEW w \in Writers, ApplyFifoCap(w)
  PROVE  archive' = SubSeq(archive, Dropped + 1, Len(archive))
<1>1. /\ Len(archive) \in Nat /\ Dropped \in 0..Len(archive)
      /\ Kept = (Dropped + 1)..Len(archive)
  <2>1. archive \in Seq(Entry)
    BY DEF EdTypeOK, Entry
  <2> QED
    BY <2>1, HistoryShape, KeptIsSuffix
<1>2. Cardinality(Kept) = Len(archive) - Dropped
  BY <1>1, IntervalCount
<1>3. ASSUME NEW i \in Kept PROVE Cardinality({j \in Kept : j <= i}) = i - Dropped
  <2>1. {j \in Kept : j <= i} = (Dropped + 1)..i
    BY <1>1, <1>3
  <2>2. Dropped \in Nat /\ i \in Nat /\ Dropped <= i
    BY <1>1, <1>3
  <2> QED
    BY <2>1, <2>2, IntervalCount
<1>4. ASSUME NEW k \in 1..Cardinality(Kept)
      PROVE  (CHOOSE i \in Kept : Cardinality({j \in Kept : j <= i}) = k) = Dropped + k
  <2>1. Dropped + k \in Kept
    BY <1>1, <1>2, <1>4
  <2>2. \A i \in Kept : Cardinality({j \in Kept : j <= i}) = k <=> i = Dropped + k
    <3>1. ASSUME NEW i \in Kept
          PROVE  Cardinality({j \in Kept : j <= i}) = k <=> i = Dropped + k
      <4>1. Dropped \in Nat /\ i \in Nat /\ k \in Nat
        BY <1>1, <1>2, <1>4, <3>1
      <4> QED
        BY <4>1, <1>3, <3>1
    <3> QED
      BY <3>1
  <2> QED
    BY <2>1, <2>2
<1>5. archive' = [k \in 1..(Len(archive) - Dropped) |-> archive[Dropped + k]]
  <2> DEFINE kth(k) == CHOOSE i \in Kept : Cardinality({j \in Kept : j <= i}) = k
  <2>1. archive' = [k \in 1..Cardinality(Kept) |-> archive[kth(k)]]
    BY DEF ApplyFifoCap
  <2>2. \A k \in 1..Cardinality(Kept) : kth(k) = Dropped + k
    BY <1>4
  <2> HIDE DEF kth
  <2>3. archive' = [k \in 1..Cardinality(Kept) |-> archive[Dropped + k]]
    BY <2>1, <2>2
  <2> QED
    BY <1>2, <2>3
<1>6. SubSeq(archive, Dropped + 1, Len(archive))
        = [k \in 1..(Len(archive) - Dropped) |-> archive[Dropped + k]]
  BY <1>1
<1> QED
  BY <1>5, <1>6

-----------------------------------------------------------------------------
(***************************************************************************)
(* What steps do.  Most leave text and history alone and begin no edit.    *)
(***************************************************************************)
SameText ==
  /\ UNCHANGED <<archive, stacks>>
  /\ stack' = None <=> stack = None
  /\ stack # None => stack'.text = stack.text

BeginsNoEdit ==
  \A w \in Writers :
    \/ write'[w] = write[w]
    \/ write'[w].pc \in {"idle", "cancel"}
    \/ write'[w].pc = "reassign" /\ write'[w].owner \in Owners

Quiet == SameText /\ BeginsNoEdit

\* An edit that has passed its check.
BeginsEdit(w) ==
  /\ \E seen, t \in Yamls : Check(w, seen, t)
  /\ UNCHANGED <<stack, archive, edWorld>>
  /\ parked' \subseteq parked

\* Rows of their type stay so when a column is written.
LEMMA RowShape ==
  ASSUME stack \in Stack
  PROVE  /\ stack # None /\ stack.text \in Yamls /\ stack.no \in 1..MaxStacks
         /\ \A b \in BOOLEAN :
              /\ [stack EXCEPT !.deleted = b] \in Stack
              /\ [stack EXCEPT !.deleted = b].text = stack.text
              /\ [stack EXCEPT !.orphan = b] \in Stack
              /\ [stack EXCEPT !.orphan = b].text = stack.text
         /\ \A u \in Owners \cup {None} :
              /\ [stack EXCEPT !.owner = u] \in Stack
              /\ [stack EXCEPT !.owner = u].text = stack.text
              /\ [stack EXCEPT !.owner = u, !.orphan = FALSE] \in Stack
              /\ [stack EXCEPT !.owner = u, !.orphan = FALSE].text = stack.text
         /\ \A t \in Yamls :
              /\ [stack EXCEPT !.text = t, !.resources = t] \in Stack
              /\ [stack EXCEPT !.text = t, !.resources = t].text = t
<1>1. stack # None
  BY NoStackAssumption DEF NoStackAssumption
<1> QED
  BY <1>1 DEF Stack

\* Nothing is in a row of the write table but what the type allows.
LEMMA WriteShape ==
  ASSUME EdTypeOK, NEW w \in Writers, NEW c \in WriteInfo, Continue(w, c)
  PROVE  /\ write' \in [Writers -> WriteInfo]
         /\ write'[w] = c
         /\ \A v \in Writers : v # w => write'[v] = write[v]
BY DEF EdTypeOK, Continue

LEMMA NumberedShape ==
  ASSUME NEW r \in WriteInfo, NEW k \in Nat
  PROVE  /\ [r EXCEPT !.pc = "numbered", !.n = k] \in WriteInfo
         /\ [r EXCEPT !.pc = "numbered", !.n = k].pc = "numbered"
         /\ [r EXCEPT !.pc = "numbered", !.n = k].n = k
         /\ [r EXCEPT !.pc = "numbered", !.n = k].seen = r.seen
         /\ [r EXCEPT !.pc = "numbered", !.n = k].base = r.base
         /\ [r EXCEPT !.pc = "numbered", !.n = k].new = r.new
BY DEF WriteInfo

LEMMA IdleShape == NoWrite \in WriteInfo /\ NoWrite.pc = "idle"
BY DEF NoWrite, WriteInfo

\* The steps of an edit, those that make or remove a stack, and the rest.
LEMMA StepKinds ==
  ASSUME IInv, EdNext
  PROVE  \/ \E u \in Owners, t \in Yamls : CreateStack(u, t)
         \/ \E w \in Writers :
              BeginsEdit(w) \/ ReadMax(w) \/ CommitEdit(w) \/ ApplyFifoCap(w)
         \/ PurgeOrphan
         \/ Quiet /\ EdTypeOK'
<1>0. /\ EdTypeOK /\ StackFirst
      /\ archive \in Seq(Entry) /\ None \notin Stack
      /\ stack # None => stack \in Stack
  BY NoStackAssumption DEF IInv, EdTypeOK, Entry, NoStackAssumption
<1>1. ASSUME NEW u \in Owners, OrphanStacks(u) \/ DeleteOwner(u) PROVE Quiet /\ EdTypeOK'
  <2>1. /\ stack' \in Stack \cup {None}
        /\ stack' = None <=> stack = None
        /\ stack # None => stack'.text = stack.text
    <3>1. CASE stack = None
      BY <1>1, <3>1 DEF OrphanStacks, DeleteOwner, Found
    <3>2. CASE stack # None
      <4>1. \/ stack' = stack
            \/ stack' = [stack EXCEPT !.orphan = TRUE]
            \/ stack' = [stack EXCEPT !.owner = None]
        BY <1>1 DEF OrphanStacks, DeleteOwner
      <4>2. stack' \in Stack /\ stack'.text = stack.text
        BY <1>0, <3>2, <4>1, RowShape
      <4> QED
        BY <1>0, <3>2, <4>2
    <3> QED
      BY <3>1, <3>2
  <2>2. owners' \in [Owners -> {"here", "going", "gone"}]
    BY <1>0, <1>1 DEF OrphanStacks, DeleteOwner, EdTypeOK
  <2> QED
    BY <1>0, <1>1, <2>1, <2>2
       DEF OrphanStacks, DeleteOwner, EdTypeOK, Quiet, SameText, BeginsNoEdit
<1>2. ASSUME NEW w \in Writers, WriteStep(w)
      PROVE  \/ BeginsEdit(w) \/ ReadMax(w) \/ CommitEdit(w) \/ ApplyFifoCap(w)
             \/ Quiet /\ EdTypeOK'
  <2>1. ASSUME \E seen, t \in Yamls : UpdateWithEtag(w, seen, t) PROVE BeginsEdit(w)
    BY <2>1 DEF UpdateWithEtag, BeginsEdit
  <2>2. ASSUME NEW i \in DOMAIN archive, RestoreVersion(w, i) PROVE BeginsEdit(w)
    <3>1. stack.text \in Yamls /\ archive[i].text \in Yamls
      <4>1. archive[i] \in Entry
        BY <1>0, <2>2, HistoryShape
      <4>2. stack # None
        BY <2>2 DEF RestoreVersion, Check, BeginEdit, Found
      <4> QED
        BY <1>0, <4>1, <4>2, RowShape DEF Entry
    <3> QED
      BY <2>2, <3>1 DEF RestoreVersion, BeginsEdit
  <2>3. ASSUME NEW r \in parked, ApplyPendingEdit(w, r) PROVE BeginsEdit(w)
    <3>1. r.base \in Yamls /\ r.new \in Yamls
      BY <1>0, <2>3 DEF EdTypeOK, EditRequest
    <3> QED
      BY <2>3, <3>1 DEF ApplyPendingEdit, BeginsEdit
  <2>4. ASSUME DeleteStack(w) PROVE Quiet /\ EdTypeOK'
    <3>1. [NoWrite EXCEPT !.pc = "cancel"] \in WriteInfo
      BY DEF NoWrite, WriteInfo
    <3>2. /\ write' \in [Writers -> WriteInfo]
          /\ write'[w].pc = "cancel"
          /\ \A v \in Writers : v # w => write'[v] = write[v]
      BY <1>0, <2>4, <3>1, WriteShape DEF DeleteStack, NoWrite
    <3>3. /\ stack # None /\ stack' \in Stack /\ stack'.text = stack.text
      BY <1>0, <2>4, RowShape DEF DeleteStack, SoftDelete, Found
    <3> QED
      BY <1>0, <2>4, <3>2, <3>3
         DEF DeleteStack, EdTypeOK, edWorld, Quiet, SameText, BeginsNoEdit
  <2>5. ASSUME CancelApprovals(w) PROVE Quiet /\ EdTypeOK'
    <3>1. /\ write' \in [Writers -> WriteInfo]
          /\ write'[w].pc = "idle"
          /\ \A v \in Writers : v # w => write'[v] = write[v]
      BY <1>0, <2>5, IdleShape, WriteShape DEF CancelApprovals
    <3> QED
      BY <1>0, <2>5, <3>1
         DEF CancelApprovals, EdTypeOK, edWorld, Quiet, SameText, BeginsNoEdit
  <2>6. ASSUME NEW u \in Owners, FindOrphan(w, u) PROVE Quiet /\ EdTypeOK'
    <3>1. [NoWrite EXCEPT !.pc = "reassign", !.owner = u] \in WriteInfo
      BY DEF NoWrite, WriteInfo
    <3>2. /\ write' \in [Writers -> WriteInfo]
          /\ write'[w] = [NoWrite EXCEPT !.pc = "reassign", !.owner = u]
          /\ \A v \in Writers : v # w => write'[v] = write[v]
      BY <1>0, <2>6, <3>1, WriteShape DEF FindOrphan
    <3>3. write'[w].pc = "reassign" /\ write'[w].owner = u
      BY <3>2 DEF NoWrite
    <3> QED
      BY <1>0, <2>6, <3>2, <3>3
         DEF FindOrphan, EdTypeOK, edWorld, Quiet, SameText, BeginsNoEdit
  <2>7. ASSUME Reassign(w) PROVE Quiet /\ EdTypeOK'
    <3>1. /\ write' \in [Writers -> WriteInfo]
          /\ write'[w].pc = "idle"
          /\ \A v \in Writers : v # w => write'[v] = write[v]
      BY <1>0, <2>7, IdleShape, WriteShape DEF Reassign
    <3>2. write[w].owner \in Owners
      BY <2>7 DEF IInv, WritesFilled, Reassign
    <3>3. /\ stack' \in Stack \cup {None}
          /\ stack' = None <=> stack = None
          /\ stack # None => stack'.text = stack.text
      <4>1. CASE stack' = stack
        BY <1>0, <4>1
      <4>2. CASE stack' # stack
        <5>1. /\ stack # None
              /\ stack' = [stack EXCEPT !.owner = write[w].owner, !.orphan = FALSE]
          BY <2>7, <4>2 DEF Reassign
        <5>2. stack' \in Stack /\ stack'.text = stack.text
          BY <1>0, <3>2, <5>1, RowShape
        <5> QED
          BY <1>0, <5>1, <5>2
      <4> QED
        BY <4>1, <4>2
    <3> QED
      BY <1>0, <2>7, <3>1, <3>3
         DEF Reassign, EdTypeOK, edWorld, Quiet, SameText, BeginsNoEdit
  <2> QED
    BY <1>2, <2>1, <2>2, <2>3, <2>4, <2>5, <2>6, <2>7 DEF WriteStep
<1>3. ASSUME NEW op \in {"edit", "delete"}, NEW t \in Yamls, AskApproval(op, t)
      PROVE  Quiet /\ EdTypeOK'
  <2>1. stack.text \in Yamls /\ stack.no \in 1..MaxStacks
    BY <1>0, <1>3, RowShape DEF AskApproval, Found
  <2>2. parked' \subseteq EditRequest
    BY <1>3, <2>1 DEF AskApproval, EditRequest
  <2> QED
    BY <1>0, <1>3, <2>2
       DEF AskApproval, EdTypeOK, edWorld, Quiet, SameText, BeginsNoEdit
<1>4. ASSUME NEW r \in parked, DropPending(r) PROVE Quiet /\ EdTypeOK'
  BY <1>0, <1>4 DEF DropPending, EdTypeOK, edWorld, Quiet, SameText, BeginsNoEdit
<1>5. ASSUME NEW r \in parked, ApplyPendingDelete(r) PROVE Quiet /\ EdTypeOK'
  <2>1. stack # None /\ stack' \in Stack /\ stack'.text = stack.text
    BY <1>0, <1>5, RowShape DEF ApplyPendingDelete, SoftDelete, Found
  <2> QED
    BY <1>0, <1>5, <2>1
       DEF ApplyPendingDelete, EdTypeOK, edWorld, Quiet, SameText, BeginsNoEdit
<1> QED
  BY <1>1, <1>2, <1>3, <1>4, <1>5 DEF EdNext

-----------------------------------------------------------------------------
(***************************************************************************)
(* Each kind of step preserves the invariant and is a step of the history  *)
(* or none.                                                                *)
(***************************************************************************)
HistoryStep == [Versioned!VNext]_(Versioned!vvars)

\* What a kind of step is shown to do.
Keeps == IInv' /\ HistoryStep

LEMMA SameHistory ==
  ASSUME stack' = None <=> stack = None, stack # None => stack'.text = stack.text,
         archive' = archive
  PROVE  HistoryStep
BY DEF HistoryStep, Versioned!vvars

LEMMA QuietKeeps == ASSUME IInv, Quiet, EdTypeOK' PROVE Keeps
<1>1. /\ archive' = archive /\ stacks' = stacks
      /\ stack' = None <=> stack = None
      /\ stack # None => stack'.text = stack.text
  BY DEF Quiet, SameText
<1>2. \A w \in Writers : Editing(w)' => write'[w] = write[w]
  BY DEF Quiet, BeginsNoEdit, Editing
<1>3. \A w \in Writers : Writing(w)' => Editing(w)' /\ Writing(w)
  BY <1>2 DEF Editing, Writing
<1>4. SoleEditor'
  BY <1>2 DEF IInv, SoleEditor, Editing
<1>5. Consecutive' /\ StackFirst'
  BY <1>1, <1>3 DEF IInv, Consecutive, StackFirst
<1>6. WritesFilled'
  BY <1>2, <1>3 DEF IInv, WritesFilled, Quiet, BeginsNoEdit, Writing
<1>7. ReadsHold'
  BY <1>1, <1>2, <1>3 DEF IInv, ReadsHold, Editing, Writing, Versioned!LastNumber
<1> QED
  BY <1>1, <1>4, <1>5, <1>6, <1>7, SameHistory DEF IInv, Keeps

\* A stack is made: no edit is under way, the id was never used.
LEMMA CreateKeeps ==
  ASSUME OneAtATime, IInv, NEW u \in Owners, NEW t \in Yamls, CreateStack(u, t)
  PROVE  Keeps
<1>1. /\ stack = None /\ archive = <<>> /\ archive' = archive /\ write' = write
      /\ stacks' = stacks + 1 /\ stacks \in Nat /\ MaxStacks \in Nat /\ stacks < MaxStacks
  BY StackEditsAssumption
     DEF CreateStack, IInv, StackFirst, EdTypeOK, StackEditsAssumption
<1>2. stacks = 0
  BY <1>1 DEF CreateStack, OneAtATime, IInv, EdTypeOK
<1>3. \A w \in Writers : ~Writing(w)
  BY <1>2 DEF IInv, StackFirst
<1>4. stack' \in Stack /\ stack'.text = t /\ stack' # None
  <2>1. stacks + 1 \in 1..MaxStacks
    BY <1>1
  <2>2. stack' = [no |-> stacks + 1, text |-> t, resources |-> t, deleted |-> FALSE,
                  orphan |-> FALSE, owner |-> u]
    BY DEF CreateStack
  <2>3. stack' \in Stack
    BY <2>1, <2>2 DEF Stack
  <2>4. stack'.text = t
    BY <2>2
  <2>5. stack' # None
    BY <2>3, NoStackAssumption DEF NoStackAssumption
  <2> QED
    BY <2>3, <2>4, <2>5
<1>5. EdTypeOK'
  BY <1>1, <1>4 DEF CreateStack, IInv, EdTypeOK
<1>6. SoleEditor' /\ Consecutive' /\ WritesFilled'
  BY <1>1 DEF IInv, SoleEditor, Editing, Consecutive, WritesFilled, Writing
<1>7. StackFirst' /\ ReadsHold'
  BY <1>1, <1>2, <1>3, <1>4 DEF StackFirst, ReadsHold, Writing
<1>8. Versioned!Create(t)
  BY <1>1, <1>4 DEF Versioned!Create
<1> QED
  BY <1>5, <1>6, <1>7, <1>8 DEF IInv, Keeps, HistoryStep, Versioned!VNext

LEMMA PurgeKeeps == ASSUME IInv, PurgeOrphan PROVE Keeps
<1>1. /\ stack # None /\ stack' = None /\ archive' = <<>> /\ write' = write
      /\ UNCHANGED <<edDeployment, owners, stacks, parked, written>>
  BY DEF PurgeOrphan, edWorld
<1>2. archive' \in Seq([n : Nat, text : Yamls])
  BY <1>1, EmptySeq
<1>3. EdTypeOK'
  BY <1>1, <1>2 DEF IInv, EdTypeOK
<1>4. SoleEditor' /\ WritesFilled'
  BY <1>1 DEF IInv, SoleEditor, Editing, WritesFilled, Writing
<1>5. Consecutive'
  BY <1>1 DEF Consecutive
<1>6. StackFirst' /\ ReadsHold'
  BY <1>1 DEF IInv, StackFirst, ReadsHold, Writing
<1>7. Versioned!Purge
  <2>1. stack \in Stack
    BY <1>1 DEF IInv, EdTypeOK
  <2>2. stack.text # None
    BY <2>1, RowShape, StackEditsAssumption DEF StackEditsAssumption
  <2> QED
    BY <1>1, <2>2 DEF Versioned!Purge
<1> QED
  BY <1>3, <1>4, <1>5, <1>6, <1>7 DEF IInv, Keeps, HistoryStep, Versioned!VNext

\* An edit begins: it is the only one, and what it read is there.
LEMMA BeginKeeps ==
  ASSUME OneAtATime, IInv, NEW w \in Writers, BeginsEdit(w) PROVE Keeps
<1>1. PICK seen \in Yamls, t \in Yamls : Check(w, seen, t)
  BY DEF BeginsEdit
<1> DEFINE c == [NoWrite EXCEPT !.pc = "checked", !.seen = seen, !.base = stack.text,
                                !.new = t]
<1>2. /\ stack # None /\ stack \in Stack /\ seen = stack.text /\ stack.text \in Yamls
      /\ UNCHANGED <<stack, archive, edDeployment, owners, stacks>>
      /\ parked' \subseteq parked
      /\ written < MaxEdits /\ written' = written + 1
      /\ Continue(w, c)
  BY <1>1, RowShape DEF Check, BeginEdit, Found, BeginsEdit, edWorld, IInv, EdTypeOK
<1>3. c \in WriteInfo /\ c.pc = "checked" /\ c.seen = seen /\ c.base = stack.text /\ c.new = t
  BY <1>2 DEF NoWrite, WriteInfo
<1>4. /\ write' \in [Writers -> WriteInfo] /\ write'[w] = c
      /\ \A v \in Writers : v # w => write'[v] = write[v]
  BY <1>2, <1>3, WriteShape DEF IInv
<1>5. \A v \in Writers : v # w => ~Editing(v)'
  <2>1. ~EditInFlight
    BY <1>1 DEF Check, BeginEdit, OneAtATime, IInv, EdTypeOK
  <2> QED
    BY <1>4, <2>1 DEF EditInFlight, Editing
<1>6. EdTypeOK'
  <2>1. written' \in 0..MaxEdits
    BY <1>2, StackEditsAssumption DEF IInv, EdTypeOK, StackEditsAssumption
  <2> QED
    BY <1>2, <1>4, <2>1 DEF IInv, EdTypeOK
<1> HIDE DEF c
<1>7. SoleEditor' /\ Consecutive'
  BY <1>2, <1>5 DEF IInv, SoleEditor, Consecutive
<1>8. StackFirst' /\ WritesFilled' /\ ReadsHold'
  <2>1. \A v \in Writers : Writing(v)' => v = w
    BY <1>5 DEF Editing, Writing
  <2>2. StackFirst'
    BY <1>2 DEF IInv, StackFirst
  <2>3. WritesFilled'
    <3>1. \A v \in Writers : write'[v].pc = "reassign" => write'[v] = write[v]
      BY <1>3, <1>4
    <3> QED
      BY <1>2, <1>3, <1>4, <2>1, <3>1 DEF IInv, WritesFilled, Writing
  <2>4. ReadsHold'
    BY <1>2, <1>3, <1>4, <2>1 DEF ReadsHold, Writing
  <2> QED
    BY <2>2, <2>3, <2>4
<1>9. HistoryStep
  BY <1>2, SameHistory
<1> QED
  BY <1>6, <1>7, <1>8, <1>9 DEF IInv, Keeps

LEMMA ReadMaxKeeps == ASSUME IInv, NEW w \in Writers, ReadMax(w) PROVE Keeps
<1> DEFINE c == [write[w] EXCEPT !.pc = "numbered", !.n = HighestNumber + 1]
<1>1. /\ write[w].pc = "checked" /\ write[w] \in WriteInfo /\ Continue(w, c)
      /\ UNCHANGED <<stack, archive, parked, written, edDeployment, owners, stacks>>
  BY DEF ReadMax, edWorld, IInv, EdTypeOK
<1>2. HighestNumber = Versioned!LastNumber /\ HighestNumber \in Nat
  <2>1. HighestNumber = Versioned!LastNumber
    BY HighestIsLast DEF IInv
  <2>2. archive \in Seq(Entry)
    BY DEF IInv, EdTypeOK, Entry
  <2>3. Versioned!LastNumber \in Nat
    BY <2>2, HistoryShape DEF Versioned!LastNumber
  <2> QED
    BY <2>1, <2>3
<1>3. /\ c \in WriteInfo /\ c.pc = "numbered" /\ c.n = Versioned!LastNumber + 1
      /\ c.seen = write[w].seen /\ c.base = write[w].base /\ c.new = write[w].new
  <2>1. HighestNumber + 1 \in Nat
    BY <1>2
  <2>2. c \in WriteInfo /\ c.pc = "numbered" /\ c.n = HighestNumber + 1
        /\ c.seen = write[w].seen /\ c.base = write[w].base /\ c.new = write[w].new
    BY <1>1, <2>1, NumberedShape
  <2> QED
    BY <1>2, <2>2
<1>4. /\ write' \in [Writers -> WriteInfo] /\ write'[w] = c
      /\ \A v \in Writers : v # w => write'[v] = write[v]
  BY <1>1, <1>3, WriteShape DEF IInv
<1> HIDE DEF c
<1>5. EdTypeOK'
  BY <1>1, <1>4 DEF IInv, EdTypeOK
<1>6. \A v \in Writers : (Editing(v)' <=> Editing(v)) /\ (Writing(v)' <=> Writing(v))
  BY <1>1, <1>3, <1>4 DEF Editing, Writing
<1>7. SoleEditor' /\ Consecutive' /\ StackFirst'
  BY <1>1, <1>6 DEF IInv, SoleEditor, Consecutive, StackFirst
<1>8. WritesFilled'
  BY <1>1, <1>3, <1>4, <1>6 DEF IInv, WritesFilled, Writing
<1>9. ReadsHold'
  <2>1. Versioned!LastNumber' = Versioned!LastNumber
    BY <1>1 DEF Versioned!LastNumber
  <2>2. \A v \in Writers : write'[v].base = write[v].base
    BY <1>3, <1>4
  <2>3. \A v \in Writers : v # w /\ write'[v].pc = "numbered" => write'[v] = write[v]
    BY <1>4
  <2> QED
    BY <1>1, <1>3, <1>4, <1>6, <2>1, <2>2, <2>3 DEF IInv, ReadsHold, Writing
<1>10. HistoryStep
  BY <1>1, SameHistory
<1> QED
  BY <1>5, <1>7, <1>8, <1>9, <1>10 DEF IInv, Keeps

\* The transaction of an edit is a write of the history, unless its stack was purged.
LEMMA CommitKeeps ==
  ASSUME OneAtATime, IInv, NEW w \in Writers, CommitEdit(w) PROVE Keeps
<1>1. /\ write[w].pc = "numbered" /\ write[w] \in WriteInfo /\ ~edDeployment.sqlite
      /\ UNCHANGED <<parked, written, edDeployment, owners, stacks>>
      /\ Editing(w) /\ Writing(w)
  BY DEF CommitEdit, edWorld, IInv, EdTypeOK, OneAtATime, Editing, Writing
<1>2. \A v \in Writers : v # w => ~Editing(v) /\ ~Writing(v)
  BY <1>1 DEF IInv, SoleEditor, Editing, Writing
<1>3. ASSUME NEW c \in WriteInfo, Continue(w, c), c.pc \in {"idle", "prune"}
      PROVE  /\ write' \in [Writers -> WriteInfo]
             /\ SoleEditor' /\ WritesFilled'
             /\ \A v \in Writers : ~Writing(v)'
  <2>1. /\ write' \in [Writers -> WriteInfo] /\ write'[w] = c
        /\ \A v \in Writers : v # w => write'[v] = write[v]
    BY <1>3, WriteShape DEF IInv
  <2>2. \A v \in Writers : ~Writing(v)'
    BY <1>2, <1>3, <2>1 DEF Writing
  <2>3. SoleEditor'
    BY <1>2, <2>1 DEF SoleEditor, Editing
  <2>4. WritesFilled'
    BY <1>3, <2>1, <2>2 DEF IInv, WritesFilled
  <2> QED
    BY <2>1, <2>2, <2>3, <2>4
<1>4. CASE stack = None
  <2>1. UNCHANGED <<stack, archive>> /\ Continue(w, NoWrite)
    BY <1>1, <1>4 DEF CommitEdit
  <2>2. /\ write' \in [Writers -> WriteInfo] /\ SoleEditor' /\ WritesFilled'
        /\ \A v \in Writers : ~Writing(v)'
    BY <1>3, <2>1, IdleShape
  <2>3. EdTypeOK'
    BY <1>1, <2>1, <2>2 DEF IInv, EdTypeOK
  <2>4. Consecutive' /\ StackFirst' /\ ReadsHold'
    BY <1>1, <1>4, <2>1, <2>2 DEF IInv, Consecutive, StackFirst, ReadsHold
  <2>5. HistoryStep
    BY <2>1, SameHistory
  <2> QED
    BY <2>2, <2>3, <2>4, <2>5 DEF IInv, Keeps
<1>5. CASE stack # None
  <2> DEFINE e == [n |-> write[w].n, text |-> write[w].base]
             c == [NoWrite EXCEPT !.pc = "prune"]
  <2>1. /\ archive' = Append(archive, e) /\ Continue(w, c)
        /\ stack' = [stack EXCEPT !.text = write[w].new, !.resources = write[w].new]
    BY <1>1, <1>5 DEF CommitEdit, Archived
  <2>2. c \in WriteInfo /\ c.pc = "prune"
    BY DEF NoWrite, WriteInfo
  <2>3. /\ write' \in [Writers -> WriteInfo] /\ SoleEditor' /\ WritesFilled'
        /\ \A v \in Writers : ~Writing(v)'
    BY <1>3, <2>1, <2>2
  <2>4. /\ write[w].base \in Yamls /\ write[w].new \in Yamls
        /\ stack.text = write[w].base /\ write[w].n = Versioned!LastNumber + 1
    BY <1>1, <1>5 DEF IInv, WritesFilled, ReadsHold
  <2>5. stack' \in Stack /\ stack' # None /\ stack'.text = write[w].new
    <3>1. stack \in Stack
      BY <1>5 DEF IInv, EdTypeOK
    <3> QED
      BY <2>1, <2>4, <3>1, RowShape, NoStackAssumption DEF NoStackAssumption
  <2>6. archive \in Seq(Entry) /\ e \in Entry /\ e.n = Versioned!LastNumber + 1
    <3>1. write[w].n \in Nat
      BY <1>1 DEF WriteInfo
    <3> QED
      BY <2>4, <3>1 DEF IInv, EdTypeOK, Entry
  <2> HIDE DEF e, c
  <2>7. EdTypeOK'
    <3>1. archive' \in Seq(Entry)
      BY <2>1, <2>6, AppendProperties
    <3> QED
      BY <1>1, <2>3, <2>5, <3>1 DEF IInv, EdTypeOK, Entry
  <2>8. Consecutive'
    <3>1. /\ Len(archive') = Len(archive) + 1 /\ DOMAIN archive' = 1..(Len(archive) + 1)
          /\ \A i \in 1..Len(archive) : archive'[i] = archive[i]
          /\ archive'[Len(archive) + 1] = e
      BY <2>1, <2>6, AppendProperties, LenProperties
    <3>2. /\ Len(archive) \in Nat /\ DOMAIN archive = 1..Len(archive)
          /\ \A i \in 1..Len(archive) : archive[i].n \in Nat
          /\ archive # <<>> => Len(archive) > 0
      BY <2>6, HistoryShape
    <3>3. CASE archive = <<>>
      <4>1. Len(archive) = 0 /\ e.n = 1
        BY <2>6, <3>3 DEF Versioned!LastNumber
      <4> QED
        BY <3>1, <4>1 DEF Consecutive
    <3>4. CASE archive # <<>>
      <4>1. e.n = archive[Len(archive)].n + 1
        BY <2>6, <3>4 DEF Versioned!LastNumber
      <4>2. /\ archive[1].n \in Nat
            /\ \A i \in 1..Len(archive) : archive[i].n = archive[1].n + i - 1
        BY <3>2, <3>4 DEF IInv, Consecutive
      <4>3. e.n = archive[1].n + Len(archive)
        <5>1. Len(archive) \in 1..Len(archive)
          BY <3>2, <3>4
        <5>2. archive[Len(archive)].n = archive[1].n + Len(archive) - 1
          BY <4>2, <5>1
        <5>3. Len(archive) \in Nat /\ archive[1].n \in Nat
          BY <3>2, <4>2
        <5>4. e.n = (archive[1].n + Len(archive) - 1) + 1
          BY <4>1, <5>2
        <5> QED
          BY <5>3, <5>4
      <4>4. archive'[1] = archive[1]
        BY <3>1, <3>2, <3>4
      <4> QED
        BY <3>1, <3>2, <4>2, <4>3, <4>4 DEF Consecutive
    <3> QED
      BY <3>3, <3>4
  <2>9. StackFirst' /\ ReadsHold'
    BY <1>1, <1>5, <2>3, <2>5 DEF IInv, StackFirst, ReadsHold, Writing
  <2>10. HistoryStep
    <3>1. stack.text # None
      BY <2>4, StackEditsAssumption DEF StackEditsAssumption
    <3>2. Versioned!Write(write[w].new)
      BY <1>5, <2>1, <2>4, <2>5, <3>1 DEF Versioned!Write, e
    <3> QED
      BY <2>4, <3>2 DEF HistoryStep, Versioned!VNext
  <2> QED
    BY <2>3, <2>7, <2>8, <2>9, <2>10 DEF IInv, Keeps
<1> QED
  BY <1>4, <1>5

\* _apply_fifo_cap forgets the oldest entries.
LEMMA PruneKeeps ==
  ASSUME IInv, NEW w \in Writers, ApplyFifoCap(w) PROVE Keeps
<1>1. /\ UNCHANGED <<stack, parked, written, edDeployment, owners, stacks>>
      /\ write[w].pc = "prune" /\ Continue(w, NoWrite)
  BY DEF ApplyFifoCap, edWorld
<1>2. /\ write' \in [Writers -> WriteInfo] /\ write'[w].pc = "idle"
      /\ \A v \in Writers : v # w => write'[v] = write[v]
  BY <1>1, IdleShape, WriteShape DEF IInv
<1>3. \A v \in Writers : ~Editing(v)' /\ ~Writing(v)'
  BY <1>1, <1>2 DEF IInv, SoleEditor, Editing, Writing
<1>4. /\ archive \in Seq(Entry) /\ Len(archive) \in Nat /\ DOMAIN archive = 1..Len(archive)
      /\ \A i \in 1..Len(archive) : archive[i] \in Entry /\ archive[i].n \in Nat
      /\ Dropped \in 0..Len(archive)
      /\ archive' = SubSeq(archive, Dropped + 1, Len(archive))
  <2>1. archive \in Seq(Entry)
    BY DEF IInv, EdTypeOK, Entry
  <2> QED
    BY <2>1, HistoryShape, KeptIsSuffix, CutIsSuffix DEF IInv
<1>5. /\ archive' \in Seq(Entry) /\ DOMAIN archive' = 1..(Len(archive) - Dropped)
      /\ \A i \in 1..(Len(archive) - Dropped) : archive'[i] = archive[Dropped + i]
  <2>1. /\ archive' \in Seq(Entry)
        /\ Len(archive') = IF Dropped + 1 <= Len(archive) THEN Len(archive) - Dropped ELSE 0
    BY <1>4, SubSeqProperties
  <2>2. \A i \in 1..(Len(archive) - Dropped) : archive'[i] = archive[Dropped + i]
    BY <1>4
  <2> QED
    BY <1>4, <2>1, <2>2, LenProperties
<1>6. EdTypeOK'
  BY <1>1, <1>2, <1>5 DEF IInv, EdTypeOK, Entry
<1>7. Consecutive'
  <2>1. \A i \in 1..Len(archive) : archive[i].n = archive[1].n + i - 1
    BY <1>4 DEF IInv, Consecutive
  <2>2. ASSUME NEW i \in 1..(Len(archive) - Dropped)
        PROVE  archive'[i].n = archive'[1].n + i - 1
    <3>1. /\ Dropped + i \in 1..Len(archive) /\ Dropped + 1 \in 1..Len(archive)
          /\ 1 \in 1..(Len(archive) - Dropped) /\ 1 \in 1..Len(archive)
      BY <1>4, <2>2
    <3>2. /\ archive'[i].n = archive[1].n + (Dropped + i) - 1
          /\ archive'[1].n = archive[1].n + (Dropped + 1) - 1
          /\ archive[1].n \in Nat
      BY <1>4, <1>5, <2>1, <2>2, <3>1
    <3> QED
      BY <1>4, <2>2, <3>2
  <2> QED
    BY <1>5, <2>2 DEF Consecutive
<1>8. SoleEditor' /\ StackFirst' /\ WritesFilled' /\ ReadsHold'
  <2>1. StackFirst'
    <3>1. archive = <<>> => archive' = <<>>
      BY <1>4
    <3> QED
      BY <1>1, <1>3, <3>1 DEF IInv, StackFirst
  <2>2. SoleEditor' /\ ReadsHold'
    BY <1>3 DEF SoleEditor, ReadsHold, Writing
  <2>3. WritesFilled'
    BY <1>2, <1>3 DEF IInv, WritesFilled
  <2> QED
    BY <2>1, <2>2, <2>3
<1>9. HistoryStep
  <2>1. CASE Dropped = 0
    <3>1. archive' = archive
      BY <1>4, <2>1, SubSeqFull
    <3> QED
      BY <1>1, <3>1, SameHistory
  <2>2. CASE Dropped # 0
    <3>1. /\ Dropped \in 1..Len(archive) /\ Len(archive) - Dropped >= VersionCap
      <4>1. VersionCap \in Nat \ {0}
        BY StackEditsAssumption DEF StackEditsAssumption
      <4>2. Dropped = Len(archive) - VersionCap
        BY <2>2 DEF Dropped
      <4>3. Len(archive) \in Nat /\ Dropped \in 0..Len(archive)
        BY <1>4
      <4> QED
        BY <2>2, <4>1, <4>2, <4>3
    <3>2. Versioned!Forget(Dropped)
      BY <1>1, <1>4, <3>1 DEF Versioned!Forget
    <3> QED
      BY <3>1, <3>2 DEF HistoryStep, Versioned!VNext
  <2> QED
    BY <2>1, <2>2
<1> QED
  BY <1>6, <1>7, <1>8, <1>9 DEF IInv, Keeps

-----------------------------------------------------------------------------
(***************************************************************************)
(* The invariant, and what follows from it.                                *)
(***************************************************************************)
LEMMA InvInit == EdInit => IInv
<1> SUFFICES ASSUME EdInit PROVE IInv
  OBVIOUS
<1>1. EdTypeOK
  <2>1. archive \in Seq([n : Nat, text : Yamls])
    BY EmptySeq DEF EdInit
  <2> QED
    BY <2>1, IdleShape, StackEditsAssumption DEF EdInit, EdTypeOK, StackEditsAssumption
<1>2. \A w \in Writers : write[w].pc = "idle"
  BY IdleShape DEF EdInit
<1> QED
  BY <1>1, <1>2 DEF EdInit, IInv, SoleEditor, Editing, Consecutive, StackFirst, Writing,
                    WritesFilled, ReadsHold

LEMMA InvStep == ASSUME OneAtATime, IInv, [EdNext]_edVars PROVE Keeps
<1>1. CASE EdNext
  BY <1>1, StepKinds, CreateKeeps, BeginKeeps, ReadMaxKeeps, CommitKeeps, PruneKeeps,
     PurgeKeeps, QuietKeeps
<1>2. CASE UNCHANGED edVars
  BY <1>2, QuietKeeps
     DEF edVars, IInv, EdTypeOK, Quiet, SameText, BeginsNoEdit
<1> QED
  BY <1>1, <1>2

\* Every edit puts the text it replaces into the history under the next number, and
\* only the oldest versions are dropped: the stack definitions implement VersionedText
\* when edits do not overlap and ids are not reused.
THEOREM HistorySafe == OneAtATime => (EdSpec => HistoryComplete)
<1>0. SUFFICES ASSUME OneAtATime PROVE EdSpec => HistoryComplete
  OBVIOUS
<1>1. EdInit => Versioned!VInit
  BY DEF EdInit, Versioned!VInit
<1>2. IInv /\ [EdNext]_edVars => IInv' /\ [Versioned!VNext]_(Versioned!vvars)
  BY <1>0, InvStep DEF Keeps, HistoryStep
<1> QED
  BY <1>1, <1>2, InvInit, PTL DEF EdSpec, HistoryComplete, Versioned!VSpec

\* An edit replaces the text its author saw, and rows and requests keep their types,
\* when edits do not overlap and ids are not reused.
THEOREM EditsSafe == OneAtATime => (EdSpec => EditsSound)
<1>0. SUFFICES ASSUME OneAtATime PROVE EdSpec => EditsSound
  OBVIOUS
<1>1. IInv /\ [EdNext]_edVars => IInv'
  BY <1>0, InvStep DEF Keeps
<1>2. IInv => EdTypeOK
  BY DEF IInv
<1>3. IInv => [\A w \in Writers :
                write[w].pc = "numbered" /\ write'[w].pc = "prune" /\ Found
                  => stack.text = write[w].seen]_edVars
  BY DEF IInv, WritesFilled, ReadsHold, Writing, Found
<1> QED
  BY <1>1, <1>2, <1>3, InvInit, PTL DEF EdSpec, EditsSound, NoLostEdit
-----------------------------------------------------------------------------
-----------------------------------------------------------------------------
(***************************************************************************)
(* Networks, numbers and disks.                                            *)
(***************************************************************************)
NwTyped ==
  /\ nwDeployment \in NwDeployments
  /\ nwDef \in [NwStacks -> NwDefinitions]
  /\ nets \in [NetNames -> NwOwners \cup {None}]
  /\ guests \in [Vmids -> Guest \cup {None}]
  /\ tried \subseteq NwStacks
  /\ plan \in [NwStacks -> NwPlan \cup {None}]

NwQuiet == ~nwDeployment.late /\ ~nwDeployment.together /\ ~nwDeployment.unreadable
Waits(s, op) == plan[s] # None /\ plan[s].op = op

\* As long as nobody comes in between there is one plan at most, and what it was checked
\* against stays.
OnePlan == NwQuiet => \A s, t \in NwStacks : plan[s] # None /\ plan[t] # None => s = t
StillFree == NwQuiet => \A s \in NwStacks : Waits(s, "apply") => ~Collides(s, plan[s].def)
NobodysNets ==
  NwQuiet => \A s \in NwStacks :
    /\ Waits(s, "apply") => /\ plan[s].replaced \subseteq OwnNets(s)
                            /\ \A n \in plan[s].def.networks \cap plan[s].replaced : ForeignUsers(s, n) = {}
    /\ Waits(s, "destroy") => \A n \in plan[s].def.networks : ForeignUsers(s, n) = {}

\* A VM the definition names again, with less at an interface.
Shrinks(d, g, i) ==
  \E r \in Resources(d) : g.name \in ExpandedNames(r) /\ r.disks[i] < g.disks[i]

\* What a stack has does not change while its plan waits.
LossesKnown ==
  ~nwDeployment.unreadable => \A s \in NwStacks : Waits(s, "apply") =>
    \A v \in OwnVmids(s), i \in Interfaces :
      Shrinks(plan[s].def, guests[v], i) => <<guests[v].name, i>> \in plan[s].lost

NwInv == NwTyped /\ OnePlan /\ StillFree /\ NobodysNets /\ LossesKnown
-----------------------------------------------------------------------------
\* What a definition wants is of its type.
LEMMA WantedTyped ==
  ASSUME NEW d \in NwDefinitions, NEW s \in NwStacks, NEW v \in Vmids
  PROVE  WantedAt(s, d, v) \subseteq {g \in Guest : g.owner = s}
<1>1. d.resources \in Seq(Resource)
  BY StackNetworksAssumption DEF Definition
<1>2. \A i \in DOMAIN d.resources : d.resources[i] \in Resource
  BY <1>1
<1>3. Resources(d) \subseteq Resource
  BY <1>2 DEF Resources
<1>4. ASSUME NEW r \in Resource, v \in VmRange(r)
      PROVE  [owner |-> s, name |-> VmName(r, v), net |-> r.net, disks |-> r.disks] \in Guest
  <2>1. /\ r.name \in Names /\ r.vmid \in Nat /\ r.count \in Nat /\ v \in Nat
        /\ r.net \in NetNames \cup {None} /\ r.disks \in [Interfaces -> Nat]
    BY StackNetworksAssumption DEF Resource, Vmids
  <2>2. VmName(r, v) \in VmNames
    <3>1. v - r.vmid + 1 \in Nat
      BY <1>4, <2>1 DEF VmRange
    <3> QED BY <2>1, <3>1 DEF VmName, VmNames
  <2> QED BY <2>1, <2>2 DEF Guest, NwOwners
<1> QED BY <1>3, <1>4 DEF WantedAt

\* Every wanted number has a resource that wants it.
LEMMA WantedSomething ==
  ASSUME NEW d, NEW s, NEW v \in WantedVmids(d)
  PROVE  (CHOOSE g \in WantedAt(s, d, v) : TRUE) \in WantedAt(s, d, v)
<1>1. PICK r \in Resources(d) : v \in VmRange(r)
  BY DEF WantedVmids
<1> QED BY <1>1 DEF WantedAt

\* A number that is nobody else's is free or the stack's own.
LEMMA FreeOrOwn ==
  ASSUME NEW s \in NwStacks, NEW v \in Vmids, v \notin Occupied(s)
  PROVE  guests[v] = None \/ guests[v].owner = s
BY DEF Occupied, OwnVmids

LEMMA NetworksTyped == ASSUME NEW d \in NwDefinitions PROVE d.networks \subseteq NetNames
BY StackNetworksAssumption DEF Definition

\* The types, after a step.
LEMMA NwTypeInit == NwInit => NwTyped
BY DEF NwInit, NwTyped

LEMMA NwTypeStep == ASSUME NwTyped, NwNext PROVE NwTyped' /\ nwDeployment' = nwDeployment
<1> USE DEF NwTyped
<1>1. ASSUME NEW s \in NwStacks, PlanApply(s) PROVE NwTyped' /\ nwDeployment' = nwDeployment
  <2>1. PICK pulled \in BOOLEAN, replaced \in SUBSET OwnNets(s) :
          plan' = [plan EXCEPT ![s] = [op |-> "apply", def |-> nwDef[s],
                     lost |-> IF pulled THEN DiffDisks(s) ELSE {}, replaced |-> replaced]]
    BY <1>1 DEF PlanApply
  <2>2. DiffDisks(s) \subseteq VmNames \X Interfaces /\ replaced \subseteq NetNames
    <3>1. ASSUME NEW r \in Resources(nwDef[s]), NEW n \in ExpandedNames(r) PROVE n \in VmNames
      <4>1. PICK v \in VmRange(r) : n = VmName(r, v)
        BY DEF ExpandedNames
      <4>2. r \in Resource
        <5>1. nwDef[s].resources \in Seq(Resource)
          BY StackNetworksAssumption DEF Definition
        <5> QED BY <5>1 DEF Resources
      <4>3. r.name \in Names /\ r.vmid \in Nat /\ r.count \in Nat /\ v - r.vmid + 1 \in Nat
        BY <4>1, <4>2, StackNetworksAssumption DEF Resource, Vmids, VmRange
      <4> QED BY <4>1, <4>3 DEF VmName, VmNames
    <3> QED BY <3>1 DEF DiffDisks, OwnNets
  <2>3. [op |-> "apply", def |-> nwDef[s], lost |-> IF pulled THEN DiffDisks(s) ELSE {},
         replaced |-> replaced] \in NwPlan
    BY <2>2 DEF NwPlan
  <2> QED BY <1>1, <2>1, <2>3 DEF PlanApply
<1>2. ASSUME NEW s \in NwStacks, PlanDestroy(s) PROVE NwTyped' /\ nwDeployment' = nwDeployment
  <2>1. [op |-> "destroy", def |-> nwDef[s], lost |-> {}, replaced |-> {}] \in NwPlan
    BY DEF NwPlan
  <2> QED BY <1>2, <2>1 DEF PlanDestroy
<1>3. ASSUME NEW s \in NwStacks, DropPlan(s) \/ EditStack(s)
      PROVE  NwTyped' /\ nwDeployment' = nwDeployment
  BY <1>3 DEF DropPlan, EditStack
<1>m. ASSUME NEW s \in NwStacks PROVE MadeNets(s, nwDef[s]) \in [NetNames -> NwOwners \cup {None}]
  BY DEF MadeNets, NwOwners
<1>4. ASSUME NEW s \in NwStacks, RunApply(s) PROVE NwTyped' /\ nwDeployment' = nwDeployment
  <2>1. ASSUME NEW v \in Vmids PROVE MadeGuests(s, nwDef[s])[v] \in Guest \cup {None}
    <3>1. CASE v \in WantedVmids(nwDef[s])
      BY <3>1, WantedTyped, WantedSomething DEF MadeGuests
    <3>2. CASE v \notin WantedVmids(nwDef[s])
      BY <3>2 DEF MadeGuests
    <3> QED BY <3>1, <3>2
  <2>2. guests' \in [Vmids -> Guest \cup {None}]
    <3>1. MadeGuests(s, nwDef[s]) = [v \in Vmids |-> MadeGuests(s, nwDef[s])[v]]
      BY DEF MadeGuests
    <3> QED BY <1>4, <2>1, <3>1 DEF RunApply
  <2> QED BY <1>4, <1>m, <2>2 DEF RunApply
<1>5. ASSUME NEW s \in NwStacks, RunApplyFails(s) PROVE NwTyped' /\ nwDeployment' = nwDeployment
  <2>1. guests' \in [Vmids -> Guest \cup {None}]
    <3>1. ASSUME NEW v \in Vmids PROVE Midway(s, nwDef[s], v) \subseteq Guest \cup {None}
      BY WantedTyped DEF Midway
    <3> QED BY <1>5, <3>1 DEF RunApplyFails, PartlyMade
  <2> QED BY <1>5, <1>m, <2>1 DEF RunApplyFails
<1>6. ASSUME NEW s \in NwStacks, RunDestroy(s) PROVE NwTyped' /\ nwDeployment' = nwDeployment
  BY <1>6 DEF RunDestroy
<1>7. ASSUME NEW v \in Vmids, ForeignGuest(v) \/ ForeignGone(v)
      PROVE  NwTyped' /\ nwDeployment' = nwDeployment
  BY <1>7 DEF ForeignGuest, ForeignGone, Guest, NwOwners
<1>8. ASSUME NEW n \in NetNames, ForeignNet(n) PROVE NwTyped' /\ nwDeployment' = nwDeployment
  BY <1>8 DEF ForeignNet, NwOwners
<1> QED BY <1>1, <1>2, <1>3, <1>4, <1>5, <1>6, <1>7, <1>8 DEF NwNext
-----------------------------------------------------------------------------
\* A run's step as the others see it.
Runs(s) == RunApply(s) \/ RunApplyFails(s) \/ RunDestroy(s)
ForeignStep == (\E v \in Vmids : ForeignGuest(v) \/ ForeignGone(v)) \/ \E n \in NetNames : ForeignNet(n)

LEMMA PlanSteps ==
  ASSUME NwTyped, NwNext
  PROVE  \/ \E s \in NwStacks : PlanApply(s) \/ PlanDestroy(s)
         \/ \E s \in NwStacks : /\ DropPlan(s) \/ Runs(s)
                                /\ plan[s] # None /\ plan' = [plan EXCEPT ![s] = None]
         \/ \E s \in NwStacks : EditStack(s)
         \/ ForeignStep
BY DEF NwNext, ForeignStep, Runs, DropPlan, RunApply, RunApplyFails, RunDestroy

\* While a stack's plan waits and nobody comes in between, nothing changes.
LEMMA QuietStep ==
  ASSUME NwTyped, OnePlan, NwQuiet, NwNext, NEW s \in NwStacks, plan[s] # None, plan'[s] = plan[s]
  PROVE  /\ nets' = nets /\ guests' = guests
         /\ \A t \in NwStacks : plan'[t] # None => t = s
<1>1. CASE \E t \in NwStacks : PlanApply(t) \/ PlanDestroy(t)
  <2>1. PICK t \in NwStacks : PlanApply(t) \/ PlanDestroy(t)
    BY <1>1
  <2>2. t = s
    BY <2>1 DEF PlanApply, PlanDestroy, Undisturbed, NwQuiet
  <2>3. nets' = nets /\ guests' = guests
    BY <2>1 DEF PlanApply, PlanDestroy
  <2>4. \A u \in NwStacks : u # s => plan'[u] = None
    BY <2>1, <2>2 DEF PlanApply, PlanDestroy, Undisturbed, NwQuiet, NwTyped
  <2> QED BY <2>3, <2>4
<1>2. CASE \E t \in NwStacks : plan[t] # None /\ plan' = [plan EXCEPT ![t] = None]
  BY <1>2 DEF OnePlan, NwTyped
<1>3. CASE \E t \in NwStacks : EditStack(t)
  BY <1>3 DEF EditStack, OnePlan
<1>4. ~ForeignStep
  BY DEF ForeignStep, ForeignGuest, ForeignGone, ForeignNet, ForeignersMay, NwQuiet
<1> QED BY <1>1, <1>2, <1>3, <1>4, PlanSteps

\* A plan that is new.
NewPlan(s) == (PlanApply(s) \/ PlanDestroy(s))
LEMMA PlanChanges ==
  ASSUME NwTyped, NwNext, NEW s \in NwStacks, plan'[s] # None
  PROVE  (plan'[s] = plan[s] /\ \A t \in NwStacks : NewPlan(t) => t # s) \/ NewPlan(s)
BY PlanSteps DEF NewPlan, PlanApply, PlanDestroy, EditStack, ForeignStep, ForeignGuest, ForeignGone,
                 ForeignNet, NwTyped

LEMMA OnePlanStep == ASSUME NwTyped, OnePlan, NwNext PROVE OnePlan'
<1> SUFFICES ASSUME NwQuiet, NEW s \in NwStacks, NEW t \in NwStacks, plan'[s] # None, plan'[t] # None
             PROVE  s = t
  BY NwTypeStep DEF OnePlan, NwQuiet
<1>1. ASSUME NEW u \in NwStacks, NewPlan(u) PROVE s = t
  <2>1. \A w \in NwStacks : w # u => plan'[w] = None
    BY <1>1 DEF NewPlan, PlanApply, PlanDestroy, Undisturbed, NwQuiet, NwTyped
  <2> QED BY <2>1
<1>2. CASE \A u \in NwStacks : ~NewPlan(u)
  <2>1. plan'[s] = plan[s] /\ plan'[t] = plan[t]
    BY <1>2, PlanChanges
  <2> QED BY <2>1 DEF OnePlan
<1> QED BY <1>1, <1>2

LEMMA StillFreeStep == ASSUME NwTyped, OnePlan, StillFree, NwNext PROVE StillFree'
<1> SUFFICES ASSUME NwQuiet, NEW s \in NwStacks, Waits(s, "apply")'
             PROVE  ~Collides(s, plan[s].def)'
  BY NwTypeStep DEF StillFree, NwQuiet
<1>1. plan'[s] # None /\ plan'[s].op = "apply"
  BY DEF Waits
<1>2. CASE plan'[s] = plan[s]
  <2>1. nets' = nets /\ guests' = guests
    BY <1>1, <1>2, QuietStep
  <2>2. ~Collides(s, plan[s].def)
    BY <1>1, <1>2 DEF StillFree, Waits
  <2> QED BY <1>2, <2>1, <2>2 DEF Collides, Occupied, OwnVmids
<1>3. CASE NewPlan(s)
  <2>1. PlanApply(s)
    BY <1>1, <1>3 DEF NewPlan, PlanDestroy, NwTyped
  <2>2. /\ VmidsFree(s) /\ NetworksFree(s, TRUE) /\ plan'[s].def = nwDef[s]
        /\ nets' = nets /\ guests' = guests
    <3>1. PICK readable, pulled \in BOOLEAN, replaced \in SUBSET OwnNets(s) :
            /\ readable /\ VmidsFree(s) /\ NetworksFree(s, readable)
            /\ plan' = [plan EXCEPT ![s] = [op |-> "apply", def |-> nwDef[s],
                                            lost |-> IF pulled THEN DiffDisks(s) ELSE {},
                                            replaced |-> replaced]]
      BY <2>1 DEF PlanApply, NwQuiet
    <3>2. readable = TRUE
      BY <3>1
    <3>3. plan'[s].def = nwDef[s]
      BY <3>1 DEF NwTyped
    <3> QED BY <2>1, <3>1, <3>2, <3>3 DEF PlanApply
  <2>3. \A n \in nwDef[s].networks : nets[n] \in {None, s}
    BY <2>2, NetworksTyped DEF NetworksFree, OwnNets, NetNames, NwTyped
  <2>4. ~Collides(s, nwDef[s])
    BY <2>2, <2>3 DEF Collides, VmidsFree
  <2> QED BY <2>2, <2>4 DEF Collides, Occupied, OwnVmids
<1> QED BY <1>1, <1>2, <1>3, PlanChanges

LEMMA NobodysNetsStep == ASSUME NwTyped, OnePlan, NobodysNets, NwNext PROVE NobodysNets'
<1> DEFINE Told(s) ==
      /\ Waits(s, "apply") => /\ plan[s].replaced \subseteq OwnNets(s)
                              /\ \A n \in plan[s].def.networks \cap plan[s].replaced : ForeignUsers(s, n) = {}
      /\ Waits(s, "destroy") => \A n \in plan[s].def.networks : ForeignUsers(s, n) = {}
<1> SUFFICES ASSUME NwQuiet, NEW s \in NwStacks, plan'[s] # None PROVE Told(s)'
  BY NwTypeStep DEF NobodysNets, NwQuiet, Waits
<1>2. CASE plan'[s] = plan[s]
  <2>1. nets' = nets /\ guests' = guests
    BY <1>2, QuietStep
  <2>2. Told(s)
    BY DEF NobodysNets
  <2> QED BY <1>2, <2>1, <2>2 DEF Waits, OwnNets, ForeignUsers, OwnVmids
<1>3. CASE PlanApply(s)
  <2>1. PICK pulled \in BOOLEAN, replaced \in SUBSET OwnNets(s) :
          /\ DestroyAllowed(s, "apply", replaced)
          /\ plan' = [plan EXCEPT ![s] = [op |-> "apply", def |-> nwDef[s],
                                          lost |-> IF pulled THEN DiffDisks(s) ELSE {},
                                          replaced |-> replaced]]
    BY <1>3 DEF PlanApply, NwQuiet
  <2>2. plan'[s].op = "apply" /\ plan'[s].def = nwDef[s] /\ plan'[s].replaced = replaced
    BY <2>1 DEF NwTyped
  <2>3. nets' = nets /\ guests' = guests
    BY <1>3 DEF PlanApply
  <2>4. \A n \in nwDef[s].networks \cap replaced : ForeignUsers(s, n) = {}
    BY <2>1 DEF DestroyAllowed, BeingDestroyed
  <2> QED BY <2>2, <2>3, <2>4 DEF Waits, OwnNets, ForeignUsers, OwnVmids
<1>4. CASE PlanDestroy(s)
  <2>1. DestroyAllowed(s, "destroy", {}) /\ nets' = nets /\ guests' = guests
    BY <1>4 DEF PlanDestroy, NwQuiet
  <2>2. plan'[s].op = "destroy" /\ plan'[s].def = nwDef[s]
    BY <1>4 DEF PlanDestroy, NwTyped
  <2>4. \A n \in nwDef[s].networks : ForeignUsers(s, n) = {}
    BY <2>1 DEF DestroyAllowed, BeingDestroyed
  <2> QED BY <2>1, <2>2, <2>4 DEF Waits, OwnNets, ForeignUsers, OwnVmids
<1> QED BY <1>2, <1>3, <1>4, PlanChanges DEF NewPlan

\* A run touches what its stack has, what is free, and makes nothing of another's.
LEMMA RunReach ==
  ASSUME NwTyped, NEW t \in NwStacks, Runs(t), NEW v \in Vmids, guests'[v] # guests[v]
  PROVE  /\ guests[v] = None \/ guests[v].owner = t
         /\ guests'[v] = None \/ /\ guests'[v] \in WantedAt(t, nwDef[t], v)
                                 /\ guests'[v].owner = t
                                 /\ Waits(t, "apply") /\ plan[t].def = nwDef[t]
<1> USE DEF NwTyped
<1>1. CASE RunApply(t)
  <2>1. guests' = MadeGuests(t, nwDef[t]) /\ WantedVmids(nwDef[t]) \cap Occupied(t) = {}
    BY <1>1 DEF RunApply, Collides
  <2>2. CASE v \in WantedVmids(nwDef[t])
    <3>1. guests'[v] \in WantedAt(t, nwDef[t], v)
      BY <2>1, <2>2, WantedSomething DEF MadeGuests
    <3>2. guests'[v].owner = t
      BY <3>1, WantedTyped
    <3>3. guests[v] = None \/ guests[v].owner = t
      BY <2>1, <2>2, FreeOrOwn
    <3> QED BY <1>1, <3>1, <3>2, <3>3 DEF RunApply, Waits
  <2>3. CASE v \notin WantedVmids(nwDef[t])
    BY <2>1, <2>3 DEF MadeGuests, OwnVmids
  <2> QED BY <2>2, <2>3
<1>2. CASE RunApplyFails(t)
  <2>1. guests'[v] \in Midway(t, nwDef[t], v)
    BY <1>2 DEF RunApplyFails, PartlyMade
  <2>2. CASE v \notin Occupied(t) /\ guests'[v] \in WantedAt(t, nwDef[t], v)
    <3>1. guests'[v].owner = t
      BY <2>2, WantedTyped
    <3> QED BY <1>2, <2>2, <3>1, FreeOrOwn DEF RunApplyFails, Waits
  <2>3. CASE v \in OwnVmids(t) /\ guests'[v] = None
    BY <2>3 DEF OwnVmids
  <2> QED BY <2>1, <2>2, <2>3 DEF Midway
<1>3. CASE RunDestroy(t)
  BY <1>3 DEF RunDestroy, OwnVmids
<1> QED BY <1>1, <1>2, <1>3 DEF Runs

\* What a stack has, the others leave alone, and they make nothing that is its.
LEMMA OthersKeep ==
  ASSUME NwTyped, NwNext, NEW s \in NwStacks, NEW v \in Vmids, ~Runs(s),
         v \in OwnVmids(s) \/ v \in OwnVmids(s)'
  PROVE  guests'[v] = guests[v]
<1>0. \/ guests[v] # None /\ guests[v].owner = s
      \/ guests'[v] # None /\ guests'[v].owner = s
  BY DEF OwnVmids
<1>1. ASSUME NEW t \in NwStacks, Runs(t) PROVE guests'[v] = guests[v]
  <2>1. t # s
    BY <1>1
  <2>2. CASE guests'[v] # guests[v]
    BY <1>0, <1>1, <2>1, <2>2, RunReach
  <2> QED BY <2>2
<1>2. ASSUME NEW t \in NwStacks, PlanApply(t) \/ PlanDestroy(t) \/ DropPlan(t) \/ EditStack(t)
      PROVE  guests'[v] = guests[v]
  BY <1>2 DEF PlanApply, PlanDestroy, DropPlan, EditStack
<1>3. ASSUME NEW w \in Vmids, ForeignGuest(w) \/ ForeignGone(w) PROVE guests'[v] = guests[v]
  BY <1>0, <1>3, StackNetworksAssumption DEF ForeignGuest, ForeignGone, NwTyped
<1>4. ASSUME NEW n \in NetNames, ForeignNet(n) PROVE guests'[v] = guests[v]
  BY <1>4 DEF ForeignNet
<1> QED BY <1>1, <1>2, <1>3, <1>4 DEF NwNext, Runs

LEMMA LossesKnownStep == ASSUME NwTyped, LossesKnown, NwNext PROVE LossesKnown'
<1> SUFFICES ASSUME ~nwDeployment.unreadable, NEW s \in NwStacks, plan'[s] # None, plan'[s].op = "apply",
                    NEW v \in OwnVmids(s)', NEW i \in Interfaces, Shrinks(plan'[s].def, guests'[v], i)
             PROVE  <<guests'[v].name, i>> \in plan'[s].lost
  BY NwTypeStep DEF LossesKnown, Waits, Shrinks
<1>1. ~Runs(s)
  BY DEF Runs, RunApply, RunApplyFails, RunDestroy, NwTyped
<1>2. v \in Vmids /\ guests'[v] = guests[v]
  BY <1>1, OthersKeep DEF OwnVmids
<1>3. v \in OwnVmids(s)
  BY <1>2 DEF OwnVmids
<1>4. CASE plan'[s] = plan[s]
  BY <1>2, <1>3, <1>4 DEF LossesKnown, Waits
<1>5. CASE NewPlan(s)
  <2>1. PlanApply(s)
    BY <1>5 DEF NewPlan, PlanDestroy, NwTyped
  <2>2. PICK replaced : plan' = [plan EXCEPT ![s] = [op |-> "apply", def |-> nwDef[s],
                                    lost |-> DiffDisks(s), replaced |-> replaced]]
    BY <2>1 DEF PlanApply
  <2>3. plan'[s].def = nwDef[s] /\ plan'[s].lost = DiffDisks(s)
    BY <2>2 DEF NwTyped
  <2>4. Shrinks(nwDef[s], guests[v], i)
    BY <1>2, <2>3
  <2>5. <<guests[v].name, i>> \in DiffDisks(s)
    <3> DEFINE p == <<v, i>>
    <3>1. p \in OwnVmids(s) \X Interfaces /\ p[1] = v /\ p[2] = i
      BY <1>3
    <3>2. \E r \in Resources(nwDef[s]) : /\ guests[p[1]].name \in ExpandedNames(r)
                                         /\ r.disks[p[2]] < guests[p[1]].disks[p[2]]
      BY <2>4, <3>1 DEF Shrinks
    <3> HIDE DEF p
    <3> QED BY <3>1, <3>2 DEF DiffDisks
  <2> QED BY <1>2, <2>3, <2>5
<1> QED BY <1>4, <1>5, PlanChanges

LEMMA NwInvInit == NwInit => NwInv
BY NwTypeInit DEF NwInit, NwInv, OnePlan, StillFree, NobodysNets, LossesKnown, Waits

LEMMA NwInvStep == ASSUME NwInv, [NwNext]_nwVars PROVE NwInv'
<1>1. CASE NwNext
  BY <1>1, NwTypeStep, OnePlanStep, StillFreeStep, NobodysNetsStep, LossesKnownStep DEF NwInv
<1>2. CASE UNCHANGED nwVars
  BY <1>2 DEF nwVars, NwInv, NwTyped, OnePlan, StillFree, NobodysNets, LossesKnown, Waits, NwQuiet, Collides,
              Occupied, OwnVmids, OwnNets, ForeignUsers, Shrinks
<1> QED BY <1>1, <1>2

\* The invariant of the plans: while nobody comes in between, what a plan was checked
\* against is still so when it is carried out, and what it costs was announced
\* (prepare_plan, assert_explicit_vmids_free, diff_disks).
THEOREM NwInvariance == NwSpec => []NwInv
<1> QED BY NwInvInit, NwInvStep, PTL DEF NwSpec

\* No disk is taken away or shrunk without notice.
LEMMA LossesTold ==
  ASSUME NwInv, NwNext, ~nwDeployment.unreadable, NEW s \in NwStacks, NEW v \in OwnVmids(s),
         NEW w \in Vmids, NEW i \in Interfaces,
         MadeAgain(s, v, w), guests'[w].disks[i] < guests[v].disks[i]
  PROVE  <<guests[v].name, i>> \in plan[s].lost
<1>0. NwTyped /\ w \in OwnVmids(s)' /\ guests'[w] # guests[w]
  BY DEF NwInv, OwnVmids, MadeAgain
<1>1. Runs(s)
  BY <1>0, OthersKeep
<1>2. guests'[w] \in WantedAt(s, nwDef[s], w) /\ Waits(s, "apply") /\ plan[s].def = nwDef[s]
  BY <1>0, <1>1, RunReach DEF MadeAgain
<1>3. PICK r \in Resources(nwDef[s]) :
        w \in VmRange(r) /\ guests'[w].name = VmName(r, w) /\ guests'[w].disks = r.disks
  BY <1>2 DEF WantedAt
<1>4. Shrinks(nwDef[s], guests[v], i)
  BY <1>3 DEF Shrinks, ExpandedNames, MadeAgain
<1> QED BY <1>2, <1>4 DEF NwInv, LossesKnown

\* No named network is taken away under guests of others.
LEMMA NamedKept ==
  ASSUME NwInv, NwNext, NwQuiet, NEW n \in NetNames, NEW s \in NwStacks, nets[n] = s,
         n \in nwDef[s].networks, nets'[n] = None,
         NEW v \in Vmids, UsesNet(v, n)
  PROVE  guests[v].owner = s
<1>0. NwTyped /\ n \in OwnNets(s) /\ s # None
  BY StackNetworksAssumption DEF NwInv, OwnNets
<1>1. SUFFICES ForeignUsers(s, n) = {}
  BY DEF ForeignUsers, UsesNet, OwnVmids
<1>2. ASSUME NEW t \in NwStacks, RunApply(t) PROVE FALSE
  BY <1>0, <1>2, StackNetworksAssumption DEF RunApply, MadeNets
<1>3. ASSUME NEW t \in NwStacks, RunApplyFails(t) PROVE ForeignUsers(s, n) = {}
  <2>1. MadeNets(t, nwDef[t])[n] # None
    <3>1. s # t \/ n \in nwDef[t].networks
      OBVIOUS
    <3> QED BY <3>1, StackNetworksAssumption DEF MadeNets
  <2>2. n \in plan[t].replaced /\ Waits(t, "apply") /\ plan[t].def = nwDef[t]
    BY <1>0, <1>3, <2>1 DEF RunApplyFails, Waits
  <2>3. t = s
    BY <1>0, <2>2 DEF NwInv, NobodysNets, OwnNets
  <2> QED BY <2>2, <2>3 DEF NwInv, NobodysNets
<1>4. ASSUME NEW t \in NwStacks, RunDestroy(t) PROVE ForeignUsers(s, n) = {}
  <2>1. t = s
    BY <1>0, <1>4 DEF RunDestroy, OwnNets
  <2>2. Waits(s, "destroy") /\ plan[s].def = nwDef[s]
    BY <1>4, <2>1 DEF RunDestroy, Waits
  <2> QED BY <2>2 DEF NwInv, NobodysNets
<1>5. nets' # nets
  BY <1>0
<1>6. ~ForeignStep
  BY <1>0 DEF ForeignStep, ForeignGuest, ForeignGone, ForeignNet, NwTyped, NwInv
<1> QED BY <1>2, <1>3, <1>4, <1>5, <1>6 DEF NwNext, ForeignStep, PlanApply, PlanDestroy, DropPlan, EditStack

\* What a run takes away, somebody was told of or nobody needs, and it meets nothing of
\* others (prepare_plan, assert_network_destroy_allowed, diff_disks).
THEOREM LossesForeseenSafe == NwSpec => LossesForeseen
<1>1. NwInv => NwTypeOK /\ CleanRuns
  <2> SUFFICES ASSUME NwInv PROVE NwTypeOK /\ CleanRuns
    OBVIOUS
  <2>1. NwTypeOK
    BY DEF NwInv, NwTyped, NwTypeOK
  <2>2. CleanRuns
    BY DEF NwInv, StillFree, CleanRuns, Waits, NwQuiet
  <2> QED BY <2>1, <2>2
<1>2. NwInv /\ [NwNext]_nwVars =>
        [~nwDeployment.unreadable =>
           \A s \in NwStacks : \A v \in OwnVmids(s), w \in Vmids, i \in Interfaces :
             MadeAgain(s, v, w) /\ guests'[w].disks[i] < guests[v].disks[i]
               => <<guests[v].name, i>> \in plan[s].lost]_nwVars
  BY LossesTold
<1>3. NwInv /\ [NwNext]_nwVars =>
        [nwDeployment = [late |-> FALSE, together |-> FALSE, unreadable |-> FALSE] =>
           \A n \in NetNames : (\E s \in NwStacks : nets[n] = s /\ n \in nwDef[s].networks)
                                 => NetworkKept(n)]_nwVars
  <2> SUFFICES ASSUME NwInv, NwNext, nwDeployment = [late |-> FALSE, together |-> FALSE, unreadable |-> FALSE],
                      NEW n \in NetNames, NEW s \in NwStacks, nets[n] = s, n \in nwDef[s].networks,
                      nets[n] # None, nets'[n] = None, NEW v \in Vmids, UsesNet(v, n)
               PROVE  guests[v].owner = nets[n]
    BY DEF NetworkKept
  <2>1. NwQuiet
    BY DEF NwQuiet
  <2> QED BY <2>1, NamedKept
<1> QED BY <1>1, <1>2, <1>3, NwInvariance, PTL
        DEF NwSpec, LossesForeseen, DiskLossAnnounced, NamedNetworksKept
-----------------------------------------------------------------------------
-----------------------------------------------------------------------------
(***************************************************************************)
(* The firewall of a stack.                                                *)
(***************************************************************************)
AllSpecs == UNION {FwSpecs[s] : s \in FwStacks}
FwCommit ==
  [pc : Pcs, firewall : BOOLEAN, spec : AllSpecs \cup {None}, groups : Seq(FwGroup),
   guests : SUBSET (AllGuests \cup AllGroups), at : AllGuests \cup AllGroups \cup {None},
   old : SUBSET Nat, new : Seq(FwRule)]
Committing == {"groups", "create", "fill", "delete"}

FwOutcomes == {None, "running", "success", "partial", "failed"}

\* What a run at a point of the commit has, and the guests of its stack have.
Good(s, c, rules) ==
  /\ c.pc \in Committing => c.spec \in FwSpecs[s] /\ c.guests \subseteq FwManaged(c.spec)
  /\ c.pc \in {"create", "fill"} => c.at \in Prefixed(s) /\ c.new \in Seq(FwRule)
  /\ c.pc = "delete" => c.at \in FwGuests[s]
  /\ c.pc \in {"load"} \cup Committing => \A v \in FwGuests[s] : rules[v] # None
  /\ c.pc = "remove" => c.guests \subseteq Prefixed(s)

FwTyped ==
  /\ fwDeployment \in FwDeployments
  /\ fwSpec \in [FwStacks -> AllSpecs] /\ committed \in [FwStacks -> AllSpecs \cup {None}]
  /\ \A s \in FwStacks : fwSpec[s] \in FwSpecs[s] /\ committed[s] \in FwSpecs[s] \cup {None}
  /\ specEdits \in 0..MaxSpecEdits
  /\ groups \in [AllGroups -> Seq(PlainRule) \cup {None}]
  /\ guestRules \in [AllGuests -> Seq(FwRule) \cup {None}]
  /\ outcome \in [FwStacks -> FwOutcomes]
  /\ commit \in [FwStacks -> FwCommit]
  /\ \A s \in FwStacks : Good(s, commit[s], guestRules)
-----------------------------------------------------------------------------
\* A specification, part by part.
LEMMA SpecParts ==
  ASSUME NEW s \in FwStacks, NEW d \in FwSpecs[s]
  PROVE  /\ d \in AllSpecs /\ d.groups \in Seq(FwGroup)
         /\ d.guests \in [FwGuests[s] -> Seq(StackRule) \cup {None}]
         /\ FwManaged(d) \subseteq FwGuests[s]
         /\ \A v \in FwManaged(d) : d.guests[v] \in Seq(StackRule)
         /\ \A i \in DOMAIN d.groups : /\ d.groups[i].name \in GroupNames
                                       /\ d.groups[i].rules \in Seq(StackRule)
         /\ \A i, h \in DOMAIN d.groups : d.groups[i].name = d.groups[h].name => i = h
<1>1. IsSpec(s, d)
  BY StackFirewallAssumption
<1>2. /\ d.groups \in Seq(FwGroup) /\ d.guests \in [FwGuests[s] -> Seq(StackRule) \cup {None}]
      /\ \A i, h \in DOMAIN d.groups : d.groups[i].name = d.groups[h].name => i = h
  BY <1>1 DEF IsSpec
<1>3. \A i \in DOMAIN d.groups : d.groups[i] \in FwGroup
  BY <1>2
<1>4. \A i \in DOMAIN d.groups : d.groups[i].name \in GroupNames /\ d.groups[i].rules \in Seq(StackRule)
  BY <1>3 DEF FwGroup
<1>5. FwManaged(d) \subseteq FwGuests[s] /\ \A v \in FwManaged(d) : d.guests[v] \in Seq(StackRule)
  BY <1>2 DEF FwManaged
<1>6. d \in AllSpecs
  BY DEF AllSpecs
<1> QED BY <1>2, <1>4, <1>5, <1>6

\* What a stack gives its groups and guests.
LEMMA GroupsOfStack ==
  ASSUME NEW s \in FwStacks
  PROVE  /\ Prefixed(s) \subseteq AllGroups /\ FwGuests[s] \subseteq AllGuests
         /\ \A n \in GroupNames : GroupName(s, n) \in Prefixed(s) /\ GroupName(s, n) = <<s, n>>
         /\ \A g \in Prefixed(s) : g \notin SharedGroups /\ \A t \in FwStacks : g \in Prefixed(t) => s = t
BY StackFirewallAssumption DEF Prefixed, AllGroups, AllGuests, GroupName

\* Plain rules are what they are; the others are rules in Proxmox.
LEMMA PlainParams ==
  ASSUME NEW s, NEW d, NEW rules \in Seq(PlainRule) PROVE Params(s, d, rules) = rules
<1>1. \A i \in DOMAIN rules : rules[i][1] = "plain"
  BY DEF PlainRule
<1>2. \A i \in DOMAIN rules : RuleParams(s, d, rules[i]) = rules[i]
  BY <1>1 DEF RuleParams
<1> QED BY <1>2 DEF Params

LEMMA RuleTyped ==
  ASSUME NEW s \in FwStacks, NEW d \in FwSpecs[s], NEW rule \in StackRule
  PROVE  RuleParams(s, d, rule) \in FwRule
<1>1. CASE rule[1] = "group" /\ rule[2] \in Declared(d)
  <2>1. rule[2] \in GroupNames
    BY <1>1, SpecParts DEF Declared
  <2>2. GroupName(s, rule[2]) \in AllGroups
    BY <2>1, GroupsOfStack
  <2>3. RuleParams(s, d, rule) = <<"group", GroupName(s, rule[2])>>
    BY <1>1 DEF RuleParams
  <2> QED BY <2>2, <2>3 DEF FwRule
<1>2. CASE ~(rule[1] = "group" /\ rule[2] \in Declared(d))
  BY <1>2 DEF RuleParams, FwRule
<1> QED BY <1>1, <1>2

LEMMA ParamsTyped ==
  ASSUME NEW s \in FwStacks, NEW d \in FwSpecs[s], NEW rules \in Seq(StackRule)
  PROVE  /\ Params(s, d, rules) \in Seq(FwRule) /\ Len(Params(s, d, rules)) = Len(rules)
         /\ \A i \in DOMAIN rules : Params(s, d, rules)[i] = RuleParams(s, d, rules[i])
<1>1. \A i \in DOMAIN rules : RuleParams(s, d, rules[i]) \in FwRule
  BY RuleTyped
<1>2. Params(s, d, rules) = [i \in 1..Len(rules) |-> RuleParams(s, d, rules[i])]
  BY DEF Params
<1> QED BY <1>1, <1>2

\* Where no group names a group the rules of the groups are plain.
LEMMA FlatParams ==
  ASSUME NEW s \in FwStacks, NEW d \in FwSpecs[s], ~Nests(d), NEW i \in DOMAIN d.groups
  PROVE  Params(s, d, d.groups[i].rules) \in Seq(PlainRule)
<1> DEFINE rules == d.groups[i].rules
<1>1. rules \in Seq(StackRule)
  BY SpecParts
<1>2. \A h \in DOMAIN rules : rules[h][1] # "group" /\ rules[h] \in StackRule
  BY <1>1 DEF Nests, ToSet
<1>3. \A h \in DOMAIN rules : rules[h] \in PlainRule
  BY <1>2 DEF StackRule
<1> HIDE DEF rules
<1>4. rules \in Seq(PlainRule)
  BY <1>1, <1>3
<1> QED BY <1>4, PlainParams DEF rules

LEMMA PlainOnes ==
  /\ Seq(PlainRule) \subseteq Seq(FwRule)
  /\ \A rule \in FwRule : rule[1] = "plain" => rule \in PlainRule
BY DEF FwRule, StackRule

\* The last position.
LEMMA LastPosition ==
  ASSUME NEW n \in Nat \ {0} PROVE Max(1..n) = n /\ (1..n) \ {Max(1..n)} = 1..(n - 1)
<1>1. n \in 1..n /\ \A y \in 1..n : n >= y
  OBVIOUS
<1>2. Max(1..n) = n
  BY <1>1 DEF Max
<1> QED BY <1>2

LEMMA Removed ==
  ASSUME NEW S, NEW r \in Seq(S), NEW p \in DOMAIN r
  PROVE  RemoveAt(r, p) \in Seq(S) /\ Len(RemoveAt(r, p)) = Len(r) - 1
<1>1. p \in 1..Len(r) /\ Len(r) \in Nat /\ \A i \in 1..Len(r) : r[i] \in S
  OBVIOUS
<1> DEFINE front == SubSeq(r, 1, p - 1)  back == SubSeq(r, p + 1, Len(r))
<1>2. front \in Seq(S) /\ Len(front) = p - 1
  BY <1>1, SubSeqProperties
<1>3. back \in Seq(S) /\ Len(back) = Len(r) - p
  BY <1>1, SubSeqProperties
<1>4. RemoveAt(r, p) = front \o back
  BY DEF RemoveAt
<1> HIDE DEF front, back
<1>5. front \o back \in Seq(S) /\ Len(front \o back) = Len(front) + Len(back)
  BY <1>2, <1>3, ConcatProperties
<1> QED BY <1>1, <1>2, <1>3, <1>4, <1>5

\* The first of the rules that are left goes to the end of those that are there.
LEMMA Shifted ==
  ASSUME NEW S, NEW r \in Seq(S), NEW q \in Seq(S), q # << >>
  PROVE  Append(r, Head(q)) \o Tail(q) = r \o q
<1>1. Head(q) \in S /\ Tail(q) \in Seq(S) /\ <<Head(q)>> \in Seq(S) /\ <<Head(q)>> \o Tail(q) = q
  BY HeadTailProperties, HeadTailAppend
<1>2. Append(r, Head(q)) = r \o <<Head(q)>>
  BY <1>1, AppendIsConcat
<1> QED BY <1>1, <1>2, ConcatAssociative
-----------------------------------------------------------------------------
\* A run that ends or has not begun.
LEMMA NoCommitGood == ASSUME NEW s, NEW rules PROVE NoCommit \in FwCommit /\ Good(s, NoCommit, rules)
BY DEF NoCommit, FwCommit, Good, Pcs, Committing

\* The types, after a step.  The commit of a stack goes on.
LEMMA FwTypeInit == FwInit => FwTyped
<1> SUFFICES ASSUME FwInit PROVE FwTyped
  OBVIOUS
<1>1. \A s \in FwStacks : commit[s] = NoCommit
  BY DEF FwInit
<1>3. groups \in [AllGroups -> Seq(PlainRule) \cup {None}]
  <2>1. << >> \in Seq(PlainRule)
    OBVIOUS
  <2> QED BY <2>1 DEF FwInit
<1>4. guestRules \in [AllGuests -> Seq(FwRule) \cup {None}]
  <2>1. << >> \in Seq(FwRule)
    OBVIOUS
  <2> QED BY <2>1 DEF FwInit
<1>5. fwSpec \in [FwStacks -> AllSpecs] /\ \A s \in FwStacks : fwSpec[s] \in FwSpecs[s]
  BY DEF FwInit, AllSpecs
<1>6. specEdits \in 0..MaxSpecEdits
  BY StackFirewallAssumption DEF FwInit
<1>7. commit \in [FwStacks -> FwCommit] /\ \A s \in FwStacks : Good(s, commit[s], guestRules)
  BY <1>1, NoCommitGood DEF FwInit
<1> QED BY <1>3, <1>4, <1>5, <1>6, <1>7 DEF FwInit, FwTyped, FwOutcomes

\* A step of the run of a stack: what it may change of the cluster is the stack's.
Change(s, c) ==
  /\ c \in FwCommit /\ SetCommit(s, c) /\ Good(s, c, guestRules')
  /\ UNCHANGED <<fwDeployment, fwSpec, specEdits>>
  /\ groups' \in [AllGroups -> Seq(PlainRule) \cup {None}]
  /\ \A g \in AllGroups \ Prefixed(s) : groups'[g] = groups[g]
  /\ guestRules' \in [AllGuests -> Seq(FwRule) \cup {None}]
  /\ \A v \in AllGuests \ FwGuests[s] : guestRules'[v] = guestRules[v]
  /\ \/ committed' = committed
     \/ \E d \in FwSpecs[s] \cup {None} : committed' = [committed EXCEPT ![s] = d]
  /\ outcome' = outcome \/ \E o \in FwOutcomes : outcome' = [outcome EXCEPT ![s] = o]

\* What a step leaves alone of a stack.
FwSame(s) ==
  /\ commit'[s] = commit[s] /\ committed'[s] = committed[s] /\ outcome'[s] = outcome[s]
  /\ \A g \in Prefixed(s) : groups'[g] = groups[g]
  /\ \A v \in FwGuests[s] : guestRules'[v] = guestRules[v]

LEMMA ChangeFrame ==
  ASSUME FwTyped, NEW s \in FwStacks, NEW c, Change(s, c), NEW t \in FwStacks, t # s
  PROVE  FwSame(t)
<1>1. commit'[t] = commit[t] /\ committed'[t] = committed[t] /\ outcome'[t] = outcome[t]
  BY DEF Change, SetCommit, FwTyped
<1>2. Prefixed(t) \subseteq AllGroups \ Prefixed(s)
  BY GroupsOfStack
<1>3. FwGuests[t] \subseteq AllGuests \ FwGuests[s]
  BY GroupsOfStack, StackFirewallAssumption
<1> QED BY <1>1, <1>2, <1>3 DEF Change, FwSame

LEMMA CommitTyped ==
  ASSUME FwTyped, NEW s \in FwStacks, NEW c, Change(s, c)
  PROVE  FwTyped'
<1>1. commit' \in [FwStacks -> FwCommit] /\ commit'[s] = c
  BY DEF Change, SetCommit, FwTyped
<1>2. /\ committed' \in [FwStacks -> AllSpecs \cup {None}]
      /\ \A t \in FwStacks : committed'[t] \in FwSpecs[t] \cup {None}
  <2>1. CASE committed' = committed
    BY <2>1 DEF FwTyped
  <2>2. ASSUME NEW d \in FwSpecs[s] \cup {None}, committed' = [committed EXCEPT ![s] = d]
        PROVE  <1>2!1 /\ <1>2!2
    <3>1. d \in AllSpecs \cup {None}
      BY DEF AllSpecs
    <3> QED BY <2>2, <3>1 DEF FwTyped
  <2> QED BY <2>1, <2>2 DEF Change
<1>3. outcome' \in [FwStacks -> FwOutcomes]
  BY DEF Change, FwTyped
<1>4. ASSUME NEW t \in FwStacks PROVE Good(t, commit'[t], guestRules')
  <2>1. CASE t = s
    BY <1>1, <2>1 DEF Change
  <2>2. CASE t # s
    BY <2>2, ChangeFrame DEF FwSame, Good, FwTyped
  <2> QED BY <2>1, <2>2
<1> QED BY <1>1, <1>2, <1>3, <1>4 DEF Change, FwTyped

\* The run of a stack, its destroy included.
ApplyStep(s) ==
  \/ StartApply(s) \/ TofuApplied(s) \/ LoadSpec(s) \/ DeleteGroup(s) \/ CreateGroup(s)
  \/ CreateGroupRule(s) \/ GetRules(s) \/ DeleteGuestRule(s) \/ CreateGuestRule(s)
  \/ NextObject(s) \/ CommitDone(s) \/ CommitFails(s)
DestroyStep(s) ==
  TofuDestroyed(s) \/ ListGroups(s) \/ RemoveGroup(s) \/ RemoveDone(s) \/ RemoveFails(s)

LEMMA EndStep ==
  ASSUME FwTyped, NEW s \in FwStacks, CommitDone(s) \/ CommitFails(s) \/ RemoveDone(s) \/ RemoveFails(s)
  PROVE  Change(s, NoCommit)
BY NoCommitGood DEF CommitDone, CommitFails, RemoveDone, RemoveFails, Change, FwTyped, FwOutcomes

LEMMA StartStep ==
  ASSUME FwTyped, NEW s \in FwStacks, StartApply(s) PROVE \E c : Change(s, c)
<1> DEFINE c == [NoCommit EXCEPT !.pc = "tofu", !.firewall = HasFirewall(fwSpec[s])]
<1>1. HasFirewall(fwSpec[s]) \in BOOLEAN
  BY DEF HasFirewall
<1>2. c \in FwCommit /\ c.pc = "tofu"
  BY <1>1, NoCommitGood DEF NoCommit, FwCommit, Pcs
<1>3. Good(s, c, guestRules')
  BY <1>2 DEF Good, Committing
<1> HIDE DEF c
<1>4. SetCommit(s, c) /\ outcome' = [outcome EXCEPT ![s] = "running"]
      /\ UNCHANGED <<fwDeployment, fwSpec, specEdits, committed, groups, guestRules>>
  BY DEF StartApply, c
<1> QED BY <1>2, <1>3, <1>4 DEF Change, FwTyped, FwOutcomes

LEMMA AppliedStep ==
  ASSUME FwTyped, NEW s \in FwStacks, TofuApplied(s) PROVE \E c : Change(s, c)
<1> DEFINE c == [commit[s] EXCEPT !.pc = IF commit[s].firewall THEN "load" ELSE "done"]
<1>1. commit[s] \in FwCommit
  BY DEF FwTyped
<1>2. c \in FwCommit /\ c.pc \in {"load", "done"}
  BY <1>1 DEF FwCommit, Pcs
<1>3. << >> \in Seq(FwRule) /\ None # << >>
  <2>1. << >> \in Seq(FwRule)
    OBVIOUS
  <2> QED BY <2>1, StackFirewallAssumption
<1>4. guestRules' \in [AllGuests -> Seq(FwRule) \cup {None}]
  BY <1>3 DEF TofuApplied, FwTyped
<1>5. \A v \in FwGuests[s] : guestRules'[v] # None
  BY <1>3, GroupsOfStack DEF TofuApplied, FwTyped
<1>6. \A v \in AllGuests \ FwGuests[s] : guestRules'[v] = guestRules[v]
  BY DEF TofuApplied
<1>7. Good(s, c, guestRules')
  BY <1>2, <1>5 DEF Good, Committing
<1> HIDE DEF c
<1>8. SetCommit(s, c) /\ committed' = [committed EXCEPT ![s] = None]
      /\ UNCHANGED <<fwDeployment, fwSpec, specEdits, groups, outcome>>
  BY DEF TofuApplied, c
<1> QED BY <1>2, <1>4, <1>6, <1>7, <1>8 DEF Change, FwTyped

LEMMA LoadStep ==
  ASSUME FwTyped, NEW s \in FwStacks, LoadSpec(s) PROVE \E c : Change(s, c)
<1> DEFINE d == fwSpec[s]
           c == [commit[s] EXCEPT !.pc = "groups", !.spec = d, !.groups = d.groups,
                                  !.guests = FwManaged(d)]
<1>1. commit[s] \in FwCommit /\ d \in FwSpecs[s] /\ commit[s].pc = "load" /\ Good(s, commit[s], guestRules)
  BY DEF FwTyped, LoadSpec
<1>2. d \in AllSpecs /\ d.groups \in Seq(FwGroup) /\ FwManaged(d) \subseteq AllGuests
  BY <1>1, SpecParts, GroupsOfStack
<1>3. SetCommit(s, c) /\ committed' = [committed EXCEPT ![s] = d]
      /\ UNCHANGED <<fwDeployment, fwSpec, specEdits, groups, guestRules, outcome>>
  BY DEF LoadSpec
<1> HIDE DEF d
<1>4. c \in FwCommit /\ c.pc = "groups" /\ c.spec = d /\ c.guests = FwManaged(d)
  BY <1>1, <1>2 DEF FwCommit, Pcs
<1>5. Good(s, c, guestRules')
  BY <1>1, <1>3, <1>4 DEF Good, Committing
<1> HIDE DEF c
<1> QED BY <1>1, <1>3, <1>4, <1>5 DEF Change, FwTyped

\* What a run that is committing has.
LEMMA CommittingHas ==
  ASSUME FwTyped, NEW s \in FwStacks, commit[s].pc \in Committing
  PROVE  /\ commit[s] \in FwCommit /\ commit[s].spec \in FwSpecs[s]
         /\ commit[s].guests \subseteq FwManaged(commit[s].spec)
         /\ \A v \in FwGuests[s] : v \in AllGuests /\ guestRules[v] \in Seq(FwRule)
         /\ commit[s].groups \in Seq(FwGroup)
         /\ FwManaged(commit[s].spec) \subseteq FwGuests[s]
<1>1. commit[s] \in FwCommit /\ Good(s, commit[s], guestRules)
  BY DEF FwTyped
<1>2. \A v \in FwGuests[s] : v \in AllGuests /\ guestRules[v] \in Seq(FwRule)
  BY <1>1, GroupsOfStack DEF Good, FwTyped
<1>3. commit[s].spec \in FwSpecs[s] /\ commit[s].guests \subseteq FwManaged(commit[s].spec)
  BY <1>1 DEF Good
<1> QED BY <1>1, <1>2, <1>3, SpecParts DEF FwCommit

LEMMA DeleteGroupStep ==
  ASSUME FwTyped, NEW s \in FwStacks, DeleteGroup(s) PROVE \E c : Change(s, c)
<1> DEFINE d == Head(commit[s].groups)
           g == GroupName(s, d.name)
           new == Params(s, commit[s].spec, d.rules)
           c == [commit[s] EXCEPT !.pc = "create", !.groups = Tail(commit[s].groups), !.at = g, !.new = new]
<1>1. commit[s].pc = "groups" /\ commit[s].groups # << >> /\ commit[s].pc \in Committing
  BY DEF DeleteGroup, Committing
<1>2. d \in FwGroup /\ Tail(commit[s].groups) \in Seq(FwGroup)
  BY <1>1, CommittingHas, HeadTailProperties
<1>3. g \in Prefixed(s) /\ g \in AllGroups
  BY <1>2, GroupsOfStack DEF FwGroup
<1>4. new \in Seq(FwRule)
  <2>1. d.rules \in Seq(StackRule)
    BY <1>2 DEF FwGroup
  <2> QED BY <1>1, <2>1, CommittingHas, ParamsTyped
<1>5. SetCommit(s, c) /\ UNCHANGED <<fwDeployment, fwSpec, specEdits, committed, guestRules, outcome>>
  BY DEF DeleteGroup
<1>6. groups' = [groups EXCEPT ![g] = None] \/ groups' = groups
  BY DEF DeleteGroup
<1> HIDE DEF d, g, new
<1>7. c \in FwCommit /\ c.pc = "create" /\ c.spec = commit[s].spec /\ c.guests = commit[s].guests
      /\ c.at = g /\ c.new = new
  BY <1>1, <1>2, <1>3, <1>4, CommittingHas DEF FwCommit, Pcs
<1>8. Good(s, c, guestRules')
  BY <1>1, <1>3, <1>4, <1>5, <1>7 DEF Good, Committing, FwTyped
<1> HIDE DEF c
<1> QED BY <1>3, <1>5, <1>6, <1>7, <1>8 DEF Change, FwTyped

LEMMA CreateGroupStep ==
  ASSUME FwTyped, NEW s \in FwStacks, CreateGroup(s) PROVE \E c : Change(s, c)
<1> DEFINE c == [commit[s] EXCEPT !.pc = "fill"]
<1>1. commit[s].pc = "create" /\ commit[s].pc \in Committing /\ Good(s, commit[s], guestRules)
  BY DEF CreateGroup, Committing, FwTyped
<1>2. commit[s].at \in Prefixed(s) /\ commit[s].at \in AllGroups
  BY <1>1, GroupsOfStack DEF Good
<1>3. SetCommit(s, c) /\ groups' = [groups EXCEPT ![commit[s].at] = << >>]
      /\ UNCHANGED <<fwDeployment, fwSpec, specEdits, committed, guestRules, outcome>>
  BY DEF CreateGroup
<1>4. c \in FwCommit /\ c.pc = "fill" /\ c.spec = commit[s].spec /\ c.guests = commit[s].guests
      /\ c.at = commit[s].at /\ c.new = commit[s].new
  BY <1>1, CommittingHas DEF FwCommit, Pcs
<1>5. Good(s, c, guestRules')
  BY <1>1, <1>3, <1>4 DEF Good, Committing
<1> HIDE DEF c
<1>6. << >> \in Seq(PlainRule)
  OBVIOUS
<1> QED BY <1>2, <1>3, <1>4, <1>5, <1>6 DEF Change, FwTyped

LEMMA CreateGroupRuleStep ==
  ASSUME FwTyped, NEW s \in FwStacks, CreateGroupRule(s) PROVE \E c : Change(s, c)
<1> DEFINE at == commit[s].at
           new == commit[s].new
           c == [commit[s] EXCEPT !.new = Tail(commit[s].new)]
<1>1. commit[s].pc = "fill" /\ commit[s].pc \in Committing /\ Good(s, commit[s], guestRules)
  BY DEF CreateGroupRule, Committing, FwTyped
<1>2. at \in Prefixed(s) /\ at \in AllGroups /\ new \in Seq(FwRule)
  BY <1>1, GroupsOfStack, CommittingHas DEF Good, FwCommit
<1>3. SetCommit(s, c) /\ groups' = [groups EXCEPT ![at] = Append(groups[at], Head(new))]
      /\ new # << >> /\ groups[at] # None /\ Head(new)[1] = "plain"
      /\ UNCHANGED <<fwDeployment, fwSpec, specEdits, committed, guestRules, outcome>>
  BY DEF CreateGroupRule
<1> HIDE DEF new, at
<1>4. Tail(new) \in Seq(FwRule) /\ Head(new) \in PlainRule
  <2>1. Tail(new) \in Seq(FwRule) /\ Head(new) \in FwRule
    BY <1>2, <1>3, HeadTailProperties
  <2> QED BY <1>3, <2>1, PlainOnes
<1>5. groups[at] \in Seq(PlainRule) /\ Append(groups[at], Head(new)) \in Seq(PlainRule)
  BY <1>2, <1>3, <1>4 DEF FwTyped
<1>6. c \in FwCommit /\ c.pc = "fill" /\ c.spec = commit[s].spec /\ c.guests = commit[s].guests
      /\ c.at = commit[s].at /\ c.new = Tail(new)
  BY <1>1, <1>4, CommittingHas DEF FwCommit, Pcs, new
<1>7. Good(s, c, guestRules')
  BY <1>1, <1>3, <1>4, <1>6 DEF Good, Committing
<1> HIDE DEF c
<1> QED BY <1>2, <1>3, <1>5, <1>6, <1>7 DEF Change, FwTyped

LEMMA GetRulesStep ==
  ASSUME FwTyped, NEW s \in FwStacks, GetRules(s) PROVE \E c : Change(s, c)
<1>1. commit[s].pc = "groups" /\ commit[s].pc \in Committing /\ Good(s, commit[s], guestRules)
  BY DEF GetRules, Committing, FwTyped
<1>2. PICK v \in commit[s].guests :
        SetCommit(s, [commit[s] EXCEPT !.pc = "delete", !.guests = commit[s].guests \ {v}, !.at = v,
                        !.old = DOMAIN guestRules[v],
                        !.new = Params(s, commit[s].spec, commit[s].spec.guests[v])])
  BY DEF GetRules
<1> DEFINE new == Params(s, commit[s].spec, commit[s].spec.guests[v])
           old == DOMAIN guestRules[v]
           c == [commit[s] EXCEPT !.pc = "delete", !.guests = commit[s].guests \ {v}, !.at = v,
                        !.old = old, !.new = new]
<1>3. v \in FwManaged(commit[s].spec) /\ v \in FwGuests[s] /\ v \in AllGuests
      /\ guestRules[v] \in Seq(FwRule)
  BY <1>1, <1>2, CommittingHas
<1>4. new \in Seq(FwRule)
  BY <1>1, <1>3, CommittingHas, SpecParts, ParamsTyped
<1>5. old \subseteq Nat
  BY <1>3
<1>6. SetCommit(s, c) /\ UNCHANGED <<fwDeployment, fwSpec, specEdits, committed, groups, guestRules, outcome>>
  BY <1>2 DEF GetRules
<1> HIDE DEF new, old
<1>7. c \in FwCommit /\ c.pc = "delete" /\ c.spec = commit[s].spec /\ c.guests = commit[s].guests \ {v}
      /\ c.at = v
  BY <1>1, <1>3, <1>4, <1>5, CommittingHas DEF FwCommit, Pcs
<1>8. Good(s, c, guestRules')
  BY <1>1, <1>3, <1>6, <1>7 DEF Good, Committing
<1> HIDE DEF c
<1> QED BY <1>6, <1>7, <1>8 DEF Change, FwTyped

LEMMA DeleteGuestRuleStep ==
  ASSUME FwTyped, NEW s \in FwStacks, DeleteGuestRule(s) PROVE \E c : Change(s, c)
<1> DEFINE v == commit[s].at
           p == NextOld(commit[s].old)
           c == [commit[s] EXCEPT !.old = commit[s].old \ {p}]
<1>1. commit[s].pc = "delete" /\ commit[s].pc \in Committing /\ Good(s, commit[s], guestRules)
  BY DEF DeleteGuestRule, Committing, FwTyped
<1>2. v \in FwGuests[s] /\ v \in AllGuests /\ guestRules[v] \in Seq(FwRule)
  BY <1>1, CommittingHas DEF Good
<1>3. SetCommit(s, c) /\ guestRules' = [guestRules EXCEPT ![v] = RemoveAt(guestRules[v], p)]
      /\ p \in DOMAIN guestRules[v]
      /\ UNCHANGED <<fwDeployment, fwSpec, specEdits, committed, groups, outcome>>
  BY DEF DeleteGuestRule
<1> HIDE DEF p
<1>4. RemoveAt(guestRules[v], p) \in Seq(FwRule)
  BY <1>2, <1>3, Removed
<1>5. c \in FwCommit /\ c.pc = "delete" /\ c.spec = commit[s].spec /\ c.guests = commit[s].guests
      /\ c.at = v
  BY <1>1, CommittingHas DEF FwCommit
<1> HIDE DEF v
<1>6. guestRules' \in [AllGuests -> Seq(FwRule) \cup {None}] /\ guestRules'[v] # None
      /\ \A w \in AllGuests : w # v => guestRules'[w] = guestRules[w]
  BY <1>2, <1>3, <1>4, StackFirewallAssumption DEF FwTyped
<1>7. Good(s, c, guestRules')
  BY <1>1, <1>2, <1>5, <1>6, GroupsOfStack DEF Good, Committing
<1> HIDE DEF c
<1> QED BY <1>2, <1>3, <1>5, <1>6, <1>7 DEF Change, FwTyped

LEMMA CreateGuestRuleStep ==
  ASSUME FwTyped, NEW s \in FwStacks, CreateGuestRule(s) PROVE \E c : Change(s, c)
<1> DEFINE v == commit[s].at
           new == commit[s].new
           c == [commit[s] EXCEPT !.new = Tail(commit[s].new)]
<1>1. commit[s].pc = "delete" /\ commit[s].pc \in Committing /\ Good(s, commit[s], guestRules)
  BY DEF CreateGuestRule, Committing, FwTyped
<1>2. v \in FwGuests[s] /\ v \in AllGuests /\ guestRules[v] \in Seq(FwRule) /\ new \in Seq(FwRule)
  BY <1>1, CommittingHas DEF Good, FwCommit
<1>3. SetCommit(s, c) /\ guestRules' = [guestRules EXCEPT ![v] = Append(guestRules[v], Head(new))]
      /\ new # << >>
      /\ UNCHANGED <<fwDeployment, fwSpec, specEdits, committed, groups, outcome>>
  BY DEF CreateGuestRule
<1> HIDE DEF new
<1>4. Tail(new) \in Seq(FwRule) /\ Append(guestRules[v], Head(new)) \in Seq(FwRule)
  <2>1. Head(new) \in FwRule /\ Tail(new) \in Seq(FwRule)
    BY <1>2, <1>3, HeadTailProperties
  <2> QED BY <1>2, <2>1
<1>5. c \in FwCommit /\ c.pc = "delete" /\ c.spec = commit[s].spec /\ c.guests = commit[s].guests
      /\ c.at = v
  BY <1>1, <1>4, CommittingHas DEF FwCommit, new
<1> HIDE DEF v
<1>6. guestRules' \in [AllGuests -> Seq(FwRule) \cup {None}] /\ guestRules'[v] # None
      /\ \A w \in AllGuests : w # v => guestRules'[w] = guestRules[w]
  BY <1>2, <1>3, <1>4, StackFirewallAssumption DEF FwTyped
<1>7. Good(s, c, guestRules')
  BY <1>1, <1>2, <1>5, <1>6, GroupsOfStack DEF Good, Committing
<1> HIDE DEF c
<1> QED BY <1>2, <1>3, <1>5, <1>6, <1>7 DEF Change, FwTyped

LEMMA NextObjectStep ==
  ASSUME FwTyped, NEW s \in FwStacks, NextObject(s) PROVE \E c : Change(s, c)
<1> DEFINE c == [commit[s] EXCEPT !.pc = "groups", !.at = None]
<1>1. commit[s].pc \in Committing /\ Good(s, commit[s], guestRules)
  BY DEF NextObject, Committing, FwTyped
<1>2. SetCommit(s, c) /\ UNCHANGED <<fwDeployment, fwSpec, specEdits, committed, groups, guestRules, outcome>>
  BY DEF NextObject
<1>3. c \in FwCommit /\ c.pc = "groups" /\ c.spec = commit[s].spec /\ c.guests = commit[s].guests
  BY <1>1, CommittingHas DEF FwCommit, Pcs
<1>4. Good(s, c, guestRules')
  BY <1>1, <1>2, <1>3 DEF Good, Committing
<1> HIDE DEF c
<1> QED BY <1>2, <1>3, <1>4 DEF Change, FwTyped

LEMMA DestroyedStep ==
  ASSUME FwTyped, NEW s \in FwStacks, TofuDestroyed(s) PROVE \E c : Change(s, c)
<1> DEFINE c == [NoCommit EXCEPT !.pc = IF HasFirewall(fwSpec[s]) THEN "list" ELSE "done"]
<1>1. c \in FwCommit /\ c.pc \in {"list", "done"}
  BY NoCommitGood DEF NoCommit, FwCommit, Pcs
<1>2. Good(s, c, guestRules')
  BY <1>1 DEF Good, Committing
<1>3. /\ guestRules' \in [AllGuests -> Seq(FwRule) \cup {None}]
      /\ \A v \in AllGuests \ FwGuests[s] : guestRules'[v] = guestRules[v]
  BY DEF TofuDestroyed, FwTyped
<1>4. SetCommit(s, c) /\ committed' = [committed EXCEPT ![s] = None]
      /\ outcome' = [outcome EXCEPT ![s] = "running"]
      /\ UNCHANGED <<fwDeployment, fwSpec, specEdits, groups>>
  BY DEF TofuDestroyed
<1> HIDE DEF c
<1> QED BY <1>1, <1>2, <1>3, <1>4 DEF Change, FwTyped, FwOutcomes

LEMMA ListStep ==
  ASSUME FwTyped, NEW s \in FwStacks, ListGroups(s) PROVE \E c : Change(s, c)
<1> DEFINE found == {g \in OwnGroups(s) : groups[g] # None}
           c == [commit[s] EXCEPT !.pc = "remove", !.guests = found]
<1>1. commit[s] \in FwCommit
  BY DEF FwTyped
<1>2. found \subseteq Prefixed(s) /\ found \subseteq AllGroups
  BY GroupsOfStack DEF OwnGroups
<1>3. SetCommit(s, c) /\ UNCHANGED <<fwDeployment, fwSpec, specEdits, committed, groups, guestRules, outcome>>
  BY DEF ListGroups
<1> HIDE DEF found
<1>4. c \in FwCommit /\ c.pc = "remove" /\ c.guests = found
  BY <1>1, <1>2 DEF FwCommit, Pcs
<1>5. Good(s, c, guestRules')
  BY <1>2, <1>4 DEF Good, Committing
<1> HIDE DEF c
<1> QED BY <1>3, <1>4, <1>5 DEF Change, FwTyped

LEMMA RemoveStep ==
  ASSUME FwTyped, NEW s \in FwStacks, RemoveGroup(s) PROVE \E c : Change(s, c)
<1>1. commit[s].pc = "remove" /\ commit[s] \in FwCommit /\ commit[s].guests \subseteq Prefixed(s)
  BY DEF RemoveGroup, FwTyped, Good
<1>2. PICK g \in commit[s].guests :
        /\ groups' = [groups EXCEPT ![g] = None]
        /\ SetCommit(s, [commit[s] EXCEPT !.guests = commit[s].guests \ {g}])
  BY DEF RemoveGroup
<1> DEFINE c == [commit[s] EXCEPT !.guests = commit[s].guests \ {g}]
<1>3. c \in FwCommit /\ c.pc = "remove" /\ c.guests \subseteq Prefixed(s)
  BY <1>1 DEF FwCommit
<1>4. Good(s, c, guestRules')
  BY <1>3 DEF Good, Committing
<1>5. g \in Prefixed(s) /\ g \in AllGroups
  BY <1>1, <1>2, GroupsOfStack
<1>6. SetCommit(s, c) /\ UNCHANGED <<fwDeployment, fwSpec, specEdits, committed, guestRules, outcome>>
  BY <1>2 DEF RemoveGroup
<1> HIDE DEF c
<1> QED BY <1>2, <1>3, <1>4, <1>5, <1>6 DEF Change, FwTyped

LEMMA RunChanges ==
  ASSUME FwTyped, NEW s \in FwStacks, ApplyStep(s) \/ DestroyStep(s) PROVE \E c : Change(s, c)
BY EndStep, StartStep, AppliedStep, LoadStep, DeleteGroupStep, CreateGroupStep, CreateGroupRuleStep,
   GetRulesStep, DeleteGuestRuleStep, CreateGuestRuleStep, NextObjectStep, DestroyedStep, ListStep,
   RemoveStep DEF ApplyStep, DestroyStep

\* Edits and strangers touch no stack.
OtherStep ==
  \/ \E s \in FwStacks : EditSpec(s)
  \/ \E v \in Strangers : StrangerUses(v)
  \/ \E g \in SharedGroups : StrangerDrops(g)

LEMMA FwSteps ==
  ASSUME FwNext PROVE OtherStep \/ \E s \in FwStacks : ApplyStep(s) \/ DestroyStep(s)
BY DEF FwNext, OtherStep, ApplyStep, DestroyStep

LEMMA OthersFrame ==
  ASSUME FwTyped, OtherStep, NEW s \in FwStacks PROVE FwSame(s)
<1>1. CASE \E t \in FwStacks : EditSpec(t)
  BY <1>1 DEF EditSpec, FwSame
<1>2. CASE \E v \in Strangers : StrangerUses(v)
  <2>1. PICK v \in Strangers : StrangerUses(v)
    BY <1>2
  <2>2. v \notin FwGuests[s] /\ FwGuests[s] \subseteq AllGuests
    BY StackFirewallAssumption, GroupsOfStack
  <2>3. \A w \in FwGuests[s] : guestRules'[w] = guestRules[w]
    BY <2>1, <2>2 DEF StrangerUses, FwTyped
  <2> QED BY <2>1, <2>3 DEF StrangerUses, FwSame
<1>3. CASE \E g \in SharedGroups : StrangerDrops(g)
  BY <1>3, GroupsOfStack DEF StrangerDrops, FwSame, FwTyped
<1> QED BY <1>1, <1>2, <1>3 DEF OtherStep

LEMMA OthersTyped ==
  ASSUME FwTyped, OtherStep PROVE FwTyped'
<1>1. \A s \in FwStacks : Good(s, commit'[s], guestRules')
  BY OthersFrame DEF FwSame, Good, FwTyped
<1>2. CASE \E t \in FwStacks : EditSpec(t)
  <2>1. PICK t \in FwStacks : EditSpec(t)
    BY <1>2
  <2>2. PICK d \in FwSpecs[t] : fwSpec' = [fwSpec EXCEPT ![t] = d]
    BY <2>1 DEF EditSpec
  <2>3. d \in AllSpecs
    BY DEF AllSpecs
  <2>4. fwSpec' \in [FwStacks -> AllSpecs] /\ \A s \in FwStacks : fwSpec'[s] \in FwSpecs[s]
    BY <2>2, <2>3 DEF FwTyped
  <2>5. specEdits' \in 0..MaxSpecEdits
    BY <2>1, StackFirewallAssumption DEF EditSpec, FwTyped
  <2>6. UNCHANGED <<fwDeployment, committed, groups, guestRules, commit, outcome>>
    BY <2>1 DEF EditSpec
  <2> QED BY <1>1, <2>4, <2>5, <2>6 DEF FwTyped
<1>3. CASE \E v \in Strangers : StrangerUses(v)
  <2>1. PICK v \in Strangers : StrangerUses(v)
    BY <1>3
  <2>2. \A g \in AllGroups : <<<<"group", g>>>> \in Seq(FwRule)
    <3>1. \A g \in AllGroups : <<"group", g>> \in FwRule
      BY DEF FwRule
    <3>2. \A rule \in FwRule : <<rule>> \in Seq(FwRule)
      OBVIOUS
    <3> QED BY <3>1, <3>2
  <2>3. << >> \in Seq(FwRule)
    OBVIOUS
  <2>4. guestRules' \in [AllGuests -> Seq(FwRule) \cup {None}]
    BY <2>1, <2>2, <2>3 DEF StrangerUses, FwTyped
  <2>5. UNCHANGED <<fwDeployment, fwSpec, specEdits, committed, groups, commit, outcome>>
    BY <2>1 DEF StrangerUses
  <2> QED BY <1>1, <2>4, <2>5 DEF FwTyped
<1>4. CASE \E g \in SharedGroups : StrangerDrops(g)
  <2>1. groups' \in [AllGroups -> Seq(PlainRule) \cup {None}]
    BY <1>4 DEF StrangerDrops, FwTyped
  <2>2. UNCHANGED <<fwDeployment, fwSpec, specEdits, committed, guestRules, commit, outcome>>
    BY <1>4 DEF StrangerDrops
  <2> QED BY <1>1, <2>1, <2>2 DEF FwTyped
<1> QED BY <1>2, <1>3, <1>4 DEF OtherStep

LEMMA FwTypeStep == FwTyped /\ [FwNext]_fwVars => FwTyped'
<1> SUFFICES ASSUME FwTyped, [FwNext]_fwVars PROVE FwTyped'
  OBVIOUS
<1>1. CASE UNCHANGED fwVars
  BY <1>1 DEF fwVars, FwTyped
<1>2. CASE FwNext
  BY <1>2, FwSteps, OthersTyped, RunChanges, CommitTyped
<1> QED BY <1>1, <1>2
-----------------------------------------------------------------------------
\* How far a run is.  The groups it has still to make are the last ones of the
\* specification, and no guest was begun before they are made.
Passed(c) == Len(c.spec.groups) - Len(c.groups)
PlanLeft(c) ==
  /\ Len(c.groups) <= Len(c.spec.groups)
  /\ \A m \in 1..Len(c.groups) : c.groups[m] = c.spec.groups[Passed(c) + m]
  /\ c.pc \in {"create", "fill"} \/ c.groups # << >> => c.guests = FwManaged(c.spec)

\* The groups before are as they are declared, the one at hand as far as it was filled.
Made(s, d, i, gs) == gs[<<s, d.groups[i].name>>] = Params(s, d, d.groups[i].rules)
MadeUpTo(s, d, k, gs) == \A i \in 1..k : Made(s, d, i, gs)
GroupsSoFar(s, c, gs) ==
  /\ c.pc \in {"groups", "delete"} => MadeUpTo(s, c.spec, Passed(c), gs)
  /\ c.pc \in {"create", "fill"} =>
       /\ Passed(c) >= 1 /\ MadeUpTo(s, c.spec, Passed(c) - 1, gs)
       /\ c.at = <<s, c.spec.groups[Passed(c)].name>>
  /\ c.pc = "create" => c.new = Params(s, c.spec, c.spec.groups[Passed(c)].rules)
  /\ c.pc = "fill" => gs[c.at] # None /\ gs[c.at] \o c.new = Params(s, c.spec, c.spec.groups[Passed(c)].rules)

\* The guests before have their rules, the one at hand its old ones from the first on or
\* the new ones up to those that are left.
Ruled(s, d, v, rules) == rules[v] = Params(s, d, d.guests[v])
GuestsSoFar(s, c, rules) ==
  /\ c.pc = "delete" =>
       /\ c.groups = << >> /\ c.at \in FwManaged(c.spec) \ c.guests
       /\ \/ c.old = DOMAIN rules[c.at] /\ c.new = Params(s, c.spec, c.spec.guests[c.at])
          \/ c.old = {} /\ rules[c.at] \o c.new = Params(s, c.spec, c.spec.guests[c.at])
  /\ \A v \in FwManaged(c.spec) \ c.guests : (c.pc = "delete" => v # c.at) => Ruled(s, c.spec, v, rules)

AsDeclared(s, d, gs, rules) ==
  MadeUpTo(s, d, Len(d.groups), gs) /\ \A v \in FwManaged(d) : Ruled(s, d, v, rules)

\* What holds of a stack: its run, the specification it committed, its outcome.
FwLocal(s, c, d, out, gs, rules) ==
  /\ c.pc # "idle" => out = "running"
  /\ c.pc \in {"done", "list", "remove"} => d = None
  /\ c.pc \in Committing => d = c.spec /\ PlanLeft(c) /\ GroupsSoFar(s, c, gs) /\ GuestsSoFar(s, c, rules)
  /\ c.pc = "remove" => \A g \in Prefixed(s) \ c.guests : gs[g] = None
  /\ out = "success" /\ d # None => AsDeclared(s, d, gs, rules)
LocalNow(s) == FwLocal(s, commit[s], committed[s], outcome[s], groups, guestRules)
LocalNext(s) == FwLocal(s, commit'[s], committed'[s], outcome'[s], groups', guestRules')

\* A group of a specification.
LEMMA GroupAt ==
  ASSUME NEW s \in FwStacks, NEW d \in FwSpecs[s], NEW i \in 1..Len(d.groups)
  PROVE  /\ <<s, d.groups[i].name>> \in Prefixed(s) /\ <<s, d.groups[i].name>> \in AllGroups
         /\ <<s, d.groups[i].name>> = GroupName(s, d.groups[i].name)
         /\ d.groups[i].rules \in Seq(StackRule) /\ Params(s, d, d.groups[i].rules) \in Seq(FwRule)
         /\ \A h \in 1..Len(d.groups) : h # i => <<s, d.groups[h].name>> # <<s, d.groups[i].name>>
<1>1. DOMAIN d.groups = 1..Len(d.groups)
  BY SpecParts
<1>2. d.groups[i].name \in GroupNames /\ d.groups[i].rules \in Seq(StackRule)
      /\ \A h \in 1..Len(d.groups) : d.groups[h].name = d.groups[i].name => h = i
  BY <1>1, SpecParts
<1> QED BY <1>2, GroupsOfStack, ParamsTyped

LEMMA PassedBy ==
  ASSUME NEW c, c.groups \in Seq(FwGroup), c.spec.groups \in Seq(FwGroup)
  PROVE  /\ Passed(c) \in Int /\ Passed(c) - 1 \in Int
         /\ Passed(c) <= Len(c.spec.groups) /\ Passed(c) - 1 <= Len(c.spec.groups)
         /\ Passed(c) = Len(c.spec.groups) - Len(c.groups)
         /\ Len(c.groups) <= Len(c.spec.groups) => Passed(c) >= 0
<1> DEFINE p == Len(c.spec.groups)  q == Len(c.groups)
<1>1. p \in Nat /\ q \in Nat
  BY LenProperties
<1>2. Passed(c) = p - q
  BY DEF Passed
<1> HIDE DEF p, q
<1>3. p - q \in Int /\ p - q - 1 \in Int /\ p - q <= p /\ p - q - 1 <= p /\ (q <= p => p - q >= 0)
  BY <1>1
<1> QED BY <1>2, <1>3 DEF p, q

\* The next group goes from those to make to those that are made.
LEMMA NextGroup ==
  ASSUME NEW b, b.groups \in Seq(FwGroup), b.spec.groups \in Seq(FwGroup), b.groups # << >>, PlanLeft(b),
         NEW c, c.spec = b.spec, c.groups = Tail(b.groups), c.guests = b.guests
  PROVE  /\ Passed(b) \in Nat /\ Passed(b) + 1 \in 1..Len(b.spec.groups) /\ Passed(c) = Passed(b) + 1
         /\ Head(b.groups) = b.spec.groups[Passed(b) + 1]
         /\ b.guests = FwManaged(b.spec) /\ PlanLeft(c)
<1> DEFINE D == b.spec.groups  B == b.groups  T == Tail(b.groups)  p == Len(D)  q == Len(B)  k == Passed(b)
<1>1. b.guests = FwManaged(b.spec) /\ q <= p /\ \A m \in 1..q : B[m] = D[k + m]
  BY DEF PlanLeft
<1>2. p \in Nat /\ q \in Nat /\ q # 0
  BY LenProperties, EmptySeq
<1>3. T \in Seq(FwGroup) /\ Len(T) = q - 1 /\ Head(B) = B[1] /\ \A m \in 1..Len(T) : T[m] = B[m + 1]
  BY HeadTailProperties
<1>4. k = p - q
  BY DEF Passed
<1>5. Passed(c) = p - Len(T)
  BY DEF Passed
<1> HIDE DEF D, B, T, p, q, k
<1>6. k \in Nat /\ k + 1 \in 1..p /\ Passed(c) = k + 1 /\ Len(T) <= p /\ 1 \in 1..q
  BY <1>1, <1>2, <1>3, <1>4, <1>5
<1>7. Head(B) = D[k + 1]
  BY <1>1, <1>3, <1>6
<1>8. ASSUME NEW m \in 1..Len(T) PROVE T[m] = D[Passed(c) + m]
  <2>1. m \in Nat /\ m + 1 \in 1..q
    BY <1>2, <1>3
  <2>2. k + (m + 1) = (k + 1) + m
    BY <1>6, <2>1
  <2>3. T[m] = B[m + 1] /\ B[m + 1] = D[k + (m + 1)]
    BY <1>1, <1>3, <2>1
  <2> QED BY <1>6, <2>2, <2>3
<1>9. PlanLeft(c)
  BY <1>1, <1>6, <1>8 DEF PlanLeft, D, T, p
<1> QED BY <1>1, <1>6, <1>7, <1>9 DEF D, B, p, k

LEMMA MadeFrame ==
  ASSUME NEW s \in FwStacks, NEW d \in FwSpecs[s], NEW k \in Int, k <= Len(d.groups), NEW gs, NEW hs,
         MadeUpTo(s, d, k, gs), \A i \in 1..k : hs[<<s, d.groups[i].name>>] = gs[<<s, d.groups[i].name>>]
  PROVE  MadeUpTo(s, d, k, hs)
BY DEF MadeUpTo, Made

LEMMA LocalFrame ==
  ASSUME FwTyped, NEW s \in FwStacks, LocalNow(s), FwSame(s) PROVE LocalNext(s)
<1> DEFINE c == commit[s]
<1>1. c \in FwCommit /\ Good(s, c, guestRules)
  BY DEF FwTyped
<1>2. ASSUME NEW d \in FwSpecs[s], NEW k \in Int, k <= Len(d.groups), MadeUpTo(s, d, k, groups)
      PROVE  MadeUpTo(s, d, k, groups')
  <2>1. \A i \in 1..k : i \in 1..Len(d.groups)
    BY <1>2, SpecParts
  <2>2. \A i \in 1..k : groups'[<<s, d.groups[i].name>>] = groups[<<s, d.groups[i].name>>]
    BY <2>1, GroupAt DEF FwSame
  <2> QED BY <1>2, <2>2, MadeFrame
<1>3. ASSUME NEW d \in FwSpecs[s], NEW v \in FwManaged(d)
      PROVE  guestRules'[v] = guestRules[v]
  BY SpecParts DEF FwSame
<1>4. ASSUME c.pc \in Committing, PlanLeft(c), GroupsSoFar(s, c, groups), GuestsSoFar(s, c, guestRules)
      PROVE  GroupsSoFar(s, c, groups') /\ GuestsSoFar(s, c, guestRules')
  <2>1. c.spec \in FwSpecs[s] /\ c.groups \in Seq(FwGroup) /\ c.spec.groups \in Seq(FwGroup)
    BY <1>4, CommittingHas, SpecParts
  <2>2. Passed(c) \in Int /\ Passed(c) <= Len(c.spec.groups) /\ Passed(c) - 1 <= Len(c.spec.groups)
        /\ Passed(c) - 1 \in Int
    BY <2>1, PassedBy
  <2>3. c.pc \in {"create", "fill"} => groups'[c.at] = groups[c.at]
    BY <1>1 DEF Good, FwSame
  <2>4. GroupsSoFar(s, c, groups')
    BY <1>2, <1>4, <2>1, <2>2, <2>3 DEF GroupsSoFar
  <2>5. GuestsSoFar(s, c, guestRules')
    BY <1>3, <1>4, <2>1 DEF GuestsSoFar, Ruled
  <2> QED BY <2>4, <2>5
<1>5. ASSUME committed[s] # None, AsDeclared(s, committed[s], groups, guestRules)
      PROVE  AsDeclared(s, committed[s], groups', guestRules')
  <2>1. committed[s] \in FwSpecs[s]
    BY <1>5 DEF FwTyped
  <2>2. Len(committed[s].groups) \in Int /\ Len(committed[s].groups) <= Len(committed[s].groups)
    BY <2>1, SpecParts
  <2> QED BY <1>2, <1>3, <1>5, <2>1, <2>2 DEF AsDeclared, Ruled
<1>6. c.pc = "remove" => \A g \in Prefixed(s) : groups'[g] = groups[g]
  BY DEF FwSame
<1>7. commit'[s] = c /\ committed'[s] = committed[s] /\ outcome'[s] = outcome[s]
  BY DEF FwSame
<1> HIDE DEF c
<1>8. FwLocal(s, c, committed[s], outcome[s], groups, guestRules)
  BY DEF LocalNow, c
<1> QED BY <1>4, <1>5, <1>6, <1>7, <1>8 DEF LocalNext, FwLocal
-----------------------------------------------------------------------------
\* The steps of a run.
LEMMA LocalEnd ==
  ASSUME FwTyped, NEW s \in FwStacks, LocalNow(s),
         CommitDone(s) \/ CommitFails(s) \/ RemoveDone(s) \/ RemoveFails(s)
  PROVE  LocalNext(s)
<1> DEFINE c == commit[s]
<1>1. commit'[s] = NoCommit /\ NoCommit.pc = "idle" /\ committed'[s] = committed[s]
      /\ groups' = groups /\ guestRules' = guestRules
  BY DEF CommitDone, CommitFails, RemoveDone, RemoveFails, SetCommit, NoCommit, FwTyped
<1>2. ASSUME outcome'[s] = "success", committed[s] # None
      PROVE  AsDeclared(s, committed[s], groups, guestRules)
  <2>1. CommitDone(s) /\ AllDone(s)
    BY <1>2 DEF CommitDone, CommitFails, RemoveDone, RemoveFails, FwTyped, LocalNow, FwLocal
  <2>2. c.pc = "groups" /\ c.groups = << >> /\ c.guests = {} /\ c.pc \in Committing
    BY <2>1 DEF AllDone, Committing
  <2>3. committed[s] = c.spec /\ GroupsSoFar(s, c, groups) /\ GuestsSoFar(s, c, guestRules)
    BY <2>2 DEF LocalNow, FwLocal
  <2>4. c.spec.groups \in Seq(FwGroup)
    BY <2>2, CommittingHas, SpecParts
  <2>5. Passed(c) = Len(c.spec.groups)
    BY <2>2, <2>4 DEF Passed
  <2> HIDE DEF c
  <2>6. MadeUpTo(s, c.spec, Len(c.spec.groups), groups)
    BY <2>2, <2>3, <2>5 DEF GroupsSoFar
  <2>7. \A v \in FwManaged(c.spec) : Ruled(s, c.spec, v, guestRules)
    BY <2>2, <2>3 DEF GuestsSoFar
  <2> QED BY <2>3, <2>6, <2>7 DEF AsDeclared
<1> QED BY <1>1, <1>2 DEF LocalNext, FwLocal, Committing

LEMMA LocalStart ==
  ASSUME FwTyped, NEW s \in FwStacks, LocalNow(s), StartApply(s) \/ TofuApplied(s) \/ TofuDestroyed(s)
  PROVE  LocalNext(s)
<1>1. commit[s] \in FwCommit /\ NoCommit \in FwCommit
  BY NoCommitGood DEF FwTyped
<1>2. CASE StartApply(s)
  <2>1. commit'[s] = [NoCommit EXCEPT !.pc = "tofu", !.firewall = HasFirewall(fwSpec[s])]
        /\ outcome'[s] = "running"
    BY <1>2 DEF StartApply, SetCommit, FwTyped
  <2>2. commit'[s].pc = "tofu"
    BY <2>1 DEF NoCommit
  <2> QED BY <2>1, <2>2 DEF LocalNext, FwLocal, Committing
<1>3. CASE TofuApplied(s)
  <2>1. commit'[s] = [commit[s] EXCEPT !.pc = IF commit[s].firewall THEN "load" ELSE "done"]
        /\ outcome'[s] = outcome[s] /\ commit[s].pc = "tofu" /\ committed'[s] = None
    BY <1>3 DEF TofuApplied, SetCommit, FwTyped
  <2>2. commit'[s].pc \in {"load", "done"}
    BY <1>1, <2>1 DEF FwCommit
  <2>3. outcome'[s] = "running"
    BY <2>1 DEF LocalNow, FwLocal
  <2> QED BY <2>1, <2>2, <2>3 DEF LocalNext, FwLocal, Committing
<1>4. CASE TofuDestroyed(s)
  <2>1. commit'[s] = [NoCommit EXCEPT !.pc = IF HasFirewall(fwSpec[s]) THEN "list" ELSE "done"]
        /\ outcome'[s] = "running" /\ committed'[s] = None
    BY <1>4 DEF TofuDestroyed, SetCommit, FwTyped
  <2>2. commit'[s].pc \in {"list", "done"}
    BY <2>1 DEF NoCommit
  <2> QED BY <2>1, <2>2 DEF LocalNext, FwLocal, Committing
<1> QED BY <1>2, <1>3, <1>4

LEMMA LocalLoad ==
  ASSUME FwTyped, NEW s \in FwStacks, LocalNow(s), LoadSpec(s)
  PROVE  LocalNext(s)
<1> DEFINE d == fwSpec[s]  c == commit'[s]
<1>1. commit[s] \in FwCommit /\ d \in FwSpecs[s] /\ commit[s].pc = "load"
  BY DEF FwTyped, LoadSpec
<1>2. d.groups \in Seq(FwGroup)
  BY <1>1, SpecParts
<1>3. c = [commit[s] EXCEPT !.pc = "groups", !.spec = d, !.groups = d.groups, !.guests = FwManaged(d)]
      /\ committed'[s] = d /\ outcome'[s] = outcome[s]
  BY DEF LoadSpec, SetCommit, FwTyped
<1>4. outcome[s] = "running"
  BY <1>1 DEF LocalNow, FwLocal
<1> HIDE DEF d, c
<1>5. c.pc = "groups" /\ c.spec = d /\ c.groups = d.groups /\ c.guests = FwManaged(d)
  BY <1>1, <1>3 DEF FwCommit
<1>6. Passed(c) = 0 /\ PlanLeft(c)
  BY <1>2, <1>5 DEF Passed, PlanLeft
<1>7. GroupsSoFar(s, c, groups') /\ GuestsSoFar(s, c, guestRules')
  BY <1>5, <1>6 DEF GroupsSoFar, GuestsSoFar, MadeUpTo
<1> QED BY <1>3, <1>4, <1>5, <1>6, <1>7 DEF LocalNext, FwLocal, c

LEMMA LocalRemove ==
  ASSUME FwTyped, NEW s \in FwStacks, LocalNow(s), ListGroups(s) \/ RemoveGroup(s)
  PROVE  LocalNext(s)
<1>1. commit[s] \in FwCommit /\ commit[s].pc \in {"list", "remove"} /\ committed'[s] = committed[s]
      /\ outcome'[s] = outcome[s]
  BY DEF FwTyped, ListGroups, RemoveGroup
<1>2. outcome[s] = "running" /\ committed[s] = None
  BY <1>1 DEF LocalNow, FwLocal
<1>3. commit'[s].pc = "remove" /\ \A g \in Prefixed(s) \ commit'[s].guests : groups'[g] = None
  <2>1. CASE ListGroups(s)
    <3>1. commit'[s] = [commit[s] EXCEPT !.pc = "remove", !.guests = {g \in OwnGroups(s) : groups[g] # None}]
          /\ groups' = groups
      BY <2>1 DEF ListGroups, SetCommit, FwTyped
    <3>2. commit'[s].pc = "remove" /\ commit'[s].guests = {g \in OwnGroups(s) : groups[g] # None}
      BY <1>1, <3>1 DEF FwCommit
    <3> QED BY <3>1, <3>2 DEF OwnGroups
  <2>2. CASE RemoveGroup(s)
    <3>1. PICK g \in commit[s].guests :
            /\ groups' = [groups EXCEPT ![g] = None]
            /\ commit'[s] = [commit[s] EXCEPT !.guests = commit[s].guests \ {g}]
      BY <2>2 DEF RemoveGroup, SetCommit, FwTyped
    <3>2. commit'[s].pc = "remove" /\ commit'[s].guests = commit[s].guests \ {g}
      BY <1>1, <2>2, <3>1 DEF FwCommit, RemoveGroup
    <3>3. \A h \in Prefixed(s) \ commit[s].guests : groups[h] = None
      BY <2>2 DEF RemoveGroup, LocalNow, FwLocal
    <3>4. Prefixed(s) \subseteq AllGroups
      BY GroupsOfStack
    <3> QED BY <3>1, <3>2, <3>3, <3>4 DEF FwTyped
  <2> QED BY <2>1, <2>2
<1> QED BY <1>1, <1>2, <1>3 DEF LocalNext, FwLocal, Committing

\* What a committing run knows before its step.
LEMMA WorkHas ==
  ASSUME FwTyped, NEW s \in FwStacks, LocalNow(s), commit[s].pc \in Committing
  PROVE  /\ outcome[s] = "running" /\ committed[s] = commit[s].spec
         /\ PlanLeft(commit[s]) /\ GroupsSoFar(s, commit[s], groups) /\ GuestsSoFar(s, commit[s], guestRules)
         /\ commit[s] \in FwCommit /\ commit[s].spec \in FwSpecs[s]
         /\ commit[s].groups \in Seq(FwGroup) /\ commit[s].spec.groups \in Seq(FwGroup)
         /\ Passed(commit[s]) \in Int /\ Passed(commit[s]) <= Len(commit[s].spec.groups)
         /\ Passed(commit[s]) = Len(commit[s].spec.groups) - Len(commit[s].groups)
         /\ Passed(commit[s]) >= 0
<1>1. commit[s] \in FwCommit /\ commit[s].spec \in FwSpecs[s]
      /\ commit[s].groups \in Seq(FwGroup) /\ commit[s].spec.groups \in Seq(FwGroup)
  BY CommittingHas, SpecParts
<1>2. PlanLeft(commit[s]) /\ GroupsSoFar(s, commit[s], groups) /\ GuestsSoFar(s, commit[s], guestRules)
      /\ outcome[s] = "running" /\ committed[s] = commit[s].spec
  BY DEF LocalNow, FwLocal, Committing
<1>3. Len(commit[s].groups) <= Len(commit[s].spec.groups)
  BY <1>2 DEF PlanLeft
<1>4. /\ Passed(commit[s]) \in Int /\ Passed(commit[s]) <= Len(commit[s].spec.groups)
      /\ Passed(commit[s]) = Len(commit[s].spec.groups) - Len(commit[s].groups)
      /\ Passed(commit[s]) >= 0
  BY <1>1, <1>3, PassedBy
<1> QED BY <1>1, <1>2, <1>4

\* What it has to show after it.
LEMMA WorkGoesOn ==
  ASSUME NEW s \in FwStacks, commit'[s].pc \in Committing, outcome'[s] = "running",
         committed'[s] = commit'[s].spec, PlanLeft(commit'[s]), GroupsSoFar(s, commit'[s], groups'),
         GuestsSoFar(s, commit'[s], guestRules')
  PROVE  LocalNext(s)
BY DEF LocalNext, FwLocal, Committing

LEMMA LocalDeleteGroup ==
  ASSUME FwTyped, NEW s \in FwStacks, LocalNow(s), DeleteGroup(s)
  PROVE  LocalNext(s)
<1> DEFINE b == commit[s]
           c == commit'[s]
           d == b.spec
           k == Passed(b)
           first == Head(b.groups)
           g == GroupName(s, first.name)
<1>1. b.pc = "groups" /\ b.groups # << >> /\ b.pc \in Committing
  BY DEF DeleteGroup, Committing
<1>2. /\ outcome[s] = "running" /\ committed[s] = d /\ PlanLeft(b) /\ GroupsSoFar(s, b, groups)
      /\ b \in FwCommit /\ d \in FwSpecs[s] /\ b.groups \in Seq(FwGroup) /\ d.groups \in Seq(FwGroup)
      /\ k \in Int /\ k >= 0 /\ k = Len(d.groups) - Len(b.groups)
  BY <1>1, WorkHas
<1>3. /\ c = [b EXCEPT !.pc = "create", !.groups = Tail(b.groups), !.at = g, !.new = Params(s, d, first.rules)]
      /\ outcome'[s] = outcome[s] /\ committed'[s] = committed[s]
      /\ groups' = [groups EXCEPT ![g] = None] \/ groups' = groups
  BY DEF DeleteGroup, SetCommit, FwTyped
<1>4. /\ c.pc = "create" /\ c.spec = d /\ c.groups = Tail(b.groups) /\ c.at = g /\ c.guests = b.guests
      /\ c.new = Params(s, d, first.rules)
  BY <1>2, <1>3 DEF FwCommit
<1>5. /\ k \in Nat /\ k + 1 \in 1..Len(d.groups) /\ Passed(c) = k + 1 /\ first = d.groups[k + 1]
      /\ b.guests = FwManaged(d) /\ PlanLeft(c) /\ Len(d.groups) \in Nat
  <2>1. c.spec = b.spec /\ c.groups = Tail(b.groups) /\ c.guests = b.guests
    BY <1>4
  <2>2. b.groups \in Seq(FwGroup) /\ b.spec.groups \in Seq(FwGroup) /\ b.groups # << >> /\ PlanLeft(b)
    BY <1>1, <1>2
  <2> HIDE DEF b, c
  <2>3. /\ Passed(b) \in Nat /\ Passed(b) + 1 \in 1..Len(b.spec.groups) /\ Passed(c) = Passed(b) + 1
        /\ Head(b.groups) = b.spec.groups[Passed(b) + 1]
        /\ b.guests = FwManaged(b.spec) /\ PlanLeft(c)
    BY <2>1, <2>2, NextGroup
  <2>4. Len(b.spec.groups) \in Nat
    BY <2>2, LenProperties
  <2> QED BY <2>3, <2>4
<1>6. Params(s, d, first.rules) = Params(s, d, d.groups[k + 1].rules)
  BY <1>5
<1>7. /\ g = <<s, d.groups[k + 1].name>>
      /\ \A i \in 1..Len(d.groups) : i # k + 1 => <<s, d.groups[i].name>> # g
      /\ \A i \in 1..Len(d.groups) : <<s, d.groups[i].name>> \in AllGroups
  <2>1. \A i \in 1..Len(d.groups) : <<s, d.groups[i].name>> \in AllGroups
    BY <1>2, GroupAt
  <2>2. /\ <<s, d.groups[k + 1].name>> = GroupName(s, d.groups[k + 1].name)
        /\ \A i \in 1..Len(d.groups) :
             i # k + 1 => <<s, d.groups[i].name>> # <<s, d.groups[k + 1].name>>
    BY <1>2, <1>5, GroupAt
  <2>3. g = GroupName(s, d.groups[k + 1].name)
    BY <1>5
  <2> HIDE DEF g, d, k
  <2> QED BY <2>1, <2>2, <2>3
<1>8. MadeUpTo(s, d, k, groups)
  BY <1>1, <1>2 DEF GroupsSoFar
<1> HIDE DEF b, c, d, k, first, g
<1>9. \A i \in 1..k : i \in 1..Len(d.groups) /\ i # k + 1
  BY <1>5
<1>10. \A i \in 1..k : groups'[<<s, d.groups[i].name>>] = groups[<<s, d.groups[i].name>>]
  BY <1>3, <1>7, <1>9 DEF FwTyped
<1>11. MadeUpTo(s, d, k, groups')
  BY <1>8, <1>10 DEF MadeUpTo, Made
<1>12. k + 1 >= 1 /\ (k + 1) - 1 = k
  BY <1>5
<1>13. GroupsSoFar(s, c, groups')
  BY <1>4, <1>5, <1>6, <1>7, <1>11, <1>12 DEF GroupsSoFar
<1>14. GuestsSoFar(s, c, guestRules')
  BY <1>4, <1>5 DEF GuestsSoFar
<1> QED BY <1>2, <1>3, <1>4, <1>5, <1>13, <1>14, WorkGoesOn DEF c, Committing

LEMMA LocalFill ==
  ASSUME FwTyped, NEW s \in FwStacks, LocalNow(s), CreateGroup(s) \/ CreateGroupRule(s)
  PROVE  LocalNext(s)
<1> DEFINE b == commit[s]
           c == commit'[s]
           d == b.spec
           k == Passed(b)
<1>1. b.pc \in {"create", "fill"} /\ b.pc \in Committing
  BY DEF CreateGroup, CreateGroupRule, Committing
<1>2. /\ outcome[s] = "running" /\ committed[s] = d /\ PlanLeft(b) /\ GroupsSoFar(s, b, groups)
      /\ b \in FwCommit /\ d \in FwSpecs[s] /\ b.groups \in Seq(FwGroup) /\ d.groups \in Seq(FwGroup)
      /\ k \in Int /\ k >= 0 /\ k <= Len(d.groups) /\ Len(d.groups) \in Nat
  BY <1>1, WorkHas, LenProperties
<1>3. outcome'[s] = outcome[s] /\ committed'[s] = committed[s]
  BY DEF CreateGroup, CreateGroupRule
<1>4. k >= 1 /\ MadeUpTo(s, d, k - 1, groups) /\ b.at = <<s, d.groups[k].name>>
      /\ b.guests = FwManaged(d)
  BY <1>1, <1>2 DEF GroupsSoFar, PlanLeft
<1>5. k \in 1..Len(d.groups) /\ Params(s, d, d.groups[k].rules) \in Seq(FwRule) /\ b.at \in AllGroups
      /\ \A i \in 1..(k - 1) : <<s, d.groups[i].name>> # b.at /\ <<s, d.groups[i].name>> \in AllGroups
  <2>1. k \in 1..Len(d.groups) /\ \A i \in 1..(k - 1) : i \in 1..Len(d.groups) /\ i # k
    BY <1>2, <1>4
  <2>2. b.at = <<s, d.groups[k].name>> /\ d \in FwSpecs[s]
    BY <1>2, <1>4
  <2> HIDE DEF b, d, k
  <2>3. Params(s, d, d.groups[k].rules) \in Seq(FwRule) /\ <<s, d.groups[k].name>> \in AllGroups
    BY <2>1, <2>2, GroupAt
  <2>4. \A i \in 1..(k - 1) :
          <<s, d.groups[i].name>> # <<s, d.groups[k].name>> /\ <<s, d.groups[i].name>> \in AllGroups
    BY <2>1, <2>2, GroupAt
  <2> QED BY <2>1, <2>2, <2>3, <2>4 DEF b
<1>6. /\ c.pc = "fill" /\ c.spec = d /\ c.groups = b.groups /\ c.at = b.at /\ c.guests = b.guests
      /\ groups' \in [AllGroups -> Seq(PlainRule) \cup {None}]
      /\ \A g \in AllGroups : g # b.at => groups'[g] = groups[g]
      /\ groups'[b.at] \in Seq(PlainRule) /\ groups'[b.at] \o c.new = Params(s, d, d.groups[k].rules)
  <2>1. CASE CreateGroup(s)
    <3>1. c = [b EXCEPT !.pc = "fill"] /\ groups' = [groups EXCEPT ![b.at] = << >>] /\ b.pc = "create"
      BY <2>1 DEF CreateGroup, SetCommit, FwTyped
    <3>2. c.pc = "fill" /\ c.spec = d /\ c.groups = b.groups /\ c.at = b.at /\ c.guests = b.guests
          /\ c.new = b.new
      BY <1>2, <3>1 DEF FwCommit
    <3>3. b.new = Params(s, d, d.groups[k].rules)
      BY <1>2, <3>1 DEF GroupsSoFar
    <3>4. << >> \in Seq(PlainRule) /\ \A q \in Seq(FwRule) : << >> \o q = q
      BY ConcatEmptySeq
    <3> HIDE DEF b, c, d, k
    <3> QED BY <1>5, <3>1, <3>2, <3>3, <3>4 DEF FwTyped
  <2>2. CASE CreateGroupRule(s)
    <3>1. /\ c = [b EXCEPT !.new = Tail(b.new)] /\ b.pc = "fill" /\ b.new # << >>
          /\ groups' = [groups EXCEPT ![b.at] = Append(groups[b.at], Head(b.new))]
          /\ Head(b.new)[1] = "plain"
      BY <2>2 DEF CreateGroupRule, SetCommit, FwTyped
    <3>2. c.pc = "fill" /\ c.spec = d /\ c.groups = b.groups /\ c.at = b.at /\ c.guests = b.guests
          /\ c.new = Tail(b.new)
      BY <1>2, <3>1 DEF FwCommit
    <3>3. groups[b.at] # None /\ groups[b.at] \o b.new = Params(s, d, d.groups[k].rules)
      BY <1>2, <3>1 DEF GroupsSoFar
    <3>4. groups[b.at] \in Seq(PlainRule) /\ groups[b.at] \in Seq(FwRule) /\ b.new \in Seq(FwRule)
      <4>1. groups[b.at] \in Seq(PlainRule)
        BY <1>5, <3>3 DEF FwTyped
      <4>2. b.new \in Seq(FwRule)
        BY <1>2 DEF FwCommit
      <4> QED BY <4>1, <4>2, PlainOnes
    <3> HIDE DEF b, c, d, k
    <3>5. Append(groups[b.at], Head(b.new)) \o Tail(b.new) = groups[b.at] \o b.new
      BY <3>1, <3>4, Shifted
    <3>6. Append(groups[b.at], Head(b.new)) \in Seq(PlainRule)
      <4>1. Head(b.new) \in PlainRule
        BY <3>1, <3>4, HeadTailProperties, PlainOnes
      <4> QED BY <3>4, <4>1
    <3> QED BY <1>5, <3>1, <3>2, <3>3, <3>5, <3>6 DEF FwTyped
  <2> QED BY <2>1, <2>2
<1>7. None \notin Seq(PlainRule)
  BY PlainOnes, StackFirewallAssumption
<1> HIDE DEF b, c, d, k
<1>8. groups'[b.at] # None
  BY <1>6, <1>7
<1>9. Passed(c) = k /\ PlanLeft(c)
  BY <1>1, <1>2, <1>6 DEF Passed, PlanLeft, d, k
<1>10. MadeUpTo(s, d, k - 1, groups')
  BY <1>4, <1>5, <1>6 DEF MadeUpTo, Made
<1>11. GroupsSoFar(s, c, groups')
  BY <1>4, <1>6, <1>8, <1>9, <1>10 DEF GroupsSoFar
<1>12. GuestsSoFar(s, c, guestRules')
  BY <1>4, <1>6 DEF GuestsSoFar
<1> QED BY <1>2, <1>3, <1>6, <1>9, <1>11, <1>12, WorkGoesOn DEF c, Committing

LEMMA LocalGetRules ==
  ASSUME FwTyped, NEW s \in FwStacks, LocalNow(s), GetRules(s)
  PROVE  LocalNext(s)
<1> DEFINE b == commit[s]
           c == commit'[s]
           d == b.spec
<1>1. b.pc = "groups" /\ b.groups = << >> /\ b.pc \in Committing
  BY DEF GetRules, Committing
<1>2. /\ outcome[s] = "running" /\ committed[s] = d /\ PlanLeft(b) /\ GroupsSoFar(s, b, groups)
      /\ GuestsSoFar(s, b, guestRules) /\ b \in FwCommit /\ b.guests \subseteq FwManaged(d)
  BY <1>1, WorkHas, CommittingHas
<1>3. PICK v \in b.guests :
        c = [b EXCEPT !.pc = "delete", !.guests = b.guests \ {v}, !.at = v, !.old = DOMAIN guestRules[v],
                      !.new = Params(s, d, d.guests[v])]
  BY DEF GetRules, SetCommit, FwTyped
<1>4. outcome'[s] = outcome[s] /\ committed'[s] = committed[s] /\ groups' = groups /\ guestRules' = guestRules
  BY DEF GetRules
<1>5. /\ c.pc = "delete" /\ c.spec = d /\ c.groups = b.groups /\ c.guests = b.guests \ {v} /\ c.at = v
      /\ c.old = DOMAIN guestRules[v] /\ c.new = Params(s, d, d.guests[v])
  BY <1>2, <1>3 DEF FwCommit
<1> HIDE DEF b, c
<1>6. PlanLeft(c) /\ Passed(c) = Passed(b)
  BY <1>1, <1>2, <1>5 DEF PlanLeft, Passed
<1>7. GroupsSoFar(s, c, groups')
  BY <1>1, <1>2, <1>4, <1>5, <1>6 DEF GroupsSoFar
<1>8. GuestsSoFar(s, c, guestRules')
  BY <1>1, <1>2, <1>3, <1>4, <1>5 DEF GuestsSoFar
<1> QED BY <1>2, <1>4, <1>5, <1>6, <1>7, <1>8, WorkGoesOn DEF c, Committing

\* The guest at hand: its first rules are left, or it has them all but the new ones.
LEMMA GuestAtHand ==
  ASSUME FwTyped, NEW s \in FwStacks, LocalNow(s), commit[s].pc = "delete"
  PROVE  LET c == commit[s]  v == commit[s].at IN
         /\ c.groups = << >> /\ v \in FwManaged(c.spec) \ c.guests /\ v \in AllGuests
         /\ guestRules[v] \in Seq(FwRule) /\ c.new \in Seq(FwRule)
         /\ c.old # {} => c.old = DOMAIN guestRules[v] /\ c.new = Params(s, c.spec, c.spec.guests[v])
         /\ c.old = {} => guestRules[v] \o c.new = Params(s, c.spec, c.spec.guests[v])
         /\ \A w \in FwManaged(c.spec) \ c.guests : w # v => Ruled(s, c.spec, w, guestRules)
<1> DEFINE c == commit[s]  v == commit[s].at
<1>1. c.pc = "delete" /\ c.pc \in Committing
  BY DEF Committing
<1>2. GuestsSoFar(s, c, guestRules) /\ c \in FwCommit
  BY <1>1, WorkHas
<1>3. v \in FwGuests[s] /\ v \in AllGuests /\ guestRules[v] \in Seq(FwRule)
  BY <1>1, CommittingHas DEF FwTyped, Good
<1>4. c.new \in Seq(FwRule)
  BY <1>2 DEF FwCommit
<1>5. ASSUME c.old = {}, c.old = DOMAIN guestRules[v] PROVE guestRules[v] \o c.new = c.new
  <2> DEFINE r == guestRules[v]
  <2>1. r \in Seq(FwRule) /\ DOMAIN r = {}
    BY <1>3, <1>5
  <2> HIDE DEF r
  <2>2. r = << >>
    BY <2>1
  <2>3. << >> \o c.new = c.new
    BY <1>4, ConcatEmptySeq
  <2> QED BY <2>2, <2>3 DEF r
<1> HIDE DEF c
<1>6. v = c.at
  BY DEF c
<1> QED BY <1>1, <1>2, <1>3, <1>4, <1>5, <1>6 DEF GuestsSoFar, c

\* Its rules go from the last one on, so that the positions read before stay those of the
\* rules that are left.
LEMMA LocalDeleteRule ==
  ASSUME FwTyped, NEW s \in FwStacks, LocalNow(s), DeleteGuestRule(s)
  PROVE  LocalNext(s)
<1> DEFINE b == commit[s]
           c == commit'[s]
           d == b.spec
           v == b.at
           p == NextOld(b.old)
           r == guestRules[v]
<1>1. b.pc = "delete" /\ b.old # {} /\ b.pc \in Committing
  BY DEF DeleteGuestRule, Committing
<1>2. /\ outcome[s] = "running" /\ committed[s] = d /\ PlanLeft(b) /\ GroupsSoFar(s, b, groups)
      /\ b \in FwCommit
  BY <1>1, WorkHas
<1>3. /\ b.groups = << >> /\ v \in FwManaged(d) \ b.guests /\ v \in AllGuests /\ r \in Seq(FwRule)
      /\ b.old = DOMAIN r /\ b.new = Params(s, d, d.guests[v])
      /\ \A w \in FwManaged(d) \ b.guests : w # v => Ruled(s, d, w, guestRules)
  BY <1>1, GuestAtHand
<1>4. /\ c = [b EXCEPT !.old = b.old \ {p}] /\ guestRules' = [guestRules EXCEPT ![v] = RemoveAt(r, p)]
      /\ p \in DOMAIN r /\ outcome'[s] = outcome[s] /\ committed'[s] = committed[s] /\ groups' = groups
  BY DEF DeleteGuestRule, SetCommit, FwTyped
<1>5. /\ c.pc = "delete" /\ c.spec = d /\ c.groups = b.groups /\ c.guests = b.guests /\ c.at = v
      /\ c.old = b.old \ {p} /\ c.new = b.new
  BY <1>1, <1>2, <1>4 DEF FwCommit
<1>6. guestRules'[v] = RemoveAt(r, p) /\ \A w \in AllGuests : w # v => guestRules'[w] = guestRules[w]
  BY <1>3, <1>4 DEF FwTyped
<1>7. c.old = DOMAIN guestRules'[v]
  <2> HIDE DEF r, p
  <2>1. RemoveAt(r, p) \in Seq(FwRule) /\ Len(RemoveAt(r, p)) = Len(r) - 1
    BY <1>3, <1>4, Removed
  <2>2. Len(r) \in Nat \ {0} /\ DOMAIN r = 1..Len(r)
    BY <1>3, <1>4
  <2>3. p = Max(1..Len(r))
    BY <1>3, <2>2 DEF p, NextOld
  <2>4. (1..Len(r)) \ {p} = 1..(Len(r) - 1)
    BY <2>2, <2>3, LastPosition
  <2>5. DOMAIN RemoveAt(r, p) = 1..(Len(r) - 1)
    BY <2>1
  <2> QED BY <1>3, <1>5, <1>6, <2>2, <2>4, <2>5
<1>8. FwManaged(d) \subseteq AllGuests
  BY <1>1, CommittingHas
<1> HIDE DEF b, c, d, p, r
<1>9. PlanLeft(c) /\ Passed(c) = Passed(b)
  BY <1>1, <1>2, <1>3, <1>5 DEF PlanLeft, Passed, d
<1>10. GroupsSoFar(s, c, groups')
  BY <1>1, <1>2, <1>4, <1>5, <1>9 DEF GroupsSoFar, d
<1> HIDE DEF v
<1>11. GuestsSoFar(s, c, guestRules')
  BY <1>3, <1>5, <1>6, <1>7, <1>8 DEF GuestsSoFar, Ruled
<1> QED BY <1>2, <1>4, <1>5, <1>9, <1>10, <1>11, WorkGoesOn DEF c, Committing

LEMMA LocalCreateRule ==
  ASSUME FwTyped, NEW s \in FwStacks, LocalNow(s), CreateGuestRule(s)
  PROVE  LocalNext(s)
<1> DEFINE b == commit[s]
           c == commit'[s]
           d == b.spec
           v == b.at
           r == guestRules[v]
<1>1. b.pc = "delete" /\ b.old = {} /\ b.new # << >> /\ b.pc \in Committing
  BY DEF CreateGuestRule, Committing
<1>2. /\ outcome[s] = "running" /\ committed[s] = d /\ PlanLeft(b) /\ GroupsSoFar(s, b, groups)
      /\ b \in FwCommit
  BY <1>1, WorkHas
<1>3. /\ b.groups = << >> /\ v \in FwManaged(d) \ b.guests /\ v \in AllGuests /\ r \in Seq(FwRule)
      /\ b.new \in Seq(FwRule) /\ r \o b.new = Params(s, d, d.guests[v])
      /\ \A w \in FwManaged(d) \ b.guests : w # v => Ruled(s, d, w, guestRules)
  BY <1>1, GuestAtHand
<1>4. /\ c = [b EXCEPT !.new = Tail(b.new)] /\ guestRules' = [guestRules EXCEPT ![v] = Append(r, Head(b.new))]
      /\ outcome'[s] = outcome[s] /\ committed'[s] = committed[s] /\ groups' = groups
  BY DEF CreateGuestRule, SetCommit, FwTyped
<1>5. /\ c.pc = "delete" /\ c.spec = d /\ c.groups = b.groups /\ c.guests = b.guests /\ c.at = v
      /\ c.old = b.old /\ c.new = Tail(b.new)
  BY <1>1, <1>2, <1>4 DEF FwCommit
<1>6. guestRules'[v] = Append(r, Head(b.new)) /\ \A w \in AllGuests : w # v => guestRules'[w] = guestRules[w]
  BY <1>3, <1>4 DEF FwTyped
<1>7. FwManaged(d) \subseteq AllGuests
  BY <1>1, CommittingHas
<1> HIDE DEF b, c, d, r
<1>8. Append(r, Head(b.new)) \o Tail(b.new) = r \o b.new
  BY <1>1, <1>3, Shifted
<1>9. PlanLeft(c) /\ Passed(c) = Passed(b)
  BY <1>1, <1>2, <1>3, <1>5 DEF PlanLeft, Passed, d
<1>10. GroupsSoFar(s, c, groups')
  BY <1>1, <1>2, <1>4, <1>5, <1>9 DEF GroupsSoFar, d
<1> HIDE DEF v
<1>11. GuestsSoFar(s, c, guestRules')
  BY <1>1, <1>3, <1>5, <1>6, <1>7, <1>8 DEF GuestsSoFar, Ruled
<1> QED BY <1>2, <1>4, <1>5, <1>9, <1>10, <1>11, WorkGoesOn DEF c, Committing

LEMMA LocalNextObject ==
  ASSUME FwTyped, NEW s \in FwStacks, LocalNow(s), NextObject(s)
  PROVE  LocalNext(s)
<1> DEFINE b == commit[s]
           c == commit'[s]
           d == b.spec
           k == Passed(b)
<1>1. b.pc \in {"fill", "delete"} /\ b.old = {} /\ b.new = << >> /\ b.pc \in Committing
  BY DEF NextObject, Committing
<1>2. /\ outcome[s] = "running" /\ committed[s] = d /\ PlanLeft(b) /\ GroupsSoFar(s, b, groups)
      /\ GuestsSoFar(s, b, guestRules) /\ b \in FwCommit /\ d \in FwSpecs[s] /\ k \in Int
      /\ k <= Len(d.groups) /\ Len(d.groups) \in Nat
  BY <1>1, WorkHas, LenProperties
<1>3. /\ c = [b EXCEPT !.pc = "groups", !.at = None] /\ outcome'[s] = outcome[s]
      /\ committed'[s] = committed[s] /\ groups' = groups /\ guestRules' = guestRules
  BY DEF NextObject, SetCommit, FwTyped
<1>4. c.pc = "groups" /\ c.spec = d /\ c.groups = b.groups /\ c.guests = b.guests
  BY <1>2, <1>3 DEF FwCommit
<1>5. MadeUpTo(s, d, k, groups)
  <2>1. CASE b.pc = "delete"
    BY <1>2, <2>1 DEF GroupsSoFar
  <2>2. CASE b.pc = "fill"
    <3>1. /\ k >= 1 /\ MadeUpTo(s, d, k - 1, groups) /\ b.at = <<s, d.groups[k].name>>
          /\ groups[b.at] # None /\ groups[b.at] \o b.new = Params(s, d, d.groups[k].rules)
      BY <1>2, <2>2 DEF GroupsSoFar
    <3>2. b.at \in AllGroups /\ groups[b.at] \in Seq(PlainRule)
      <4>1. Good(s, b, guestRules)
        BY DEF FwTyped
      <4>2. b.at \in AllGroups
        BY <2>2, <4>1, GroupsOfStack DEF Good
      <4> HIDE DEF b
      <4> QED BY <3>1, <4>2 DEF FwTyped
    <3>3. groups[b.at] \o << >> = groups[b.at]
      BY <3>2, ConcatEmptySeq
    <3>4. Made(s, d, k, groups)
      BY <1>1, <3>1, <3>3 DEF Made
    <3> HIDE DEF b, d, k
    <3>5. \A i \in 1..k : i = k \/ i \in 1..(k - 1)
      BY <1>2
    <3> QED BY <3>1, <3>4, <3>5 DEF MadeUpTo
  <2> QED BY <1>1, <2>1, <2>2
<1>6. \A v \in FwManaged(d) \ b.guests : Ruled(s, d, v, guestRules)
  <2>1. CASE b.pc = "fill"
    BY <1>2, <2>1 DEF GuestsSoFar
  <2>2. CASE b.pc = "delete"
    <3>1. /\ guestRules[b.at] \in Seq(FwRule) /\ guestRules[b.at] \o b.new = Params(s, d, d.guests[b.at])
          /\ \A w \in FwManaged(d) \ b.guests : w # b.at => Ruled(s, d, w, guestRules)
      BY <1>1, <2>2, GuestAtHand
    <3>2. guestRules[b.at] \o << >> = guestRules[b.at]
      BY <3>1, ConcatEmptySeq
    <3>3. Ruled(s, d, b.at, guestRules)
      BY <1>1, <3>1, <3>2 DEF Ruled
    <3> QED BY <3>1, <3>3
  <2> QED BY <1>1, <2>1, <2>2
<1>7. b.pc = "delete" => b.groups = << >>
  BY <1>2 DEF GuestsSoFar
<1> HIDE DEF b, c, d
<1>8. PlanLeft(c) /\ Passed(c) = Passed(b)
  BY <1>1, <1>2, <1>4, <1>7 DEF PlanLeft, Passed, d
<1>9. GroupsSoFar(s, c, groups')
  BY <1>3, <1>4, <1>5, <1>8 DEF GroupsSoFar
<1>10. GuestsSoFar(s, c, guestRules')
  BY <1>3, <1>4, <1>6 DEF GuestsSoFar
<1> QED BY <1>2, <1>3, <1>4, <1>8, <1>9, <1>10, WorkGoesOn DEF c, Committing

LEMMA LocalStep == FwTyped /\ (\A s \in FwStacks : LocalNow(s)) /\ [FwNext]_fwVars => \A s \in FwStacks : LocalNext(s)
<1> SUFFICES ASSUME FwTyped, \A s \in FwStacks : LocalNow(s), [FwNext]_fwVars, NEW s \in FwStacks
             PROVE  LocalNext(s)
  OBVIOUS
<1>1. CASE UNCHANGED fwVars
  BY <1>1, LocalFrame DEF fwVars, FwSame
<1>2. CASE OtherStep
  BY <1>2, OthersFrame, LocalFrame
<1>3. ASSUME NEW t \in FwStacks, ApplyStep(t) \/ DestroyStep(t) PROVE LocalNext(s)
  <2>1. CASE t # s
    BY <1>3, <2>1, RunChanges, ChangeFrame, LocalFrame
  <2>2. CASE t = s
    BY <1>3, <2>2, LocalEnd, LocalStart, LocalLoad, LocalRemove, LocalDeleteGroup, LocalFill, LocalGetRules,
       LocalDeleteRule, LocalCreateRule, LocalNextObject DEF ApplyStep, DestroyStep
  <2> QED BY <2>1, <2>2
<1> QED BY <1>1, <1>2, <1>3, FwSteps
-----------------------------------------------------------------------------
\* Nothing fails, nobody comes in between: what was checked at the plan holds until the
\* commit, which is of the specification that was planned, and no call is refused.
FwCalm == ~fwDeployment.faults /\ ~fwDeployment.strangers /\ ~fwDeployment.refuses /\ specEdits = 0
GroupsThere(d, gs) == \A g \in GroupRefs(d) \ Declared(d) : g \in SharedGroups /\ gs[g] # None
CalmRun(s, c, d, out, gs) ==
  /\ out = "partial" => Nests(d)
  /\ c.pc \in {"create", "fill"} /\ ~Nests(d) => c.new \in Seq(PlainRule)
  /\ c.pc \in {"tofu", "load"} \cup Committing => GroupsThere(d, gs)
  /\ c.pc \in Committing => c.spec = d
  /\ c.pc = "create" => gs[c.at] = None
CalmNow(s) == CalmRun(s, commit[s], fwSpec[s], outcome[s], groups)
CalmNext(s) == CalmRun(s, commit'[s], fwSpec'[s], outcome'[s], groups')

FwInv == FwTyped /\ (\A s \in FwStacks : LocalNow(s)) /\ (FwCalm => \A s \in FwStacks : CalmNow(s))

\* The groups that the rules of a guest name are there.
LEMMA RuleTaken ==
  ASSUME FwTyped, NEW s \in FwStacks, LocalNow(s), CalmNow(s), commit[s].pc = "delete", commit[s].old = {},
         commit[s].new # << >>
  PROVE  Takes(Head(commit[s].new))
<1> DEFINE c == commit[s]  d == c.spec  v == c.at  r == guestRules[v]  rules == d.guests[v]
           params == Params(s, d, rules)
<1>1. c.pc \in Committing
  BY DEF Committing
<1>2. /\ d \in FwSpecs[s] /\ GroupsSoFar(s, c, groups) /\ d.groups \in Seq(FwGroup)
      /\ Passed(c) = Len(d.groups) - Len(c.groups)
  BY <1>1, WorkHas
<1>3. /\ c.groups = << >> /\ v \in FwManaged(d) /\ r \in Seq(FwRule) /\ c.new \in Seq(FwRule)
      /\ r \o c.new = params
  BY GuestAtHand
<1>4. rules \in Seq(StackRule)
  BY <1>2, <1>3, SpecParts
<1>5. Len(params) = Len(rules) /\ \A i \in DOMAIN rules : params[i] = RuleParams(s, d, rules[i])
  BY <1>2, <1>4, ParamsTyped
<1>6. MadeUpTo(s, d, Len(d.groups), groups)
  <2>1. Passed(c) = Len(d.groups)
    BY <1>2, <1>3
  <2>2. MadeUpTo(s, d, Passed(c), groups)
    BY <1>2 DEF GroupsSoFar
  <2> QED BY <2>1, <2>2
<1>7. GroupsThere(d, groups)
  BY <1>1 DEF CalmNow, CalmRun
<1> DEFINE new == c.new
<1>8. new # << >>
  OBVIOUS
<1> HIDE DEF c, d, v, r, rules, params, new
<1>9. PICK i \in DOMAIN rules : Head(new) = params[i]
  <2>1. Len(r) \in Nat /\ Len(new) \in Nat \ {0} /\ Head(new) = new[1]
    BY <1>3, <1>8, LenProperties, EmptySeq, HeadTailProperties DEF new
  <2>2. Len(r \o new) = Len(r) + Len(new) /\ (r \o new)[Len(r) + 1] = new[(Len(r) + 1) - Len(r)]
        /\ Len(r) + 1 \in 1..(Len(r) + Len(new)) /\ (Len(r) + 1) - Len(r) = 1
    BY <1>3, <2>1, ConcatProperties DEF new
  <2>3. Head(new) = params[Len(r) + 1] /\ Len(params) = Len(r) + Len(new)
    BY <1>3, <2>1, <2>2 DEF new
  <2>4. DOMAIN rules = 1..Len(rules)
    BY <1>4, LenProperties
  <2> QED BY <1>5, <2>2, <2>3, <2>4
<1>10. Head(new) = RuleParams(s, d, rules[i])
  BY <1>5, <1>9
<1>11. CASE rules[i][1] = "group" /\ rules[i][2] \in Declared(d)
  <2>1. PICK h \in DOMAIN d.groups : rules[i][2] = d.groups[h].name
    BY <1>11 DEF Declared
  <2>2. h \in 1..Len(d.groups)
    BY <1>2, LenProperties
  <2>3. Head(new) = <<"group", <<s, d.groups[h].name>>>>
    BY <1>10, <1>11, <2>1 DEF RuleParams, GroupName
  <2>4. groups[<<s, d.groups[h].name>>] = Params(s, d, d.groups[h].rules)
    BY <1>6, <2>2 DEF MadeUpTo, Made
  <2>5. Params(s, d, d.groups[h].rules) \in Seq(FwRule) /\ <<s, d.groups[h].name>> \in AllGroups
    BY <1>2, <2>2, GroupAt
  <2>6. groups[<<s, d.groups[h].name>>] # None
    BY <2>4, <2>5, StackFirewallAssumption
  <2> QED BY <2>3, <2>5, <2>6 DEF Takes, new, c
<1>12. CASE ~(rules[i][1] = "group" /\ rules[i][2] \in Declared(d))
  <2>1. Head(new) = rules[i]
    BY <1>10, <1>12 DEF RuleParams
  <2>2. ASSUME rules[i][1] = "group" PROVE rules[i][2] \in AllGroups /\ groups[rules[i][2]] # None
    <3>1. rules[i] \in ToSet(d.guests[v])
      BY DEF ToSet, rules
    <3>2. rules[i] \in RulesOf(d)
      BY <1>3, <3>1 DEF RulesOf
    <3>3. rules[i][2] \in GroupRefs(d)
      BY <2>2, <3>2 DEF GroupRefs
    <3>4. rules[i][2] \in SharedGroups /\ groups[rules[i][2]] # None
      BY <1>7, <1>12, <2>2, <3>3 DEF GroupsThere
    <3> QED BY <3>4 DEF AllGroups
  <2> QED BY <2>1, <2>2 DEF Takes, new, c
<1> QED BY <1>11, <1>12

LEMMA NotRejected ==
  ASSUME FwTyped, NEW s \in FwStacks, LocalNow(s), CalmNow(s), ~Nests(fwSpec[s])
  PROVE  ~Rejected(s)
<1> DEFINE c == commit[s]
<1>1. c.pc = "create" => groups[c.at] = None
  BY DEF CalmNow, CalmRun
<1>2. c.pc = "fill" => groups[c.at] # None
  BY WorkHas DEF Committing, GroupsSoFar
<1>4. ASSUME c.pc = "fill", c.new # << >> PROVE Head(c.new)[1] # "group"
  <2>1. c.new \in Seq(PlainRule)
    BY <1>4 DEF CalmNow, CalmRun
  <2>2. Head(c.new) \in PlainRule
    BY <1>4, <2>1, HeadTailProperties
  <2> QED BY <2>2 DEF PlainRule
<1>3. ASSUME c.pc = "delete", c.old # {} PROVE NextOld(c.old) \in DOMAIN guestRules[c.at]
  <2> DEFINE r == guestRules[c.at]  n == Len(r)
  <2>1. r \in Seq(FwRule) /\ c.old = DOMAIN r
    BY <1>3, GuestAtHand
  <2>2. n \in Nat /\ DOMAIN r = 1..n
    BY <2>1, LenProperties
  <2> HIDE DEF r, n
  <2>3. n \in Nat \ {0} /\ n \in 1..n
    BY <1>3, <2>1, <2>2
  <2>4. Max(1..n) = n
    BY <2>3, LastPosition
  <2> QED BY <2>1, <2>2, <2>3, <2>4 DEF NextOld, r
<1> QED BY <1>1, <1>2, <1>3, <1>4, RuleTaken DEF Rejected

LEMMA CalmStays ==
  ASSUME FwInv, FwNext, FwCalm'
  PROVE  FwCalm /\ \E t \in FwStacks : ApplyStep(t) \/ DestroyStep(t)
<1>1. CASE OtherStep
  BY <1>1 DEF OtherStep, EditSpec, StrangerUses, StrangerDrops, FwCalm, FwInv, FwTyped
<1>2. CASE \E t \in FwStacks : ApplyStep(t) \/ DestroyStep(t)
  <2>1. UNCHANGED <<fwDeployment, specEdits>>
    BY <1>2, RunChanges DEF Change, FwInv
  <2> QED BY <1>2, <2>1 DEF FwCalm
<1> QED BY <1>1, <1>2, FwSteps

LEMMA ThereStays ==
  ASSUME NEW d, GroupsThere(d, groups), NEW t \in FwStacks, NEW c, Change(t, c)
  PROVE  GroupsThere(d, groups')
<1>1. \A g \in SharedGroups : g \in AllGroups \ Prefixed(t)
  BY GroupsOfStack DEF AllGroups
<1> QED BY <1>1 DEF GroupsThere, Change

\* The steps of the run itself.
LEMMA CalmOwn ==
  ASSUME FwTyped, NEW s \in FwStacks, LocalNow(s), CalmNow(s), FwCalm, ApplyStep(s) \/ DestroyStep(s)
  PROVE  CalmNext(s)
<1>1. PICK c : Change(s, c)
  BY RunChanges
<1>2. commit[s] \in FwCommit /\ NoCommit \in FwCommit /\ fwSpec' = fwSpec
  BY <1>1, NoCommitGood DEF FwTyped, Change
<1>3. GroupsThere(fwSpec[s], groups) => GroupsThere(fwSpec[s], groups')
  BY <1>1, ThereStays
<1>4. CASE CommitDone(s) \/ CommitFails(s) \/ RemoveDone(s) \/ RemoveFails(s)
  <2>1. CommitFails(s) => Nests(fwSpec[s])
    BY NotRejected DEF CommitFails, FwCalm
  <2>2. commit'[s] = NoCommit /\ NoCommit.pc = "idle"
    BY <1>4 DEF CommitDone, CommitFails, RemoveDone, RemoveFails, SetCommit, NoCommit, FwTyped
  <2>3. outcome'[s] = "partial" => Nests(fwSpec[s])
    BY <1>4, <2>1 DEF CommitDone, RemoveDone, RemoveFails, FwTyped
  <2> QED BY <1>2, <2>2, <2>3 DEF CalmNext, CalmRun, Committing
<1>5. CASE StartApply(s)
  <2>1. commit'[s] = [NoCommit EXCEPT !.pc = "tofu", !.firewall = HasFirewall(fwSpec[s])]
        /\ outcome'[s] = "running" /\ GroupsThere(fwSpec[s], groups)
    BY <1>5 DEF StartApply, SetCommit, FwTyped, GroupsExist, GroupsThere
  <2>2. commit'[s].pc = "tofu"
    BY <2>1 DEF NoCommit
  <2> QED BY <1>2, <1>3, <2>1, <2>2 DEF CalmNext, CalmRun, Committing
<1>6. CASE TofuDestroyed(s)
  <2>1. commit'[s] = [NoCommit EXCEPT !.pc = IF HasFirewall(fwSpec[s]) THEN "list" ELSE "done"]
        /\ outcome'[s] = "running"
    BY <1>6 DEF TofuDestroyed, SetCommit, FwTyped
  <2>2. commit'[s].pc \in {"list", "done"}
    BY <2>1 DEF NoCommit
  <2> QED BY <2>1, <2>2 DEF CalmNext, CalmRun, Committing
<1>7. CASE TofuApplied(s) \/ ListGroups(s) \/ RemoveGroup(s)
  <2>1. outcome'[s] = outcome[s]
    BY <1>7 DEF TofuApplied, ListGroups, RemoveGroup
  <2>2. CASE TofuApplied(s)
    <3>1. commit'[s] = [commit[s] EXCEPT !.pc = IF commit[s].firewall THEN "load" ELSE "done"]
          /\ commit[s].pc = "tofu"
      BY <2>2 DEF TofuApplied, SetCommit, FwTyped
    <3>2. commit'[s].pc \in {"load", "done"}
      BY <1>2, <3>1 DEF FwCommit
    <3> QED BY <1>2, <1>3, <2>1, <3>1, <3>2 DEF CalmNow, CalmNext, CalmRun, Committing
  <2>3. CASE ListGroups(s) \/ RemoveGroup(s)
    <3>1. commit'[s].pc = "remove"
      <4>1. CASE ListGroups(s)
        <5>1. commit'[s] = [commit[s] EXCEPT !.pc = "remove", !.guests = {g \in OwnGroups(s) : groups[g] # None}]
          BY <4>1 DEF ListGroups, SetCommit, FwTyped
        <5> QED BY <1>2, <5>1 DEF FwCommit
      <4>2. CASE RemoveGroup(s)
        <5>1. commit[s].pc = "remove" /\ \E g \in commit[s].guests :
                commit'[s] = [commit[s] EXCEPT !.guests = commit[s].guests \ {g}]
          BY <4>2 DEF RemoveGroup, SetCommit, FwTyped
        <5> QED BY <1>2, <5>1 DEF FwCommit
      <4> QED BY <2>3, <4>1, <4>2
    <3> QED BY <1>2, <2>1, <3>1 DEF CalmNow, CalmNext, CalmRun, Committing
  <2> QED BY <1>7, <2>2, <2>3
<1>8. CASE LoadSpec(s)
  <2>1. commit'[s] = [commit[s] EXCEPT !.pc = "groups", !.spec = fwSpec[s], !.groups = fwSpec[s].groups,
                                       !.guests = FwManaged(fwSpec[s])]
        /\ commit[s].pc = "load" /\ outcome'[s] = outcome[s]
    BY <1>8 DEF LoadSpec, SetCommit, FwTyped
  <2>2. commit'[s].pc = "groups" /\ commit'[s].spec = fwSpec[s]
    BY <1>2, <2>1 DEF FwCommit
  <2> QED BY <1>2, <1>3, <2>1, <2>2 DEF CalmNow, CalmNext, CalmRun, Committing
<1>9. ASSUME commit[s].pc \in Committing, commit'[s].pc \in Committing, commit'[s].spec = commit[s].spec,
             outcome'[s] = outcome[s], commit'[s].pc = "create" => groups'[commit'[s].at] = None,
             commit'[s].pc \in {"create", "fill"} /\ ~Nests(fwSpec[s]) => commit'[s].new \in Seq(PlainRule)
      PROVE  CalmNext(s)
  BY <1>2, <1>3, <1>9 DEF CalmNow, CalmNext, CalmRun
<1>10. CASE DeleteGroup(s)
  <2> DEFINE g == GroupName(s, Head(commit[s].groups).name)
             new == Params(s, commit[s].spec, Head(commit[s].groups).rules)
  <2>1. /\ commit'[s] = [commit[s] EXCEPT !.pc = "create", !.groups = Tail(commit[s].groups), !.at = g, !.new = new]
        /\ commit[s].pc = "groups" /\ commit[s].groups # << >> /\ outcome'[s] = outcome[s]
    BY <1>10 DEF DeleteGroup, SetCommit, FwTyped
  <2>2. Head(commit[s].groups) \in FwGroup
    BY <1>2, <2>1, HeadTailProperties DEF FwCommit
  <2>3. g \in AllGroups
    BY <2>2, GroupsOfStack DEF FwGroup
  <2>4. groups' = [groups EXCEPT ![g] = None]
    BY <1>10 DEF DeleteGroup, StillInUse, FwCalm
  <2> HIDE DEF g, new
  <2>5. commit'[s].pc = "create" /\ commit'[s].spec = commit[s].spec /\ commit'[s].at = g
    BY <1>2, <2>1 DEF FwCommit
  <2>6. groups'[g] = None
    BY <2>3, <2>4 DEF FwTyped
  <2>7. ASSUME ~Nests(fwSpec[s]) PROVE commit'[s].new \in Seq(PlainRule)
    <3>1. commit[s].spec = fwSpec[s] /\ fwSpec[s] \in FwSpecs[s] /\ PlanLeft(commit[s])
          /\ commit[s].groups \in Seq(FwGroup) /\ commit[s].spec.groups \in Seq(FwGroup)
      BY <2>1, WorkHas DEF Committing, CalmNow, CalmRun
    <3>2. Passed(commit[s]) + 1 \in DOMAIN fwSpec[s].groups
          /\ Head(commit[s].groups) = fwSpec[s].groups[Passed(commit[s]) + 1]
      <4> DEFINE b == commit[s]
                 a == [b EXCEPT !.groups = Tail(b.groups)]
      <4>1. a.spec = b.spec /\ a.groups = Tail(b.groups) /\ a.guests = b.guests
        BY <1>2 DEF FwCommit
      <4> HIDE DEF a, b
      <4>2. Passed(b) + 1 \in 1..Len(b.spec.groups) /\ Head(b.groups) = b.spec.groups[Passed(b) + 1]
        BY <2>1, <3>1, <4>1, NextGroup DEF b
      <4> QED BY <3>1, <4>2, LenProperties DEF b
    <3>3. new \in Seq(PlainRule)
      BY <2>7, <3>1, <3>2, FlatParams DEF new
    <3> QED BY <1>2, <2>1, <3>3 DEF FwCommit
  <2> QED BY <1>9, <2>1, <2>5, <2>6, <2>7 DEF Committing
<1>11. CASE CreateGroup(s)
  <2>1. commit'[s] = [commit[s] EXCEPT !.pc = "fill"] /\ commit[s].pc = "create" /\ outcome'[s] = outcome[s]
    BY <1>11 DEF CreateGroup, SetCommit, FwTyped
  <2>2. commit'[s].pc = "fill" /\ commit'[s].spec = commit[s].spec /\ commit'[s].new = commit[s].new
    BY <1>2, <2>1 DEF FwCommit
  <2> QED BY <1>9, <2>1, <2>2 DEF Committing, CalmNow, CalmRun
<1>12. CASE CreateGroupRule(s) \/ CreateGuestRule(s)
  <2>1. commit'[s] = [commit[s] EXCEPT !.new = Tail(commit[s].new)] /\ commit[s].pc \in {"fill", "delete"}
        /\ outcome'[s] = outcome[s]
    BY <1>12 DEF CreateGroupRule, CreateGuestRule, SetCommit, FwTyped
  <2>2. commit'[s].pc = commit[s].pc /\ commit'[s].spec = commit[s].spec
        /\ commit'[s].new = Tail(commit[s].new)
    BY <1>2, <2>1 DEF FwCommit
  <2>3. commit[s].new # << >>
    BY <1>12 DEF CreateGroupRule, CreateGuestRule
  <2>4. commit[s].new \in Seq(PlainRule) => Tail(commit[s].new) \in Seq(PlainRule)
    BY <2>3, HeadTailProperties
  <2> QED BY <1>9, <2>1, <2>2, <2>4 DEF Committing, CalmNow, CalmRun
<1>13. CASE GetRules(s)
  <2>1. PICK v \in commit[s].guests :
          commit'[s] = [commit[s] EXCEPT !.pc = "delete", !.guests = commit[s].guests \ {v}, !.at = v,
                          !.old = DOMAIN guestRules[v],
                          !.new = Params(s, commit[s].spec, commit[s].spec.guests[v])]
    BY <1>13 DEF GetRules, SetCommit, FwTyped
  <2>2. commit'[s].pc = "delete" /\ commit'[s].spec = commit[s].spec
    BY <1>2, <2>1 DEF FwCommit
  <2> QED BY <1>9, <1>13, <2>2 DEF Committing, GetRules
<1>14. CASE DeleteGuestRule(s)
  <2>1. \E p : commit'[s] = [commit[s] EXCEPT !.old = commit[s].old \ {p}]
    BY <1>14 DEF DeleteGuestRule, SetCommit, FwTyped
  <2>2. commit'[s].pc = commit[s].pc /\ commit'[s].spec = commit[s].spec
    BY <1>2, <2>1 DEF FwCommit
  <2> QED BY <1>9, <1>14, <2>2 DEF Committing, DeleteGuestRule
<1>15. CASE NextObject(s)
  <2>1. commit'[s] = [commit[s] EXCEPT !.pc = "groups", !.at = None]
    BY <1>15 DEF NextObject, SetCommit, FwTyped
  <2>2. commit'[s].pc = "groups" /\ commit'[s].spec = commit[s].spec
    BY <1>2, <2>1 DEF FwCommit
  <2> QED BY <1>9, <1>15, <2>2 DEF Committing, NextObject
<1> QED BY <1>4, <1>5, <1>6, <1>7, <1>8, <1>10, <1>11, <1>12, <1>13, <1>14, <1>15 DEF ApplyStep, DestroyStep

\* Those of another stack's.
LEMMA CalmOthers ==
  ASSUME FwTyped, NEW s \in FwStacks, CalmNow(s), NEW t \in FwStacks, t # s, NEW c, Change(t, c)
  PROVE  CalmNext(s)
<1>1. FwSame(s) /\ fwSpec' = fwSpec
  BY ChangeFrame DEF Change
<1>2. GroupsThere(fwSpec[s], groups) => GroupsThere(fwSpec[s], groups')
  BY ThereStays
<1>3. commit[s].pc = "create" => groups'[commit[s].at] = groups[commit[s].at]
  BY <1>1 DEF FwSame, FwTyped, Good
<1> QED BY <1>1, <1>2, <1>3 DEF FwSame, CalmNow, CalmNext, CalmRun
-----------------------------------------------------------------------------
LEMMA FwInvInit == FwInit => FwInv
<1> SUFFICES ASSUME FwInit PROVE FwInv
  OBVIOUS
<1>1. FwTyped
  BY FwTypeInit
<1>2. \A s \in FwStacks : commit[s].pc = "idle" /\ committed[s] = None /\ outcome[s] = None
  BY DEF FwInit, NoCommit
<1>3. \A s \in FwStacks : LocalNow(s)
  BY <1>2 DEF LocalNow, FwLocal, Committing
<1>4. None # "partial"
  BY StackFirewallAssumption
<1> QED BY <1>1, <1>2, <1>3, <1>4 DEF FwInv, CalmNow, CalmRun, Committing

LEMMA FwInvStep == FwInv /\ [FwNext]_fwVars => FwInv'
<1> SUFFICES ASSUME FwInv, [FwNext]_fwVars PROVE FwInv'
  OBVIOUS
<1>1. FwTyped /\ \A s \in FwStacks : LocalNow(s)
  BY DEF FwInv
<1>2. FwTyped'
  BY <1>1, FwTypeStep
<1>3. \A s \in FwStacks : LocalNext(s)
  BY <1>1, LocalStep
<1>4. (\A s \in FwStacks : LocalNow(s))'
  BY <1>3 DEF LocalNow, LocalNext
<1>5. ASSUME FwCalm', NEW s \in FwStacks PROVE CalmNext(s)
  <2>1. CASE UNCHANGED fwVars
    <3>1. FwCalm
      BY <1>5, <2>1 DEF FwCalm, fwVars
    <3>2. CalmNow(s)
      BY <3>1 DEF FwInv
    <3> QED BY <2>1, <3>2 DEF CalmNow, CalmNext, fwVars
  <2>2. CASE FwNext
    <3>1. FwCalm /\ \E t \in FwStacks : ApplyStep(t) \/ DestroyStep(t)
      BY <1>5, <2>2, CalmStays
    <3>2. PICK t \in FwStacks : ApplyStep(t) \/ DestroyStep(t)
      BY <3>1
    <3>3. CalmNow(s)
      BY <3>1 DEF FwInv
    <3>4. CASE t = s
      BY <1>1, <3>1, <3>2, <3>3, <3>4, CalmOwn
    <3>5. CASE t # s
      <4>1. PICK c : Change(t, c)
        BY <1>1, <3>2, RunChanges
      <4> QED BY <1>1, <3>3, <3>5, <4>1, CalmOthers
    <3> QED BY <3>4, <3>5
  <2> QED BY <2>1, <2>2
<1>6. (FwCalm => \A s \in FwStacks : CalmNow(s))'
  BY <1>5 DEF CalmNow, CalmNext
<1> QED BY <1>2, <1>4, <1>6 DEF FwInv

\* The invariant of the firewall: how far each run is, which groups and guests are done by
\* then, and that no call is refused where nobody interferes (apply_firewall,
\* destroy_stack_security_groups).
THEOREM FwInvariance == FwSpecification => []FwInv
<1> QED BY FwInvInit, FwInvStep, PTL DEF FwSpecification

\* After a commit that reported success the cluster has exactly what was committed, and a
\* commit that nobody disturbs succeeds (apply_firewall, build_firewall_plan).
THEOREM CommitsSoundSafe == FwSpecification => []CommitsSound
<1>1. FwInv => CommitsSound
  <2> SUFFICES ASSUME FwInv PROVE CommitsSound
    OBVIOUS
  <2>1. FwTyped /\ \A s \in FwStacks : LocalNow(s)
    BY DEF FwInv
  <2>2. FwTypeOK
    <3>1. ASSUME NEW g \in AllGroups, groups[g] # None, NEW i \in DOMAIN groups[g]
          PROVE  groups[g][i][1] = "plain"
      <4>1. groups[g] \in Seq(PlainRule)
        BY <2>1, <3>1 DEF FwTyped
      <4>2. groups[g][i] \in PlainRule
        BY <4>1
      <4> QED BY <4>2 DEF PlainRule
    <3>2. \A s \in FwStacks : commit[s].pc \in Pcs /\ outcome[s] \in FwOutcomes
      BY <2>1 DEF FwTyped, FwCommit
    <3> QED BY <2>1, <3>1, <3>2 DEF FwTypeOK, FwTyped, FwOutcomes
  <2>3. ASSUME NEW s \in FwStacks, outcome[s] = "success", committed[s] # None
        PROVE  /\ \A v \in FwManaged(committed[s]) :
                    guestRules[v] = Params(s, committed[s], committed[s].guests[v])
               /\ \A i \in DOMAIN committed[s].groups :
                    groups[<<s, committed[s].groups[i].name>>]
                      = Params(s, committed[s], committed[s].groups[i].rules)
    <3> DEFINE d == committed[s]
    <3>1. d \in FwSpecs[s]
      BY <2>1, <2>3 DEF FwTyped
    <3>2. AsDeclared(s, d, groups, guestRules)
      BY <2>1, <2>3 DEF LocalNow, FwLocal
    <3>3. \A v \in FwManaged(d) : guestRules[v] = Params(s, d, d.guests[v])
      BY <3>2 DEF AsDeclared, Ruled
    <3>4. ASSUME NEW i \in DOMAIN d.groups
          PROVE  groups[<<s, d.groups[i].name>>] = Params(s, d, d.groups[i].rules)
      <4>1. i \in 1..Len(d.groups)
        BY <3>1, SpecParts, LenProperties
      <4> QED BY <3>2, <4>1 DEF AsDeclared, MadeUpTo, Made
    <3> QED BY <3>3, <3>4
  <2>4. CommitExact
    BY <2>3 DEF CommitExact
  <2>5. CommitsSucceed
    BY DEF FwInv, FwCalm, CalmNow, CalmRun, CommitsSucceed
  <2> QED BY <2>2, <2>4, <2>5 DEF CommitsSound
<1> QED BY <1>1, FwInvariance, PTL

\* A destroy that looked for the groups of the stack and reports success left none
\* (destroy_stack_security_groups).
THEOREM DestroyRemovesGroupsSafe == FwSpecification => DestroyRemovesGroups
<1>1. FwInv /\ [FwNext]_fwVars =>
        [\A s \in FwStacks : commit[s].pc = "remove" /\ outcome'[s] = "success" =>
           \A g \in Prefixed(s) : groups'[g] = None]_fwVars
  <2> SUFFICES ASSUME FwInv, FwNext, NEW s \in FwStacks, commit[s].pc = "remove", outcome'[s] = "success"
               PROVE  \A g \in Prefixed(s) : groups'[g] = None
    OBVIOUS
  <2>1. FwTyped /\ outcome[s] = "running" /\ \A g \in Prefixed(s) \ commit[s].guests : groups[g] = None
    BY DEF FwInv, LocalNow, FwLocal
  <2>2. ~OtherStep
    BY <2>1, OthersFrame DEF FwSame
  <2>3. PICK t \in FwStacks : ApplyStep(t) \/ DestroyStep(t)
    BY <2>2, FwSteps
  <2>4. t = s
    BY <2>1, <2>3, RunChanges, ChangeFrame DEF FwSame
  <2>5. CASE RemoveDone(s)
    BY <2>1, <2>5 DEF RemoveDone
  <2>6. CASE ~RemoveDone(s)
    <3>1. commit[s] # NoCommit
      BY DEF NoCommit
    <3>2. ~ApplyStep(s)
      BY <2>1, <3>1 DEF ApplyStep, StartApply, TofuApplied, LoadSpec, DeleteGroup, CreateGroup, CreateGroupRule,
         GetRules, DeleteGuestRule, CreateGuestRule, NextObject, CommitDone, CommitFails, AllDone, Rejected
    <3>3. ~TofuDestroyed(s) /\ ~ListGroups(s) /\ ~RemoveGroup(s)
      BY <2>1, <3>1 DEF TofuDestroyed, ListGroups, RemoveGroup
    <3>4. ~RemoveFails(s)
      BY <2>1 DEF RemoveFails, FwTyped
    <3> QED BY <2>3, <2>4, <2>6, <3>2, <3>3, <3>4 DEF DestroyStep
  <2> QED BY <2>5, <2>6
<1> QED BY <1>1, FwInvariance, PTL DEF FwSpecification, DestroyRemovesGroups
=============================================================================
