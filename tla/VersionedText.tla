--------------------------- MODULE VersionedText ---------------------------
(***************************************************************************)
(* What the version history of a stack promises: the text as it is now,    *)
(* and the texts it replaced, numbered one after the other.  Writing puts  *)
(* the replaced text into the history; only the oldest entries ever go,    *)
(* and never more than the cap allows.                                     *)
(***************************************************************************)
EXTENDS Integers, Sequences

CONSTANTS
  Texts,  \* stack definitions
  Cap,    \* entries the history keeps at least, a positive number
  Gone    \* the text of a stack that does not exist

VARIABLES
  now,   \* the current text
  past   \* the history, oldest first: [n : Nat, text : Texts]

vvars == <<now, past>>

VInit == now = Gone /\ past = <<>>

LastNumber == IF past = <<>> THEN 0 ELSE past[Len(past)].n

Create(t) ==
  /\ now = Gone
  /\ now' = t
  /\ past' = <<>>

Write(t) ==
  /\ now # Gone
  /\ now' = t
  /\ past' = Append(past, [n |-> LastNumber + 1, text |-> now])

Forget(k) ==
  /\ Len(past) - k >= Cap
  /\ past' = SubSeq(past, k + 1, Len(past))
  /\ UNCHANGED now

Purge ==
  /\ now # Gone
  /\ now' = Gone
  /\ past' = <<>>

VNext ==
  \/ \E t \in Texts : Create(t) \/ Write(t)
  \/ \E k \in 1..Len(past) : Forget(k)
  \/ Purge

VSpec == VInit /\ [][VNext]_vvars
=============================================================================
