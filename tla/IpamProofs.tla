----------------------------- MODULE IpamProofs -----------------------------
(***************************************************************************)
(* What holds of the IP address management for every set of addresses,     *)
(* VMs, stacks and deployments.                                            *)
(***************************************************************************)
EXTENDS Ipam, TLAPS

\* A stack is deployed or destroyed by one run at a time.
OneRun ==
  \A d, e \in Deps :
    InRun(d) /\ InRun(e) /\ dep[d].stack # None /\ dep[d].stack = dep[e].stack => d = e

\* What the record of a deployment says at each of its points.
DepsShaped ==
  \A d \in Deps :
    /\ dep[d].stack # None => dep[d].mine = StackVms(dep[d].stack)
    /\ dep[d].stack = None /\ dep[d].pc # "new" =>
         \E v \in Vms : StackOf[v] = None /\ dep[d].mine = {v}
    /\ dep[d].pc = "new" => dep[d].stack = None
    /\ dep[d].pc \in {"sweep", "insert", "note", "release"} => dep[d].todo \subseteq dep[d].mine
    /\ dep[d].pc \in {"insert", "note"} => dep[d].vm \in dep[d].todo
    /\ dep[d].pc \in {"note", "rollback", "sync"} \cup Destroying => dep[d].stack # None
    /\ dep[d].pc = "free" => dep[d].stack = None

\* What a row says fits the VM and the deployment it names.
RowsFit ==
  \A i \in Ips : alloc[i] # None =>
    /\ alloc[i].vm # None => IpOf[alloc[i].vm] = i
    /\ alloc[i].note # None => IpOf[alloc[i].note] = i
    /\ alloc[i].status = "pending" => alloc[i].dep # None
    /\ alloc[i].dep # None => dep[alloc[i].dep].pc # "new"

\* Between tofu destroy and the release of its addresses nothing of the stack exists.
GoneBeforeRelease ==
  \A d \in Deps : At(d, "release") => dep[d].mine \cap live = {}

\* The invariant that holds whatever fails.
IInv == TypeOK /\ OneRun /\ DepsShaped /\ RowsFit /\ GoneBeforeRelease

-----------------------------------------------------------------------------
(***************************************************************************)
(* What holds besides when hooks and server do not fail.                   *)
(***************************************************************************)
HooksWork == Faults \cap {"crash", "db"} = {}

\* Deployment d will settle the rows it has reserved.
Settling(d) ==
  /\ dep[d].pc \in Reserving \cup Applying
  /\ dep[d].stack = None => dep[d].pc \in {"apply", "confirm", "free"}

\* A pending row belongs to a deployment that will settle it.
PendingInRun == \A i \in Ips : Holds(i, {"pending"}) => Settling(alloc[i].dep)

-----------------------------------------------------------------------------
(***************************************************************************)
(* What holds besides when nothing fails, the IPAM is switched on first    *)
(* and nobody releases addresses in use.                                   *)
(***************************************************************************)
Undisturbed == Faults = {} /\ Uses \cap {"toggle", "blind"} = {}

\* The row of address i was reserved for VM v.
ReservedFor(i, v) ==
  /\ alloc[i] # None /\ alloc[i].dep # None
  /\ IF dep[alloc[i].dep].stack # None THEN alloc[i].note = v
     ELSE dep[alloc[i].dep].mine = {v}

\* Deployment d has its reservation for v.
Reserved(d, v) ==
  Holds(IpOf[v], {"pending"}) /\ alloc[IpOf[v]].dep = d /\ ReservedFor(IpOf[v], v)

\* The address of v is kept for it.
Protected(v) ==
  /\ ReservedFor(IpOf[v], v)
  /\ alloc[IpOf[v]].status = "pending" =>
       /\ dep[alloc[IpOf[v]].dep].pc \in {"sync", "confirm"}
       /\ v \in dep[alloc[IpOf[v]].dep].mine

\* Every VM that exists has its address; every deployment has reserved what it is
\* about to build, and what it has come by so far before that.
LiveProtected == on => \A v \in live : Protected(v)

SoFar(d) ==
  /\ dep[d].pc \in {"sweep", "insert", "note"} =>
       \A v \in dep[d].mine \ dep[d].todo : Reserved(d, v)
  /\ At(d, "note") => LET i == IpOf[dep[d].vm] IN
       Holds(i, {"pending"}) /\ alloc[i].dep = d /\ alloc[i].note = None
  /\ on /\ dep[d].pc \in {"apply", "sync", "confirm"} =>
       \A v \in dep[d].mine : Reserved(d, v)

ReservedSoFar == \A d \in Deps : SoFar(d)

\* A row that names a VM was reserved for it, and no pending row has expired.
RowsTrue ==
  \A i \in Ips : alloc[i] # None =>
    /\ alloc[i].vm # None => ReservedFor(i, alloc[i].vm)
    /\ alloc[i].status = "pending" => ~alloc[i].expired

\* tofu's state has every VM of a stack, and a deployment about to confirm has
\* recorded them; no VM is older than the first deployment.
StateComplete ==
  /\ \A v \in live : StackOf[v] # None => v \in state
  /\ \A d \in Deps : At(d, "confirm") /\ dep[d].stack # None =>
       \A v \in dep[d].mine \cap state : tracked[v] = d
  /\ (\A d \in Deps : At(d, "new")) => live = {}

Quiet == PendingInRun /\ LiveProtected /\ ReservedSoFar /\ RowsTrue /\ StateComplete

-----------------------------------------------------------------------------
(***************************************************************************)
(* The record of a deployment, field by field.                             *)
(***************************************************************************)
PCs == {"new", "done"} \cup Running

\* Deployment d becomes the record r; the others stay.
LEMMA DepBecomes ==
  ASSUME dep \in [Deps -> Dep], NEW d \in Deps, NEW r \in Dep,
         dep' = [dep EXCEPT ![d] = r]
  PROVE  /\ dep' \in [Deps -> Dep]
         /\ dep'[d] = r
         /\ \A e \in Deps \ {d} : dep'[e] = dep[e]
  OBVIOUS

\* Deployment d goes on; nothing but its point changes.
Moves(d, c) ==
  /\ dep' \in [Deps -> Dep]
  /\ \A e \in Deps \ {d} : dep'[e] = dep[e]
  /\ dep'[d].pc = c
  /\ dep'[d].stack = dep[d].stack
  /\ dep'[d].mine = dep[d].mine

\* Goto moves a deployment on and leaves the work it has at hand.
LEMMA GotoMoves ==
  ASSUME dep \in [Deps -> Dep], NEW d \in Deps, NEW c \in PCs, Goto(d, c)
  PROVE  Moves(d, c) /\ dep'[d].todo = dep[d].todo /\ dep'[d].vm = dep[d].vm
<1> DEFINE r == [dep[d] EXCEPT !.pc = c]
<1>1. r \in Dep
  BY DEF Dep, PCs
<1>2. r.pc = c /\ r.stack = dep[d].stack /\ r.mine = dep[d].mine
        /\ r.todo = dep[d].todo /\ r.vm = dep[d].vm
  BY DEF Dep
<1>3. dep' = [dep EXCEPT ![d] = r]
  BY DEF Goto
<1> HIDE DEF r
<1> QED
  BY <1>1, <1>2, <1>3, DepBecomes DEF Moves

\* The same for the steps that change the work at hand as well.
LEMMA WorkMoves ==
  ASSUME dep \in [Deps -> Dep], NEW d \in Deps, NEW c \in PCs,
         NEW t \in SUBSET Vms, NEW w \in Vms \cup {None},
         dep' = [dep EXCEPT ![d] = [dep[d] EXCEPT !.pc = c, !.todo = t, !.vm = w]]
  PROVE  Moves(d, c) /\ dep'[d].todo = t /\ dep'[d].vm = w
<1> DEFINE r == [dep[d] EXCEPT !.pc = c, !.todo = t, !.vm = w]
<1>1. r \in Dep
  BY DEF Dep, PCs
<1>2. r.pc = c /\ r.stack = dep[d].stack /\ r.mine = dep[d].mine
        /\ r.todo = t /\ r.vm = w
  BY DEF Dep
<1>3. dep' = [dep EXCEPT ![d] = r]
  OBVIOUS
<1> HIDE DEF r
<1> QED
  BY <1>1, <1>2, <1>3, DepBecomes DEF Moves

\* A deployment, job or destroy that begins.
LEMMA BeginFields ==
  ASSUME dep \in [Deps -> Dep], NEW d \in Deps, NEW c \in PCs, NEW s \in Stacks \cup {None},
         NEW m \in SUBSET Vms, NEW t \in SUBSET Vms,
         dep' = [dep EXCEPT ![d] = [pc |-> c, stack |-> s, mine |-> m, todo |-> t, vm |-> None]]
  PROVE  /\ dep' \in [Deps -> Dep]
         /\ \A e \in Deps \ {d} : dep'[e] = dep[e]
         /\ dep'[d].pc = c /\ dep'[d].stack = s /\ dep'[d].mine = m /\ dep'[d].todo = t
<1> DEFINE r == [pc |-> c, stack |-> s, mine |-> m, todo |-> t, vm |-> None]
<1>1. r \in Dep
  BY DEF Dep, PCs
<1>2. r.pc = c /\ r.stack = s /\ r.mine = m /\ r.todo = t
  OBVIOUS
<1>3. dep' = [dep EXCEPT ![d] = r]
  OBVIOUS
<1> HIDE DEF r
<1> QED
  BY <1>1, <1>2, <1>3, DepBecomes
-----------------------------------------------------------------------------
(***************************************************************************)
(* What a step may do to the deployments: one begins, one goes on, all     *)
(* that run end, or nothing.                                               *)
(***************************************************************************)
Others(d) == dep' \in [Deps -> Dep] /\ \A e \in Deps \ {d} : dep'[e] = dep[e]

Begins(d) ==
  /\ At(d, "new") /\ Others(d)
  /\ dep'[d].pc \in {"sweep", "apply", "destroy"}
  /\ dep'[d].todo \subseteq dep'[d].mine
  /\ \/ \E s \in Stacks : /\ StackFree(s)
                          /\ dep'[d].stack = s /\ dep'[d].mine = StackVms(s)
     \/ /\ dep'[d].stack = None /\ dep'[d].pc # "destroy"
        /\ \E v \in Vms : StackOf[v] = None /\ dep'[d].mine = {v}

GoesOn(d) ==
  /\ InRun(d) /\ Moves(d, dep'[d].pc)
  /\ dep'[d].pc \in Running \cup {"done"}
  /\ dep'[d].pc \in {"sweep", "insert", "note", "release"} => dep'[d].todo \subseteq dep[d].mine
  /\ dep'[d].pc \in {"insert", "note"} => dep'[d].vm \in dep'[d].todo
  /\ dep'[d].pc \in {"note", "rollback", "sync"} \cup Destroying => dep[d].stack # None
  /\ dep'[d].pc = "free" => dep[d].stack = None
  /\ dep'[d].pc = "release" => dep[d].pc = "release" \/ dep[d].mine \cap live' = {}

AllEnd ==
  /\ dep' \in [Deps -> Dep]
  /\ \A d \in Deps : IF InRun(d)
       THEN dep'[d].pc = "done" /\ dep'[d].stack = dep[d].stack /\ dep'[d].mine = dep[d].mine
       ELSE dep'[d] = dep[d]

DepStep == UNCHANGED dep \/ AllEnd \/ \E d \in Deps : Begins(d) \/ GoesOn(d)

\* A step that only moves d to c is one of these.
LEMMA GotoStep ==
  ASSUME TypeOK, DepsShaped, NEW d \in Deps, InRun(d), NEW c \in Running \cup {"done"}, Goto(d, c),
         c \notin {"sweep", "insert", "release"},
         c = "note" => dep[d].pc = "insert",
         c \in {"note", "rollback", "sync"} \cup Destroying => dep[d].stack # None,
         c = "free" => dep[d].stack = None
  PROVE  GoesOn(d)
<1>1. dep \in [Deps -> Dep] /\ c \in PCs
  BY DEF TypeOK, PCs
<1>2. Moves(d, c) /\ dep'[d].todo = dep[d].todo /\ dep'[d].vm = dep[d].vm
  BY <1>1, GotoMoves
<1>3. dep'[d].pc = c
  BY <1>2 DEF Moves
<1>4. c = "note" => dep[d].todo \subseteq dep[d].mine /\ dep[d].vm \in dep[d].todo
  BY DEF DepsShaped
<1> QED
  BY <1>2, <1>3, <1>4 DEF GoesOn

\* Every step is one of these.
LEMMA StepDep == TypeOK /\ DepsShaped /\ Next => DepStep
<1>0. SUFFICES ASSUME TypeOK, DepsShaped, Next PROVE DepStep
  OBVIOUS
<1>a. dep \in [Deps -> Dep] /\ \A d \in Deps : dep[d].mine \in SUBSET Vms /\ dep[d].todo \in SUBSET Vms
                                            /\ dep[d].vm \in Vms \cup {None}
  BY <1>0 DEF TypeOK, Dep
<1>b. {"sweep", "insert", "note", "rollback", "apply", "sync", "confirm", "free",
       "destroy", "resync", "release", "done"} \subseteq PCs
  BY DEF PCs, Running, Reserving, Applying, Destroying
<1>c. ASSUME NEW c \in Reserving \cup Applying \cup Destroying, NEW d \in Deps, At(d, c)
      PROVE  InRun(d)
  BY <1>c DEF At, InRun, Running
<1>1. ASSUME NEW d \in Deps, NEW s \in Stacks, DeployStart(d, s) PROVE DepStep
  <2> DEFINE c == IF on THEN "sweep" ELSE "apply"
  <2>1. StackVms(s) \in SUBSET Vms /\ c \in PCs
    BY <1>b DEF StackVms
  <2>2. dep' = [dep EXCEPT ![d] = [pc |-> c, stack |-> s, mine |-> StackVms(s),
                                   todo |-> StackVms(s), vm |-> None]]
    BY <1>1 DEF DeployStart
  <2>3. /\ Others(d)
        /\ dep'[d].pc = c /\ dep'[d].stack = s
        /\ dep'[d].mine = StackVms(s) /\ dep'[d].todo = StackVms(s)
    <3> HIDE DEF c
    <3> QED
      BY <1>a, <2>1, <2>2, BeginFields DEF Others
  <2> QED
    BY <1>1, <2>3 DEF DeployStart, Begins, DepStep
<1>2. ASSUME NEW d \in Deps, NEW v \in Vms, JobStart(d, v) PROVE DepStep
  <2> DEFINE c == IF on THEN "sweep" ELSE "apply"
  <2>1. {v} \in SUBSET Vms /\ c \in PCs
    BY <1>b
  <2>2. dep' = [dep EXCEPT ![d] = [pc |-> c, stack |-> None, mine |-> {v},
                                   todo |-> {v}, vm |-> None]]
    BY <1>2 DEF JobStart
  <2>3. /\ Others(d)
        /\ dep'[d].pc = c /\ dep'[d].stack = None
        /\ dep'[d].mine = {v} /\ dep'[d].todo = {v}
    <3> HIDE DEF c
    <3> QED
      BY <1>a, <2>1, <2>2, BeginFields DEF Others
  <2> QED
    BY <1>2, <2>3 DEF JobStart, Begins, DepStep
<1>3. ASSUME NEW d \in Deps, NEW v \in Vms, ReserveSweep(d, v) PROVE DepStep
  <2>1. Moves(d, "insert") /\ dep'[d].todo = dep[d].todo /\ dep'[d].vm = v
    <3> DEFINE r == [dep[d] EXCEPT !.pc = "insert", !.vm = v]
    <3>1. r \in Dep
      BY <1>a, <1>b DEF Dep, PCs
    <3>2. r.pc = "insert" /\ r.stack = dep[d].stack /\ r.mine = dep[d].mine
            /\ r.todo = dep[d].todo /\ r.vm = v
      BY <1>a DEF Dep
    <3>3. dep' = [dep EXCEPT ![d] = r]
      BY <1>3 DEF ReserveSweep
    <3> HIDE DEF r
    <3> QED
      BY <1>a, <3>1, <3>2, <3>3, DepBecomes DEF Moves
  <2>2. GoesOn(d)
    BY <1>0, <1>3, <2>1 DEF ReserveSweep, GoesOn, Moves, DepsShaped, At, InRun, Running,
       Reserving, Destroying
  <2> QED
    BY <2>2 DEF DepStep
<1>4. ASSUME NEW d \in Deps, NEW vm \in Vms \cup {None}, ReserveInsert(d, vm) PROVE DepStep
  <2>1. InRun(d) /\ Goto(d, IF dep[d].stack = None THEN "apply" ELSE "note")
    BY <1>4, <1>c DEF ReserveInsert, Reserving
  <2>2. GoesOn(d)
    <3>1. CASE dep[d].stack = None
      BY <1>0, <2>1, <3>1, GotoStep DEF Running, Applying, Destroying
    <3>2. CASE dep[d].stack # None
      BY <1>0, <1>4, <2>1, <3>2, GotoStep DEF ReserveInsert, At, Running, Reserving
    <3> QED
      BY <3>1, <3>2
  <2> QED
    BY <2>2 DEF DepStep
<1>5. ASSUME NEW d \in Deps, ReserveConflict(d) PROVE DepStep
  <2>1. InRun(d) /\ Goto(d, IF dep[d].stack = None THEN "done" ELSE "rollback")
    BY <1>5, <1>c DEF ReserveConflict, Reserving
  <2>2. GoesOn(d)
    <3>1. CASE dep[d].stack = None
      BY <1>0, <2>1, <3>1, GotoStep DEF Running, Applying, Destroying
    <3>2. CASE dep[d].stack # None
      BY <1>0, <2>1, <3>2, GotoStep DEF Running, Reserving
    <3> QED
      BY <3>1, <3>2
  <2> QED
    BY <2>2 DEF DepStep
<1>6. ASSUME NEW d \in Deps, SetNote(d) PROVE DepStep
  <2> DEFINE c == IF dep[d].todo = {dep[d].vm} THEN "apply" ELSE "sweep"
             w == dep[d].todo \ {dep[d].vm}
  <2>1. c \in PCs /\ w \in SUBSET Vms
    BY <1>a, <1>b
  <2>2. dep' = [dep EXCEPT ![d] = [dep[d] EXCEPT !.pc = c, !.todo = w, !.vm = dep[d].vm]]
    BY <1>a, <1>6 DEF SetNote, Dep
  <2>3. Moves(d, c) /\ dep'[d].todo = w
    <3> HIDE DEF c, w
    <3> QED
      BY <1>a, <2>1, <2>2, WorkMoves
  <2>4. GoesOn(d)
    BY <1>0, <1>6, <2>3 DEF SetNote, GoesOn, Moves, DepsShaped, At, InRun, Running,
       Reserving, Applying, Destroying
  <2> QED
    BY <2>4 DEF DepStep
<1>7. ASSUME NEW d \in Deps, ReserveSwallowed(d) PROVE DepStep
  <2>1. InRun(d) /\ Goto(d, "apply")
    BY <1>7, <1>c DEF ReserveSwallowed, At, Reserving, Applying, Destroying
  <2> QED
    BY <1>0, <1>7, <2>1, GotoStep DEF ReserveSwallowed, DepStep, At, DepsShaped, Running, Reserving, Applying, Destroying
<1>8. ASSUME NEW d \in Deps, Rollback(d) PROVE DepStep
  <2>1. InRun(d) /\ Goto(d, "done")
    BY <1>8, <1>c DEF Rollback, At, Reserving, Applying, Destroying
  <2> QED
    BY <1>0, <1>8, <2>1, GotoStep DEF Rollback, DepStep, At, DepsShaped, Running, Reserving, Applying, Destroying
<1>9. ASSUME NEW d \in Deps, Apply(d) PROVE DepStep
  <2>1. InRun(d) /\ Goto(d, "sync")
    BY <1>9, <1>c DEF Apply, At, Reserving, Applying, Destroying
  <2> QED
    BY <1>0, <1>9, <2>1, GotoStep DEF Apply, DepStep, At, DepsShaped, Running, Reserving, Applying, Destroying
<1>10. ASSUME NEW d \in Deps, Play(d) PROVE DepStep
  <2>1. InRun(d) /\ (Goto(d, "confirm") \/ Goto(d, "free"))
    BY <1>10, <1>c DEF Play, At, Applying
  <2> QED
    BY <1>0, <1>10, <2>1, GotoStep DEF Play, DepStep, Running, Reserving, Applying, Destroying
<1>11. ASSUME NEW d \in Deps, Sync(d) PROVE DepStep
  <2>1. InRun(d) /\ Goto(d, "confirm")
    BY <1>11, <1>c DEF Sync, At, Reserving, Applying, Destroying
  <2> QED
    BY <1>0, <1>11, <2>1, GotoStep DEF Sync, DepStep, At, DepsShaped, Running, Reserving, Applying, Destroying
<1>12. ASSUME NEW d \in Deps, ConfirmStack(d) PROVE DepStep
  <2>1. InRun(d) /\ Goto(d, "done")
    BY <1>12, <1>c DEF ConfirmStack, At, Reserving, Applying, Destroying
  <2> QED
    BY <1>0, <1>12, <2>1, GotoStep DEF ConfirmStack, DepStep, At, DepsShaped, Running, Reserving, Applying, Destroying
<1>13. ASSUME NEW d \in Deps, ConfirmJob(d) PROVE DepStep
  <2>1. InRun(d) /\ Goto(d, "done")
    BY <1>13, <1>c DEF ConfirmJob, At, Reserving, Applying, Destroying
  <2> QED
    BY <1>0, <1>13, <2>1, GotoStep DEF ConfirmJob, DepStep, At, DepsShaped, Running, Reserving, Applying, Destroying
<1>14. ASSUME NEW d \in Deps, FreeJob(d) PROVE DepStep
  <2>1. InRun(d) /\ Goto(d, "done")
    BY <1>14, <1>c DEF FreeJob, At, Reserving, Applying, Destroying
  <2> QED
    BY <1>0, <1>14, <2>1, GotoStep DEF FreeJob, DepStep, At, DepsShaped, Running, Reserving, Applying, Destroying
<1>15. ASSUME NEW d \in Deps, HookFailed(d) PROVE DepStep
  <2>1. InRun(d) /\ Goto(d, "done")
    BY <1>15, <1>c DEF HookFailed, At, Reserving, Applying, Destroying
  <2> QED
    BY <1>0, <1>15, <2>1, GotoStep DEF HookFailed, DepStep, At, DepsShaped, Running, Reserving, Applying, Destroying
<1>16. ASSUME NEW d \in Deps, NEW s \in Stacks, DestroyStart(d, s) PROVE DepStep
  <2> DEFINE w == {}
  <2>1. StackVms(s) \in SUBSET Vms /\ w \in SUBSET Vms /\ "destroy" \in PCs
    BY <1>b DEF StackVms
  <2>2. dep' = [dep EXCEPT ![d] = [pc |-> "destroy", stack |-> s, mine |-> StackVms(s),
                                   todo |-> w, vm |-> None]]
    BY <1>16 DEF DestroyStart
  <2>3. /\ Others(d)
        /\ dep'[d].pc = "destroy" /\ dep'[d].stack = s
        /\ dep'[d].mine = StackVms(s) /\ dep'[d].todo = w
    <3> HIDE DEF w
    <3> QED
      BY <1>a, <2>1, <2>2, BeginFields DEF Others
  <2> QED
    BY <1>16, <2>3 DEF DestroyStart, Begins, DepStep
<1>17. ASSUME NEW d \in Deps, DestroyTofu(d) PROVE DepStep
  <2>1. InRun(d) /\ dep[d].stack # None
    BY <1>0, <1>17, <1>c DEF DestroyTofu, At, DepsShaped, Destroying
  <2>2. CASE Goto(d, "resync")
    BY <1>0, <2>1, <2>2, GotoStep DEF DepStep, Running, Reserving, Applying, Destroying
  <2>3. CASE ~Goto(d, "resync")
    <3> DEFINE w == {v \in dep[d].mine : tracked[v] # None}
    <3>1. w \in SUBSET Vms /\ w \subseteq dep[d].mine
      BY <1>a
    <3>2. dep' = [dep EXCEPT ![d] = [dep[d] EXCEPT !.pc = "release", !.todo = w, !.vm = dep[d].vm]]
      BY <1>a, <1>17, <2>3 DEF DestroyTofu, Dep
    <3>3. Moves(d, "release") /\ dep'[d].todo = w
      <4> HIDE DEF w
      <4> QED
        BY <1>a, <1>b, <3>1, <3>2, WorkMoves
    <3> HIDE DEF w
    <3>4. dep[d].mine \cap live' = {}
      BY <1>17, <2>3 DEF DestroyTofu
    <3>5. GoesOn(d)
      BY <2>1, <3>1, <3>3, <3>4 DEF GoesOn, Moves, Running, Destroying
    <3> QED
      BY <3>5 DEF DepStep
  <2> QED
    BY <2>2, <2>3
<1>18. ASSUME NEW d \in Deps, Resync(d) PROVE DepStep
  <2>1. InRun(d) /\ Goto(d, "done")
    BY <1>18, <1>c DEF Resync, At, Reserving, Applying, Destroying
  <2> QED
    BY <1>0, <1>18, <2>1, GotoStep DEF Resync, DepStep, At, DepsShaped, Running, Reserving, Applying, Destroying
<1>19. ASSUME NEW d \in Deps, NEW v \in Vms, ReleaseVm(d, v) PROVE DepStep
  <2> DEFINE w == dep[d].todo \ {v}
  <2>1. InRun(d) /\ dep[d].stack # None /\ dep[d].todo \subseteq dep[d].mine /\ dep[d].pc = "release"
    BY <1>0, <1>19, <1>c DEF ReleaseVm, At, DepsShaped, Destroying
  <2>2. dep' = [dep EXCEPT ![d] = [dep[d] EXCEPT !.pc = "release", !.todo = w, !.vm = dep[d].vm]]
    BY <1>a, <1>19 DEF ReleaseVm, At, Dep
  <2>3. w \in SUBSET Vms /\ w \subseteq dep[d].mine
    BY <1>a, <2>1
  <2> HIDE DEF w
  <2>4. Moves(d, "release") /\ dep'[d].todo = w
    BY <1>a, <1>b, <2>2, <2>3, WorkMoves
  <2>5. GoesOn(d)
    BY <2>1, <2>3, <2>4 DEF GoesOn, Moves, Running, Destroying
  <2> QED
    BY <2>5 DEF DepStep
<1>20. ASSUME NEW d \in Deps, ClearTracked(d) PROVE DepStep
  <2>1. InRun(d) /\ Goto(d, "done")
    BY <1>20, <1>c DEF ClearTracked, At, Reserving, Applying, Destroying
  <2> QED
    BY <1>0, <1>20, <2>1, GotoStep DEF ClearTracked, DepStep, At, DepsShaped, Running, Reserving, Applying, Destroying
<1>21. ASSUME Outside PROVE DepStep
  <2>1. CASE Crash
    <3>1. \A d \in Deps : InRun(d) =>
            /\ [dep[d] EXCEPT !.pc = "done"] \in Dep
            /\ [dep[d] EXCEPT !.pc = "done"].pc = "done"
            /\ [dep[d] EXCEPT !.pc = "done"].stack = dep[d].stack
            /\ [dep[d] EXCEPT !.pc = "done"].mine = dep[d].mine
      BY <1>0 DEF TypeOK, Dep
    <3>2. dep' = [d \in Deps |-> IF InRun(d) THEN [dep[d] EXCEPT !.pc = "done"] ELSE dep[d]]
      BY <2>1 DEF Crash
    <3>3. AllEnd
      BY <1>a, <3>1, <3>2 DEF AllEnd
    <3> QED
      BY <3>3 DEF DepStep
  <2>2. CASE ~Crash
    BY <1>21, <2>2 DEF Outside, DepStep, DeleteVm, Vanish, RefreshRead, RefreshApply, Expire,
       AddManual, ReleaseById, ReleaseOrphans, Sweep, Toggle
  <2> QED
    BY <2>1, <2>2
<1> QED
  BY <1>0, <1>1, <1>2, <1>3, <1>4, <1>5, <1>6, <1>7, <1>8, <1>9, <1>10, <1>11, <1>12, <1>13,
     <1>14, <1>15, <1>16, <1>17, <1>18, <1>19, <1>20, <1>21
     DEF Next, Reserve, Settle, Destroy

\* A run keeps its stack: the lock of a stack is held by at most one run.
LEMMA OneRunStep == TypeOK /\ OneRun /\ DepStep => OneRun'
<1>0. SUFFICES ASSUME TypeOK, OneRun, DepStep,
                      NEW d \in Deps, NEW e \in Deps, InRun(d)', InRun(e)',
                      dep'[d].stack # None, dep'[d].stack = dep'[e].stack
               PROVE  d = e
  BY DEF OneRun
<1>1. CASE UNCHANGED dep
  BY <1>0, <1>1 DEF OneRun, InRun
<1>2. CASE AllEnd
  <2>1. ~InRun(d)'
    BY <1>2 DEF AllEnd, InRun, Running, Reserving, Applying, Destroying
  <2> QED
    BY <1>0, <2>1
<1>3. ASSUME NEW f \in Deps, Begins(f) PROVE d = e
  <2>1. \A g \in Deps : g # f => dep'[g] = dep[g]
    BY <1>3 DEF Begins, Others
  <2>2. CASE d = f /\ e # f
    <3>1. StackFree(dep'[f].stack)
      BY <1>0, <1>3, <2>2 DEF Begins
    <3> QED
      BY <1>0, <2>1, <2>2, <3>1 DEF StackFree, InRun
  <2>3. CASE e = f /\ d # f
    <3>1. StackFree(dep'[f].stack)
      BY <1>0, <1>3, <2>3 DEF Begins
    <3> QED
      BY <1>0, <2>1, <2>3, <3>1 DEF StackFree, InRun
  <2>4. CASE d # f /\ e # f
    BY <1>0, <2>1, <2>4 DEF OneRun, InRun
  <2> QED
    BY <2>2, <2>3, <2>4
<1>4. ASSUME NEW f \in Deps, GoesOn(f) PROVE d = e
  <2>1. \A g \in Deps : dep'[g].stack = dep[g].stack /\ (InRun(g)' => InRun(g))
    BY <1>4 DEF GoesOn, Moves, InRun
  <2> QED
    BY <1>0, <2>1 DEF OneRun
<1> QED
  BY <1>0, <1>1, <1>2, <1>3, <1>4 DEF DepStep

\* The record of a deployment keeps its shape.
LEMMA ShapeStep == TypeOK /\ DepsShaped /\ DepStep => DepsShaped'
<1>0. SUFFICES ASSUME TypeOK, DepsShaped, DepStep PROVE DepsShaped'
  OBVIOUS
<1>a. ASSUME NEW d \in Deps, dep'[d] = dep[d]
      PROVE  /\ dep'[d].stack # None => dep'[d].mine = StackVms(dep'[d].stack)
             /\ dep'[d].stack = None /\ dep'[d].pc # "new" =>
                  \E v \in Vms : StackOf[v] = None /\ dep'[d].mine = {v}
             /\ dep'[d].pc = "new" => dep'[d].stack = None
             /\ dep'[d].pc \in {"sweep", "insert", "note", "release"} => dep'[d].todo \subseteq dep'[d].mine
             /\ dep'[d].pc \in {"insert", "note"} => dep'[d].vm \in dep'[d].todo
             /\ dep'[d].pc \in {"note", "rollback", "sync"} \cup Destroying => dep'[d].stack # None
             /\ dep'[d].pc = "free" => dep'[d].stack = None
  BY <1>0, <1>a DEF DepsShaped
<1>1. CASE UNCHANGED dep
  BY <1>0, <1>1 DEF DepsShaped, StackVms
<1>2. CASE AllEnd
  <2>1. ASSUME NEW d \in Deps, InRun(d)
        PROVE  /\ dep'[d].pc = "done" /\ dep[d].pc # "new"
               /\ dep'[d].stack = dep[d].stack /\ dep'[d].mine = dep[d].mine
    BY <1>2, <2>1 DEF AllEnd, InRun, Running, Reserving, Applying, Destroying
  <2>2. ASSUME NEW d \in Deps, ~InRun(d) PROVE dep'[d] = dep[d]
    BY <1>2, <2>2 DEF AllEnd
  <2> QED
    BY <1>0, <1>a, <2>1, <2>2 DEF DepsShaped, Destroying
<1>3. ASSUME NEW f \in Deps, Begins(f) PROVE DepsShaped'
  <2>1. \A g \in Deps : g # f => dep'[g] = dep[g]
    BY <1>3 DEF Begins, Others
  <2>2. \A s \in Stacks : s # None
    BY IpamAssumption
  <2> QED
    BY <1>a, <1>3, <2>1, <2>2 DEF Begins, DepsShaped, Destroying
<1>4. ASSUME NEW f \in Deps, GoesOn(f) PROVE DepsShaped'
  <2>1. \A g \in Deps : g # f => dep'[g] = dep[g]
    BY <1>4 DEF GoesOn, Moves
  <2>2. /\ dep'[f].stack = dep[f].stack /\ dep'[f].mine = dep[f].mine
        /\ dep[f].pc # "new" /\ dep'[f].pc # "new"
    BY <1>4 DEF GoesOn, Moves, InRun, Running, Reserving, Applying, Destroying
  <2> QED
    BY <1>0, <1>a, <1>4, <2>1, <2>2 DEF GoesOn, DepsShaped
<1> QED
  BY <1>0, <1>1, <1>2, <1>3, <1>4 DEF DepStep

\* A deployment that has begun has begun for good, with its stack and VMs.
LEMMA KeptMine ==
  ASSUME DepStep, NEW d \in Deps, dep[d].pc # "new"
  PROVE  dep'[d].pc # "new" /\ dep'[d].stack = dep[d].stack /\ dep'[d].mine = dep[d].mine
<1>1. CASE UNCHANGED dep
  BY <1>1
<1>2. CASE AllEnd
  BY <1>2 DEF AllEnd
<1>3. ASSUME NEW f \in Deps, Begins(f) PROVE dep'[d] = dep[d]
  BY <1>3 DEF Begins, Others, At
<1>4. ASSUME NEW f \in Deps, GoesOn(f)
      PROVE  dep'[d].pc # "new" /\ dep'[d].stack = dep[d].stack /\ dep'[d].mine = dep[d].mine
  <2>1. CASE d = f
    BY <1>4, <2>1 DEF GoesOn, Moves, Running, Reserving, Applying, Destroying
  <2>2. CASE d # f
    BY <1>4, <2>2 DEF GoesOn, Moves
  <2> QED
    BY <2>1, <2>2
<1> QED
  BY <1>1, <1>2, <1>3, <1>4 DEF DepStep
-----------------------------------------------------------------------------
(***************************************************************************)
(* What a step may do to a row: nothing, enter, edit or free it.           *)
(***************************************************************************)
AllocType == alloc \in [Ips -> Row \cup {None}]

Entered(i) ==
  /\ alloc[i] = None /\ alloc'[i] \in Row /\ alloc'[i].note = None
  /\ alloc'[i].vm # None => IpOf[alloc'[i].vm] = i
  /\ \/ alloc'[i].status = "confirmed" /\ alloc'[i].dep = None
     \/ alloc'[i].status = "pending" /\ alloc'[i].dep \in Deps /\ At(alloc'[i].dep, "insert")

Edited(i) ==
  /\ alloc[i] # None /\ alloc'[i] \in Row /\ alloc'[i].dep = alloc[i].dep
  /\ alloc'[i].status = "pending" => alloc[i].status = "pending"
  /\ alloc'[i].note = alloc[i].note \/ IpOf[alloc'[i].note] = i
  /\ \/ alloc'[i].vm = alloc[i].vm
     \/ alloc[i].status = "pending" /\ alloc'[i].vm = alloc[i].note

Freed(i) ==
  /\ alloc[i] # None /\ alloc'[i] = None
  /\ \/ alloc[i].status = "pending"
     \/ Unused(i) \/ "blind" \in Uses
     \/ alloc[i].vm \notin live'
     \/ \E d \in Deps : At(d, "release") /\ alloc[i].vm \in dep[d].mine

RowsStep ==
  /\ AllocType'
  /\ \A i \in Ips : alloc'[i] = alloc[i] \/ Entered(i) \/ Edited(i) \/ Freed(i)

\* A DELETE frees the rows it names and no other.
LEMMA Deleted ==
  ASSUME AllocType, NEW I \in SUBSET Ips, alloc' = Without(I)
  PROVE  /\ AllocType'
         /\ \A i \in I : alloc'[i] = None
         /\ \A i \in Ips \ I : alloc'[i] = alloc[i]
BY DEF AllocType, Without

\* A DELETE of pending rows, as the sweep, a rollback and a failed job make it.
LEMMA PendingDeleted ==
  ASSUME AllocType, NEW I \in SUBSET Ips, \A i \in I : Holds(i, {"pending"}), alloc' = Without(I)
  PROVE  RowsStep
<1>1. /\ AllocType'
      /\ \A i \in I : alloc'[i] = None
      /\ \A i \in Ips \ I : alloc'[i] = alloc[i]
  BY Deleted
<1> QED
  BY <1>1 DEF RowsStep, Freed, Holds

\* The lazy sweep deletes pending rows only.
LEMMA SweepDeletes == AllocType /\ alloc' = Swept => RowsStep
<1> DEFINE I == {i \in Ips : Holds(i, {"pending"}) /\ alloc[i].expired}
<1>1. I \in SUBSET Ips /\ \A i \in I : Holds(i, {"pending"})
  OBVIOUS
<1>2. ASSUME AllocType, alloc' = Without(I) PROVE RowsStep
  <2> HIDE DEF I
  <2> QED
    BY <1>1, <1>2, PendingDeleted
<1> QED
  BY <1>2 DEF Swept

\* Every step does one of these to a row.
LEMMA StepRows == TypeOK /\ DepsShaped /\ Next => RowsStep
<1>0. SUFFICES ASSUME TypeOK, DepsShaped, Next PROVE RowsStep
  OBVIOUS
<1>a. AllocType /\ dep \in [Deps -> Dep]
  BY <1>0 DEF TypeOK, AllocType
<1>1. CASE UNCHANGED alloc
  BY <1>a, <1>1 DEF RowsStep, AllocType
<1>2. ASSUME NEW d \in Deps, NEW v \in Vms, ReserveSweep(d, v) PROVE RowsStep
  BY <1>a, <1>2, SweepDeletes DEF ReserveSweep
<1>3. ASSUME NEW d \in Deps, NEW vm \in Vms \cup {None}, ReserveInsert(d, vm) PROVE RowsStep
  <2> DEFINE i == IpOf[dep[d].vm]
             r == [status |-> "pending", dep |-> d, vm |-> vm, note |-> None, expired |-> FALSE]
  <2>1. dep[d].vm \in Vms /\ i \in Ips
    BY <1>0, <1>3, IpamAssumption DEF ReserveInsert, At, DepsShaped, TypeOK, Dep
  <2>2. r \in Row /\ r.status = "pending" /\ r.dep = d /\ r.vm = vm /\ r.note = None
    BY DEF Row
  <2>3. vm # None => IpOf[vm] = i
    BY <1>3 DEF ReserveInsert
  <2>4. alloc[i] = None /\ alloc' = [alloc EXCEPT ![i] = r] /\ At(d, "insert")
    BY <1>3 DEF ReserveInsert
  <2> HIDE DEF i, r
  <2>5. AllocType' /\ alloc'[i] = r /\ \A j \in Ips : j # i => alloc'[j] = alloc[j]
    BY <1>a, <2>1, <2>2, <2>4 DEF AllocType
  <2> QED
    BY <2>1, <2>2, <2>3, <2>4, <2>5 DEF RowsStep, Entered
<1>4. ASSUME NEW d \in Deps, SetNote(d) PROVE RowsStep
  <2> DEFINE v == dep[d].vm
             i == IpOf[v]
             r == [alloc[i] EXCEPT !.note = v]
  <2>1. v \in Vms /\ i \in Ips
    BY <1>0, <1>4, IpamAssumption DEF SetNote, At, DepsShaped, TypeOK, Dep
  <2>2. CASE i \in PendingOf(d)
    <3>1. alloc[i] \in Row /\ alloc[i] # None
      BY <1>a, <2>2 DEF PendingOf, Holds, AllocType
    <3>2. /\ r \in Row /\ r.note = v /\ r.dep = alloc[i].dep /\ r.vm = alloc[i].vm
          /\ r.status = alloc[i].status
      BY <2>1, <3>1 DEF Row
    <3>3. alloc' = [alloc EXCEPT ![i] = r]
      BY <1>4, <2>2 DEF SetNote
    <3>4. IpOf[v] = i
      OBVIOUS
    <3> HIDE DEF v, i, r
    <3>5. AllocType' /\ alloc'[i] = r /\ \A j \in Ips : j # i => alloc'[j] = alloc[j]
      BY <1>a, <2>1, <3>2, <3>3 DEF AllocType
    <3> QED
      BY <2>1, <3>1, <3>2, <3>4, <3>5 DEF RowsStep, Edited
  <2>3. CASE i \notin PendingOf(d)
    BY <1>1, <1>4, <2>3 DEF SetNote
  <2> QED
    BY <2>2, <2>3
<1>5. ASSUME NEW d \in Deps, Rollback(d) \/ FreeJob(d) PROVE RowsStep
  <2>1. PendingOf(d) \in SUBSET Ips /\ \A i \in PendingOf(d) : Holds(i, {"pending"})
    BY DEF PendingOf
  <2> QED
    BY <1>a, <1>5, <2>1, PendingDeleted DEF Rollback, FreeJob
<1>6. ASSUME NEW d \in Deps, ConfirmStack(d) PROVE RowsStep
  <2> DEFINE r(i) == [alloc[i] EXCEPT !.status = "confirmed", !.vm = alloc[i].note, !.expired = FALSE]
  <2>1. \A i \in PendingOf(d) : alloc[i] \in Row /\ alloc[i] # None /\ alloc[i].status = "pending"
    BY <1>a DEF PendingOf, Holds, AllocType
  <2>2. ASSUME NEW i \in PendingOf(d)
        PROVE  /\ r(i) \in Row /\ r(i).note = alloc[i].note /\ r(i).dep = alloc[i].dep
               /\ r(i).vm = alloc[i].note /\ r(i).status = "confirmed"
    BY <2>1 DEF Row
  <2>3. alloc' = [i \in Ips |-> IF i \notin PendingOf(d) THEN alloc[i]
                                ELSE IF ~Recorded(i, d) THEN None ELSE r(i)]
    BY <1>6 DEF ConfirmStack
  <2> HIDE DEF r
  <2>4. AllocType'
    BY <1>a, <2>2, <2>3 DEF AllocType
  <2> QED
    BY <2>1, <2>2, <2>3, <2>4 DEF RowsStep, Edited, Freed
<1>7. ASSUME NEW d \in Deps, ConfirmJob(d) PROVE RowsStep
  <2> DEFINE r(i) == [alloc[i] EXCEPT !.status = "confirmed", !.expired = FALSE]
  <2>1. \A i \in PendingOf(d) : alloc[i] \in Row /\ alloc[i] # None /\ alloc[i].status = "pending"
    BY <1>a DEF PendingOf, Holds, AllocType
  <2>2. ASSUME NEW i \in PendingOf(d)
        PROVE  /\ r(i) \in Row /\ r(i).note = alloc[i].note /\ r(i).dep = alloc[i].dep
               /\ r(i).vm = alloc[i].vm /\ r(i).status = "confirmed"
    BY <2>1 DEF Row
  <2>3. alloc' = [i \in Ips |-> IF i \notin PendingOf(d) THEN alloc[i] ELSE r(i)]
    BY <1>7 DEF ConfirmJob
  <2> HIDE DEF r
  <2>4. AllocType'
    BY <1>a, <2>2, <2>3 DEF AllocType
  <2> QED
    BY <2>1, <2>2, <2>3, <2>4 DEF RowsStep, Edited
<1>8. ASSUME NEW d \in Deps, NEW v \in Vms, ReleaseVm(d, v) PROVE RowsStep
  <2>1. RowsOf(v) \in SUBSET Ips /\ \A i \in RowsOf(v) : alloc[i] # None /\ alloc[i].vm = v
    BY DEF RowsOf, Holds
  <2>2. At(d, "release") /\ v \in dep[d].mine
    BY <1>0, <1>8 DEF ReleaseVm, DepsShaped, At
  <2>3. /\ AllocType'
        /\ \A i \in RowsOf(v) : alloc'[i] = None
        /\ \A i \in Ips \ RowsOf(v) : alloc'[i] = alloc[i]
    BY <1>a, <1>8, <2>1, Deleted DEF ReleaseVm
  <2> QED
    BY <2>1, <2>2, <2>3 DEF RowsStep, Freed
<1>9. ASSUME NEW v \in Vms, DeleteVm(v) PROVE RowsStep
  <2>1. RowsOf(v) \in SUBSET Ips /\ \A i \in RowsOf(v) : alloc[i] # None /\ alloc[i].vm = v
    BY DEF RowsOf, Holds
  <2>2. v \notin live'
    BY <1>9 DEF DeleteVm
  <2>3. /\ AllocType'
        /\ \A i \in RowsOf(v) : alloc'[i] = None
        /\ \A i \in Ips \ RowsOf(v) : alloc'[i] = alloc[i]
    BY <1>a, <1>9, <2>1, Deleted DEF DeleteVm
  <2> QED
    BY <2>1, <2>2, <2>3 DEF RowsStep, Freed
<1>10. CASE RefreshApply
  <2> DEFINE r(i) == [alloc[i] EXCEPT !.status = IF alloc[i].vm \in seen THEN "confirmed"
                                                 ELSE "orphaned"]
  <2>1. ASSUME NEW i \in Ips, alloc[i] # None
        PROVE  /\ r(i) \in Row /\ r(i).note = alloc[i].note /\ r(i).dep = alloc[i].dep
               /\ r(i).vm = alloc[i].vm /\ r(i).status # "pending"
    BY <1>a, <2>1 DEF Row, AllocType
  <2>2. CASE on
    <3>1. alloc' = [i \in Ips |-> IF ~Holds(i, {"confirmed", "orphaned"}) \/ alloc[i].vm = None
                                  THEN alloc[i] ELSE r(i)]
      BY <1>10, <2>2 DEF RefreshApply
    <3> HIDE DEF r
    <3>2. AllocType'
      BY <1>a, <2>1, <3>1 DEF AllocType, Holds
    <3> QED
      BY <2>1, <3>1, <3>2 DEF RowsStep, Edited, Holds
  <2>3. CASE ~on
    BY <1>1, <1>10, <2>3 DEF RefreshApply
  <2> QED
    BY <2>2, <2>3
<1>11. ASSUME NEW i \in Ips, Expire(i) PROVE RowsStep
  <2> DEFINE r == [alloc[i] EXCEPT !.expired = TRUE]
  <2>1. alloc[i] \in Row /\ alloc[i] # None
    BY <1>a, <1>11 DEF Expire, Holds, AllocType
  <2>2. /\ r \in Row /\ r.note = alloc[i].note /\ r.dep = alloc[i].dep /\ r.vm = alloc[i].vm
        /\ r.status = alloc[i].status
    BY <2>1 DEF Row
  <2>3. alloc' = [alloc EXCEPT ![i] = r]
    BY <1>11 DEF Expire
  <2> HIDE DEF r
  <2>4. AllocType' /\ alloc'[i] = r /\ \A j \in Ips : j # i => alloc'[j] = alloc[j]
    BY <1>a, <2>2, <2>3 DEF AllocType
  <2> QED
    BY <2>1, <2>2, <2>4 DEF RowsStep, Edited
<1>12. CASE Sweep
  BY <1>a, <1>12, SweepDeletes DEF Sweep
<1>13. ASSUME NEW i \in Ips, AddManual(i) PROVE RowsStep
  <2> DEFINE r == [status |-> "confirmed", dep |-> None, vm |-> None, note |-> None, expired |-> FALSE]
  <2>1. r \in Row /\ r.status = "confirmed" /\ r.dep = None /\ r.vm = None /\ r.note = None
    BY DEF Row
  <2>2. alloc[i] = None /\ alloc' = [alloc EXCEPT ![i] = r]
    BY <1>13 DEF AddManual
  <2> HIDE DEF r
  <2>3. AllocType' /\ alloc'[i] = r /\ \A j \in Ips : j # i => alloc'[j] = alloc[j]
    BY <1>a, <2>1, <2>2 DEF AllocType
  <2> QED
    BY <2>1, <2>2, <2>3 DEF RowsStep, Entered
<1>14. ASSUME NEW I \in SUBSET Ips, alloc' = Without(I),
              \A i \in I : alloc[i] # None /\ (Unused(i) \/ "blind" \in Uses)
       PROVE  RowsStep
  <2>1. /\ AllocType'
        /\ \A i \in I : alloc'[i] = None
        /\ \A i \in Ips \ I : alloc'[i] = alloc[i]
    BY <1>a, <1>14, Deleted
  <2> QED
    BY <1>14, <2>1 DEF RowsStep, Freed
<1>15. ASSUME NEW i \in Ips, ReleaseById(i) PROVE RowsStep
  <2>1. {i} \in SUBSET Ips /\ alloc' = Without({i})
    BY <1>15 DEF ReleaseById
  <2>2. \A j \in {i} : alloc[j] # None /\ (Unused(j) \/ "blind" \in Uses)
    BY <1>15 DEF ReleaseById
  <2> QED
    BY <1>14, <2>1, <2>2
<1>16. ASSUME NEW I \in SUBSET Ips, ReleaseOrphans(I) PROVE RowsStep
  <2>1. \A i \in I : alloc[i] # None /\ (Unused(i) \/ "blind" \in Uses)
    BY <1>16 DEF ReleaseOrphans, Holds
  <2> QED
    BY <1>14, <1>16, <2>1 DEF ReleaseOrphans
<1> QED
  <2>1. ASSUME NEW d \in Deps, Reserve(d) PROVE RowsStep
    BY <1>1, <1>2, <1>3, <1>4, <1>5, <2>1
       DEF Reserve, DeployStart, JobStart, ReserveConflict, ReserveSwallowed
  <2>2. ASSUME NEW d \in Deps, Settle(d) PROVE RowsStep
    BY <1>1, <1>5, <1>6, <1>7, <2>2 DEF Settle, Apply, Play, Sync, HookFailed
  <2>3. ASSUME NEW d \in Deps, Destroy(d) PROVE RowsStep
    BY <1>1, <1>8, <2>3 DEF Destroy, DestroyStart, DestroyTofu, Resync, ClearTracked
  <2>4. CASE Outside
    BY <1>1, <1>9, <1>10, <1>11, <1>12, <1>13, <1>15, <1>16, <2>4
       DEF Outside, Vanish, RefreshRead, Toggle, Crash
  <2> QED
    BY <1>0, <2>1, <2>2, <2>3, <2>4 DEF Next
-----------------------------------------------------------------------------
(***************************************************************************)
(* The invariant that holds whatever fails.                                *)
(***************************************************************************)

\* What a row says keeps fitting the VM and the deployment it names.
LEMMA FitStep == RowsFit /\ RowsStep /\ DepStep => RowsFit'
<1>0. SUFFICES ASSUME RowsFit, RowsStep, DepStep, NEW i \in Ips, alloc'[i] # None
               PROVE  /\ alloc'[i].vm # None => IpOf[alloc'[i].vm] = i
                      /\ alloc'[i].note # None => IpOf[alloc'[i].note] = i
                      /\ alloc'[i].status = "pending" => alloc'[i].dep # None
                      /\ alloc'[i].dep # None => dep'[alloc'[i].dep].pc # "new"
  BY DEF RowsFit
<1>a. alloc'[i] \in Row
  BY <1>0 DEF RowsStep, AllocType
<1>b. alloc'[i].dep \in Deps \cup {None}
  BY <1>a DEF Row
<1>c. \A d \in Deps : dep[d].pc # "new" => dep'[d].pc # "new"
  BY <1>0, KeptMine
<1>1. CASE alloc'[i] = alloc[i]
  BY <1>0, <1>b, <1>c, <1>1 DEF RowsFit
<1>2. CASE Entered(i)
  <2>1. \A d \in Deps : d # None
    BY IpamAssumption
  <2> QED
    BY <1>c, <1>2, <2>1 DEF Entered, At
<1>3. CASE Edited(i)
  BY <1>0, <1>b, <1>c, <1>3 DEF RowsFit, Edited
<1> QED
  BY <1>0, <1>1, <1>2, <1>3 DEF RowsStep, Freed

\* No run builds the VMs of a stack that another run has in its hands.
LEMMA MineDisjoint ==
  ASSUME OneRun, DepsShaped, NEW d \in Deps, NEW e \in Deps, d # e, InRun(d), InRun(e),
         dep[d].stack # None
  PROVE  dep[d].mine \cap dep[e].mine = {}
<1>1. dep[d].mine = StackVms(dep[d].stack)
  BY DEF DepsShaped
<1>2. CASE dep[e].stack # None
  <2>1. dep[e].mine = StackVms(dep[e].stack) /\ dep[d].stack # dep[e].stack
    BY <1>2 DEF DepsShaped, OneRun
  <2> QED
    BY <1>1, <2>1 DEF StackVms
<1>3. CASE dep[e].stack = None
  <2>1. dep[e].pc # "new"
    BY DEF InRun, Running, Reserving, Applying, Destroying
  <2>2. \E v \in Vms : StackOf[v] = None /\ dep[e].mine = {v}
    BY <1>3, <2>1 DEF DepsShaped
  <2> QED
    BY <1>1, <2>2 DEF StackVms
<1> QED
  BY <1>2, <1>3

\* VMs appear by the hand of a deployment that is building them, or of one that a
\* restart ends.
LEMMA LiveGrows ==
  Next => \/ Crash
          \/ live' \subseteq live
          \/ \E d \in Deps : At(d, "apply") /\ live' \subseteq live \cup dep[d].mine
<1>0. SUFFICES ASSUME Next, ~Crash
               PROVE  \/ live' \subseteq live
                      \/ \E d \in Deps : At(d, "apply") /\ live' \subseteq live \cup dep[d].mine
  OBVIOUS
<1>1. ASSUME NEW d \in Deps, Reserve(d) PROVE live' \subseteq live
  BY <1>1 DEF Reserve, DeployStart, JobStart, ReserveSweep, ReserveInsert, ReserveConflict,
     SetNote, ReserveSwallowed, Rollback, cluster
<1>2. ASSUME NEW d \in Deps, Settle(d)
      PROVE  live' \subseteq live \/ (At(d, "apply") /\ live' \subseteq live \cup dep[d].mine)
  BY <1>2 DEF Settle, Apply, Play, Sync, ConfirmStack, ConfirmJob, FreeJob, HookFailed, cluster
<1>3. ASSUME NEW d \in Deps, Destroy(d) PROVE live' \subseteq live
  BY <1>3 DEF Destroy, DestroyStart, DestroyTofu, Resync, ReleaseVm, ClearTracked, cluster
<1>4. CASE Outside
  BY <1>0, <1>4 DEF Outside, DeleteVm, Vanish, RefreshRead, RefreshApply, Expire, AddManual,
     ReleaseById, ReleaseOrphans, Sweep, Toggle, cluster
<1> QED
  BY <1>0, <1>1, <1>2, <1>3, <1>4 DEF Next

\* Between tofu destroy and the release of its addresses a stack stays destroyed.
LEMMA GoneStep ==
  TypeOK /\ OneRun /\ DepsShaped /\ GoneBeforeRelease /\ Next => GoneBeforeRelease'
<1>0. SUFFICES ASSUME TypeOK, OneRun, DepsShaped, GoneBeforeRelease, Next,
                      NEW d \in Deps, dep'[d].pc = "release"
               PROVE  dep'[d].mine \cap live' = {}
  BY DEF GoneBeforeRelease, At
<1>1. DepStep
  BY <1>0, StepDep
<1>2. CASE dep[d].pc = "release" /\ ~Crash
  <2>1. InRun(d) /\ dep[d].stack # None /\ dep[d].pc # "new" /\ dep[d].mine \cap live = {}
    BY <1>0, <1>2 DEF InRun, Running, Destroying, DepsShaped, GoneBeforeRelease, At
  <2>2. dep'[d].mine = dep[d].mine
    BY <1>1, <2>1, KeptMine
  <2>3. CASE live' \subseteq live
    BY <2>1, <2>2, <2>3
  <2>4. ASSUME NEW e \in Deps, At(e, "apply"), live' \subseteq live \cup dep[e].mine
        PROVE  dep'[d].mine \cap live' = {}
    <3>1. InRun(e) /\ e # d
      BY <1>2, <2>4 DEF At, InRun, Running, Applying
    <3>2. dep[d].mine \cap dep[e].mine = {}
      BY <1>0, <2>1, <3>1, MineDisjoint
    <3> QED
      BY <2>1, <2>2, <2>4, <3>2
  <2> QED
    BY <1>0, <1>2, <2>3, <2>4, LiveGrows
<1>3. CASE dep[d].pc # "release" /\ ~Crash
  <2>1. ~UNCHANGED dep
    BY <1>0, <1>3
  <2>2. ~AllEnd
    BY <1>0, <1>3 DEF AllEnd
  <2>3. ASSUME NEW f \in Deps, Begins(f) PROVE FALSE
    BY <1>0, <1>3, <2>3 DEF Begins, Others
  <2>4. ASSUME NEW f \in Deps, GoesOn(f) PROVE dep'[d].mine \cap live' = {}
    BY <1>0, <1>3, <2>4 DEF GoesOn, Moves
  <2> QED
    BY <1>1, <2>1, <2>2, <2>3, <2>4 DEF DepStep
<1>4. CASE Crash
  <2>1. [dep[d] EXCEPT !.pc = "done"].pc = "done"
    BY <1>0 DEF TypeOK, Dep
  <2>2. dep'[d] = IF InRun(d) THEN [dep[d] EXCEPT !.pc = "done"] ELSE dep[d]
    BY <1>4 DEF Crash
  <2>3. dep'[d].pc # "release"
    BY <2>1, <2>2 DEF InRun, Running, Destroying
  <2> QED
    BY <1>0, <2>3
<1> QED
  BY <1>2, <1>3, <1>4

\* Every step leaves values of the right type.
LEMMA TypeStep == TypeOK /\ DepsShaped /\ Next => TypeOK'
<1>0. SUFFICES ASSUME TypeOK, DepsShaped, Next PROVE TypeOK'
  OBVIOUS
<1> DEFINE RestOK == /\ on \in BOOLEAN
                     /\ live \subseteq Vms /\ hidden \subseteq Vms /\ state \subseteq Vms
                     /\ tracked \in [Vms -> Deps \cup {None}]
                     /\ seen \in (SUBSET Vms) \cup {None}
<1>1. RestOK /\ \A d \in Deps : dep[d].mine \subseteq Vms
  BY <1>0 DEF TypeOK, Dep
<1>2. ASSUME NEW d \in Deps, Reserve(d) PROVE RestOK'
  BY <1>1, <1>2 DEF Reserve, DeployStart, JobStart, ReserveSweep, ReserveInsert, ReserveConflict,
     SetNote, ReserveSwallowed, Rollback, cluster
<1>3. ASSUME NEW d \in Deps, Synced(d) PROVE tracked' \in [Vms -> Deps \cup {None}]
  BY <1>1, <1>3 DEF Synced
<1>4. ASSUME NEW d \in Deps, Settle(d) PROVE RestOK'
  <2>1. CASE Apply(d)
    <3>1. live' \subseteq Vms
      BY <1>1, <2>1 DEF Apply
    <3>2. state' \subseteq Vms
      BY <1>1, <2>1 DEF Apply
    <3> QED
      BY <1>1, <2>1, <3>1, <3>2 DEF Apply
  <2>2. CASE Play(d)
    BY <1>1, <2>2 DEF Play
  <2>3. CASE Sync(d)
    BY <1>1, <1>3, <2>3 DEF Sync, cluster
  <2>4. CASE ConfirmStack(d) \/ ConfirmJob(d) \/ FreeJob(d) \/ HookFailed(d)
    BY <1>1, <2>4 DEF ConfirmStack, ConfirmJob, FreeJob, HookFailed, cluster
  <2> QED
    BY <1>4, <2>1, <2>2, <2>3, <2>4 DEF Settle
<1>5. ASSUME NEW d \in Deps, Destroy(d) PROVE RestOK'
  <2>1. CASE DestroyTofu(d)
    BY <1>1, <2>1 DEF DestroyTofu
  <2>2. CASE Resync(d)
    BY <1>1, <1>3, <2>2 DEF Resync, cluster
  <2>3. CASE ClearTracked(d)
    BY <1>1, <2>3 DEF ClearTracked, cluster
  <2> QED
    BY <1>1, <1>5, <2>1, <2>2, <2>3 DEF Destroy, DestroyStart, ReleaseVm, cluster
<1>6. ASSUME Outside PROVE RestOK'
  <2>1. CASE Crash
    <3>1. PICK made \in SUBSET UNION {dep[d].mine : d \in {e \in Deps : At(e, "apply")}},
               gone \in SUBSET UNION {dep[d].mine : d \in {e \in Deps : At(e, "destroy")}} :
            /\ live' = (live \cup made) \ gone
            /\ hidden' = hidden \ gone
            /\ state' = (state \cup {v \in made : StackOf[v] # None}) \ gone
      BY <2>1 DEF Crash
    <3>2. made \subseteq Vms
      BY <1>1
    <3> QED
      BY <1>1, <2>1, <3>1, <3>2 DEF Crash
  <2>2. ASSUME NEW v \in Vms, DeleteVm(v) \/ Vanish(v) PROVE RestOK'
    BY <1>1, <2>2 DEF DeleteVm, Vanish
  <2>3. CASE RefreshRead
    BY <1>1, <2>3 DEF RefreshRead, cluster
  <2>4. CASE Toggle
    BY <1>1, <2>4 DEF Toggle, cluster
  <2>5. CASE RefreshApply
    BY <1>1, <2>5 DEF RefreshApply, cluster
  <2> QED
    BY <1>1, <1>6, <2>1, <2>2, <2>3, <2>4, <2>5
       DEF Outside, Expire, AddManual, ReleaseById, ReleaseOrphans, Sweep, cluster
<1>7. RestOK'
  BY <1>0, <1>2, <1>4, <1>5, <1>6 DEF Next
<1>8. AllocType'
  BY <1>0, StepRows DEF RowsStep
<1>9. dep' \in [Deps -> Dep]
  <2>1. DepStep
    BY <1>0, StepDep
  <2> QED
    BY <1>0, <2>1 DEF DepStep, AllEnd, Begins, Others, GoesOn, Moves, TypeOK
<1> QED
  BY <1>7, <1>8, <1>9 DEF TypeOK, AllocType

\* Nothing happens to the invariant while nothing happens.
LEMMA Stuttering == IInv /\ UNCHANGED vars => IInv'
<1>0. SUFFICES ASSUME IInv, UNCHANGED vars PROVE IInv'
  OBVIOUS
<1>1. TypeOK'
  BY <1>0 DEF IInv, TypeOK, vars
<1>2. OneRun' /\ GoneBeforeRelease'
  BY <1>0 DEF IInv, OneRun, InRun, GoneBeforeRelease, At, vars
<1>3. DepsShaped' /\ RowsFit'
  BY <1>0 DEF IInv, DepsShaped, StackVms, RowsFit, vars
<1> QED
  BY <1>1, <1>2, <1>3 DEF IInv

\* The empty IPAM satisfies the invariant.
LEMMA IInvInit == Init => IInv
<1>0. SUFFICES ASSUME Init PROVE IInv
  OBVIOUS
<1>1. dep \in [Deps -> Dep]
  BY <1>0 DEF Init, Dep
<1>2. TypeOK
  BY <1>0, <1>1 DEF Init, TypeOK
<1>3. \A d \in Deps : dep[d].pc = "new" /\ dep[d].stack = None
  BY <1>0 DEF Init
<1> QED
  BY <1>0, <1>2, <1>3 DEF Init, IInv, OneRun, DepsShaped, RowsFit, GoneBeforeRelease, At,
     InRun, Running, Reserving, Applying, Destroying

\* Every step keeps the invariant.
LEMMA IInvStep == IInv /\ Next => IInv'
<1>0. SUFFICES ASSUME IInv, Next PROVE IInv'
  OBVIOUS
<1>1. DepStep /\ RowsStep
  BY <1>0, StepDep, StepRows DEF IInv
<1> QED
  BY <1>0, <1>1, TypeStep, OneRunStep, ShapeStep, FitStep, GoneStep DEF IInv

\* Whatever fails and whatever admins do: one run per stack, rows that fit their VMs,
\* and nothing left of a stack whose addresses are being released.
THEOREM Invariance == Spec => []IInv
<1>1. IInv /\ [Next]_vars => IInv'
  BY Stuttering, IInvStep
<1> QED
  BY <1>1, IInvInit, PTL DEF Spec

\* Every row, deployment and set holds values of its type.
THEOREM Typing == Spec => []TypeOK
<1>1. IInv => TypeOK
  BY DEF IInv
<1> QED
  BY <1>1, Invariance, PTL

\* The rows of a VM that exists stay, unless an admin releases addresses in use: no
\* sweep, failed destroy, destroy of another stack, confirmation or refresh with an
\* old view takes them.
THEOREM KeptSafe == "blind" \notin Uses => (Spec => KeptWhileLive)
<1>0. SUFFICES ASSUME "blind" \notin Uses PROVE Spec => KeptWhileLive
  OBVIOUS
<1>1. IInv /\ Next => KeptStep
  <2>0. SUFFICES ASSUME IInv, Next, NEW v \in live \cap live', NEW i \in RowsOf(v)
                 PROVE  alloc'[i] # None /\ alloc'[i].vm = v
    BY DEF KeptStep
  <2>1. i \in Ips /\ alloc[i] # None /\ alloc[i].vm = v /\ alloc[i].status # "pending"
    BY DEF RowsOf, Holds
  <2>2. v # None /\ IpOf[v] = i
    <3>1. v \in Vms
      BY <2>0 DEF IInv, TypeOK
    <3>2. v # None
      BY <3>1, IpamAssumption
    <3> QED
      BY <2>0, <2>1, <3>2 DEF IInv, RowsFit
  <2>3. ~Freed(i)
    <3>1. ~Unused(i)
      BY <2>2 DEF Unused
    <3>2. \A d \in Deps : At(d, "release") => v \notin dep[d].mine
      BY <2>0 DEF IInv, GoneBeforeRelease
    <3> QED
      BY <1>0, <2>1, <3>1, <3>2 DEF Freed
  <2>4. alloc'[i] = alloc[i] \/ Entered(i) \/ Edited(i)
    BY <2>0, <2>1, <2>3, StepRows DEF IInv, RowsStep
  <2>5. CASE Edited(i)
    BY <2>1, <2>5, NoRowAssumption DEF Edited
  <2> QED
    BY <2>1, <2>4, <2>5 DEF Entered
<1>2. UNCHANGED vars => KeptStep
  BY DEF KeptStep, RowsOf, Holds, vars
<1>3. IInv /\ [Next]_vars => [KeptStep]_vars
  BY <1>1, <1>2
<1> QED
  BY <1>3, Invariance, PTL DEF Spec, KeptWhileLive

-----------------------------------------------------------------------------
(***************************************************************************)
(* Reservations are settled by the deployment that made them.              *)
(***************************************************************************)

\* After a DELETE of the pending rows of d there are none.
LEMMA NoneLeft ==
  ASSUME NEW d \in Deps, alloc' = Without(PendingOf(d)), AllocType
  PROVE  \A i \in Ips : Holds(i, {"pending"})' => alloc'[i].dep # d
<1>1. PendingOf(d) \in SUBSET Ips
  BY DEF PendingOf
<1>2. /\ \A i \in PendingOf(d) : alloc'[i] = None
      /\ \A i \in Ips \ PendingOf(d) : alloc'[i] = alloc[i]
  BY <1>1, Deleted
<1> QED
  BY <1>2 DEF PendingOf, Holds

\* A deployment goes on settling its reservations until it has none.
LEMMA SettleStep ==
  ASSUME HooksWork, IInv, Next, NEW d \in Deps, Settling(d)
  PROVE  \/ Settling(d)'
         \/ \A i \in Ips : Holds(i, {"pending"})' => alloc'[i].dep # d
<1> DEFINE Good == \/ Settling(d)'
                   \/ \A i \in Ips : Holds(i, {"pending"})' => alloc'[i].dep # d
<1>a. dep \in [Deps -> Dep] /\ AllocType /\ DepsShaped
  BY DEF IInv, TypeOK, AllocType
<1>b. ASSUME dep'[d] = dep[d] PROVE Good
  BY <1>b DEF Settling
<1>c. ASSUME NEW e \in Deps, NEW c \in PCs, Goto(e, c), e = d => c \in {"apply", "sync", "confirm", "free"}
                                                    \/ (c \in {"note", "rollback"} /\ dep[d].stack # None),
             e = d /\ c = "sync" => dep[d].stack # None
      PROVE  Good
  <2>1. Moves(e, c)
    BY <1>a, <1>c, GotoMoves
  <2>2. CASE e = d
    BY <1>c, <2>1, <2>2 DEF Moves, Settling, Reserving, Applying
  <2>3. CASE e # d
    BY <1>b, <2>1, <2>3 DEF Moves
  <2> QED
    BY <2>2, <2>3
<1>d. ASSUME NEW e \in Deps, Goto(e, "done"), alloc' = Without(PendingOf(e)) PROVE Good
  <2>1. Moves(e, "done")
    BY <1>a, <1>d, GotoMoves DEF PCs
  <2>2. CASE e = d
    BY <1>a, <1>d, <2>2, NoneLeft
  <2>3. CASE e # d
    BY <1>b, <2>1, <2>3 DEF Moves
  <2> QED
    BY <2>2, <2>3
<1>e. {"note", "rollback", "apply", "sync", "confirm", "free", "done"} \subseteq PCs
  BY DEF PCs, Running, Reserving, Applying
<1>f. "db" \notin Faults /\ "crash" \notin Faults
  BY DEF HooksWork
<1>1. ASSUME NEW e \in Deps, NEW s \in Stacks, DeployStart(e, s) \/ DestroyStart(e, s) PROVE Good
  <2>1. e # d
    BY <1>1 DEF DeployStart, DestroyStart, At, Settling, Reserving, Applying
  <2>2. dep'[d] = dep[d]
    BY <1>a, <1>1, <2>1 DEF DeployStart, DestroyStart
  <2> QED
    BY <1>b, <2>2
<1>2. ASSUME NEW e \in Deps, NEW v \in Vms, JobStart(e, v) PROVE Good
  <2>1. e # d
    BY <1>2 DEF JobStart, At, Settling, Reserving, Applying
  <2>2. dep'[d] = dep[d]
    BY <1>a, <1>2, <2>1 DEF JobStart
  <2> QED
    BY <1>b, <2>2
<1>3. ASSUME NEW e \in Deps, NEW v \in Vms, ReserveSweep(e, v) PROVE Good
  <2>1. CASE e = d
    <3>1. dep[d].stack # None
      BY <1>3, <2>1 DEF ReserveSweep, At, Settling
    <3>2. dep'[d].pc = "insert" /\ dep'[d].stack = dep[d].stack
      BY <1>a, <1>3, <2>1 DEF ReserveSweep, Dep
    <3> QED
      BY <3>1, <3>2 DEF Settling, Reserving
  <2>2. CASE e # d
    <3>1. dep'[d] = dep[d]
      BY <1>a, <1>3, <2>2 DEF ReserveSweep
    <3> QED
      BY <1>b, <3>1
  <2> QED
    BY <2>1, <2>2
<1>4. ASSUME NEW e \in Deps, NEW vm \in Vms \cup {None}, ReserveInsert(e, vm) PROVE Good
  <2>1. CASE dep[e].stack = None
    <3>1. Goto(e, "apply")
      BY <1>4, <2>1 DEF ReserveInsert
    <3> QED
      BY <1>c, <1>e, <3>1
  <2>2. CASE dep[e].stack # None
    <3>1. Goto(e, "note")
      BY <1>4, <2>2 DEF ReserveInsert
    <3> QED
      BY <1>c, <1>e, <2>2, <3>1
  <2> QED
    BY <2>1, <2>2
<1>5. ASSUME NEW e \in Deps, ReserveConflict(e) PROVE Good
  <2>1. CASE dep[e].stack = None
    <3>1. Goto(e, "done") /\ dep[e].pc = "insert"
      BY <1>5, <2>1 DEF ReserveConflict, At
    <3>2. e # d
      BY <2>1, <3>1 DEF Settling
    <3> QED
      BY <1>c, <1>e, <3>1, <3>2
  <2>2. CASE dep[e].stack # None
    <3>1. Goto(e, "rollback")
      BY <1>5, <2>2 DEF ReserveConflict
    <3> QED
      BY <1>c, <1>e, <2>2, <3>1
  <2> QED
    BY <2>1, <2>2
<1>6. ASSUME NEW e \in Deps, SetNote(e) PROVE Good
  <2>1. CASE e = d
    <3>1. dep[d].stack # None
      BY <1>6, <2>1 DEF SetNote, At, Settling
    <3>2. dep'[d].pc \in {"apply", "sweep"} /\ dep'[d].stack = dep[d].stack
      BY <1>a, <1>6, <2>1 DEF SetNote, Dep
    <3> QED
      BY <3>1, <3>2 DEF Settling, Reserving, Applying
  <2>2. CASE e # d
    <3>1. dep'[d] = dep[d]
      BY <1>a, <1>6, <2>2 DEF SetNote
    <3> QED
      BY <1>b, <3>1
  <2> QED
    BY <2>1, <2>2
<1>7. ASSUME NEW e \in Deps, ReserveSwallowed(e) \/ HookFailed(e) PROVE Good
  BY <1>f, <1>7 DEF ReserveSwallowed, HookFailed
<1>8. ASSUME NEW e \in Deps, Rollback(e) \/ FreeJob(e) PROVE Good
  BY <1>d, <1>8 DEF Rollback, FreeJob
<1>9. ASSUME NEW e \in Deps, Apply(e) PROVE Good
  <2>1. Goto(e, "sync") /\ dep[e].stack # None
    BY <1>9 DEF Apply
  <2> QED
    BY <1>c, <1>e, <2>1
<1>10. ASSUME NEW e \in Deps, Play(e) \/ Sync(e) PROVE Good
  <2>1. Goto(e, "confirm") \/ Goto(e, "free")
    BY <1>10 DEF Play, Sync
  <2> QED
    BY <1>c, <1>e, <2>1
<1>11. ASSUME NEW e \in Deps, ConfirmStack(e) \/ ConfirmJob(e) PROVE Good
  <2>1. Goto(e, "done")
    BY <1>11 DEF ConfirmStack, ConfirmJob
  <2>2. Moves(e, "done")
    BY <1>a, <1>e, <2>1, GotoMoves
  <2>3. CASE e # d
    BY <1>b, <2>2, <2>3 DEF Moves
  <2>4. CASE e = d
    <3>1. ASSUME NEW i \in Ips, Holds(i, {"pending"})' PROVE alloc'[i].dep # d
      <4>1. CASE i \notin PendingOf(d)
        <5>1. alloc'[i] = alloc[i]
          BY <1>11, <2>4, <4>1 DEF ConfirmStack, ConfirmJob
        <5> QED
          BY <3>1, <4>1, <5>1 DEF PendingOf, Holds
      <4>2. CASE i \in PendingOf(d)
        <5>1. alloc[i] \in Row
          BY <1>a, <4>2 DEF AllocType, PendingOf, Holds
        <5>2. /\ [alloc[i] EXCEPT !.status = "confirmed", !.vm = alloc[i].note,
                                  !.expired = FALSE].status = "confirmed"
              /\ [alloc[i] EXCEPT !.status = "confirmed", !.expired = FALSE].status = "confirmed"
          BY <5>1 DEF Row
        <5>3. alloc'[i] = None \/ alloc'[i].status = "confirmed"
          BY <1>11, <2>4, <4>2, <5>2 DEF ConfirmStack, ConfirmJob
        <5> QED
          BY <3>1, <5>3 DEF Holds
      <4> QED
        BY <4>1, <4>2
    <3> QED
      BY <3>1
  <2> QED
    BY <2>3, <2>4
<1>12. ASSUME NEW e \in Deps, At(e, "destroy") \/ At(e, "resync") \/ At(e, "release"),
              Destroy(e)
       PROVE  Good
  <2>1. e # d
    BY <1>12 DEF At, Settling, Reserving, Applying
  <2>2. dep'[d] = dep[d]
    BY <1>a, <1>12, <2>1 DEF Destroy, DestroyStart, DestroyTofu, Resync, ReleaseVm, ClearTracked, Goto
  <2> QED
    BY <1>b, <2>2
<1>13. ASSUME NEW e \in Deps, Destroy(e) PROVE Good
  BY <1>1, <1>12, <1>13 DEF Destroy, DestroyTofu, Resync, ReleaseVm, ClearTracked
<1>14. CASE Outside
  <2>1. dep' = dep
    BY <1>f, <1>14 DEF Outside, DeleteVm, Vanish, RefreshRead, RefreshApply, Expire,
       AddManual, ReleaseById, ReleaseOrphans, Sweep, Toggle, Crash
  <2> QED
    BY <1>b, <2>1
<1> QED
  BY <1>1, <1>2, <1>3, <1>4, <1>5, <1>6, <1>7, <1>8, <1>9, <1>10, <1>11, <1>13, <1>14
     DEF Next, Reserve, Settle

\* A row that enters as pending belongs to a deployment that will settle it.
LEMMA EnterStep ==
  ASSUME IInv, Next, NEW i \in Ips, Entered(i), alloc'[i].status = "pending"
  PROVE  Settling(alloc[i].dep)'
<1>a. dep \in [Deps -> Dep] /\ AllocType /\ DepsShaped
  BY DEF IInv, TypeOK, AllocType
<1>b. alloc[i] = None /\ alloc'[i] # None
  BY NoRowAssumption DEF Entered
<1>1. alloc' # alloc
  BY <1>b
<1>2. ASSUME NEW I \in SUBSET Ips, alloc' = Without(I) PROVE FALSE
  BY <1>b, <1>2 DEF Without
<1>3. alloc' # Swept
  BY <1>b DEF Swept, Without
<1>4. ASSUME NEW d \in Deps, NEW vm \in Vms \cup {None}, ReserveInsert(d, vm)
      PROVE  Settling(alloc[i].dep)'
  <2> DEFINE j == IpOf[dep[d].vm]
             r == [status |-> "pending", dep |-> d, vm |-> vm, note |-> None, expired |-> FALSE]
  <2>1. dep[d].vm \in Vms /\ j \in Ips
    BY <1>a, <1>4, IpamAssumption DEF ReserveInsert, At, DepsShaped, Dep
  <2>2. r.dep = d
    OBVIOUS
  <2>3. alloc' = [alloc EXCEPT ![j] = r]
    BY <1>4 DEF ReserveInsert
  <2> HIDE DEF j, r
  <2>4. alloc'[i].dep = d
    BY <1>a, <1>b, <2>1, <2>2, <2>3 DEF AllocType
  <2>5. CASE dep[d].stack = None
    <3>1. Goto(d, "apply") /\ "apply" \in PCs
      BY <1>4, <2>5 DEF ReserveInsert, PCs, Running, Applying
    <3>2. Moves(d, "apply")
      BY <1>a, <3>1, GotoMoves
    <3> QED
      BY <2>4, <3>2 DEF Moves, Settling, Applying
  <2>6. CASE dep[d].stack # None
    <3>1. Goto(d, "note") /\ "note" \in PCs
      BY <1>4, <2>6 DEF ReserveInsert, PCs, Running, Reserving
    <3>2. Moves(d, "note")
      BY <1>a, <3>1, GotoMoves
    <3> QED
      BY <2>4, <2>6, <3>2 DEF Moves, Settling, Reserving
  <2> QED
    BY <2>5, <2>6
<1>5. ASSUME NEW d \in Deps, SetNote(d) PROVE FALSE
  BY <1>a, <1>b, <1>5 DEF SetNote, PendingOf, Holds, AllocType
<1>6. ASSUME NEW d \in Deps, Rollback(d) \/ FreeJob(d) PROVE FALSE
  <2>1. PendingOf(d) \in SUBSET Ips
    BY DEF PendingOf
  <2> QED
    BY <1>2, <1>6, <2>1 DEF Rollback, FreeJob
<1>7. ASSUME NEW d \in Deps, ConfirmStack(d) \/ ConfirmJob(d) PROVE FALSE
  <2>1. i \notin PendingOf(d)
    BY <1>b DEF PendingOf, Holds
  <2> QED
    BY <1>b, <1>7, <2>1 DEF ConfirmStack, ConfirmJob
<1>8. ASSUME NEW v \in Vms, alloc' = Without(RowsOf(v)) PROVE FALSE
  <2>1. RowsOf(v) \in SUBSET Ips
    BY DEF RowsOf
  <2> QED
    BY <1>2, <1>8, <2>1
<1>9. CASE Outside
  <2>1. ASSUME NEW v \in Vms, DeleteVm(v) PROVE FALSE
    BY <1>8, <2>1 DEF DeleteVm
  <2>2. ASSUME RefreshApply PROVE FALSE
    BY <1>b, <1>1, <2>2 DEF RefreshApply, Holds
  <2>3. ASSUME NEW j \in Ips, Expire(j) PROVE FALSE
    BY <1>a, <1>b, <2>3 DEF Expire, Holds, AllocType
  <2>4. ASSUME NEW j \in Ips, AddManual(j) PROVE FALSE
    <3> DEFINE r == [status |-> "confirmed", dep |-> None, vm |-> None, note |-> None, expired |-> FALSE]
    <3>1. alloc' = [alloc EXCEPT ![j] = r] /\ r.status = "confirmed"
      BY <2>4 DEF AddManual
    <3> HIDE DEF r
    <3>2. alloc'[i] = r
      BY <1>a, <1>b, <3>1 DEF AllocType
    <3> QED
      BY <3>1, <3>2
  <2>5. ASSUME NEW j \in Ips, ReleaseById(j) PROVE FALSE
    BY <1>2, <2>5 DEF ReleaseById
  <2>6. ASSUME NEW I \in SUBSET Ips, ReleaseOrphans(I) PROVE FALSE
    BY <1>2, <2>6 DEF ReleaseOrphans
  <2> QED
    BY <1>1, <1>3, <1>9, <2>1, <2>2, <2>3, <2>4, <2>5, <2>6
       DEF Outside, Vanish, RefreshRead, Sweep, Toggle, Crash
<1>10. ASSUME NEW d \in Deps, Reserve(d) PROVE Settling(alloc[i].dep)'
  BY <1>1, <1>3, <1>4, <1>5, <1>6, <1>10
     DEF Reserve, DeployStart, JobStart, ReserveSweep, ReserveConflict, ReserveSwallowed
<1>11. ASSUME NEW d \in Deps, Settle(d) PROVE FALSE
  BY <1>1, <1>6, <1>7, <1>11 DEF Settle, Apply, Play, Sync, HookFailed
<1>12. ASSUME NEW d \in Deps, Destroy(d) PROVE FALSE
  BY <1>1, <1>8, <1>12 DEF Destroy, DestroyStart, DestroyTofu, Resync, ReleaseVm, ClearTracked
<1> QED
  BY <1>9, <1>10, <1>11, <1>12 DEF Next

\* While hooks and server do not fail, pending rows belong to deployments that will
\* settle them.
LEMMA PendingStep == HooksWork /\ IInv /\ PendingInRun /\ Next => PendingInRun'
<1>0. SUFFICES ASSUME HooksWork, IInv, PendingInRun, Next,
                      NEW i \in Ips, Holds(i, {"pending"})'
               PROVE  Settling(alloc[i].dep)'
  BY DEF PendingInRun
<1>1. RowsStep
  BY <1>0, StepRows DEF IInv
<1>2. CASE Entered(i)
  BY <1>0, <1>2, EnterStep DEF Holds
<1>3. CASE ~Entered(i)
  <2>1. Holds(i, {"pending"}) /\ alloc'[i].dep = alloc[i].dep
    BY <1>0, <1>1, <1>3 DEF RowsStep, Edited, Freed, Holds
  <2>2. alloc[i].dep \in Deps
    <3>1. alloc[i] \in Row /\ alloc[i].dep # None
      BY <1>0, <2>1 DEF IInv, TypeOK, RowsFit, Holds
    <3> QED
      BY <3>1 DEF Row
  <2>3. Settling(alloc[i].dep)
    BY <1>0, <2>1 DEF PendingInRun
  <2> QED
    BY <1>0, <2>1, <2>2, <2>3, SettleStep
<1> QED
  BY <1>2, <1>3

\* While hooks and server do not fail, no reservation outlives its deployment: each
\* ending of a deployment confirms or releases what it has reserved.
THEOREM NoStraysSafe == Spec => []NoStrays
<1>1. CASE ~HooksWork
  <2>1. NoStrays
    BY <1>1 DEF NoStrays, HooksWork
  <2> QED
    BY <2>1, PTL
<1>2. CASE HooksWork
  <2>1. Init => PendingInRun
    BY DEF Init, PendingInRun, Holds
  <2>2. IInv /\ PendingInRun /\ [Next]_vars => PendingInRun'
    <3>1. PendingInRun /\ UNCHANGED vars => PendingInRun'
      BY DEF PendingInRun, Settling, Holds, vars
    <3> QED
      BY <1>2, <3>1, PendingStep
  <2>3. PendingInRun => NoStrays
    BY DEF PendingInRun, NoStrays, Settling, InRun, Running
  <2> QED
    BY <2>1, <2>2, <2>3, Invariance, PTL DEF Spec
<1> QED
  BY <1>1, <1>2

-----------------------------------------------------------------------------
(***************************************************************************)
(* While nothing fails: which step does what to a row.                     *)
(***************************************************************************)
SameRow(i) ==
  /\ alloc[i] # None /\ alloc'[i] \in Row
  /\ alloc'[i].dep = alloc[i].dep /\ alloc'[i].vm = alloc[i].vm /\ alloc'[i].note = alloc[i].note

\* d reserves the address of the VM at hand.
Inserted(i, d) ==
  /\ At(d, "insert") /\ i = IpOf[dep[d].vm] /\ alloc[i] = None /\ alloc'[i] \in Row
  /\ alloc'[i].status = "pending" /\ ~alloc'[i].expired /\ alloc'[i].dep = d /\ alloc'[i].note = None
  /\ alloc'[i].vm # None => dep[d].stack = None /\ alloc'[i].vm = dep[d].vm

Manual(i) ==
  /\ alloc[i] = None /\ alloc'[i] \in Row
  /\ alloc'[i].status # "pending" /\ alloc'[i].vm = None

\* Deployment d notes, confirms or gives up what it has reserved.
Noted(i, d) ==
  /\ At(d, "note") /\ i = IpOf[dep[d].vm] /\ alloc'[i] \in Row
  /\ alloc'[i].status = "pending" /\ alloc'[i].expired = alloc[i].expired /\ alloc'[i].dep = d
  /\ alloc'[i].vm = alloc[i].vm /\ alloc'[i].note = dep[d].vm

Settled(i, d) ==
  \/ (At(d, "rollback") \/ At(d, "free")) /\ alloc'[i] = None
  \/ /\ At(d, "confirm") /\ dep[d].stack # None /\ ~Recorded(i, d) /\ alloc'[i] = None
  \/ /\ At(d, "confirm") /\ alloc[i] # None /\ alloc'[i] \in Row
     /\ alloc'[i].status = "confirmed" /\ alloc'[i].dep = d /\ alloc'[i].note = alloc[i].note
     /\ alloc'[i].vm = IF dep[d].stack # None THEN alloc[i].note ELSE alloc[i].vm

Refreshed(i) ==
  /\ SameRow(i) /\ alloc[i].status # "pending" /\ alloc'[i].status # "pending"

GivenUp(i) ==
  /\ alloc[i] # None /\ alloc[i].status # "pending" /\ alloc'[i] = None
  /\ \/ Unused(i)
     \/ alloc[i].vm # None /\ alloc[i].vm \notin live'
     \/ \E d \in Deps : At(d, "release") /\ alloc[i].vm \in dep[d].mine

QuietRow(i) ==
  \/ alloc'[i] = alloc[i] \/ Manual(i) \/ Refreshed(i) \/ GivenUp(i)
  \/ \E d \in Deps :
       \/ Inserted(i, d)
       \/ i \in PendingOf(d) /\ dep'[d].pc # dep[d].pc /\ (Noted(i, d) \/ Settled(i, d))

\* A pending row's deployment is running, and the row has not expired.
PendingFresh ==
  \A i \in Ips : Holds(i, {"pending"}) =>
    alloc[i].dep \in Deps /\ InRun(alloc[i].dep) /\ ~alloc[i].expired

\* The sweep finds nothing while no deployment is slow.
LEMMA SweepIdle == AllocType /\ PendingFresh => Swept = alloc
<1>0. SUFFICES ASSUME AllocType, PendingFresh PROVE Swept = alloc
  OBVIOUS
<1>1. \A i \in Ips : ~(Holds(i, {"pending"}) /\ alloc[i].expired)
  BY <1>0 DEF PendingFresh
<1> QED
  BY <1>0, <1>1 DEF Swept, Without, AllocType

\* An admin who looks first releases no pending row.
LEMMA AdminGivesUp ==
  ASSUME AllocType, PendingFresh, NEW I \in SUBSET Ips, alloc' = Without(I),
         \A i \in I : alloc[i] # None /\ Unused(i)
  PROVE  \A i \in Ips : QuietRow(i)
<1>1. /\ \A i \in I : alloc'[i] = None
      /\ \A i \in Ips \ I : alloc'[i] = alloc[i]
  BY Deleted
<1>2. ASSUME NEW i \in I PROVE GivenUp(i)
  <2>1. alloc[i] # None /\ Unused(i)
    OBVIOUS
  <2>2. alloc[i].status # "pending"
    BY <2>1 DEF Unused, Holds, PendingFresh
  <2> QED
    BY <1>1, <2>1, <2>2 DEF GivenUp
<1> QED
  BY <1>1, <1>2 DEF QuietRow

\* What any step does to a row while nothing fails.
LEMMA QuietRows ==
  ASSUME Undisturbed, IInv, PendingFresh, Next
  PROVE  \A i \in Ips : QuietRow(i)
<1>a. AllocType /\ dep \in [Deps -> Dep] /\ DepsShaped
  BY DEF IInv, TypeOK, AllocType
<1>b. \A f \in Failures : f \notin Faults
  BY DEF Undisturbed
<1>1. ASSUME alloc' = alloc PROVE \A i \in Ips : QuietRow(i)
  BY <1>1 DEF QuietRow
<1>2. ASSUME alloc' = Swept PROVE \A i \in Ips : QuietRow(i)
  BY <1>a, <1>1, <1>2, SweepIdle
<1>3. ASSUME NEW d \in Deps, NEW vm \in Vms \cup {None}, ReserveInsert(d, vm)
      PROVE  \A i \in Ips : QuietRow(i)
  <2> DEFINE j == IpOf[dep[d].vm]
             r == [status |-> "pending", dep |-> d, vm |-> vm, note |-> None, expired |-> FALSE]
  <2>1. dep[d].vm \in Vms /\ j \in Ips
    BY <1>a, <1>3, IpamAssumption DEF ReserveInsert, At, DepsShaped, Dep
  <2>2. /\ r \in Row /\ r.status = "pending" /\ ~r.expired /\ r.dep = d /\ r.vm = vm
        /\ r.note = None
    BY DEF Row
  <2>3. /\ alloc[j] = None /\ At(d, "insert") /\ alloc' = [alloc EXCEPT ![j] = r]
        /\ vm # None => dep[d].stack = None /\ vm = dep[d].vm
    BY <1>3 DEF ReserveInsert
  <2>4. j = IpOf[dep[d].vm]
    OBVIOUS
  <2> HIDE DEF j, r
  <2>5. alloc'[j] = r /\ \A i \in Ips : i # j => alloc'[i] = alloc[i]
    BY <1>a, <2>1, <2>3 DEF AllocType
  <2>6. Inserted(j, d)
    BY <2>2, <2>3, <2>4, <2>5 DEF Inserted
  <2> QED
    BY <2>5, <2>6 DEF QuietRow
<1>4. ASSUME NEW d \in Deps, SetNote(d) PROVE \A i \in Ips : QuietRow(i)
  <2> DEFINE v == dep[d].vm
             j == IpOf[v]
             r == [alloc[j] EXCEPT !.note = v]
  <2>1. v \in Vms /\ j \in Ips
    BY <1>a, <1>4, IpamAssumption DEF SetNote, At, DepsShaped, Dep
  <2>2. CASE j \notin PendingOf(d)
    BY <1>1, <1>4, <2>2 DEF SetNote
  <2>3. CASE j \in PendingOf(d)
    <3>1. alloc[j] \in Row /\ alloc[j].status = "pending" /\ alloc[j].dep = d
      BY <1>a, <2>3 DEF AllocType, PendingOf, Holds
    <3>2. /\ r \in Row /\ r.status = "pending" /\ r.expired = alloc[j].expired /\ r.dep = d
          /\ r.vm = alloc[j].vm /\ r.note = v
      BY <2>1, <3>1 DEF Row
    <3>3. alloc' = [alloc EXCEPT ![j] = r] /\ At(d, "note")
      BY <1>4, <2>3 DEF SetNote
    <3>4. dep'[d].pc # dep[d].pc
      <4>1. dep'[d].pc = IF dep[d].todo = {v} THEN "apply" ELSE "sweep"
        BY <1>a, <1>4 DEF SetNote, Dep
      <4> QED
        BY <3>3, <4>1 DEF At
    <3>5. j = IpOf[dep[d].vm] /\ v = dep[d].vm
      OBVIOUS
    <3> HIDE DEF v, j, r
    <3>6. alloc'[j] = r /\ \A i \in Ips : i # j => alloc'[i] = alloc[i]
      BY <1>a, <2>1, <3>3 DEF AllocType
    <3>7. Noted(j, d)
      BY <3>2, <3>3, <3>5, <3>6 DEF Noted
    <3> QED
      BY <2>3, <3>4, <3>6, <3>7 DEF QuietRow
  <2> QED
    BY <2>2, <2>3
<1>5. ASSUME NEW d \in Deps, At(d, "rollback") \/ At(d, "free"), Goto(d, "done"),
             alloc' = Without(PendingOf(d))
      PROVE  \A i \in Ips : QuietRow(i)
  <2>1. PendingOf(d) \in SUBSET Ips
    BY DEF PendingOf
  <2>2. /\ \A i \in PendingOf(d) : alloc'[i] = None
        /\ \A i \in Ips \ PendingOf(d) : alloc'[i] = alloc[i]
    BY <1>a, <1>5, <2>1, Deleted
  <2>3. dep'[d].pc # dep[d].pc
    BY <1>a, <1>5 DEF Goto, At, Dep
  <2> QED
    BY <1>5, <2>2, <2>3 DEF QuietRow, Settled
<1>6. ASSUME NEW d \in Deps, ConfirmStack(d) \/ ConfirmJob(d) PROVE \A i \in Ips : QuietRow(i)
  <2>1. /\ At(d, "confirm") /\ Goto(d, "done")
        /\ ConfirmStack(d) => dep[d].stack # None
        /\ ConfirmJob(d) => dep[d].stack = None
    BY <1>6 DEF ConfirmStack, ConfirmJob
  <2>2. dep'[d].pc # dep[d].pc
    BY <1>a, <2>1 DEF Goto, At, Dep
  <2>3. ASSUME NEW i \in Ips, i \notin PendingOf(d) PROVE QuietRow(i)
    <3>1. alloc'[i] = alloc[i]
      BY <1>6, <2>3 DEF ConfirmStack, ConfirmJob
    <3> QED
      BY <3>1 DEF QuietRow
  <2>4. ASSUME NEW i \in Ips, i \in PendingOf(d) PROVE Settled(i, d)
    <3> DEFINE r == [alloc[i] EXCEPT !.status = "confirmed", !.vm = alloc[i].note, !.expired = FALSE]
               q == [alloc[i] EXCEPT !.status = "confirmed", !.expired = FALSE]
    <3>1. alloc[i] \in Row /\ alloc[i] # None /\ alloc[i].dep = d
      BY <1>a, <2>4 DEF AllocType, PendingOf, Holds
    <3>2. /\ r \in Row /\ r.status = "confirmed" /\ r.dep = d /\ r.note = alloc[i].note
          /\ r.vm = alloc[i].note
      BY <3>1 DEF Row
    <3>3. /\ q \in Row /\ q.status = "confirmed" /\ q.dep = d /\ q.note = alloc[i].note
          /\ q.vm = alloc[i].vm
      BY <3>1 DEF Row
    <3>4. ConfirmStack(d) => alloc'[i] = IF ~Recorded(i, d) THEN None ELSE r
      BY <2>4 DEF ConfirmStack
    <3>5. ConfirmJob(d) => alloc'[i] = q
      BY <2>4 DEF ConfirmJob
    <3> HIDE DEF r, q
    <3> QED
      BY <1>6, <2>1, <3>1, <3>2, <3>3, <3>4, <3>5 DEF Settled
  <2> QED
    BY <2>2, <2>3, <2>4 DEF QuietRow
<1>7. ASSUME NEW v \in Vms, alloc' = Without(RowsOf(v)),
             v \notin live' \/ \E d \in Deps : At(d, "release") /\ v \in dep[d].mine
      PROVE  \A i \in Ips : QuietRow(i)
  <2>1. /\ RowsOf(v) \in SUBSET Ips
        /\ \A i \in RowsOf(v) : alloc[i] # None /\ alloc[i].vm = v /\ alloc[i].status # "pending"
    BY DEF RowsOf, Holds
  <2>2. /\ \A i \in RowsOf(v) : alloc'[i] = None
        /\ \A i \in Ips \ RowsOf(v) : alloc'[i] = alloc[i]
    BY <1>a, <1>7, <2>1, Deleted
  <2>3. v # None
    BY IpamAssumption
  <2> QED
    BY <1>7, <2>1, <2>2, <2>3 DEF QuietRow, GivenUp
<1>8. CASE RefreshApply
  <2> DEFINE r(i) == [alloc[i] EXCEPT !.status = IF alloc[i].vm \in seen THEN "confirmed"
                                                 ELSE "orphaned"]
  <2>1. ASSUME NEW i \in Ips, alloc[i] # None
        PROVE  /\ r(i) \in Row /\ r(i).note = alloc[i].note /\ r(i).dep = alloc[i].dep
               /\ r(i).vm = alloc[i].vm /\ r(i).status # "pending"
    BY <1>a, <2>1 DEF Row, AllocType
  <2>2. CASE on
    <3>1. alloc' = [i \in Ips |-> IF ~Holds(i, {"confirmed", "orphaned"}) \/ alloc[i].vm = None
                                  THEN alloc[i] ELSE r(i)]
      BY <1>8, <2>2 DEF RefreshApply
    <3> HIDE DEF r
    <3> QED
      BY <2>1, <3>1 DEF QuietRow, Refreshed, SameRow, Holds
  <2>3. CASE ~on
    BY <1>1, <1>8, <2>3 DEF RefreshApply
  <2> QED
    BY <2>2, <2>3
<1>9. ASSUME NEW i \in Ips, Expire(i) PROVE FALSE
  BY <1>b, <1>9 DEF Expire, PendingFresh, Failures
<1>10. ASSUME NEW j \in Ips, AddManual(j) PROVE \A i \in Ips : QuietRow(i)
  <2> DEFINE r == [status |-> "confirmed", dep |-> None, vm |-> None, note |-> None, expired |-> FALSE]
  <2>1. r \in Row /\ r.status # "pending" /\ r.vm = None
    BY DEF Row
  <2>2. alloc[j] = None /\ alloc' = [alloc EXCEPT ![j] = r]
    BY <1>10 DEF AddManual
  <2> HIDE DEF r
  <2>3. alloc'[j] = r /\ \A i \in Ips : i # j => alloc'[i] = alloc[i]
    BY <1>a, <2>2 DEF AllocType
  <2> QED
    BY <2>1, <2>2, <2>3 DEF QuietRow, Manual
<1>11. "blind" \notin Uses
  BY DEF Undisturbed
<1>12. ASSUME NEW j \in Ips, ReleaseById(j) PROVE \A i \in Ips : QuietRow(i)
  <2>1. {j} \in SUBSET Ips /\ alloc' = Without({j}) /\ \A i \in {j} : alloc[i] # None /\ Unused(i)
    BY <1>11, <1>12 DEF ReleaseById
  <2> QED
    BY <1>a, <2>1, AdminGivesUp
<1>13. ASSUME NEW I \in SUBSET Ips, ReleaseOrphans(I) PROVE \A i \in Ips : QuietRow(i)
  <2>1. alloc' = Without(I) /\ \A i \in I : alloc[i] # None /\ Unused(i)
    BY <1>11, <1>13 DEF ReleaseOrphans, Holds
  <2> QED
    BY <1>a, <2>1, AdminGivesUp
<1>14. ASSUME NEW d \in Deps, Reserve(d) PROVE \A i \in Ips : QuietRow(i)
  BY <1>1, <1>2, <1>3, <1>4, <1>5, <1>14
     DEF Reserve, DeployStart, JobStart, ReserveSweep, ReserveConflict, ReserveSwallowed, Rollback
<1>15. ASSUME NEW d \in Deps, Settle(d) PROVE \A i \in Ips : QuietRow(i)
  BY <1>1, <1>5, <1>6, <1>15 DEF Settle, Apply, Play, Sync, FreeJob, HookFailed
<1>16. ASSUME NEW d \in Deps, Destroy(d) PROVE \A i \in Ips : QuietRow(i)
  <2>1. ASSUME NEW v \in Vms, ReleaseVm(d, v) PROVE \A i \in Ips : QuietRow(i)
    <3>1. At(d, "release") /\ v \in dep[d].mine /\ alloc' = Without(RowsOf(v))
      BY <1>a, <2>1 DEF ReleaseVm, DepsShaped, At
    <3> QED
      BY <1>7, <3>1
  <2> QED
    BY <1>1, <1>16, <2>1 DEF Destroy, DestroyStart, DestroyTofu, Resync, ClearTracked
<1>17. CASE Outside
  <2>1. ASSUME NEW v \in Vms, DeleteVm(v) PROVE \A i \in Ips : QuietRow(i)
    BY <1>7, <2>1 DEF DeleteVm
  <2> QED
    BY <1>1, <1>2, <1>8, <1>9, <1>10, <1>12, <1>13, <1>17, <2>1
       DEF Outside, Vanish, RefreshRead, Sweep, Toggle, Crash
<1> QED
  BY <1>14, <1>15, <1>16, <1>17 DEF Next

\* A deployment is moved by steps of its own, or ended by a restart.
LEMMA Actor ==
  ASSUME dep \in [Deps -> Dep], Next, ~Crash, NEW d \in Deps, dep'[d] # dep[d]
  PROVE  Reserve(d) \/ Settle(d) \/ Destroy(d)
<1>1. ASSUME NEW e \in Deps, Reserve(e) PROVE e = d
  BY <1>1 DEF Reserve, DeployStart, JobStart, ReserveSweep, ReserveInsert, ReserveConflict,
     SetNote, ReserveSwallowed, Rollback, Goto
<1>2. ASSUME NEW e \in Deps, Settle(e) PROVE e = d
  BY <1>2 DEF Settle, Apply, Play, Sync, ConfirmStack, ConfirmJob, FreeJob, HookFailed, Goto
<1>3. ASSUME NEW e \in Deps, Destroy(e) PROVE e = d
  BY <1>3 DEF Destroy, DestroyStart, DestroyTofu, Resync, ReleaseVm, ClearTracked, Goto
<1>4. ~Outside
  BY DEF Outside, DeleteVm, Vanish, RefreshRead, RefreshApply, Expire, AddManual, ReleaseById,
     ReleaseOrphans, Sweep, Toggle
<1> QED
  BY <1>1, <1>2, <1>3, <1>4 DEF Next

\* A row stays reserved for its VM as long as its deployment and its note stay.
LEMMA ReservedForKept ==
  ASSUME RowsFit, AllocType, DepStep, NEW i \in Ips,
         alloc'[i] # None, alloc'[i].dep = alloc[i].dep, alloc'[i].note = alloc[i].note
  PROVE  \A v : ReservedFor(i, v) => ReservedFor(i, v)'
<1>0. SUFFICES ASSUME NEW v, ReservedFor(i, v) PROVE ReservedFor(i, v)'
  OBVIOUS
<1>1. alloc[i] # None /\ alloc[i].dep # None /\ alloc[i] \in Row
  BY <1>0 DEF ReservedFor, AllocType
<1>2. alloc[i].dep \in Deps /\ dep[alloc[i].dep].pc # "new"
  BY <1>1 DEF RowsFit, Row
<1>3. dep'[alloc[i].dep].stack = dep[alloc[i].dep].stack
        /\ dep'[alloc[i].dep].mine = dep[alloc[i].dep].mine
  BY <1>2, KeptMine
<1> QED
  BY <1>0, <1>3 DEF ReservedFor

\* A row is reserved for one VM.
LEMMA ReservedForOne ==
  ASSUME NEW i, NEW v, NEW w, ReservedFor(i, v), ReservedFor(i, w)
  PROVE  v = w
BY DEF ReservedFor

\* While nothing fails no pending row expires.
LEMMA FreshRows == TypeOK /\ RowsFit /\ PendingInRun /\ RowsTrue => PendingFresh
<1>0. SUFFICES ASSUME TypeOK, RowsFit, PendingInRun, RowsTrue, NEW i \in Ips, Holds(i, {"pending"})
               PROVE  alloc[i].dep \in Deps /\ InRun(alloc[i].dep) /\ ~alloc[i].expired
  BY DEF PendingFresh
<1>1. alloc[i] \in Row /\ alloc[i].dep # None
  BY <1>0 DEF TypeOK, RowsFit, Holds
<1> QED
  BY <1>0, <1>1 DEF Row, PendingInRun, Settling, InRun, Running, RowsTrue, Holds

\* A pending row stays as it is while its deployment does not move.
LEMMA PendingStays ==
  ASSUME NEW d \in Deps, NEW i \in Ips, i \in PendingOf(d), QuietRow(i), dep'[d] = dep[d]
  PROVE  alloc'[i] = alloc[i]
BY DEF QuietRow, Manual, Refreshed, GivenUp, Inserted, PendingOf, Holds

\* No row names a VM it was not reserved for.
LEMMA RowsTrueStep ==
  ASSUME Undisturbed, IInv, Quiet, Next
  PROVE  RowsTrue'
<1>a. DepStep /\ RowsFit /\ AllocType /\ DepsShaped /\ \A i \in Ips : QuietRow(i)
  BY StepDep, QuietRows, FreshRows DEF IInv, Quiet, TypeOK, AllocType
<1>0. SUFFICES ASSUME NEW i \in Ips, alloc'[i] # None
               PROVE  /\ alloc'[i].vm # None => ReservedFor(i, alloc[i].vm)'
                      /\ alloc'[i].status = "pending" => ~alloc'[i].expired
  BY DEF RowsTrue
<1>b. ASSUME alloc[i] # None
      PROVE  /\ alloc[i].vm # None => ReservedFor(i, alloc[i].vm)
             /\ alloc[i].status = "pending" => ~alloc[i].expired
  BY <1>b DEF Quiet, RowsTrue
<1>c. ASSUME alloc[i] # None, alloc'[i].dep = alloc[i].dep, alloc'[i].note = alloc[i].note,
             alloc'[i].vm = alloc[i].vm, alloc[i].vm # None
      PROVE  ReservedFor(i, alloc[i].vm)'
  <2>1. PICK v : v = alloc[i].vm
    OBVIOUS
  <2>2. ReservedFor(i, v)
    BY <1>b, <1>c, <2>1
  <2>3. ReservedFor(i, v)'
    BY <1>a, <1>0, <1>c, <2>2, ReservedForKept
  <2>4. alloc'[i].vm = v
    BY <1>c, <2>1
  <2> QED
    BY <2>3, <2>4 DEF ReservedFor
<1>1. CASE alloc'[i] = alloc[i]
  BY <1>b, <1>c, <1>0, <1>1
<1>2. CASE Manual(i)
  BY <1>2 DEF Manual
<1>3. CASE Refreshed(i)
  BY <1>c, <1>3 DEF Refreshed, SameRow
<1>4. ASSUME NEW d \in Deps, Inserted(i, d)
      PROVE  /\ alloc'[i].vm # None => ReservedFor(i, alloc[i].vm)'
             /\ alloc'[i].status = "pending" => ~alloc'[i].expired
  <2>1. ~alloc'[i].expired
    BY <1>4 DEF Inserted
  <2>2. ASSUME alloc'[i].vm # None PROVE ReservedFor(i, alloc[i].vm)'
    <3>1. dep[d].stack = None /\ alloc'[i].vm = dep[d].vm /\ dep[d].pc = "insert" /\ alloc'[i].dep = d
      BY <1>4, <2>2 DEF Inserted, At
    <3>2. dep[d].mine = {dep[d].vm}
      BY <1>a, <3>1 DEF DepsShaped
    <3>3. dep'[d].stack = None /\ dep'[d].mine = {dep[d].vm}
      BY <1>a, <3>1, <3>2, KeptMine
    <3>4. d # None
      BY IpamAssumption
    <3> QED
      BY <1>0, <3>1, <3>3, <3>4 DEF ReservedFor
  <2> QED
    BY <2>1, <2>2
<1>5. ASSUME NEW d \in Deps, i \in PendingOf(d), Noted(i, d)
      PROVE  /\ alloc'[i].vm # None => ReservedFor(i, alloc[i].vm)'
             /\ alloc'[i].status = "pending" => ~alloc'[i].expired
  <2>1. alloc[i].dep = d /\ alloc[i] # None /\ alloc[i].status = "pending"
    BY <1>5 DEF PendingOf, Holds
  <2>2. dep[d].stack # None /\ alloc[i].note = None
    BY <1>a, <1>5 DEF Noted, At, DepsShaped, Quiet, ReservedSoFar, SoFar
  <2>3. alloc[i].vm = None
    BY <1>b, <2>1, <2>2 DEF ReservedFor
  <2> QED
    BY <1>b, <1>5, <2>1, <2>3 DEF Noted
<1>6. ASSUME NEW d \in Deps, i \in PendingOf(d), Settled(i, d)
      PROVE  /\ alloc'[i].vm # None => ReservedFor(i, alloc[i].vm)'
             /\ alloc'[i].status = "pending" => ~alloc'[i].expired
  <2>1. alloc[i].dep = d /\ alloc[i] # None
    BY <1>6 DEF PendingOf, Holds
  <2>2. /\ At(d, "confirm") /\ alloc'[i].status = "confirmed" /\ alloc'[i].dep = d
        /\ alloc'[i].note = alloc[i].note
        /\ alloc'[i].vm = IF dep[d].stack # None THEN alloc[i].note ELSE alloc[i].vm
    BY <1>0, <1>6 DEF Settled
  <2>3. CASE dep[d].stack = None
    BY <1>c, <2>1, <2>2, <2>3
  <2>4. CASE dep[d].stack # None
    <3>1. dep'[d].stack # None
      BY <1>a, <2>2, <2>4, KeptMine DEF At
    <3>2. d # None
      BY IpamAssumption
    <3> QED
      BY <1>0, <2>2, <2>4, <3>1, <3>2 DEF ReservedFor
  <2> QED
    BY <2>3, <2>4
<1> QED
  BY <1>a, <1>0, <1>1, <1>2, <1>3, <1>4, <1>5, <1>6 DEF QuietRow, GivenUp

\* Nothing has happened yet when the IPAM is switched on; it is not switched off.
LEMMA OnStep ==
  ASSUME Undisturbed, Next
  PROVE  on' = on \/ (on' /\ dep' = dep /\ live' = live /\ \A d \in Deps : At(d, "new"))
<1>1. ASSUME NEW d \in Deps, Reserve(d) PROVE on' = on
  BY <1>1 DEF Reserve, DeployStart, JobStart, ReserveSweep, ReserveInsert, ReserveConflict,
     SetNote, ReserveSwallowed, Rollback
<1>2. ASSUME NEW d \in Deps, Settle(d) PROVE on' = on
  BY <1>2 DEF Settle, Apply, Play, Sync, ConfirmStack, ConfirmJob, FreeJob, HookFailed
<1>3. ASSUME NEW d \in Deps, Destroy(d) PROVE on' = on
  BY <1>3 DEF Destroy, DestroyStart, DestroyTofu, Resync, ReleaseVm, ClearTracked
<1>4. CASE Toggle
  BY <1>4 DEF Toggle, Undisturbed, cluster
<1>5. CASE Outside /\ ~Toggle
  BY <1>5 DEF Outside, DeleteVm, Vanish, RefreshRead, RefreshApply, Expire, AddManual,
     ReleaseById, ReleaseOrphans, Sweep, Crash
<1> QED
  BY <1>1, <1>2, <1>3, <1>4, <1>5 DEF Next

\* A VM is made by a deployment that goes on to confirm its address.
LEMMA Built ==
  ASSUME Undisturbed, dep \in [Deps -> Dep], Next, NEW v \in live', v \notin live
  PROVE  \E d \in Deps : /\ At(d, "apply") /\ v \in dep[d].mine /\ alloc' = alloc /\ on' = on
                         /\ dep'[d].pc \in {"sync", "confirm"}
<1>1. ~Crash /\ "halfway" \notin Faults
  BY DEF Crash, Undisturbed
<1>2. ASSUME NEW d \in Deps, Reserve(d) PROVE FALSE
  BY <1>2 DEF Reserve, DeployStart, JobStart, ReserveSweep, ReserveInsert, ReserveConflict,
     SetNote, ReserveSwallowed, Rollback, cluster
<1>3. ASSUME NEW d \in Deps, Destroy(d) PROVE FALSE
  BY <1>3 DEF Destroy, DestroyStart, DestroyTofu, Resync, ReleaseVm, ClearTracked, cluster
<1>4. ~Outside
  BY <1>1 DEF Outside, DeleteVm, Vanish, RefreshRead, RefreshApply, Expire, AddManual,
     ReleaseById, ReleaseOrphans, Sweep, Toggle, cluster
<1>5. ASSUME NEW d \in Deps, Settle(d)
      PROVE  /\ At(d, "apply") /\ v \in dep[d].mine /\ alloc' = alloc /\ on' = on
             /\ Goto(d, "sync") \/ Goto(d, "confirm")
  BY <1>1, <1>5 DEF Settle, Apply, Play, Sync, ConfirmStack, ConfirmJob, FreeJob, HookFailed, cluster
<1>6. ASSUME NEW d \in Deps, Goto(d, "sync") \/ Goto(d, "confirm")
      PROVE  dep'[d].pc \in {"sync", "confirm"}
  BY <1>6 DEF Goto, Dep
<1> QED
  BY <1>2, <1>3, <1>4, <1>5, <1>6 DEF Next

\* After tofu a deployment only confirms.
LEMMA SyncMoves ==
  ASSUME Undisturbed, dep \in [Deps -> Dep], Next, NEW d \in Deps, dep[d].pc \in {"sync", "confirm"}
  PROVE  dep'[d].pc \in {"sync", "confirm", "done"}
<1>1. CASE dep'[d] = dep[d]
  BY <1>1
<1>2. CASE dep'[d] # dep[d]
  <2>1. Reserve(d) \/ Settle(d) \/ Destroy(d)
    BY <1>2, Actor, SMTT(40) DEF Crash, Undisturbed
  <2>2. Goto(d, "confirm") \/ Goto(d, "done")
    BY <2>1 DEF Reserve, DeployStart, JobStart, ReserveSweep, ReserveInsert, ReserveConflict,
       SetNote, ReserveSwallowed, Rollback, Settle, Apply, Play, Sync, ConfirmStack, ConfirmJob,
       FreeJob, HookFailed, Destroy, DestroyStart, DestroyTofu, Resync, ReleaseVm, ClearTracked, At
  <2> QED
    BY <2>2 DEF Goto, Dep
<1> QED
  BY <1>1, <1>2

\* The address of a VM that goes on existing stays its own.
LEMMA ProtectedKept ==
  ASSUME Undisturbed, IInv, Quiet, Next, NEW v \in live \cap live', Protected(v)
  PROVE  Protected(v)'
<1> DEFINE i == IpOf[v]
           e == alloc[i].dep
<1>a. /\ DepStep /\ RowsFit /\ AllocType /\ DepsShaped /\ GoneBeforeRelease /\ PendingInRun'
      /\ dep \in [Deps -> Dep]
  BY StepDep, PendingStep DEF IInv, Quiet, TypeOK, AllocType, Undisturbed, HooksWork
<1>b. v \in Vms /\ v # None /\ i \in Ips
  BY IpamAssumption DEF IInv, TypeOK
<1>c. QuietRow(i)
  BY <1>b, QuietRows, FreshRows DEF IInv, Quiet
<1>d. /\ ReservedFor(i, v) /\ alloc[i] # None /\ e \in Deps /\ dep[e].pc # "new"
      /\ alloc[i].status = "pending" => dep[e].pc \in {"sync", "confirm"} /\ v \in dep[e].mine
  <2>1. alloc[i] # None /\ e # None /\ alloc[i] \in Row
    BY <1>a, <1>b DEF Protected, ReservedFor, AllocType
  <2>2. e \in Deps /\ dep[e].pc # "new"
    BY <1>a, <1>b, <2>1 DEF RowsFit, Row
  <2> QED
    BY <2>1, <2>2 DEF Protected
<1>1. ASSUME alloc'[i] # None, alloc'[i].dep = e, alloc'[i].note = alloc[i].note,
             alloc'[i].status = "pending" => alloc[i].status = "pending"
      PROVE  Protected(v)'
  <2>1. ReservedFor(i, v)'
    BY <1>a, <1>b, <1>d, <1>1, ReservedForKept
  <2>2. ASSUME alloc'[i].status = "pending"
        PROVE  dep'[e].pc \in {"sync", "confirm"} /\ v \in dep'[e].mine
    <3>1. dep[e].pc \in {"sync", "confirm"} /\ v \in dep[e].mine
      BY <1>d, <1>1, <2>2
    <3>2. dep'[e].mine = dep[e].mine
      BY <1>a, <1>d, KeptMine
    <3>3. dep'[e].pc \in {"sync", "confirm", "done"}
      BY <1>a, <1>d, <3>1, SyncMoves
    <3>4. Holds(i, {"pending"})'
      BY <1>1, <2>2 DEF Holds
    <3>5. dep'[e].pc # "done"
      BY <1>a, <1>b, <1>1, <3>4 DEF PendingInRun, Settling, Reserving, Applying
    <3> QED
      BY <3>1, <3>2, <3>3, <3>5
  <2> QED
    BY <1>1, <2>1, <2>2 DEF Protected
<1>2. CASE alloc'[i] = alloc[i]
  BY <1>1, <1>2, <1>d
<1>3. CASE Manual(i)
  BY <1>3, <1>d DEF Manual
<1>4. CASE Refreshed(i)
  BY <1>1, <1>4, NoRowAssumption DEF Refreshed, SameRow
<1>5. CASE GivenUp(i)
  <2>1. ~Unused(i)
    BY <1>b DEF Unused
  <2>2. PICK w : w = alloc[i].vm
    OBVIOUS
  <2>3. CASE w = None
    <3>1. \A d \in Deps : dep[d].mine \subseteq Vms
      BY <1>a DEF Dep
    <3>2. \A d \in Deps : w \notin dep[d].mine
      BY <2>3, <3>1, IpamAssumption
    <3> QED
      BY <1>5, <2>1, <2>2, <2>3, <3>2 DEF GivenUp
  <2>4. CASE w # None
    <3>1. ReservedFor(i, w)
      BY <1>b, <1>d, <2>2, <2>4 DEF Quiet, RowsTrue
    <3>2. w = v
      BY <1>d, <3>1, ReservedForOne
    <3> QED
      BY <1>a, <1>5, <2>1, <2>2, <3>2 DEF GivenUp, GoneBeforeRelease
  <2> QED
    BY <2>3, <2>4
<1>6. ASSUME NEW d \in Deps, Inserted(i, d) PROVE FALSE
  BY <1>6, <1>d, SMTT(40) DEF Inserted
<1>7. ASSUME NEW d \in Deps, i \in PendingOf(d), Noted(i, d) PROVE FALSE
  BY <1>7, <1>d DEF Noted, At, PendingOf, Holds
<1>8. ASSUME NEW d \in Deps, i \in PendingOf(d), Settled(i, d) PROVE Protected(v)'
  <2>1. e = d /\ dep[d].pc \in {"sync", "confirm"} /\ v \in dep[d].mine
    BY <1>8, <1>d DEF PendingOf, Holds
  <2>2. At(d, "confirm")
    BY <1>8, <2>1 DEF Settled, At
  <2>3. dep[d].stack # None => Recorded(i, d)
    <3>1. SUFFICES ASSUME dep[d].stack # None PROVE Recorded(i, d)
      OBVIOUS
    <3>2. StackOf[v] # None
      BY <1>a, <2>1, <3>1 DEF DepsShaped, StackVms
    <3>3. v \in state
      BY <3>2 DEF Quiet, StateComplete
    <3>4. tracked[v] = d
      BY <2>1, <2>2, <3>1, <3>3 DEF Quiet, StateComplete
    <3>5. alloc[i].note = v
      BY <1>d, <2>1, <3>1 DEF ReservedFor
    <3> QED
      BY <1>b, <3>4, <3>5 DEF Recorded
  <2>4. /\ alloc'[i] \in Row /\ alloc'[i].status = "confirmed" /\ alloc'[i].dep = d
        /\ alloc'[i].note = alloc[i].note
    BY <1>8, <2>1, <2>2, <2>3 DEF Settled, At
  <2> QED
    BY <1>1, <2>1, <2>4, NoRowAssumption
<1> QED
  BY <1>c, <1>2, <1>3, <1>4, <1>5, <1>6, <1>7, <1>8 DEF QuietRow

\* Every VM that exists has its address.
LEMMA ProtectedStep ==
  ASSUME Undisturbed, IInv, Quiet, Next
  PROVE  LiveProtected'
<1>0. SUFFICES ASSUME on', NEW v \in live' PROVE Protected(v)'
  BY DEF LiveProtected
<1>a. /\ DepStep /\ RowsFit /\ AllocType /\ dep \in [Deps -> Dep]
  BY StepDep DEF IInv, TypeOK, AllocType
<1>1. CASE v \in live
  <2>1. on
    <3>1. (\A d \in Deps : At(d, "new")) => live = {}
      BY DEF Quiet, StateComplete
    <3> QED
      BY <1>0, <1>1, <3>1, OnStep
  <2>2. Protected(v)
    BY <1>1, <2>1 DEF Quiet, LiveProtected
  <2> QED
    BY <1>0, <1>1, <2>2, ProtectedKept
<1>2. CASE v \notin live
  <2>1. PICK d \in Deps : /\ At(d, "apply") /\ v \in dep[d].mine /\ alloc' = alloc /\ on' = on
                         /\ dep'[d].pc \in {"sync", "confirm"}
    BY <1>0, <1>a, <1>2, Built
  <2>2. Reserved(d, v)
    BY <1>0, <2>1 DEF Quiet, ReservedSoFar, SoFar, At
  <2>3. v \in Vms /\ IpOf[v] \in Ips
    BY <1>a, <2>1, IpamAssumption DEF Dep
  <2>4. ReservedFor(IpOf[v], v)'
    <3>1. ReservedFor(IpOf[v], v) /\ alloc[IpOf[v]] # None
      BY <2>2 DEF Reserved, Holds
    <3> QED
      BY <1>a, <2>1, <2>3, <3>1, ReservedForKept
  <2>5. dep'[d].mine = dep[d].mine
    BY <1>a, <2>1, KeptMine DEF At
  <2> QED
    BY <2>1, <2>2, <2>4, <2>5 DEF Protected, Reserved
<1> QED
  BY <1>1, <1>2

\* A reservation stays while its row stays.
LEMMA ReservedKept ==
  ASSUME IInv, DepStep, NEW d \in Deps, NEW v \in Vms, Reserved(d, v), alloc'[IpOf[v]] = alloc[IpOf[v]]
  PROVE  Reserved(d, v)'
<1>1. IpOf[v] \in Ips /\ RowsFit /\ AllocType
  BY IpamAssumption DEF IInv, TypeOK, AllocType
<1>2. ReservedFor(IpOf[v], v) /\ alloc[IpOf[v]] # None
  BY DEF Reserved, Holds
<1>3. ReservedFor(IpOf[v], v)'
  BY <1>1, <1>2, ReservedForKept
<1> QED
  BY <1>3 DEF Reserved, Holds

\* The others' reservations stay with a deployment that does not move.
LEMMA SoFarStill ==
  ASSUME Undisturbed, IInv, Quiet, Next, NEW d \in Deps, dep'[d] = dep[d]
  PROVE  SoFar(d)'
<1>a. /\ DepStep /\ \A i \in Ips : QuietRow(i)
      /\ dep[d].mine \subseteq Vms
      /\ dep[d].pc = "note" => dep[d].vm \in Vms
  BY StepDep, QuietRows, FreshRows DEF IInv, Quiet, TypeOK, Dep, DepsShaped
<1>b. SoFar(d)
  BY DEF Quiet, ReservedSoFar
<1>1. ASSUME NEW v \in Vms, Reserved(d, v) PROVE Reserved(d, v)'
  <2>1. IpOf[v] \in Ips /\ IpOf[v] \in PendingOf(d)
    BY <1>1, IpamAssumption DEF Reserved, PendingOf
  <2>2. alloc'[IpOf[v]] = alloc[IpOf[v]]
    BY <1>a, <2>1, PendingStays
  <2> QED
    BY <1>a, <1>1, <2>2, ReservedKept
<1>2. CASE dep[d].pc \in {"sweep", "insert", "note"}
  <2>1. \A v \in dep[d].mine \ dep[d].todo : Reserved(d, v)'
    BY <1>a, <1>b, <1>1, <1>2 DEF SoFar
  <2>2. ASSUME dep[d].pc = "note"
        PROVE  LET i == IpOf[dep[d].vm] IN
                 Holds(i, {"pending"})' /\ alloc'[i].dep = d /\ alloc'[i].note = None
    <3>1. PICK i : i = IpOf[dep[d].vm]
      OBVIOUS
    <3>2. i \in Ips /\ Holds(i, {"pending"}) /\ alloc[i].dep = d /\ alloc[i].note = None
      BY <1>a, <1>b, <2>2, <3>1, IpamAssumption DEF SoFar, At
    <3>3. alloc'[i] = alloc[i]
      BY <1>a, <3>2, PendingStays DEF PendingOf
    <3>4. dep'[d].vm = dep[d].vm
      OBVIOUS
    <3> QED
      BY <3>1, <3>2, <3>3, <3>4 DEF Holds
  <2> QED
    BY <1>2, <2>1, <2>2 DEF SoFar, At, Holds
<1>3. CASE dep[d].pc \in {"apply", "sync", "confirm"}
  <2>1. on' => on
    BY <1>3, OnStep DEF At
  <2>2. on => \A v \in dep[d].mine : Reserved(d, v)'
    BY <1>a, <1>b, <1>1, <1>3 DEF SoFar
  <2> QED
    BY <1>3, <2>1, <2>2 DEF SoFar, At
<1>4. CASE dep[d].pc \notin {"sweep", "insert", "note", "apply", "sync", "confirm"}
  BY <1>4 DEF SoFar, At
<1> QED
  BY <1>2, <1>3, <1>4

\* A deployment that moves on reserves one more address, or keeps what it has.
LEMMA SoFarMoves ==
  ASSUME Undisturbed, IInv, Quiet, Next, NEW d \in Deps, dep'[d] # dep[d]
  PROVE  SoFar(d)'
<1>a. /\ DepStep /\ DepsShaped /\ AllocType /\ dep \in [Deps -> Dep]
      /\ dep[d].mine \subseteq Vms /\ dep[d] \in Dep /\ PendingFresh
  BY StepDep, FreshRows DEF IInv, Quiet, TypeOK, Dep, AllocType
<1>b. SoFar(d)
  BY DEF Quiet, ReservedSoFar
<1>c. "db" \notin Faults /\ "halfway" \notin Faults
  BY DEF Undisturbed
<1>d. ASSUME NEW c \in PCs, Goto(d, c)
      PROVE  dep'[d].pc = c /\ dep'[d].mine = dep[d].mine /\ dep'[d].todo = dep[d].todo
             /\ dep'[d].vm = dep[d].vm /\ dep'[d].stack = dep[d].stack
  BY <1>a, <1>d, GotoMoves DEF Moves
<1>e. {"note", "rollback", "apply", "sync", "confirm", "free", "resync", "done"} \subseteq PCs
  BY DEF PCs, Running, Reserving, Applying, Destroying
<1>f. ASSUME NEW c \in PCs, Goto(d, c), c \notin {"sweep", "insert", "note", "apply", "sync", "confirm"}
      PROVE  SoFar(d)'
  BY <1>d, <1>f DEF SoFar, At
<1>1. ASSUME NEW s \in Stacks, DeployStart(d, s) PROVE SoFar(d)'
  <2>1. /\ dep'[d].pc = (IF on THEN "sweep" ELSE "apply") /\ on' = on
        /\ dep'[d].mine = StackVms(s) /\ dep'[d].todo = StackVms(s)
    BY <1>a, <1>1 DEF DeployStart
  <2> QED
    BY <2>1 DEF SoFar, At
<1>2. ASSUME NEW v \in Vms, JobStart(d, v) PROVE SoFar(d)'
  <2>1. /\ dep'[d].pc = (IF on THEN "sweep" ELSE "apply") /\ on' = on
        /\ dep'[d].mine = {v} /\ dep'[d].todo = {v}
    BY <1>a, <1>2 DEF JobStart
  <2> QED
    BY <2>1 DEF SoFar, At
<1>3. ASSUME NEW v \in Vms, ReserveSweep(d, v) PROVE SoFar(d)'
  <2>1. alloc' = alloc
    BY <1>a, <1>3, SweepIdle DEF ReserveSweep
  <2>2. /\ dep[d].pc = "sweep" /\ dep'[d].pc = "insert"
        /\ dep'[d].mine = dep[d].mine /\ dep'[d].todo = dep[d].todo
    BY <1>a, <1>3 DEF ReserveSweep, At, Dep
  <2>3. \A w \in dep[d].mine \ dep[d].todo : Reserved(d, w)'
    BY <1>a, <1>b, <2>1, <2>2, ReservedKept DEF SoFar
  <2> QED
    BY <2>2, <2>3 DEF SoFar, At
<1>4. ASSUME NEW vm \in Vms \cup {None}, ReserveInsert(d, vm) PROVE SoFar(d)'
  <2>1. PICK v : v = dep[d].vm
    OBVIOUS
  <2> DEFINE j == IpOf[v]
             r == [status |-> "pending", dep |-> d, vm |-> vm, note |-> None, expired |-> FALSE]
  <2>2. v \in Vms /\ j \in Ips /\ dep[d].pc = "insert" /\ v \in dep[d].todo /\ v \in dep[d].mine
    BY <1>a, <1>4, <2>1, IpamAssumption DEF ReserveInsert, At, DepsShaped, Dep
  <2>3. r \in Row /\ r.status = "pending" /\ r.dep = d /\ r.note = None
    BY DEF Row
  <2>4. alloc[j] = None /\ alloc' = [alloc EXCEPT ![j] = r]
    BY <1>4, <2>1 DEF ReserveInsert
  <2>5. j = IpOf[v]
    OBVIOUS
  <2> HIDE DEF j, r
  <2>6. alloc'[j] = r /\ \A i \in Ips : i # j => alloc'[i] = alloc[i]
    BY <1>a, <2>2, <2>4 DEF AllocType
  <2>7. alloc'[j] # None /\ alloc'[j].status = "pending" /\ alloc'[j].dep = d /\ alloc'[j].note = None
    BY <2>3, <2>6, NoRowAssumption
  <2>8. CASE dep[d].stack # None
    <3>1. Goto(d, "note")
      BY <1>4, <2>8 DEF ReserveInsert
    <3>2. /\ dep'[d].pc = "note" /\ dep'[d].mine = dep[d].mine /\ dep'[d].todo = dep[d].todo
          /\ dep'[d].vm = v
      BY <1>d, <1>e, <2>1, <3>1
    <3>3. ASSUME NEW w \in dep[d].mine \ dep[d].todo PROVE Reserved(d, w)'
      <4>1. Reserved(d, w) /\ w \in Vms
        BY <1>a, <1>b, <2>2, <3>3 DEF SoFar
      <4>2. IpOf[w] \in Ips /\ IpOf[w] # j
        BY <2>4, <4>1, IpamAssumption DEF Reserved, Holds
      <4> QED
        BY <1>a, <2>6, <4>1, <4>2, ReservedKept
    <3> QED
      BY <2>5, <2>7, <3>2, <3>3 DEF SoFar, At, Holds
  <2>9. CASE dep[d].stack = None
    <3>1. Goto(d, "apply")
      BY <1>4, <2>9 DEF ReserveInsert
    <3>2. dep'[d].pc = "apply" /\ dep'[d].mine = dep[d].mine /\ dep'[d].stack = None
      BY <1>d, <1>e, <2>9, <3>1
    <3>3. dep[d].mine = {v}
      BY <1>a, <2>2, <2>9 DEF DepsShaped
    <3>4. d # None
      BY IpamAssumption
    <3>5. ReservedFor(j, v)'
      BY <2>7, <3>2, <3>3, <3>4 DEF ReservedFor
    <3>6. Reserved(d, v)'
      BY <2>5, <2>7, <3>5 DEF Reserved, Holds
    <3> QED
      BY <3>2, <3>3, <3>6 DEF SoFar, At
  <2> QED
    BY <2>8, <2>9
<1>5. ASSUME SetNote(d) PROVE SoFar(d)'
  <2>1. PICK v : v = dep[d].vm
    OBVIOUS
  <2> DEFINE j == IpOf[v]
             r == [alloc[j] EXCEPT !.note = v]
  <2>2. /\ v \in Vms /\ j \in Ips /\ dep[d].pc = "note" /\ v \in dep[d].todo
        /\ dep[d].stack # None
    BY <1>a, <1>5, <2>1, IpamAssumption DEF SetNote, At, DepsShaped, Dep
  <2>3. Holds(j, {"pending"}) /\ alloc[j].dep = d /\ alloc[j].note = None /\ j \in PendingOf(d)
    BY <1>b, <2>1, <2>2 DEF SoFar, At, PendingOf
  <2>4. alloc[j] \in Row
    BY <1>a, <2>2, <2>3 DEF AllocType, Holds
  <2>5. r # None /\ r.status = "pending" /\ r.dep = d /\ r.note = v
    BY <2>2, <2>3, <2>4, NoRowAssumption DEF Row, Holds
  <2>6. alloc' = [alloc EXCEPT ![j] = r]
    BY <1>5, <2>1, <2>3 DEF SetNote
  <2>7. /\ dep'[d].pc = (IF dep[d].todo = {v} THEN "apply" ELSE "sweep")
        /\ dep'[d].mine = dep[d].mine /\ dep'[d].todo = dep[d].todo \ {v}
        /\ dep'[d].stack = dep[d].stack
    BY <1>a, <1>5, <2>1 DEF SetNote, Dep
  <2>8. j = IpOf[v]
    OBVIOUS
  <2> HIDE DEF j, r
  <2>9. alloc'[j] = r /\ \A i \in Ips : i # j => alloc'[i] = alloc[i]
    BY <1>a, <2>2, <2>6 DEF AllocType
  <2>10. Reserved(d, v)'
    <3>1. d # None
      BY IpamAssumption
    <3>2. ReservedFor(j, v)'
      BY <2>2, <2>5, <2>7, <2>9, <3>1 DEF ReservedFor
    <3> QED
      BY <2>5, <2>8, <2>9, <3>2 DEF Reserved, Holds
  <2>11. ASSUME NEW w \in dep[d].mine \ dep[d].todo PROVE Reserved(d, w)'
    <3>1. Reserved(d, w) /\ w \in Vms
      BY <1>a, <1>b, <2>2, <2>11 DEF SoFar
    <3>2. w # None
      BY <3>1, IpamAssumption
    <3>3. IpOf[w] \in Ips /\ IpOf[w] # j
      BY <2>2, <2>3, <3>1, <3>2, IpamAssumption DEF Reserved, ReservedFor
    <3> QED
      BY <1>a, <2>9, <3>1, <3>3, ReservedKept
  <2>12. \A w \in dep'[d].mine \ dep'[d].todo : Reserved(d, w)'
    BY <2>7, <2>10, <2>11
  <2>13. dep'[d].pc = "apply" => dep'[d].todo = {}
    BY <2>7
  <2> QED
    BY <2>7, <2>12, <2>13 DEF SoFar, At
<1>6. ASSUME Apply(d) \/ Play(d) \/ Sync(d) PROVE SoFar(d)'
  <2>1. /\ dep[d].pc \in {"apply", "sync"} /\ alloc' = alloc /\ on' = on
        /\ Goto(d, "sync") \/ Goto(d, "confirm") \/ Goto(d, "free")
    BY <1>6 DEF Apply, Play, Sync, At
  <2>2. dep'[d].pc \in {"sync", "confirm", "free"} /\ dep'[d].mine = dep[d].mine
    BY <1>d, <1>e, <2>1
  <2>3. on => \A v \in dep[d].mine : Reserved(d, v)'
    BY <1>a, <1>b, <2>1, ReservedKept DEF SoFar
  <2> QED
    BY <2>1, <2>2, <2>3 DEF SoFar, At
<1>7. ASSUME ReserveConflict(d) PROVE SoFar(d)'
  <2>1. Goto(d, "done") \/ Goto(d, "rollback")
    BY <1>7 DEF ReserveConflict
  <2> QED
    BY <1>e, <1>f, <2>1
<1>8. ASSUME Destroy(d) PROVE SoFar(d)'
  <2>1. dep'[d].pc \in {"destroy", "release", "resync", "done"}
    BY <1>a, <1>8 DEF Destroy, DestroyStart, DestroyTofu, Resync, ReleaseVm, ClearTracked,
       Goto, At, Dep
  <2> QED
    BY <2>1 DEF SoFar, At
<1>9. Reserve(d) \/ Settle(d) \/ Destroy(d)
  BY <1>a, Actor DEF Crash, Undisturbed
<1> QED
  BY <1>c, <1>e, <1>f, <1>1, <1>2, <1>3, <1>4, <1>5, <1>6, <1>7, <1>8, <1>9
     DEF Reserve, Settle, ReserveSwallowed, Rollback, ConfirmStack, ConfirmJob, FreeJob, HookFailed

\* tofu's state goes on to have every VM of a stack.
LEMMA StateHasLive ==
  ASSUME Undisturbed, IInv, StateComplete, Next, NEW v \in live', StackOf[v] # None
  PROVE  v \in state'
<1>a. /\ DepsShaped
      /\ v \in live => v \in state
      /\ ~Crash /\ "halfway" \notin Faults
  BY DEF IInv, StateComplete, Crash, Undisturbed
<1>1. ASSUME NEW d \in Deps, Apply(d) PROVE v \in state'
  BY <1>a, <1>1 DEF Apply
<1>2. ASSUME NEW d \in Deps, Play(d) PROVE v \in state'
  <2>1. state' = state /\ (live' = live \/ live' = live \cup dep[d].mine)
    BY <1>2 DEF Play
  <2>2. v \notin dep[d].mine
    BY <1>a, <1>2 DEF Play, At, DepsShaped
  <2> QED
    BY <1>a, <2>1, <2>2
<1>3. ASSUME NEW d \in Deps, Reserve(d) PROVE v \in state'
  BY <1>a, <1>3 DEF Reserve, DeployStart, JobStart, ReserveSweep, ReserveInsert, ReserveConflict,
     SetNote, ReserveSwallowed, Rollback, cluster
<1>4. ASSUME NEW d \in Deps, Settle(d) PROVE v \in state'
  BY <1>a, <1>1, <1>2, <1>4 DEF Settle, Sync, ConfirmStack, ConfirmJob, FreeJob, HookFailed, cluster
<1>5. ASSUME NEW d \in Deps, Destroy(d) PROVE v \in state'
  BY <1>a, <1>5 DEF Destroy, DestroyStart, DestroyTofu, Resync, ReleaseVm, ClearTracked, cluster
<1>6. CASE Outside
  BY <1>a, <1>6 DEF Outside, DeleteVm, Vanish, RefreshRead, RefreshApply, Expire, AddManual,
     ReleaseById, ReleaseOrphans, Sweep, Toggle, cluster
<1> QED
  BY <1>3, <1>4, <1>5, <1>6 DEF Next

\* A deployment that is about to confirm has recorded the VMs of its stack.
LEMMA RecordedStep ==
  ASSUME Undisturbed, IInv, StateComplete, Next, NEW d \in Deps,
         dep'[d].pc = "confirm", dep'[d].stack # None, NEW v \in dep'[d].mine \cap state'
  PROVE  tracked'[v] = d
<1>a. /\ dep \in [Deps -> Dep] /\ tracked \in [Vms -> Deps \cup {None}]
      /\ OneRun /\ DepsShaped /\ DepStep /\ ~Crash /\ Faults = {}
      /\ state \subseteq Vms /\ \A e \in Deps : dep[e].mine \subseteq Vms
  BY StepDep DEF IInv, TypeOK, Crash, Undisturbed, Dep
<1>b. ASSUME NEW e \in Deps, Synced(e)
      PROVE  tracked' = [w \in Vms |-> IF w \notin dep[e].mine THEN tracked[w]
                                       ELSE IF w \in state THEN e ELSE None]
  BY <1>a, <1>b DEF Synced
<1>1. CASE dep'[d] # dep[d]
  <2>1. Reserve(d) \/ Settle(d) \/ Destroy(d)
    BY <1>a, <1>1, Actor
  <2>2. ASSUME NEW c, Goto(d, c)
        PROVE  dep'[d].pc = c /\ dep'[d].stack = dep[d].stack /\ dep'[d].mine = dep[d].mine
    BY <1>a, <2>2 DEF Goto, Dep
  <2>3. ~Reserve(d)
    <3>1. ASSUME NEW s \in Stacks, DeployStart(d, s) PROVE FALSE
      <4>1. dep'[d].pc = IF on THEN "sweep" ELSE "apply"
        BY <1>a, <3>1 DEF DeployStart
      <4> QED
        BY <4>1
    <3>2. ASSUME NEW w \in Vms, JobStart(d, w) PROVE FALSE
      <4>1. dep'[d].pc = IF on THEN "sweep" ELSE "apply"
        BY <1>a, <3>2 DEF JobStart
      <4> QED
        BY <4>1
    <3>3. ASSUME NEW w \in Vms, ReserveSweep(d, w) PROVE FALSE
      BY <1>a, <3>3 DEF ReserveSweep, Dep
    <3>4. ASSUME SetNote(d) PROVE FALSE
      <4>1. dep'[d].pc = IF dep[d].todo = {dep[d].vm} THEN "apply" ELSE "sweep"
        BY <1>a, <3>4 DEF SetNote, Dep
      <4> QED
        BY <4>1
    <3>5. ASSUME NEW c \in {"note", "apply", "rollback", "done"}, Goto(d, c) PROVE FALSE
      BY <2>2, <3>5
    <3> QED
      BY <3>1, <3>2, <3>3, <3>4, <3>5
         DEF Reserve, ReserveInsert, ReserveConflict, ReserveSwallowed, Rollback
  <2>4. ~Destroy(d)
    BY <1>a, <2>2 DEF Destroy, DestroyStart, DestroyTofu, Resync, ReleaseVm, ClearTracked, At, Dep
  <2>5. Sync(d)
    <3>1. ASSUME NEW c \in {"sync", "free", "done"}, Goto(d, c) PROVE FALSE
      BY <2>2, <3>1
    <3>2. ~Play(d)
      <4>1. SUFFICES ASSUME Play(d) PROVE FALSE
        OBVIOUS
      <4>2. dep[d].stack = None /\ (Goto(d, "confirm") \/ Goto(d, "free"))
        BY <4>1 DEF Play
      <4> QED
        BY <2>2, <4>2
    <3> QED
      BY <2>1, <2>3, <2>4, <3>1, <3>2 DEF Settle, Apply, ConfirmStack, ConfirmJob, FreeJob, HookFailed
  <2>6. Synced(d) /\ state' = state /\ dep'[d].mine = dep[d].mine
    BY <2>2, <2>5 DEF Sync, cluster
  <2>7. v \in Vms
    BY <1>a, <2>6
  <2> QED
    BY <1>b, <2>6, <2>7
<1>2. CASE dep'[d] = dep[d]
  <2>1. /\ dep[d].pc = "confirm" /\ dep[d].stack # None /\ InRun(d) /\ v \in dep[d].mine
        /\ v \in Vms
    BY <1>a, <1>2 DEF InRun, Running, Applying
  <2>2. v \in state => tracked[v] = d
    BY <2>1 DEF StateComplete, At
  <2>3. ASSUME NEW e \in Deps, InRun(e), e # d PROVE v \notin dep[e].mine
    BY <1>a, <2>1, <2>3, MineDisjoint
  <2>4. ASSUME NEW e \in Deps, Apply(e) PROVE tracked'[v] = d
    <3>1. InRun(e) /\ e # d
      BY <2>1, <2>4 DEF Apply, At, InRun, Running, Applying
    <3>2. v \notin dep[e].mine /\ tracked' = tracked
      BY <2>3, <2>4, <3>1 DEF Apply
    <3>3. v \in state
      BY <2>4, <3>2 DEF Apply
    <3> QED
      BY <2>2, <3>2, <3>3
  <2>5. ASSUME NEW e \in Deps, Sync(e) \/ Resync(e) \/ ClearTracked(e) PROVE tracked'[v] = d
    <3>1. InRun(e) /\ e # d /\ state' = state
      BY <2>1, <2>5 DEF Sync, Resync, ClearTracked, At, InRun, Running, Applying, Destroying, cluster
    <3>2. v \notin dep[e].mine
      BY <2>3, <3>1
    <3>3. tracked'[v] = tracked[v]
      BY <1>b, <2>1, <2>5, <3>2 DEF Sync, Resync, ClearTracked
    <3> QED
      BY <2>2, <3>1, <3>3
  <2>6. ASSUME tracked' = tracked, state' \subseteq state PROVE tracked'[v] = d
    BY <2>2, <2>6
  <2>7. ASSUME NEW e \in Deps, Reserve(e) PROVE tracked'[v] = d
    BY <2>6, <2>7 DEF Reserve, DeployStart, JobStart, ReserveSweep, ReserveInsert, ReserveConflict,
       SetNote, ReserveSwallowed, Rollback, cluster
  <2>8. ASSUME NEW e \in Deps, Settle(e) PROVE tracked'[v] = d
    BY <2>4, <2>5, <2>6, <2>8 DEF Settle, Play, ConfirmStack, ConfirmJob, FreeJob, HookFailed, cluster
  <2>9. ASSUME NEW e \in Deps, Destroy(e) PROVE tracked'[v] = d
    BY <2>5, <2>6, <2>9 DEF Destroy, DestroyStart, DestroyTofu, ReleaseVm, cluster
  <2>10. CASE Outside
    BY <1>a, <2>6, <2>10 DEF Outside, DeleteVm, Vanish, RefreshRead, RefreshApply, Expire,
       AddManual, ReleaseById, ReleaseOrphans, Sweep, Toggle, cluster
  <2> QED
    BY <2>7, <2>8, <2>9, <2>10 DEF Next
<1> QED
  BY <1>1, <1>2

\* The record of a stack's VMs goes on to be complete.
LEMMA StateStep ==
  ASSUME Undisturbed, IInv, StateComplete, Next
  PROVE  StateComplete'
<1>1. \A v \in live' : StackOf[v] # None => v \in state'
  BY StateHasLive
<1>2. \A d \in Deps : dep'[d].pc = "confirm" /\ dep'[d].stack # None =>
        \A v \in dep'[d].mine \cap state' : tracked'[v] = d
  BY RecordedStep
<1>3. ASSUME \A d \in Deps : dep'[d].pc = "new" PROVE live' = {}
  <2>1. DepStep
    BY StepDep DEF IInv
  <2>2. \A d \in Deps : dep[d].pc = "new"
    BY <1>3, <2>1, KeptMine
  <2>3. live = {}
    BY <2>2 DEF StateComplete, At
  <2>4. ~Crash
    BY DEF Crash, Undisturbed
  <2> QED
    BY <2>2, <2>3, <2>4, LiveGrows DEF At
<1> QED
  BY <1>1, <1>2, <1>3 DEF StateComplete, At

\* An empty IPAM is in order.
LEMMA QuietInit == Init => Quiet
<1>0. SUFFICES ASSUME Init PROVE Quiet
  OBVIOUS
<1>1. PendingInRun /\ RowsTrue
  BY <1>0 DEF Init, PendingInRun, RowsTrue, Holds
<1>2. LiveProtected /\ StateComplete
  BY <1>0 DEF Init, LiveProtected, StateComplete, At
<1>3. ReservedSoFar
  BY <1>0 DEF Init, ReservedSoFar, SoFar, At
<1> QED
  BY <1>1, <1>2, <1>3 DEF Quiet

\* While nothing fails every step of a deployment, an admin or a refresh keeps it so.
LEMMA QuietStep == Undisturbed /\ IInv /\ Quiet /\ Next => Quiet'
<1>0. SUFFICES ASSUME Undisturbed, IInv, Quiet, Next PROVE Quiet'
  OBVIOUS
<1>1. PendingInRun'
  BY <1>0, PendingStep DEF Quiet, Undisturbed, HooksWork
<1>2. ReservedSoFar'
  BY <1>0, SoFarStill, SoFarMoves DEF ReservedSoFar
<1>3. StateComplete'
  BY <1>0, StateStep DEF Quiet
<1> QED
  BY <1>0, <1>1, <1>2, <1>3, ProtectedStep, RowsTrueStep DEF Quiet

\* And so does doing nothing.
LEMMA QuietStutters == Quiet /\ UNCHANGED vars => Quiet'
<1>0. SUFFICES ASSUME Quiet, UNCHANGED vars PROVE Quiet'
  OBVIOUS
<1>1. PendingInRun' /\ RowsTrue'
  BY <1>0 DEF Quiet, PendingInRun, Settling, RowsTrue, ReservedFor, Holds, vars
<1>2. LiveProtected' /\ StateComplete'
  BY <1>0 DEF Quiet, LiveProtected, Protected, ReservedFor, StateComplete, At, vars
<1>3. ReservedSoFar'
  BY <1>0 DEF Quiet, ReservedSoFar, SoFar, Reserved, ReservedFor, Holds, At, vars
<1> QED
  BY <1>1, <1>2, <1>3 DEF Quiet

\* No address is given out twice, for any number of VMs and of deployments at a time, as
\* long as nothing fails, the IPAM is switched on first and nobody releases addresses
\* in use.
THEOREM NoDoubleUseSafe == Undisturbed => (Spec => []NoDoubleUse)
<1>0. SUFFICES ASSUME Undisturbed PROVE Spec => []NoDoubleUse
  OBVIOUS
<1>1. IInv /\ Quiet /\ [Next]_vars => Quiet'
  BY <1>0, QuietStep, QuietStutters
<1>2. Quiet => NoDoubleUse
  <2>0. SUFFICES ASSUME Quiet, on PROVE NoDoubleUse
    BY DEF NoDoubleUse
  <2>1. \A v \in live : ReservedFor(IpOf[v], v)
    BY <2>0 DEF Quiet, LiveProtected, Protected
  <2>2. \A v \in live : alloc[IpOf[v]].dep # None
    BY <2>1 DEF ReservedFor
  <2>3. ASSUME NEW v \in live, NEW w \in live, IpOf[v] = IpOf[w] PROVE v = w
    BY <2>1, <2>3, ReservedForOne
  <2> QED
    BY <2>2, <2>3 DEF NoDoubleUse
<1> QED
  BY <1>1, <1>2, QuietInit, Invariance, PTL DEF Spec
=============================================================================
