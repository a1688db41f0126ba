---------------------------- MODULE StackNetworks ----------------------------
(***************************************************************************)
(* What a plan is checked against before OpenTofu runs                     *)
(* (backend/plus/stacks/deploy_service.py, network_usage.py): whether the  *)
(* VM numbers and network names a stack wants are free, which disks would  *)
(* lose data, and whether guests of others hang on a network that goes.    *)
(* Several stacks, and people who use Proxmox without the portal, share    *)
(* one installation.                                                       *)
(*                                                                         *)
(* Locks, tokens and job rows are StackDeploy's: here a stack has at most  *)
(* one plan, and its run is one step.  The checks of a plan are several    *)
(* calls to Proxmox; here they read at once.                               *)
(***************************************************************************)
EXTENDS Portal

CONSTANTS
  NwStacks,
  Bridges, VNets,  \* network names: of a bridge on its node, of a VNet
  LastVmid,        \* VM numbers are 1..LastVmid
  Names,           \* what resources are called
  Interfaces,      \* where a VM may have a disk
  NwDefinitions,   \* stack definitions, see Definition
  Foreign,         \* who is not a stack
  NwDeployments    \* see `nwDeployment'

NetNames == Bridges \cup VNets
Vmids == 1..LastVmid

\* A resource: the VM number it pins and how many follow, the network its VMs are on,
\* and the size of their disk at an interface, 0 without one.
Resource == [name : Names, vmid : Vmids, count : Nat \ {0}, net : NetNames \cup {None},
             disks : [Interfaces -> Nat]]
Definition == [resources : Seq(Resource), networks : SUBSET NetNames]

ASSUME StackNetworksAssumption ==
  /\ LastVmid \in Nat /\ NwDefinitions \subseteq Definition
  /\ \A d \in NwDefinitions : \A i, h \in DOMAIN d.resources :
       d.resources[i].name = d.resources[h].name => i = h  \* validate_spec
  /\ Bridges \cap VNets = {}
  /\ None \notin NetNames \cup NwStacks /\ Foreign \notin NwStacks \cup {None}
  /\ NwDeployments \subseteq [late : BOOLEAN, together : BOOLEAN, unreadable : BOOLEAN]

VARIABLES
  nwDeployment, \* chosen at the start: whether others use Proxmox while a plan waits,
                \* whether stacks plan at the same time, whether reads may fail
  nwDef,        \* stacks.yaml_text
  nets,         \* the networks of the installation: whose, None when there is none
  guests,       \* the guests, by number: whose, called what, on which network, its disks
  tried,        \* stacks that have a row in stack_deployments
  plan          \* the plan that waits for its run

nwVars == <<nwDeployment, nwDef, nets, guests, tried, plan>>
-----------------------------------------------------------------------------
NwOwners == NwStacks \cup {Foreign}
VmNames == Names \X Nat
Guest == [owner : NwOwners, name : VmNames \cup {None}, net : NetNames \cup {None},
          disks : [Interfaces -> Nat]]
NwPlan == [op : {"apply", "destroy"}, def : NwDefinitions,
           lost : SUBSET (VmNames \X Interfaces), replaced : SUBSET NetNames]

\* What a stack has: the rows of stack_deployed_resources, and tofu's state.
OwnVmids(s) == {v \in Vmids : guests[v] # None /\ guests[v].owner = s}
OwnNets(s) == {n \in NetNames : nets[n] = s}

NwInit ==
  /\ nwDeployment \in NwDeployments
  /\ nwDef \in [NwStacks -> NwDefinitions]
  /\ nets = [n \in NetNames |-> None]
  /\ guests = [v \in Vmids |-> None]
  /\ tried = {}
  /\ plan = [s \in NwStacks |-> None]

VmRange(r) == r.vmid .. (r.vmid + r.count - 1)
Resources(d) == {d.resources[i] : i \in DOMAIN d.resources}

\* _wanted_explicit_vmids: base and offset.
WantedVmids(d) == UNION {VmRange(r) : r \in Resources(d)}

\* _expanded_names: a resource of several VMs counts them.
VmName(r, v) == <<r.name, IF r.count = 1 THEN 0 ELSE v - r.vmid + 1>>
ExpandedNames(r) == {VmName(r, v) : v \in VmRange(r)}

\* The plan is made, and run, with nobody else active, where the instance says so.
Undisturbed(s) == nwDeployment.together \/ \A t \in NwStacks \ {s} : plan[t] = None
ForeignersMay == nwDeployment.late \/ \A s \in NwStacks : plan[s] = None
-----------------------------------------------------------------------------
(***************************************************************************)
(* The checks.                                                             *)
(***************************************************************************)
Occupied(s) == {v \in Vmids : guests[v] # None} \ OwnVmids(s)

\* assert_explicit_vmids_free
VmidsFree(s) == WantedVmids(nwDef[s]) \cap Occupied(s) = {}

\* Mutant of KeptVmids: the resources before it are forgotten.
KeptWhereFree(s) ==
  {i \in DOMAIN nwDef[s].resources : VmRange(nwDef[s].resources[i]) \cap Occupied(s) = {}}

\* suggest_free_vmids: a resource keeps its numbers if they are free and no resource
\* before it keeps one of them ...
KeptVmids(s) ==
  LET R == nwDef[s].resources
      k[i \in 0..Len(R)] ==
        IF i = 0 THEN {}
        ELSE IF VmRange(R[i]) \cap (Occupied(s) \cup UNION {VmRange(R[h]) : h \in k[i-1]}) = {}
             THEN k[i-1] \cup {i} ELSE k[i-1]
  IN  k[Len(R)]

\* ... and goes to the next window that is, otherwise.
MovedTo(s, taken, r) ==
  LET Free(b) == (b .. (b + r.count - 1)) \cap taken = {}
  IN  CHOOSE b \in r.vmid..(r.vmid + 2 * LastVmid) :
        Free(b) /\ \A c \in r.vmid..(b-1) : ~Free(c)

Suggested(s) ==
  LET R == nwDef[s].resources
      K == KeptVmids(s)
      free == Occupied(s) \cup UNION {VmRange(R[i]) : i \in K}
      to[i \in 0..Len(R)] ==  \* the first i resources, with their new numbers
        IF i = 0 THEN [base |-> << >>, taken |-> free]
        ELSE IF i \in K
             THEN [to[i-1] EXCEPT !.base = Append(@, R[i].vmid)]
             ELSE LET b == MovedTo(s, to[i-1].taken, R[i])
                  IN  [base |-> Append(to[i-1].base, b),
                       taken |-> to[i-1].taken \cup (b .. (b + R[i].count - 1))]
  IN  [i \in DOMAIN R |-> [R[i] EXCEPT !.vmid = to[Len(R)].base[i]]]

\* assert_stack_networks_free.  The names a stack has itself come from `tofu state list';
\* that may not be readable, and then a stack that ran before is not checked.  Bridges
\* are compared with whatever interfaces the node has.
NetworksFree(s, readable) ==
  /\ \A n \in nwDef[s].networks \cap Bridges : nets[n] = None
  /\ \A n \in nwDef[s].networks \cap VNets :
       \/ nets[n] = None
       \/ readable /\ n \in OwnNets(s)
       \/ ~readable /\ s \in tried

\* find_foreign_network_users: stack_deployed_resources tells the stack's own guests.
ForeignUsers(s, n) ==
  {v \in Vmids \ OwnVmids(s) : guests[v] # None /\ guests[v].net = n}

\* _networks_being_destroyed: of the networks the definition names, all or those replaced.
BeingDestroyed(s, op, replaced) ==
  IF op = "destroy" THEN nwDef[s].networks ELSE nwDef[s].networks \cap replaced

\* assert_network_destroy_allowed
DestroyAllowed(s, op, replaced) ==
  \A n \in BeingDestroyed(s, op, replaced) : ForeignUsers(s, n) = {}

\* Mutant of DiffDisks: a disk that goes is not one that shrinks.
DiffShrunk(s) ==
  {<<guests[p[1]].name, p[2]>> : p \in
     {p \in OwnVmids(s) \X Interfaces :
        \E r \in Resources(nwDef[s]) : /\ guests[p[1]].name \in ExpandedNames(r)
                                       /\ r.disks[p[2]] \in 1..(guests[p[1]].disks[p[2]] - 1)}}

\* diff_disks: of the VMs the definition still names, the disks that are removed or
\* smaller, each by VM name and interface.
DiffDisks(s) ==
  {<<guests[p[1]].name, p[2]>> : p \in
     {p \in OwnVmids(s) \X Interfaces :
        \E r \in Resources(nwDef[s]) : /\ guests[p[1]].name \in ExpandedNames(r)
                                       /\ r.disks[p[2]] < guests[p[1]].disks[p[2]]}}
-----------------------------------------------------------------------------
(***************************************************************************)
(* Planning and running.                                                   *)
(***************************************************************************)

\* prepare_plan for an apply; tofu may want to replace some of the networks.
PlanApply(s) ==
  /\ Undisturbed(s)
  /\ \E readable, usable, pulled \in BOOLEAN, replaced \in SUBSET OwnNets(s) :
       /\ ~nwDeployment.unreadable => readable /\ usable /\ pulled
       /\ VmidsFree(s)
       /\ NetworksFree(s, readable)
       /\ usable => DestroyAllowed(s, "apply", replaced)
       /\ plan' = [plan EXCEPT ![s] =
                     [op |-> "apply", def |-> nwDef[s],
                      lost |-> IF pulled THEN DiffDisks(s) ELSE {}, replaced |-> replaced]]
  /\ UNCHANGED <<nwDeployment, nwDef, nets, guests, tried>>

PlanDestroy(s) ==
  /\ Undisturbed(s)
  /\ \E usable \in BOOLEAN :
       /\ ~nwDeployment.unreadable => usable
       /\ usable => DestroyAllowed(s, "destroy", {})
  /\ plan' = [plan EXCEPT ![s] = [op |-> "destroy", def |-> nwDef[s], lost |-> {},
                                        replaced |-> {}]]
  /\ UNCHANGED <<nwDeployment, nwDef, nets, guests, tried>>

\* The token is used up, or expires.
DropPlan(s) ==
  /\ plan[s] # None
  /\ plan' = [plan EXCEPT ![s] = None]
  /\ UNCHANGED <<nwDeployment, nwDef, nets, guests, tried>>

\* What a stack would have after an apply of d.
MadeNets(s, d) ==
  [n \in NetNames |-> IF n \in d.networks THEN s ELSE IF nets[n] = s THEN None ELSE nets[n]]

\* The VMs a definition wants under a number: one, or several if resources overlap.
WantedAt(s, d, v) ==
  {[owner |-> s, name |-> VmName(r, v), net |-> r.net, disks |-> r.disks] :
     r \in {r \in Resources(d) : v \in VmRange(r)}}
MadeGuests(s, d) ==
  [v \in Vmids |-> IF v \in WantedVmids(d) THEN CHOOSE g \in WantedAt(s, d, v) : TRUE
                   ELSE IF v \in OwnVmids(s) THEN None ELSE guests[v]]

\* What a number may hold after part of an apply: what it held, what is wanted there if
\* nobody else has it, or nothing, where a VM of the stack was to go or to be replaced.
Midway(s, d, v) ==
  {guests[v]} \cup (IF v \in Occupied(s) THEN {} ELSE WantedAt(s, d, v))
              \cup (IF v \in OwnVmids(s) /\ guests[v] \notin WantedAt(s, d, v) THEN {None} ELSE {})

\* tofu's state has a VM once; what it replaces, it takes away first.
NamedOnce(s, g) ==
  \A v, w \in Vmids : /\ g[v] # None /\ g[w] # None /\ g[v].owner = s /\ g[w].owner = s
                       /\ g[v].name = g[w].name
                       => v = w
PartlyMade(s, d) ==
  {g \in [Vmids -> UNION {Midway(s, d, v) : v \in Vmids}] :
     (\A v \in Vmids : g[v] \in Midway(s, d, v)) /\ NamedOnce(s, g)}

\* Proxmox makes nothing under a name or number that somebody else has.
Collides(s, d) ==
  \/ \E n \in d.networks : nets[n] \notin {None, s}
  \/ WantedVmids(d) \cap Occupied(s) # {}

\* ... nor two guests under one number.
Overlaps(d) ==
  \E i, h \in DOMAIN d.resources :
    i # h /\ VmRange(d.resources[i]) \cap VmRange(d.resources[h]) # {}

\* tofu apply, of the definition the plan was made for: consume_plan_token has compared
\* its etag.
RunApply(s) ==
  /\ plan[s] # None /\ plan[s].op = "apply" /\ plan[s].def = nwDef[s]
  /\ ~Collides(s, nwDef[s]) /\ ~Overlaps(nwDef[s])
  /\ nets' = MadeNets(s, nwDef[s]) /\ guests' = MadeGuests(s, nwDef[s])
  /\ tried' = tried \cup {s}
  /\ plan' = [plan EXCEPT ![s] = None]
  /\ UNCHANGED <<nwDeployment, nwDef>>

\* What fails, because of a collision or anything else, leaves part of it: VMs, networks,
\* and of what was to be replaced some taken away and not made again.
RunApplyFails(s) ==
  /\ plan[s] # None /\ plan[s].op = "apply" /\ plan[s].def = nwDef[s]
  /\ \E N \in SUBSET {n \in NetNames : nets[n] \in {None, s}}, gone \in SUBSET plan[s].replaced :
       nets' = [n \in NetNames |-> IF n \in gone THEN None
                                  ELSE IF n \in N THEN MadeNets(s, nwDef[s])[n] ELSE nets[n]]
  /\ guests' \in PartlyMade(s, nwDef[s])
  /\ tried' = tried \cup {s}
  /\ plan' = [plan EXCEPT ![s] = None]
  /\ UNCHANGED <<nwDeployment, nwDef>>

\* tofu destroy: the guests, then the networks nothing of the stack is on (depends_on).
\* What fails leaves some.
RunDestroy(s) ==
  /\ plan[s] # None /\ plan[s].op = "destroy" /\ plan[s].def = nwDef[s]
  /\ \E V \in SUBSET OwnVmids(s), N \in SUBSET OwnNets(s) :
       /\ \A v \in V : guests[v].net \in OwnNets(s) => guests[v].net \in N
       /\ guests' = [v \in Vmids |-> IF v \in OwnVmids(s) \ V THEN None ELSE guests[v]]
       /\ nets' = [n \in NetNames |-> IF n \in OwnNets(s) \ N THEN None ELSE nets[n]]
  /\ tried' = tried \cup {s}
  /\ plan' = [plan EXCEPT ![s] = None]
  /\ UNCHANGED <<nwDeployment, nwDef>>
-----------------------------------------------------------------------------
(***************************************************************************)
(* Users and others.                                                       *)
(***************************************************************************)
EditStack(s) ==
  /\ \E d \in NwDefinitions : nwDef' = [nwDef EXCEPT ![s] = d]
  /\ UNCHANGED <<nwDeployment, nets, guests, tried, plan>>

ForeignGuest(v) ==
  /\ ForeignersMay /\ guests[v] = None
  /\ \E n \in {m \in NetNames : nets[m] # None} \cup {None} :
       guests' = [guests EXCEPT ![v] = [owner |-> Foreign, name |-> None, net |-> n,
                                           disks |-> [i \in Interfaces |-> 0]]]
  /\ UNCHANGED <<nwDeployment, nwDef, nets, tried, plan>>

ForeignNet(n) ==
  /\ ForeignersMay /\ nets[n] = None
  /\ nets' = [nets EXCEPT ![n] = Foreign]
  /\ UNCHANGED <<nwDeployment, nwDef, guests, tried, plan>>

ForeignGone(v) ==
  /\ ForeignersMay /\ guests[v] # None /\ guests[v].owner = Foreign
  /\ guests' = [guests EXCEPT ![v] = None]
  /\ UNCHANGED <<nwDeployment, nwDef, nets, tried, plan>>
-----------------------------------------------------------------------------
NwNext ==
  \/ \E s \in NwStacks : \/ PlanApply(s) \/ PlanDestroy(s) \/ DropPlan(s)
                         \/ RunApply(s) \/ RunApplyFails(s) \/ RunDestroy(s) \/ EditStack(s)
  \/ \E v \in Vmids : ForeignGuest(v) \/ ForeignGone(v)
  \/ \E n \in NetNames : ForeignNet(n)

NwSpec == NwInit /\ [][NwNext]_nwVars
-----------------------------------------------------------------------------
NwTypeOK ==
  /\ nwDeployment \in NwDeployments
  /\ nwDef \in [NwStacks -> NwDefinitions]
  /\ nets \in [NetNames -> NwOwners \cup {None}]
  /\ \A v \in Vmids : guests[v] = None \/ guests[v] \in Guest
  /\ tried \subseteq NwStacks
  /\ \A s \in NwStacks : plan[s] = None \/ plan[s] \in NwPlan

\* As long as the others leave the installation alone and stacks plan one at a time, a
\* run whose plan was accepted meets no name or number of somebody else ("surface a
\* clean 422 before tofu runs").
CleanRuns ==
  nwDeployment = [late |-> FALSE, together |-> FALSE, unreadable |-> FALSE] =>
    \A s \in NwStacks :
      plan[s] # None /\ plan[s].op = "apply" /\ plan[s].def = nwDef[s] => ~Collides(s, nwDef[s])

\* Whoever takes the numbers suggested with the 422 is not refused again: they are free,
\* and no two resources get the same one.
SuggestionsWork ==
  \A s \in NwStacks : LET R == Suggested(s) IN
    \A i \in DOMAIN R :
      /\ VmRange(R[i]) \cap Occupied(s) = {}
      /\ \A h \in DOMAIN R : h # i => VmRange(R[i]) \cap VmRange(R[h]) = {}

\* Where the state can be read, no run makes a VM again, under whatever number, with a
\* disk less or a smaller one without the plan having said so, whatever is edited, deployed
\* and half deployed before it.
MadeAgain(s, v, w) ==
  guests'[w] # guests[w] /\ guests'[w] # None
    /\ guests'[w].owner = s /\ guests'[w].name = guests[v].name
DiskLossAnnounced ==
  [][~nwDeployment.unreadable =>
       \A s \in NwStacks : \A v \in OwnVmids(s), w \in Vmids, i \in Interfaces :
         MadeAgain(s, v, w) /\ guests'[w].disks[i] < guests[v].disks[i]
           => <<guests[v].name, i>> \in plan[s].lost]_nwVars

\* No run takes a network away under guests of others ("For every stack-owned
\* bridge/VNet this run would destroy, fan out for foreign users").
UsesNet(v, n) == guests[v] # None /\ guests[v].net = n
NetworkKept(n) ==
  nets[n] # None /\ nets'[n] = None =>
    \A v \in Vmids : UsesNet(v, n) => guests[v].owner = nets[n]

\* ... it holds of the networks the definition names, if nobody comes in between ...
NamedNetworksKept ==
  [][nwDeployment = [late |-> FALSE, together |-> FALSE, unreadable |-> FALSE] =>
       \A n \in NetNames : (\E s \in NwStacks : nets[n] = s /\ n \in nwDef[s].networks)
                             => NetworkKept(n)]_nwVars

\* Together, over installations and plans of their types: an accepted run meets nothing of
\* others, and what it takes away somebody was told of or nobody needs.
LossesForeseen == [](NwTypeOK /\ CleanRuns) /\ DiskLossAnnounced /\ NamedNetworksKept

\* ... but not of all of them ("For every stack-owned bridge/VNet this run would
\* destroy", deploy_service.py).
NetworksKept == [][\A n \in NetNames : NetworkKept(n)]_nwVars

\* "Reject an apply when a stack network name already exists unmanaged": a stack whose
\* networks nobody else has is not refused because of them.
OwnNetworksAccepted ==
  \A s \in NwStacks : (\A n \in nwDef[s].networks : nets[n] \in {None, s}) => NetworksFree(s, TRUE)
=============================================================================
