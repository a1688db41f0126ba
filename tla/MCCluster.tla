----------------------------- MODULE MCCluster -----------------------------
(***************************************************************************)
(* What stacks take from the cluster: addresses, and numbers and networks. *)
(* The address management and the checks before a plan share no table, so  *)
(* one run checks each by itself: `part' says which one moves, and the     *)
(* other stays in an initial state.                                        *)
(***************************************************************************)
EXTENDS MCIpam, StackNetworks

CONSTANTS a1, a2, b1, n1  \* stacks, a bridge, a VNet

\* Networks: a VM on a VNet, two resources on one number, and the VM under another number,
\* on a bridge, with its disk at another interface.
MCResource(name, vmid, count, net, disk1, disk2) ==
  [name |-> name, vmid |-> vmid, count |-> count, net |-> net,
   disks |-> [i \in Interfaces |-> IF i = "scsi1" THEN disk1 ELSE disk2]]
MCNwDefinitions ==
  {[resources |-> <<MCResource("web", 1, 1, n1, 2, 0)>>, networks |-> {n1}],
   [resources |-> <<MCResource("web", 1, 1, None, 1, 0), MCResource("db", 1, 2, None, 0, 0)>>,
    networks |-> {n1}],
   [resources |-> <<MCResource("web", 2, 1, b1, 0, 1)>>, networks |-> {b1}]}
MCNetworks(late, together, unreadable) ==
  [late |-> late, together |-> together, unreadable |-> unreadable]
MCNwQuiet == {MCNetworks(FALSE, FALSE, FALSE)}
MCNwDeployments == MCNwQuiet \cup {MCNetworks(TRUE, FALSE, TRUE)}

VARIABLE part

allVars == <<part, vars, nwVars>>

OneOf(S) == CHOOSE x \in S : TRUE

AllInit ==
  /\ part \in {"addresses", "networks"}
  /\ Init /\ NwInit
  /\ part # "networks" => /\ nwDeployment = OneOf(NwDeployments)
                          /\ nwDef = OneOf([NwStacks -> NwDefinitions])

AllNext ==
  /\ UNCHANGED part
  /\ \/ part = "addresses" /\ Next /\ UNCHANGED nwVars
     \/ part = "networks" /\ NwNext /\ UNCHANGED vars

AllSpec == AllInit /\ [][AllNext]_allVars

AllSymmetry == DepSymmetry \cup Permutations({a1, a2})
=============================================================================
