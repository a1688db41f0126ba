----------------------------- MODULE MCRecords -----------------------------
(***************************************************************************)
(* What users and admins manage: approvals, definitions of stacks and      *)
(* their firewall, pools, snapshots, copies of VM configurations, copies   *)
(* of templates, playbook permissions.  They share no table or lock - a    *)
(* firewall commit is called by a deployment that holds its stack, and its *)
(* model has what that means - so one run checks each of them by itself:   *)
(* `part' says which one moves, and the others stay in an initial state.   *)
(***************************************************************************)
EXTENDS MCApprovals, StackEdits, Pools, Snapshots, ConfigSnapshots, PlaybookPermissions,
        StackFirewall, Replication

CONSTANTS y1, y2, o1, w1, w2,         \* definitions, an owner, requests
          a1, a2, v1, v2, s1, b1, d1, \* pools: pools, VMs, a subject, a preset, a deployment
          n1, n2, n3,                 \* snapshots: a job, runs
          k1, k2, x1, c1, c2, m1,     \* copies: keys, a value, restorers, a job
          z1, ask1,                   \* permissions: a playbook, a question
          f1, f2, v3, v4, h1, h2, h3, x2, x3,    \* firewall: stacks, guests, groups, rules
          e1, e2, q1, q2, q3, st1, st2, m2, m3   \* replication: templates, nodes, storages, runs

MCEdits == {[sqlite |-> FALSE, overlap |-> FALSE]}

MCPools(managers, races, ids, guests, limits) ==
  [sqlite |-> FALSE, overlap |-> FALSE, managers |-> managers, races |-> races,
   pools |-> ids, vms |-> guests, quotas |-> limits]
MCQuota(guests, units) == [vms |-> guests, units |-> units]
MCQuotas == {MCQuota(0, 1), MCQuota(1, 0)}
MCPoolDeployments ==
  {MCPools(FALSE, FALSE, {a1}, Vms, MCQuotas), MCPools(TRUE, FALSE, {a1, a2}, {v1}, {MCQuota(0, 1)}),
   MCPools(TRUE, TRUE, {a1}, {}, {MCQuota(0, 1)})}

MCSnapshots(overlap, taskFails, outsiders, most) ==
  [overlap |-> overlap, taskFails |-> taskFails, deleteFails |-> most, outsiders |-> outsiders,
   restarts |-> most]
MCSnapDeployments == {MCSnapshots(FALSE, FALSE, FALSE, TRUE), MCSnapshots(TRUE, FALSE, FALSE, FALSE),
                      MCSnapshots(FALSE, TRUE, TRUE, FALSE)}
MCKeepTier == [weekly |-> 2, monthly |-> 1]

MCCopies(users, jobs, outsiders, deletes, named, most) ==
  [users |-> users, jobs |-> jobs, outsiders |-> outsiders, delayed |-> FALSE,
   deletes |-> deletes, named |-> named, most |-> most]
MCCfgDeployments ==
  {MCCopies({c1, c2}, {}, FALSE, FALSE, TRUE, 2), MCCopies({c1}, {m1}, FALSE, FALSE, TRUE, 2),
   MCCopies({c1}, {}, TRUE, FALSE, TRUE, 1), MCCopies({}, {m1}, TRUE, TRUE, FALSE, 1)}

\* Firewall: two stacks with a group of the same name; the first may lose its block.
MCFwGuests == (f1 :> {v3}) @@ (f2 :> {v4})
MCGroup(name, rules) == [name |-> name, rules |-> rules]
MCFwSpec(groupList, v, rules) == [groups |-> groupList, guests |-> (v :> rules)]
MCFwSpecs ==
  (f1 :> {MCFwSpec(<<MCGroup(h2, <<>>)>>, v3,
                   <<<<"plain", x2>>, <<"group", h2>>>>),
          MCFwSpec(<<MCGroup(h1, <<<<"plain", x3>>>>)>>, v3,
                   <<<<"group", h3>>, <<"group", h1>>>>),
          MCFwSpec(<<MCGroup(h1, <<<<"plain", x2>>, <<"group", h3>>>>)>>, v3, None),
          MCFwSpec(<<>>, v3, None)}) @@
  (f2 :> {MCFwSpec(<<MCGroup(h1, <<<<"plain", x3>>, <<"plain", x2>>>>)>>, v4,
                   <<<<"group", h1>>>>)})
MCFirewall(strangers, faults, refuses) ==
  [strangers |-> strangers, faults |-> faults, refuses |-> refuses]
MCFwDeployments ==
  {MCFirewall(FALSE, FALSE, FALSE), MCFirewall(TRUE, FALSE, TRUE), MCFirewall(FALSE, TRUE, FALSE)}

\* Replication: two templates on one node, three nodes, a shared storage.
MCSourceNode == [t \in RepTemplates |-> q1]
MCSourceVmid == (e1 :> 1) @@ (e2 :> 2)
MCTarget(node, storage, newid) == [node |-> node, storage |-> storage, newid |-> newid]
MCTargets ==
  {<<MCTarget(q2, st2, None)>>,
   <<MCTarget(q2, st1, None), MCTarget(q3, st2, 4), MCTarget(q2, st2, None)>>}
MCReplication(templates, overlap, faults, blind, vanish, outsiders, most) ==
  [templates |-> templates, overlap |-> overlap, faults |-> faults, blind |-> blind,
   vanish |-> vanish, outsiders |-> outsiders, restarts |-> most]
MCRepDeployments ==
  {MCReplication({e1}, FALSE, TRUE, FALSE, TRUE, FALSE, FALSE),
   MCReplication({e1}, TRUE, FALSE, FALSE, FALSE, FALSE, FALSE),
   MCReplication({e1, e2}, FALSE, FALSE, FALSE, FALSE, TRUE, FALSE),
   MCReplication({e1, e2}, FALSE, TRUE, TRUE, FALSE, FALSE, TRUE)}

VARIABLE part

allVars == <<part, vars, edVars, poVars, snVars, cfgVars, ppVars, fwVars, repVars>>

OneOf(S) == CHOOSE x \in S : TRUE

AllInit ==
  /\ part \in {"approvals", "definitions", "pools", "snapshots", "copies", "permissions",
             "firewall", "replication"}
  /\ Init
  /\ EdInit /\ (part # "definitions" => edDeployment = OneOf(EditDeployments))
  /\ PoInit
  /\ part # "pools" => poDeployment = OneOf(PoolDeployments) /\ cluster = {}
  /\ SnInit /\ (part # "snapshots" => snDeployment = OneOf(SnapDeployments))
  /\ CfgInit
  /\ part # "copies" => cfgDeployment = OneOf(CfgDeployments) /\ live = OneOf(Config)
  /\ PpInit
  /\ part # "permissions" => defaultMode = "open" /\ \A g \in PpGroups : groupMembers[g] = {}
  /\ FwInit
  /\ part # "firewall" => /\ fwDeployment = OneOf(FwDeployments)
                          /\ fwSpec = [s \in FwStacks |-> OneOf(FwSpecs[s])]
                          /\ \A g \in AllGroups : groups[g] = None
  /\ RepInit /\ (part # "replication" => repDeployment = OneOf(RepDeployments))

AllNext ==
  /\ UNCHANGED part
  /\ \/ /\ part = "approvals" /\ Next
        /\ UNCHANGED <<edVars, poVars, snVars, cfgVars, ppVars, fwVars, repVars>>
     \/ /\ part = "definitions" /\ EdNext
        /\ UNCHANGED <<vars, poVars, snVars, cfgVars, ppVars, fwVars, repVars>>
     \/ /\ part = "pools" /\ PoNext
        /\ UNCHANGED <<vars, edVars, snVars, cfgVars, ppVars, fwVars, repVars>>
     \/ /\ part = "snapshots" /\ SnNext
        /\ UNCHANGED <<vars, edVars, poVars, cfgVars, ppVars, fwVars, repVars>>
     \/ /\ part = "copies" /\ CfgNext
        /\ UNCHANGED <<vars, edVars, poVars, snVars, ppVars, fwVars, repVars>>
     \/ /\ part = "permissions" /\ PpNext
        /\ UNCHANGED <<vars, edVars, poVars, snVars, cfgVars, fwVars, repVars>>
     \/ /\ part = "firewall" /\ FwNext
        /\ UNCHANGED <<vars, edVars, poVars, snVars, cfgVars, ppVars, repVars>>
     \/ /\ part = "replication" /\ RepNext
        /\ UNCHANGED <<vars, edVars, poVars, snVars, cfgVars, ppVars, fwVars>>

AllSpec == AllInit /\ [][AllNext]_allVars
=============================================================================
