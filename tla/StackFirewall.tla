---------------------------- MODULE StackFirewall ----------------------------
(***************************************************************************)
(* The firewall a stack declares (backend/plus/stacks/firewall_commit.py): *)
(* after a successful tofu apply the runner replaces the stack's security  *)
(* groups and the rules of its guests, call by call, over the firewall API *)
(* of Proxmox; after a successful destroy it removes the groups.           *)
(*                                                                         *)
(* Every call may fail, and what was done before it stays.  A run of a     *)
(* stack excludes others of it: the lock is StackDeploy's.  A rule is a    *)
(* pair: <<"plain", r>> or <<"group", g>>.  The schema takes the second    *)
(* one in the rules of a group too, which Proxmox refuses.                 *)
(***************************************************************************)
EXTENDS Portal, SequencesExt

CONSTANTS
  FwStacks,
  FwGuests,        \* FwGuests[s]: the guests of a stack
  Strangers,       \* guests of nobody's stack
  GroupNames,      \* the names stacks give their groups
  SharedGroups,    \* groups that are nobody's
  FwRules,         \* the rules that name no group
  FwSpecs,         \* FwSpecs[s]: what a stack may declare
  MaxSpecEdits,    \* bound: edits of all stacks
  FwDeployments    \* see `fwDeployment'

AllGuests == UNION {FwGuests[s] : s \in FwStacks} \cup Strangers
AllGroups == (FwStacks \X GroupNames) \cup SharedGroups

PlainRule == {"plain"} \X FwRules

\* A rule in a specification, and in Proxmox.
StackRule == PlainRule \cup ({"group"} \X (GroupNames \cup SharedGroups))
FwRule == StackRule \cup ({"group"} \X AllGroups)

\* A specification: groups in their order, no two of one name, and of each guest its
\* rules, None where it has no firewall block.
FwGroup == [name : GroupNames, rules : Seq(StackRule)]
IsSpec(s, d) ==
  /\ d \in [groups : Seq(FwGroup), guests : [FwGuests[s] -> Seq(StackRule) \cup {None}]]
  /\ \A i, h \in DOMAIN d.groups : d.groups[i].name = d.groups[h].name => i = h

ASSUME StackFirewallAssumption ==
  /\ \A s \in FwStacks : \A d \in FwSpecs[s] : IsSpec(s, d)
  /\ SharedGroups \cap GroupNames = {} /\ SharedGroups \cap (FwStacks \X GroupNames) = {}
  /\ \A s \in FwStacks : /\ FwGuests[s] \cap Strangers = {}
                         /\ \A t \in FwStacks : FwGuests[s] \cap FwGuests[t] # {} => s = t
  /\ None \notin Seq(FwRule) /\ None \notin {"running", "success", "partial", "failed"}
  /\ MaxSpecEdits \in Nat
  /\ FwDeployments \subseteq [strangers : BOOLEAN, faults : BOOLEAN, refuses : BOOLEAN]

VARIABLES
  fwDeployment, \* chosen at the start: whether strangers use and drop groups, whether calls
                \* fail, whether Proxmox refuses to delete a group that is in use
  fwSpec,       \* stacks.yaml_text
  specEdits,    \* how often one was edited
  committed,    \* the specification the last run of a stack committed; None: it committed none
  groups,       \* the groups of the cluster: their rules, None when there is no such
  guestRules,   \* the rules of the guests; None when there is no such guest
  commit,       \* commit[s]: where the run of a stack is
  outcome       \* stack_deployments.status of the last run

fwVars == <<fwDeployment, fwSpec, specEdits, committed, groups, guestRules, commit, outcome>>
-----------------------------------------------------------------------------
\* pc; the specification; the groups and the guests still to do; the group or guest at
\* hand, the positions still to delete and the rules still to add.
NoCommit ==
  [pc |-> "idle", firewall |-> FALSE, spec |-> None, groups |-> << >>, guests |-> {},
   at |-> None, old |-> {}, new |-> << >>]

FwInit ==
  /\ fwDeployment \in FwDeployments
  /\ fwSpec \in {f \in [FwStacks -> UNION {FwSpecs[s] : s \in FwStacks}] :
                   \A s \in FwStacks : f[s] \in FwSpecs[s]}
  /\ specEdits = 0
  /\ committed = [s \in FwStacks |-> None]
  /\ groups \in {f \in [AllGroups -> {<< >>, None}] :
                  \A g \in FwStacks \X GroupNames : f[g] = None}
  /\ guestRules = [v \in AllGuests |-> IF v \in Strangers THEN << >> ELSE None]
  /\ commit = [s \in FwStacks |-> NoCommit]
  /\ outcome = [s \in FwStacks |-> None]

\* Mutant of GroupName: without the stack.
GroupNameAlone(s, n) == <<CHOOSE t \in FwStacks : TRUE, n>>

\* stack_sg_name: p3s<id>-<name>.
GroupName(s, n) == <<s, n>>

\* stack_sg_prefix: the groups whose name begins with p3s<id>-.
Prefixed(s) == {g \in FwStacks \X GroupNames : g[1] = s}

Declared(d) == {d.groups[i].name : i \in DOMAIN d.groups}

\* _rule_params: a group rule that names a group of the stack gets the name in Proxmox.
RuleParams(s, d, rule) ==
  IF rule[1] = "group" /\ rule[2] \in Declared(d) THEN <<"group", GroupName(s, rule[2])>> ELSE rule

Params(s, d, rules) == [i \in DOMAIN rules |-> RuleParams(s, d, rules[i])]

\* build_firewall_plan: the guests of the stack that have a firewall block.
FwManaged(d) == {v \in DOMAIN d.guests : d.guests[v] # None}

\* has_firewall: otherwise the run does nothing here.
HasFirewall(d) == d.groups # << >> \/ FwManaged(d) # {}

\* collect_group_rule_refs: of the guests and of the groups.
RulesOf(d) == UNION ({ToSet(d.guests[v]) : v \in FwManaged(d)}
                       \cup {ToSet(d.groups[i].rules) : i \in DOMAIN d.groups})
GroupRefs(d) == {r[2] : r \in {q \in RulesOf(d) : q[1] = "group"}}

\* A group of it names a group.
Nests(d) == \E i \in DOMAIN d.groups : \E r \in ToSet(d.groups[i].rules) : r[1] = "group"

\* assert_stack_firewall_groups_exist, at the plan.
GroupsExist(d) == \A g \in GroupRefs(d) \ Declared(d) : g \in SharedGroups /\ groups[g] # None

Refs(v) == IF guestRules[v] = None THEN {} ELSE ToSet(guestRules[v])
InUse(g) == \E v \in AllGuests : <<"group", g>> \in Refs(v)
StillInUse(g) == fwDeployment.refuses /\ InUse(g)

SetCommit(s, c) == commit' = [commit EXCEPT ![s] = c]
-----------------------------------------------------------------------------
(***************************************************************************)
(* After an apply.                                                         *)
(***************************************************************************)

\* start_stack_job after prepare_plan: whether there is a firewall is decided here.
StartApply(s) ==
  /\ commit[s] = NoCommit /\ GroupsExist(fwSpec[s])
  /\ outcome' = [outcome EXCEPT ![s] = "running"]
  /\ SetCommit(s, [NoCommit EXCEPT !.pc = "tofu", !.firewall = HasFirewall(fwSpec[s])])
  /\ UNCHANGED <<fwDeployment, fwSpec, specEdits, committed, groups, guestRules>>

\* tofu apply has succeeded: the guests are there, those that stay with the rules they had.
TofuApplied(s) ==
  /\ commit[s].pc = "tofu"
  /\ guestRules' = [v \in AllGuests |-> IF v \in FwGuests[s] /\ guestRules[v] = None
                                        THEN << >> ELSE guestRules[v]]
  /\ committed' = [committed EXCEPT ![s] = None]
  /\ SetCommit(s, [commit[s] EXCEPT !.pc = IF commit[s].firewall THEN "load" ELSE "done"])
  /\ UNCHANGED <<fwDeployment, fwSpec, specEdits, groups, outcome>>

\* _commit_firewall_after_apply loads the specification again: it may have been edited.
LoadSpec(s) ==
  /\ commit[s].pc = "load"
  /\ SetCommit(s, [commit[s] EXCEPT !.pc = "groups", !.spec = fwSpec[s],
                                 !.groups = fwSpec[s].groups, !.guests = FwManaged(fwSpec[s])])
  /\ committed' = [committed EXCEPT ![s] = fwSpec[s]]
  /\ UNCHANGED <<fwDeployment, fwSpec, specEdits, groups, guestRules, outcome>>

\* apply_firewall: the next group is deleted; that it fails is ignored ...
DeleteGroup(s) ==
  /\ commit[s].pc = "groups" /\ commit[s].groups # << >>
  /\ LET d == Head(commit[s].groups)
         g == GroupName(s, d.name)
     IN  /\ \/ ~StillInUse(g) /\ groups' = [groups EXCEPT ![g] = None]
            \/ /\ StillInUse(g) \/ fwDeployment.faults
               /\ UNCHANGED groups
         /\ SetCommit(s, [commit[s] EXCEPT !.pc = "create", !.groups = Tail(@), !.at = g,
                                        !.new = Params(s, commit[s].spec, d.rules)])
  /\ UNCHANGED <<fwDeployment, fwSpec, specEdits, committed, guestRules, outcome>>

\* ... created, which fails if it is there ...
CreateGroup(s) ==
  /\ commit[s].pc = "create" /\ groups[commit[s].at] = None
  /\ groups' = [groups EXCEPT ![commit[s].at] = << >>]
  /\ SetCommit(s, [commit[s] EXCEPT !.pc = "fill"])
  /\ UNCHANGED <<fwDeployment, fwSpec, specEdits, committed, guestRules, outcome>>

\* ... and filled; Proxmox nests no groups.
CreateGroupRule(s) ==
  /\ commit[s].pc = "fill" /\ commit[s].new # << >> /\ Head(commit[s].new)[1] = "plain"
  /\ groups[commit[s].at] # None
  /\ groups' = [groups EXCEPT ![commit[s].at] = Append(@, Head(commit[s].new))]
  /\ SetCommit(s, [commit[s] EXCEPT !.new = Tail(@)])
  /\ UNCHANGED <<fwDeployment, fwSpec, specEdits, committed, guestRules, outcome>>

\* Per guest: the option, the positions of the rules it has ...
GetRules(s) ==
  /\ commit[s].pc = "groups" /\ commit[s].groups = << >>
  /\ \E v \in commit[s].guests :
       SetCommit(s, [commit[s] EXCEPT !.pc = "delete", !.guests = @ \ {v}, !.at = v,
                                   !.old = DOMAIN guestRules[v],
                                   !.new = Params(s, commit[s].spec, commit[s].spec.guests[v])])
  /\ UNCHANGED <<fwDeployment, fwSpec, specEdits, committed, groups, guestRules, outcome>>

\* ... deleted from the last one on ...
NextOld(old) == Max(old)

DeleteGuestRule(s) ==
  /\ commit[s].pc = "delete" /\ commit[s].old # {}
  /\ LET v == commit[s].at
         p == NextOld(commit[s].old)
     IN  /\ p \in DOMAIN guestRules[v]
         /\ guestRules' = [guestRules EXCEPT ![v] = RemoveAt(@, p)]
         /\ SetCommit(s, [commit[s] EXCEPT !.old = @ \ {p}])
  /\ UNCHANGED <<fwDeployment, fwSpec, specEdits, committed, groups, outcome>>

\* Proxmox takes no rule for a group that does not exist.
Takes(rule) == rule[1] = "group" => rule[2] \in AllGroups /\ groups[rule[2]] # None

\* ... and those of the stack appended in their order.
CreateGuestRule(s) ==
  /\ commit[s].pc = "delete" /\ commit[s].old = {} /\ commit[s].new # << >>
  /\ Takes(Head(commit[s].new))
  /\ guestRules' = [guestRules EXCEPT ![commit[s].at] = Append(@, Head(commit[s].new))]
  /\ SetCommit(s, [commit[s] EXCEPT !.new = Tail(@)])
  /\ UNCHANGED <<fwDeployment, fwSpec, specEdits, committed, groups, outcome>>

\* The loops go on: the group is filled, or the guest has its rules.
NextObject(s) ==
  /\ commit[s].pc \in {"fill", "delete"} /\ commit[s].old = {} /\ commit[s].new = << >>
  /\ SetCommit(s, [commit[s] EXCEPT !.pc = "groups", !.at = None])
  /\ UNCHANGED <<fwDeployment, fwSpec, specEdits, committed, groups, guestRules, outcome>>

AllDone(s) == commit[s].pc = "groups" /\ commit[s].groups = << >> /\ commit[s].guests = {}

CommitDone(s) ==
  /\ commit[s].pc = "done" \/ AllDone(s)
  /\ outcome' = [outcome EXCEPT ![s] = "success"]
  /\ SetCommit(s, NoCommit)
  /\ UNCHANGED <<fwDeployment, fwSpec, specEdits, committed, groups, guestRules>>

\* The call at hand cannot succeed.
Rejected(s) ==
  \/ commit[s].pc = "create" /\ groups[commit[s].at] # None
  \/ commit[s].pc = "fill" /\ groups[commit[s].at] = None
  \/ commit[s].pc = "fill" /\ commit[s].new # << >> /\ Head(commit[s].new)[1] = "group"
  \/ /\ commit[s].pc = "delete" /\ commit[s].old # {}
     /\ NextOld(commit[s].old) \notin DOMAIN guestRules[commit[s].at]
  \/ /\ commit[s].pc = "delete" /\ commit[s].old = {} /\ commit[s].new # << >>
     /\ ~Takes(Head(commit[s].new))

\* A call fails: the run is partial.
CommitFails(s) ==
  /\ \/ Rejected(s)
     \/ /\ fwDeployment.faults /\ ~AllDone(s)
        /\ commit[s].pc \in {"groups", "create", "fill", "delete"}
        /\ commit[s].pc = "groups" => commit[s].groups = << >>
  /\ outcome' = [outcome EXCEPT ![s] = "partial"]
  /\ SetCommit(s, NoCommit)
  /\ UNCHANGED <<fwDeployment, fwSpec, specEdits, committed, groups, guestRules>>
-----------------------------------------------------------------------------
(***************************************************************************)
(* After a destroy.                                                        *)
(***************************************************************************)

\* start_stack_job and a tofu destroy that succeeds: the guests and their rules are gone.
TofuDestroyed(s) ==
  /\ commit[s] = NoCommit /\ outcome[s] # None
  /\ guestRules' = [v \in AllGuests |-> IF v \in FwGuests[s] THEN None ELSE guestRules[v]]
  /\ committed' = [committed EXCEPT ![s] = None]
  /\ outcome' = [outcome EXCEPT ![s] = "running"]
  /\ SetCommit(s, [NoCommit EXCEPT !.pc = IF HasFirewall(fwSpec[s]) THEN "list" ELSE "done"])
  /\ UNCHANGED <<fwDeployment, fwSpec, specEdits, groups>>

\* Mutant of OwnGroups: those the stack declares now.
OwnGroupsDeclared(s) == {GroupName(s, n) : n \in Declared(fwSpec[s])}

\* destroy_stack_security_groups: those with the stack's prefix.
OwnGroups(s) == Prefixed(s)

ListGroups(s) ==
  /\ commit[s].pc = "list"
  /\ SetCommit(s, [commit[s] EXCEPT !.pc = "remove",
                                 !.guests = {g \in OwnGroups(s) : groups[g] # None}])
  /\ UNCHANGED <<fwDeployment, fwSpec, specEdits, committed, groups, guestRules, outcome>>

RemoveGroup(s) ==
  /\ commit[s].pc = "remove"
  /\ \E g \in commit[s].guests :
       /\ ~StillInUse(g)
       /\ groups' = [groups EXCEPT ![g] = None]
       /\ SetCommit(s, [commit[s] EXCEPT !.guests = @ \ {g}])
  /\ UNCHANGED <<fwDeployment, fwSpec, specEdits, committed, guestRules, outcome>>

RemoveDone(s) ==
  /\ commit[s].pc = "remove" /\ commit[s].guests = {}
  /\ outcome' = [outcome EXCEPT ![s] = "success"]
  /\ SetCommit(s, NoCommit)
  /\ UNCHANGED <<fwDeployment, fwSpec, specEdits, committed, groups, guestRules>>

\* The first call that fails ends the run.
RemoveFails(s) ==
  /\ \/ commit[s].pc = "list" /\ fwDeployment.faults
     \/ /\ commit[s].pc = "remove"
        /\ \E g \in commit[s].guests : StillInUse(g) \/ fwDeployment.faults
  /\ outcome' = [outcome EXCEPT ![s] = "failed"]
  /\ SetCommit(s, NoCommit)
  /\ UNCHANGED <<fwDeployment, fwSpec, specEdits, committed, groups, guestRules>>
-----------------------------------------------------------------------------
\* update_stack.
EditSpec(s) ==
  /\ specEdits < MaxSpecEdits
  /\ \E d \in FwSpecs[s] \ {fwSpec[s]} : fwSpec' = [fwSpec EXCEPT ![s] = d]
  /\ specEdits' = specEdits + 1
  /\ UNCHANGED <<fwDeployment, committed, groups, guestRules, commit, outcome>>

\* Somebody gives a guest of his own a rule for a group, or takes it away.
StrangerUses(v) ==
  /\ fwDeployment.strangers
  /\ \/ \E g \in AllGroups : /\ groups[g] # None /\ guestRules[v] = << >>
                             /\ guestRules' = [guestRules EXCEPT ![v] = <<<<"group", g>>>>]
     \/ guestRules[v] # << >> /\ guestRules' = [guestRules EXCEPT ![v] = << >>]
  /\ UNCHANGED <<fwDeployment, fwSpec, specEdits, committed, groups, commit, outcome>>

\* Somebody drops a group that is nobody's.
StrangerDrops(g) ==
  /\ fwDeployment.strangers /\ groups[g] # None /\ ~StillInUse(g)
  /\ groups' = [groups EXCEPT ![g] = None]
  /\ UNCHANGED <<fwDeployment, fwSpec, specEdits, committed, guestRules, commit, outcome>>
-----------------------------------------------------------------------------
FwNext ==
  \/ \E s \in FwStacks :
       \/ StartApply(s) \/ TofuApplied(s) \/ LoadSpec(s) \/ DeleteGroup(s) \/ CreateGroup(s)
       \/ CreateGroupRule(s) \/ GetRules(s) \/ DeleteGuestRule(s) \/ CreateGuestRule(s)
       \/ NextObject(s) \/ CommitDone(s) \/ CommitFails(s)
       \/ TofuDestroyed(s) \/ ListGroups(s) \/ RemoveGroup(s) \/ RemoveDone(s) \/ RemoveFails(s)
       \/ EditSpec(s)
  \/ \E v \in Strangers : StrangerUses(v)
  \/ \E g \in SharedGroups : StrangerDrops(g)

FwSpecification == FwInit /\ [][FwNext]_fwVars
-----------------------------------------------------------------------------
(***************************************************************************)
(* Properties.                                                             *)
(***************************************************************************)
Pcs == {"idle", "tofu", "load", "groups", "create", "fill", "delete", "done", "list", "remove"}

\* The type invariant.
FwTypeOK ==
  /\ fwDeployment \in FwDeployments
  /\ \A s \in FwStacks : fwSpec[s] \in FwSpecs[s] /\ committed[s] \in FwSpecs[s] \cup {None}
  /\ specEdits \in 0..MaxSpecEdits
  /\ \A g \in AllGroups : groups[g] # None => \A i \in DOMAIN groups[g] : groups[g][i][1] = "plain"
  /\ \A s \in FwStacks : /\ commit[s].pc \in Pcs
                         /\ outcome[s] \in {None, "running", "success", "partial", "failed"}

\* After a run that reported success the guests with a firewall block have exactly the
\* rules of the specification that was committed, in its order, and each group it declares
\* has exactly its rules - whatever other stacks, strangers and earlier partial runs did
\* (apply_firewall: replace, not merge; the prefix keeps stacks apart).
CommitExact ==
  \A s \in FwStacks : outcome[s] = "success" /\ committed[s] # None =>
    /\ \A v \in FwManaged(committed[s]) :
         guestRules[v] = Params(s, committed[s], committed[s].guests[v])
    /\ \A i \in DOMAIN committed[s].groups :
         groups[<<s, committed[s].groups[i].name>>]
           = Params(s, committed[s], committed[s].groups[i].rules)

\* Where no call fails, nobody drops a group and nobody edits, only a commit that nests groups
\* fails: the calls are made in an order Proxmox takes (groups before the rules that name
\* them, the last position first) and what they name was checked at the plan.
CommitsSucceed ==
  ~fwDeployment.faults /\ ~fwDeployment.strangers /\ ~fwDeployment.refuses /\ specEdits = 0 =>
    \A s \in FwStacks : outcome[s] = "partial" => Nests(fwSpec[s])

\* Both, over specifications, groups and commits of their types.
CommitsSound == FwTypeOK /\ CommitExact /\ CommitsSucceed

\* A destroy that looked for groups and reports success has left none of the stack's,
\* those that an edit dropped from the specification included (AC-LC-2).
DestroyRemovesGroups ==
  [][\A s \in FwStacks : commit[s].pc = "remove" /\ outcome'[s] = "success" =>
       \A g \in Prefixed(s) : groups'[g] = None]_fwVars

\* What the runner says: that a stack is destroyed with success means that no group of it
\* is left (runner.py: a leftover is "surfaced, not swallowed").
LeftoversSurface ==
  \A s \in FwStacks : outcome[s] = "success" /\ (\A v \in FwGuests[s] : guestRules[v] = None) =>
    \A g \in Prefixed(s) : groups[g] = None

\* What the runner says of a deploy that is repeated: it "is idempotent", so where no call
\* fails it does not fail either.
RedeployIdempotent ==
  ~fwDeployment.faults /\ ~fwDeployment.strangers /\ specEdits = 0 =>
    \A s \in FwStacks : outcome[s] = "partial" => Nests(fwSpec[s])
=============================================================================
