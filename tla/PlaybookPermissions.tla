------------------------- MODULE PlaybookPermissions -------------------------
(***************************************************************************)
(* Who may run a playbook (backend/plus/playbook_permissions/service.py    *)
(* and playbook_permissions_plus.py): a whitelist of users and groups per  *)
(* playbook and a mode for the playbooks without one; the resolvers, which *)
(* send several SELECTs that no snapshot ties together, and the clean-up   *)
(* hooks, which run apart from the deletion they follow.                   *)
(*                                                                         *)
(* A subject is a user or a group; the entries are pairs <<playbook,       *)
(* subject>>.  Roles, to which "fallback" leaves the answer, and the       *)
(* administrators, who are not asked, belong to the core.                  *)
(***************************************************************************)
EXTENDS Portal

CONSTANTS
  PpUsers, PpGroups, Playbooks,
  Asks,            \* bound: questions to the resolvers
  MaxChanges       \* bound: changes of entries, mode, members and playbooks

PpSubjects == PpUsers \cup PpGroups

ASSUME PlaybookPermissionsAssumption ==
  /\ PpUsers \cap PpGroups = {}
  /\ MaxChanges \in Nat
  /\ None \notin {"allow", "deny", "fallback"}

VARIABLES
  defaultMode,  \* playbook_permissions_config.default_mode
  entries,      \* playbook_permissions
  existing,     \* local_users and groups
  groupMembers, \* the members of the groups
  volume,       \* the playbooks there are
  changes,      \* how often one of these changed
  adds,         \* calls of add_permission that have seen their subject
  cleanups,     \* deleted subjects and playbooks whose clean-up hook is still to run
  asks,         \* the questions to the resolvers that are under way or answered
  rescan        \* the playbooks a clean-up of stale entries has found; None: none runs

tables == <<defaultMode, entries, existing, groupMembers, volume, changes, adds, cleanups, rescan>>
ppVars == <<tables, asks>>
-----------------------------------------------------------------------------
\* pc; who asks for what; what was read; `seen': the decisions that were right meanwhile;
\* `calm': since it has read the groups, nobody changed those groups, the mode, or added
\* an entry that lets the user in.
NoAsk == [pc |-> "none", user |-> None, playbook |-> None, groups |-> {}, mode |-> None,
          hit |-> FALSE, answer |-> None, seen |-> {}, calm |-> TRUE]

PpInit ==
  /\ defaultMode \in {"open", "restricted"}
  /\ entries = {}
  /\ existing = PpSubjects
  /\ groupMembers \in [PpGroups -> SUBSET PpUsers]
  /\ volume = Playbooks
  /\ changes = 0
  /\ adds = {} /\ cleanups = {}
  /\ asks = [a \in Asks |-> NoAsk]
  /\ rescan = None

GroupsOf(u) == {g \in PpGroups \cap existing : u \in groupMembers[g]}

\* Mutant of HasAny: entries of users only.
HasAnyUser(p) == \E u \in PpUsers : <<p, u>> \in entries

\* The playbook has a whitelist.
HasAny(p) == \E s \in PpSubjects : <<p, s>> \in entries

\* The whitelist names the user or one of the groups.
Listed(p, subjects) == \E s \in subjects : <<p, s>> \in entries

ByMode(mode) == IF mode = "restricted" THEN "deny" ELSE "fallback"

\* What the answer should be in one state: the order of the checks of
\* can_user_execute_playbook.
Decision(u, p) ==
  LET listed == {e[2] : e \in {x \in entries : x[1] = p}}
  IN  IF listed # {}
      THEN IF listed \cap ({u} \cup GroupsOf(u)) # {} THEN "allow" ELSE "deny"
      ELSE ByMode(defaultMode)

InProgress(a) == asks[a].pc \notin {"none", "done"}

\* The questions that have read the groups.
Informed == {a \in Asks : InProgress(a) /\ asks[a].pc \notin {"single", "groups"}}

\* Those of them an entry of `s' for playbook p would answer.
LetIn(p, s) ==
  {a \in Informed : asks[a].playbook = p /\ s \in {asks[a].user} \cup asks[a].groups}

\* What is right after the step is noted in all questions under way, and which of them
\* the step disturbs.
Decisions == [q \in PpUsers \X Playbooks |-> Decision(q[1], q[2])]

Watch(disturbed) ==
  LET right == Decisions'
  IN  asks' = [a \in Asks |-> IF InProgress(a)
                 THEN [asks[a] EXCEPT !.seen = @ \cup {right[<<asks[a].user, asks[a].playbook>>]},
                                      !.calm = @ /\ a \notin disturbed]
                 ELSE asks[a]]
-----------------------------------------------------------------------------
(***************************************************************************)
(* The resolvers.                                                          *)
(***************************************************************************)
Ask(a, u, p) ==
  /\ asks[a].pc = "none"
  /\ \E pc \in {"single", "groups"} :
       asks' = [asks EXCEPT ![a] = [NoAsk EXCEPT !.pc = pc, !.user = u, !.playbook = p,
                                                !.seen = {Decision(u, p)}]]
  /\ UNCHANGED tables

Answered(a, d) == asks' = [asks EXCEPT ![a].pc = "done", ![a].answer = d]

\* can_user_execute_playbook: the groups, an entry of the user or a group, any entry,
\* and the mode, each read by a statement of its own.
ReadMyGroups(a) ==
  /\ asks[a].pc = "single"
  /\ asks' = [asks EXCEPT ![a].pc = "hit", ![a].groups = GroupsOf(asks[a].user)]
  /\ UNCHANGED tables

ReadHit(a) ==
  /\ asks[a].pc = "hit"
  /\ IF Listed(asks[a].playbook, {asks[a].user} \cup asks[a].groups)
     THEN Answered(a, "allow") ELSE asks' = [asks EXCEPT ![a].pc = "any"]
  /\ UNCHANGED tables

ReadAny(a) ==
  /\ asks[a].pc = "any"
  /\ IF HasAny(asks[a].playbook)
     THEN Answered(a, "deny") ELSE asks' = [asks EXCEPT ![a].pc = "mode"]
  /\ UNCHANGED tables

ReadMode(a) ==
  /\ asks[a].pc = "mode"
  /\ Answered(a, ByMode(defaultMode))
  /\ UNCHANGED tables

\* get_playbook_can_execute_map: the groups, the mode, the user's entries, the groups'
\* entries and all entries.
ReadGroups(a) ==
  /\ asks[a].pc = "groups"
  /\ asks' = [asks EXCEPT ![a].pc = "default", ![a].groups = GroupsOf(asks[a].user)]
  /\ UNCHANGED tables

ReadDefault(a) ==
  /\ asks[a].pc = "default"
  /\ asks' = [asks EXCEPT ![a].pc = "own", ![a].mode = defaultMode]
  /\ UNCHANGED tables

ReadOwn(a) ==
  /\ asks[a].pc = "own"
  /\ asks' = [asks EXCEPT ![a].pc = "shared",
                          ![a].hit = Listed(asks[a].playbook, {asks[a].user})]
  /\ UNCHANGED tables

ReadShared(a) ==
  /\ asks[a].pc = "shared"
  /\ asks' = [asks EXCEPT ![a].pc = "map",
                          ![a].hit = @ \/ Listed(asks[a].playbook, asks[a].groups)]
  /\ UNCHANGED tables

ReadMap(a) ==
  /\ asks[a].pc = "map"
  /\ Answered(a, IF asks[a].hit THEN "allow"
                 ELSE IF HasAny(asks[a].playbook) THEN "deny" ELSE ByMode(asks[a].mode))
  /\ UNCHANGED tables

\* get_my_allowed_playbooks: the list in the profile.
MyPlaybooks(u) ==
  {p \in volume : Listed(p, {u} \cup GroupsOf(u)) \/ defaultMode = "open"}
-----------------------------------------------------------------------------
(***************************************************************************)
(* Changes.                                                                *)
(***************************************************************************)
Change == changes < MaxChanges /\ changes' = changes + 1

\* add_permission: the playbook and the subject exist ...
AddPermission(p, s) ==
  /\ Change /\ p \in volume /\ s \in existing
  /\ adds' = adds \cup {<<p, s>>}
  /\ UNCHANGED <<defaultMode, entries, existing, groupMembers, volume, cleanups, rescan, asks>>

\* ... and the INSERT, whatever became of them; a duplicate is refused.
InsertPermission(e) ==
  /\ e \in adds
  /\ adds' = adds \ {e}
  /\ entries' = entries \cup {e}
  /\ UNCHANGED <<defaultMode, existing, groupMembers, volume, changes, cleanups, rescan>>
  /\ Watch(LetIn(e[1], e[2]))

RemovePermission(e) ==
  /\ Change /\ e \in entries
  /\ entries' = entries \ {e}
  /\ UNCHANGED <<defaultMode, existing, groupMembers, volume, adds, cleanups, rescan>>
  /\ Watch({})

\* set_default_playbook_mode.
SetMode(mode) ==
  /\ Change /\ mode # defaultMode
  /\ defaultMode' = mode
  /\ UNCHANGED <<entries, existing, groupMembers, volume, adds, cleanups, rescan>>
  /\ Watch(Informed)

\* Somebody joins or leaves a group.
ChangeMember(g, u) ==
  /\ Change /\ g \in existing /\ u \in existing
  /\ groupMembers' = [groupMembers EXCEPT ![g] = IF u \in @ THEN @ \ {u} ELSE @ \cup {u}]
  /\ UNCHANGED <<defaultMode, entries, existing, volume, adds, cleanups, rescan>>
  /\ Watch(Informed)

\* The core deletes a user or a group ...
DeleteSubject(s) ==
  /\ Change /\ s \in existing
  /\ existing' = existing \ {s}
  /\ groupMembers' = [g \in PpGroups |-> groupMembers[g] \ {s}]
  /\ cleanups' = cleanups \cup {s}
  /\ UNCHANGED <<defaultMode, entries, volume, adds, rescan>>
  /\ Watch(Informed)

\* ... or a playbook ...
DeletePlaybook(p) ==
  /\ Change /\ p \in volume
  /\ volume' = volume \ {p}
  /\ cleanups' = cleanups \cup {p}
  /\ UNCHANGED <<defaultMode, entries, existing, groupMembers, adds, rescan, asks>>

\* ... and the hook takes the entries there are by then, in a transaction of its own.
CleanUp(x) ==
  /\ x \in cleanups
  /\ cleanups' = cleanups \ {x}
  /\ entries' = {e \in entries : x \notin {e[1], e[2]}}
  /\ UNCHANGED <<defaultMode, existing, groupMembers, volume, changes, adds, rescan>>
  /\ Watch({})

\* A playbook just goes from the volume, or comes.
VolumeChange(p) ==
  /\ Change
  /\ volume' = IF p \in volume THEN volume \ {p} ELSE volume \cup {p}
  /\ UNCHANGED <<defaultMode, entries, existing, groupMembers, adds, cleanups, rescan, asks>>

\* cleanup_stale_permissions, at a start and a rescan of the volume: the playbooks
\* there are ...
StartRescan ==
  /\ rescan = None
  /\ rescan' = volume
  /\ UNCHANGED <<defaultMode, entries, existing, groupMembers, volume, changes, adds, cleanups,
                 asks>>

Stale(found) == {e \in entries : e[1] \notin found}

\* ... and the entries of all others go.
EndRescan ==
  /\ rescan # None
  /\ entries' = entries \ Stale(rescan)
  /\ rescan' = None
  /\ UNCHANGED <<defaultMode, existing, groupMembers, volume, changes, adds, cleanups>>
  /\ Watch({})
-----------------------------------------------------------------------------
PpNext ==
  \/ \E a \in Asks :
       \/ \E u \in PpUsers \cap existing, p \in Playbooks : Ask(a, u, p)
       \/ ReadMyGroups(a) \/ ReadHit(a) \/ ReadAny(a) \/ ReadMode(a)
       \/ ReadGroups(a) \/ ReadDefault(a) \/ ReadOwn(a) \/ ReadShared(a) \/ ReadMap(a)
  \/ \E p \in Playbooks :
       \/ \E s \in PpSubjects : AddPermission(p, s)
       \/ DeletePlaybook(p) \/ VolumeChange(p)
  \/ \E e \in adds : InsertPermission(e)
  \/ \E e \in entries : RemovePermission(e)
  \/ \E mode \in {"open", "restricted"} : SetMode(mode)
  \/ \E g \in PpGroups, u \in PpUsers : ChangeMember(g, u)
  \/ \E s \in PpSubjects : DeleteSubject(s)
  \/ \E x \in cleanups : CleanUp(x)
  \/ StartRescan \/ EndRescan

PpSpec == PpInit /\ [][PpNext]_ppVars
-----------------------------------------------------------------------------
(***************************************************************************)
(* Properties.                                                             *)
(***************************************************************************)

\* The type invariant of the tables and the answers.
PpTypeOK ==
  /\ defaultMode \in {"open", "restricted"}
  /\ entries \subseteq Playbooks \X PpSubjects /\ adds \subseteq Playbooks \X PpSubjects
  /\ groupMembers \in [PpGroups -> SUBSET PpUsers]
  /\ volume \subseteq Playbooks /\ changes \in 0..MaxChanges
  /\ \A a \in Asks : asks[a].answer \in {None, "allow", "deny", "fallback"}

\* An answer was right at some moment between question and answer, although the resolvers
\* put it together from four or five SELECTs and entries are removed, added for others,
\* cleaned up and rescanned meanwhile.  Not covered, because there the code does go
\* wrong: a mode or a group that changes between the SELECTs, and an entry for the user
\* inserted between the one for the user's entries and the one for any entry.
AnswersWereRight ==
  \A a \in Asks : asks[a].pc = "done" /\ asks[a].calm => asks[a].answer \in asks[a].seen

\* The same over entries and questions of their types.
AnswersSound == PpTypeOK /\ AnswersWereRight

\* What can_user_execute_playbook says: it gives the answer of its list of checks - which
\* then was right at some moment, whatever changed.
AnswersWereAlwaysRight ==
  \A a \in Asks : asks[a].pc = "done" => asks[a].answer \in asks[a].seen

\* What the clean-up hooks are for: an entry is of somebody who exists or whose
\* clean-up is still to run.
EntriesOfSomebody ==
  \A e \in entries : e[2] \in existing \cup cleanups

\* What the clean-up says: it takes the entries of missing playbooks.
RescanTakesStale ==
  [][rescan # None /\ rescan' = None =>
       \A e \in entries \ entries' : e[1] \notin volume]_ppVars

\* What the profile says: the playbooks the user may run.
ProfileHonest ==
  \A u \in PpUsers \cap existing : \A p \in MyPlaybooks(u) : Decision(u, p) # "deny"
=============================================================================
