----------------------------- MODULE Directory -----------------------------
(***************************************************************************)
(* Users, groups and members (services/group_service.py and the store      *)
(* methods behind it) in the processes of a deployment.  Each process has  *)
(* a store of its own in memory: a user or group exists only where it was  *)
(* created, and ends with the process.  Ids are random, so that none is    *)
(* issued twice, in any process or life of one.                            *)
(*                                                                         *)
(* E-mails are compared as the schema leaves them, trimmed and in lower    *)
(* case.  A request that is refused with 404 or 409 changes nothing.       *)
(***************************************************************************)
EXTENDS Integers, Sequences, FiniteSets

CONSTANTS Processes, UserIds, GroupIds, Emails

ASSUME IdsAssumption == UserIds \cap GroupIds = {}

VARIABLES
  users,    \* process -> the users of its store
  groups,   \* process -> the groups of its store
  issued,   \* the ids issued so far
  emailOf,  \* user -> its e-mail, once issued
  members   \* group -> its member_ids

directoryVars == <<users, groups, issued, emailOf, members>>

DirectoryInit ==
  /\ users  = [p \in Processes |-> {}]
  /\ groups = [p \in Processes |-> {}]
  /\ issued = {}
  /\ emailOf \in [UserIds -> Emails]
  /\ members = [g \in GroupIds |-> {}]

\* The check create_user makes.  Mutant: it makes none.
AnyEmail(p, u)  == TRUE
EmailFree(p, u) == \A v \in users[p] : emailOf[v] # emailOf[u]

CreateUser(p, u) ==
  /\ u \notin issued
  /\ EmailFree(p, u)
  /\ issued' = issued \cup {u}
  /\ users' = [users EXCEPT ![p] = @ \cup {u}]
  /\ UNCHANGED <<groups, emailOf, members>>

CreateGroup(p, g) ==
  /\ g \notin issued
  /\ issued' = issued \cup {g}
  /\ groups' = [groups EXCEPT ![p] = @ \cup {g}]
  /\ UNCHANGED <<users, emailOf, members>>

\* What add_member looks up first.  Mutant: the group only.
GroupKnown(p, g, u) == g \in groups[p]
BothKnown(p, g, u)  == g \in groups[p] /\ u \in users[p]

AddMember(p, g, u) ==
  /\ BothKnown(p, g, u)
  /\ members' = [members EXCEPT ![g] = @ \cup {u}]
  /\ UNCHANGED <<users, groups, issued, emailOf>>

\* The process stops; the one that takes its place starts with a new store.
StoreLost(p) ==
  /\ users'  = [users EXCEPT ![p] = {}]
  /\ groups' = [groups EXCEPT ![p] = {}]
  /\ members' = [g \in GroupIds |-> IF g \in groups[p] THEN {} ELSE members[g]]
  /\ UNCHANGED <<issued, emailOf>>

DirectoryStep(p) ==
  \/ \E u \in UserIds : CreateUser(p, u)
  \/ \E g \in GroupIds : CreateGroup(p, g)
  \/ \E g \in GroupIds, u \in UserIds : AddMember(p, g, u)

-----------------------------------------------------------------------------

\* Type invariant of the directory; within a process an e-mail has one user.
DirectoryTypeOK ==
  /\ users  \in [Processes -> SUBSET UserIds]
  /\ groups \in [Processes -> SUBSET GroupIds]
  /\ issued \subseteq UserIds \cup GroupIds
  /\ emailOf \in [UserIds -> Emails]
  /\ members \in [GroupIds -> SUBSET UserIds]
  /\ \A p \in Processes, u, v \in UserIds :
       {u, v} \subseteq users[p] /\ emailOf[u] = emailOf[v] => u = v

\* The members of a group are users of the process the group lives in, so that
\* GET members finds each of them; groups and users of two processes never mix,
\* and none comes back after its process has stopped.
MembersAreKnown ==
  /\ \A p \in Processes : \A g \in groups[p] : members[g] \subseteq users[p]
  /\ \A p, q \in Processes :
       p # q => users[p] \cap users[q] = {} /\ groups[p] \cap groups[q] = {}
=============================================================================
