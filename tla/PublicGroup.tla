---------------------------- MODULE PublicGroup ----------------------------
(***************************************************************************)
(* PublicGroup: creation and removal of groups and their membership, on    *)
(* the tables PublicGroups, Users_In_Groups and Lists.                     *)
(*                                                                         *)
(* The calls come one at a time (threads_handler joins every handler       *)
(* thread), but a call is not atomic: no transaction is opened, so every   *)
(* INSERT, UPDATE and DELETE is durable by itself.  Each writing statement *)
(* is therefore a step of its own, and between two of them the process can *)
(* be killed; what it read and checked before the first write is part of   *)
(* the first step.  DataBase::query prints an SQLite error and returns as  *)
(* if nothing had happened, so a write can also be lost silently while its *)
(* caller goes on.  Kills and lost writes share the budget MaxFaults.      *)
(***************************************************************************)
EXTENDS Database, FiniteSets

CONSTANTS
    MaxCode,     \* bound on the AUTOINCREMENT codes handed out
    GroupLimit,  \* the number of users a group can have: 4 in addUser
    MaxFaults    \* bound on kills and lost writes

ASSUME GroupAssumption ==
    /\ MaxCode \in Nat \ {0}
    /\ GroupLimit \in Nat \ {0}
    /\ MaxFaults \in Nat
    /\ IsFiniteSet(Usernames)
    /\ NoRow \notin Usernames

Codes == 1 .. MaxCode

GroupRow == [admin : Usernames, number_of_users : Int]

ASSUME GroupRowAssumption == NoRow \notin GroupRow

VARIABLES
    PublicGroups,     \* code -> admin and number_of_users (name, date: no control)
    Users_In_Groups,  \* group_code -> username -> status
    Lists,            \* the group_codes with rows in Lists
    seq,              \* AUTOINCREMENT: the largest code ever given out
    mtx,              \* PublicGroup::mtx; "stuck" once a lock can never succeed
    call,             \* the call in progress and its local variables
    reply,            \* outcome of the last finished call
    faults            \* kills and lost writes so far

tables == <<PublicGroups, Users_In_Groups, Lists, seq>>
vars   == <<PublicGroups, Users_In_Groups, Lists, seq, mtx, call, reply, faults>>

(***************************************************************************)
(* A call that has written something names what it does next in op:        *)
(*   "insertAdmin"    createGroup, before the admin's membership row       *)
(*   "setNumber"      addUser and removeUser, before number_of_users       *)
(*   "deleteMembers", "deleteLists"   removeGroup, before these statements *)
(* doubleUnlock records that the call has unlocked mtx once too often.     *)
(* For "insertAdmin", code is the row the INSERT made, 0 if it was lost;   *)
(* the code itself does not know it and selects the last row instead.      *)
(***************************************************************************)
Pending(op, effector, code, number_of_users, doubleUnlock) ==
    [op |-> op, effector |-> effector, code |-> code,
     number_of_users |-> number_of_users, doubleUnlock |-> doubleUnlock]

NoCall == Pending("none", NoRow, 0, 0, FALSE)

Calls == [op : {"none", "insertAdmin", "setNumber", "deleteMembers", "deleteLists"},
          effector : Usernames \cup {NoRow}, code : 0 .. MaxCode,
          number_of_users : Int, doubleUnlock : BOOLEAN]

Replies == {"none", "ok", "NoSuchUserInTheGroupException", "FullGroupException",
            "SystemException", "PermissionIsDeniedException",
            "FailedCreateGroupException"}

TypeOK ==
    /\ PublicGroups \in [Codes -> GroupRow \cup {NoRow}]
    /\ Users_In_Groups \in [Codes -> [Usernames -> Status \cup {NoRow}]]
    /\ Lists \in SUBSET Codes
    /\ seq \in 0 .. MaxCode
    /\ mtx \in {"free", "held", "stuck"}
    /\ call \in Calls
    /\ reply \in Replies
    /\ faults \in 0 .. MaxFaults

Init ==
    /\ PublicGroups = [g \in Codes |-> NoRow]
    /\ Users_In_Groups = [g \in Codes |-> [u \in Usernames |-> NoRow]]
    /\ Lists = {}
    /\ seq = 0
    /\ mtx = "free"
    /\ call = NoCall
    /\ reply = "none"
    /\ faults = 0

-----------------------------------------------------------------------------
(***************************************************************************)
(* Queries                                                                 *)
(***************************************************************************)
Members(g) == {u \in Usernames : Users_In_Groups[g][u] # NoRow}

isUserExistsInGroup(g, u) == u \in Members(g)

GroupRows == {g \in Codes : PublicGroups[g] # NoRow}

getNumberOfUsersInGroup(g) == PublicGroups[g].number_of_users

MayAct(g, effector, requested) == isAuthorized(Users_In_Groups[g][effector], requested)

\* SELECT code FROM PublicGroups ORDER BY code DESC LIMIT 1
LastCode == CHOOSE g \in GroupRows : \A h \in GroupRows : h <= g

\* The key SQLite gives the next row of PublicGroups.
NextCodeReused == IF GroupRows = {} THEN 1 ELSE LastCode + 1
NextCode == seq + 1

NewGroupRowUncounted(admin) == [admin |-> admin]
NewGroupRow(admin) == [admin |-> admin, number_of_users |-> 1]

GroupFullLate(g) == getNumberOfUsersInGroup(g) = GroupLimit + 1
GroupFull(g) == getNumberOfUsersInGroup(g) = GroupLimit

TargetUnprotected(g, u) == FALSE
TargetIsAdmin(g, u) == getPermission(Users_In_Groups[g][u]) = Admin

NumberAfterRemovalStale(g) == getNumberOfUsersInGroup(g)
NumberAfterRemoval(g) == getNumberOfUsersInGroup(g) - 1

\* The table with status s for u, or without a row for u if s is NoRow.
WithStatus(g, u, s) == [Users_In_Groups EXCEPT ![g][u] = s]

\* INSERT INTO Users_In_Groups: refused by the primary key if the row exists.
InsertMember(g, u, s) ==
    IF isUserExistsInGroup(g, u) THEN Users_In_Groups ELSE WithStatus(g, u, s)

\* DELETE FROM Users_In_Groups WHERE group_code = g
DeleteMembersSkipped(g) == Users_In_Groups
DeleteMembers(g) == [Users_In_Groups EXCEPT ![g] = [u \in Usernames |-> NoRow]]

\* UPDATE PublicGroups SET number_of_users = n WHERE code = g
SetNumber(g, n) ==
    IF PublicGroups[g] = NoRow
    THEN PublicGroups
    ELSE [PublicGroups EXCEPT ![g].number_of_users = n]
-----------------------------------------------------------------------------
(***************************************************************************)
(* How a statement can be lost, and how a call ends                        *)
(***************************************************************************)

\* DataBase::query: an error is printed and swallowed.
QueryLost == faults < MaxFaults /\ faults' = faults + 1

\* mtx.lock() of a new call.  A stuck mutex never lets one in again.
Locked == call = NoCall /\ mtx = "free"

\* The last mtx.unlock().  Unlocking a mutex that is not held is undefined:
\* either nothing happens or the lock count is spoiled and the next lock hangs.
Unlock(doubleUnlock) ==
    mtx' \in IF doubleUnlock THEN {"free", "stuck"} ELSE {"free"}

Return == call' = NoCall /\ reply' = "ok"

Throw(exception) ==
    /\ call' = NoCall
    /\ reply' = exception
    /\ UNCHANGED <<tables, faults>>

\* The process is gone and is started again on the same database file.
Restart == mtx' = "free" /\ call' = NoCall /\ reply' = "none"

\* Also undefined: abort() in the second unlock of a build with assertions, and
\* an access violation where query(...)[0][0] indexes an empty result.
Dies == Restart /\ UNCHANGED <<tables, faults>>

\* Killed in the middle of a call, or restarted while none has written.
Kill ==
    /\ \/ call # NoCall /\ QueryLost
       \/ call = NoCall /\ UNCHANGED faults
    /\ Restart
    /\ UNCHANGED tables
-----------------------------------------------------------------------------
(***************************************************************************)
(* createGroup                                                             *)
(***************************************************************************)
createGroup(admin) ==
    /\ Locked /\ NextCode \in Codes
    /\ \/ /\ PublicGroups' = [PublicGroups EXCEPT ![NextCode] = NewGroupRow(admin)]
          /\ seq' = IF NextCode > seq THEN NextCode ELSE seq
          /\ call' = Pending("insertAdmin", admin, NextCode, 0, FALSE)
          /\ UNCHANGED faults
       \/ /\ QueryLost
          /\ call' = Pending("insertAdmin", admin, 0, 0, FALSE)
          /\ UNCHANGED <<PublicGroups, seq>>
    /\ mtx' = "held"
    /\ UNCHANGED <<Users_In_Groups, Lists, reply>>

createGroup_insertAdmin ==
    /\ call.op = "insertAdmin"
    /\ \/ /\ GroupRows = {}
          /\ Throw("FailedCreateGroupException")
       \/ /\ GroupRows # {}
          /\ \/ /\ Users_In_Groups' = InsertMember(LastCode, call.effector, "admin")
                /\ UNCHANGED faults
             \/ QueryLost /\ UNCHANGED Users_In_Groups
          /\ Return
          /\ UNCHANGED <<PublicGroups, Lists, seq>>
    /\ mtx' = "free"

(***************************************************************************)
(* removeGroup.  A caller who is not admin is not stopped: line 66 builds  *)
(* the exception and does not throw it, after having unlocked mtx.         *)
(***************************************************************************)
removeGroup(effector, g) ==
    /\ Locked
    /\ \/ /\ ~isUserExistsInGroup(g, effector)
          /\ Throw("NoSuchUserInTheGroupException")
          /\ Unlock(FALSE)
       \/ /\ isUserExistsInGroup(g, effector)
          /\ \/ PublicGroups' = [PublicGroups EXCEPT ![g] = NoRow] /\ UNCHANGED faults
             \/ QueryLost /\ UNCHANGED PublicGroups
          /\ call' = Pending("deleteMembers", effector, g, 0, ~MayAct(g, effector, Admin))
          /\ mtx' = "held"
          /\ UNCHANGED <<Users_In_Groups, Lists, seq, reply>>
       \/ isUserExistsInGroup(g, effector) /\ ~MayAct(g, effector, Admin) /\ Dies

removeGroup_deleteMembers ==
    /\ call.op = "deleteMembers"
    /\ \/ Users_In_Groups' = DeleteMembers(call.code) /\ UNCHANGED faults
       \/ QueryLost /\ UNCHANGED Users_In_Groups
    /\ call' = Pending("deleteLists", call.effector, call.code, 0, call.doubleUnlock)
    /\ UNCHANGED <<PublicGroups, Lists, seq, mtx, reply>>

removeGroup_deleteLists ==
    /\ call.op = "deleteLists"
    /\ \/ Lists' = Lists \ {call.code} /\ UNCHANGED faults
       \/ QueryLost /\ UNCHANGED Lists
    /\ Unlock(call.doubleUnlock)
    /\ Return
    /\ UNCHANGED <<PublicGroups, Users_In_Groups, seq>>

(***************************************************************************)
(* addUser.  Line 116 does not throw either.                               *)
(***************************************************************************)
addUser(effector, g, u, s) ==
    /\ Locked
    /\ \/ /\ ~isUserExistsInGroup(g, effector)
          /\ Throw("NoSuchUserInTheGroupException") /\ Unlock(FALSE)
       \/ /\ isUserExistsInGroup(g, effector) /\ g \notin GroupRows
          /\ Dies
       \/ /\ isUserExistsInGroup(g, effector) /\ g \in GroupRows /\ GroupFull(g)
          /\ Throw("FullGroupException") /\ Unlock(FALSE)
       \/ /\ isUserExistsInGroup(g, effector) /\ g \in GroupRows /\ ~GroupFull(g)
          /\ \/ /\ isUserExistsInGroup(g, u)
                /\ Throw("SystemException") /\ Unlock(FALSE)
             \/ /\ ~isUserExistsInGroup(g, u) /\ ~MayAct(g, effector, FullControl)
                /\ Dies
             \/ /\ ~isUserExistsInGroup(g, u) /\ getPermission(s) = Non
                /\ Throw("SystemException")
                /\ Unlock(~MayAct(g, effector, FullControl))
             \/ /\ ~isUserExistsInGroup(g, u) /\ getPermission(s) # Non
                /\ \/ Users_In_Groups' = InsertMember(g, u, s) /\ UNCHANGED faults
                   \/ QueryLost /\ UNCHANGED Users_In_Groups
                /\ call' = Pending("setNumber", effector, g, getNumberOfUsersInGroup(g) + 1,
                                   ~MayAct(g, effector, FullControl))
                /\ mtx' = "held"
                /\ UNCHANGED <<PublicGroups, Lists, seq, reply>>

(***************************************************************************)
(* removeUser and setUserStatus                                            *)
(***************************************************************************)
\* The checks the two calls share, in the order of the code.
EffectorAndTargetRefused(effector, g, u) ==
    /\ \/ /\ ~isUserExistsInGroup(g, effector) \/ ~isUserExistsInGroup(g, u)
          /\ Throw("NoSuchUserInTheGroupException")
       \/ /\ isUserExistsInGroup(g, effector) /\ isUserExistsInGroup(g, u)
          /\ ~MayAct(g, effector, FullControl) \/ TargetIsAdmin(g, u)
          /\ Throw("PermissionIsDeniedException")
    /\ Unlock(FALSE)

EffectorAndTargetAccepted(effector, g, u) ==
    /\ isUserExistsInGroup(g, effector) /\ isUserExistsInGroup(g, u)
    /\ MayAct(g, effector, FullControl) /\ ~TargetIsAdmin(g, u)

removeUser(effector, g, u) ==
    /\ Locked
    /\ \/ EffectorAndTargetRefused(effector, g, u)
       \/ /\ EffectorAndTargetAccepted(effector, g, u) /\ g \notin GroupRows
          /\ Dies
       \/ /\ EffectorAndTargetAccepted(effector, g, u) /\ g \in GroupRows
          /\ \/ /\ Users_In_Groups' = WithStatus(g, u, NoRow)
                /\ UNCHANGED faults
             \/ QueryLost /\ UNCHANGED Users_In_Groups
          /\ call' = Pending("setNumber", effector, g, NumberAfterRemoval(g), FALSE)
          /\ mtx' = "held"
          /\ UNCHANGED <<PublicGroups, Lists, seq, reply>>

\* The second statement of addUser and of removeUser.
setNumberOfUsers ==
    /\ call.op = "setNumber"
    /\ \/ /\ PublicGroups' = SetNumber(call.code, call.number_of_users)
          /\ UNCHANGED faults
       \/ QueryLost /\ UNCHANGED PublicGroups
    /\ Unlock(call.doubleUnlock)
    /\ Return
    /\ UNCHANGED <<Users_In_Groups, Lists, seq>>

\* new_status is any text: it is not compared with the four known statuses.
setUserStatus(effector, g, u, new_status) ==
    /\ Locked
    /\ \/ EffectorAndTargetRefused(effector, g, u)
       \/ /\ EffectorAndTargetAccepted(effector, g, u)
          /\ \/ /\ Users_In_Groups' = WithStatus(g, u, new_status)
                /\ UNCHANGED faults
             \/ QueryLost /\ UNCHANGED Users_In_Groups
          /\ Return
          /\ Unlock(FALSE)
          /\ UNCHANGED <<PublicGroups, Lists, seq>>

(***************************************************************************)
(* PublicLists, as far as it matters here: a member who may write gives    *)
(* the group its first row in Lists, or takes its last one.                *)
(***************************************************************************)
EditList(effector, g) ==
    /\ call = NoCall
    /\ isUserExistsInGroup(g, effector) /\ MayAct(g, effector, ReadWrite)
    /\ Lists' = IF g \in Lists THEN Lists \ {g} ELSE Lists \cup {g}
    /\ UNCHANGED <<PublicGroups, Users_In_Groups, seq, mtx, call, reply, faults>>
-----------------------------------------------------------------------------
Step ==
    \/ createGroup_insertAdmin
    \/ removeGroup_deleteMembers
    \/ removeGroup_deleteLists
    \/ setNumberOfUsers

Begin ==
    \/ \E e \in Usernames : createGroup(e)
    \/ \E e \in Usernames, g \in Codes : removeGroup(e, g) \/ EditList(e, g)
    \/ \E e, u \in Usernames, g \in Codes : removeUser(e, g, u)
    \/ \E e, u \in Usernames, g \in Codes, s \in Status :
          addUser(e, g, u, s) \/ setUserStatus(e, g, u, s)

Next == Begin \/ Step \/ Kill

Spec == Init /\ [][Next]_vars
-----------------------------------------------------------------------------
(***************************************************************************)
(* Properties                                                              *)
(***************************************************************************)

\* A group code is never reissued while rows of an earlier group still carry
\* it: the row createGroup inserts starts with no members and no list, even
\* when an earlier removeGroup was cut short after its first DELETE.
FreshCode ==
    call.op = "insertAdmin" /\ call.code # 0 =>
        Members(call.code) = {} /\ call.code \notin Lists

\* Whatever is killed or lost, membership rows of a group never lack an admin:
\* removeUser and setUserStatus refuse to touch one, and only createGroup
\* brings the first member, so somebody can always manage the group.
NeverAdminless ==
    \A g \in Codes : Members(g) # {} => \E u \in Usernames : Users_In_Groups[g][u] = "admin"

\* The value number_of_users will have when the call in progress is done.
IntendedNumber(g) ==
    IF call.op = "setNumber" /\ call.code = g
    THEN call.number_of_users
    ELSE PublicGroups[g].number_of_users

\* createGroup counts its admin before it inserts the membership row.
AdminPending(g) == IF call.op = "insertAdmin" /\ call.code = g THEN 1 ELSE 0

Drift(g) == IntendedNumber(g) - AdminPending(g) - Cardinality(Members(g))

\* number_of_users is a copy of a count, kept by separate statements.  Without
\* kills and lost writes it is exact; each of them makes it too small by at most
\* one.  (It can become much too large: when removeGroup loses its first DELETE,
\* the row survives with the count of the members that are gone.)
CounterDrift ==
    \A g \in GroupRows : -faults <= Drift(g) /\ (faults = 0 => Drift(g) = 0)

\* addUser tests the copy with ==, not >=.  It never steps over the limit, and
\* the real membership exceeds it by no more than the number of faults.
GroupCapacity ==
    \A g \in GroupRows :
        /\ IntendedNumber(g) <= GroupLimit
        /\ Cardinality(Members(g)) <= GroupLimit + faults

\* Without kills and lost writes the FOREIGN KEYs of Users_In_Groups and Lists
\* on PublicGroups(code) hold between calls although SQLite does not enforce
\* them, and the admin column names a member who is admin.
ReferentialIntegrity ==
    faults = 0 /\ call = NoCall =>
        \A g \in Codes :
            /\ Members(g) # {} \/ g \in Lists => g \in GroupRows
            /\ g \in GroupRows => Users_In_Groups[g][PublicGroups[g].admin] = "admin"

\* An admin stays admin until the whole membership of the group is deleted.
AdminUntouchable ==
    [][\A g \in Codes, u \in Usernames :
          Users_In_Groups[g][u] = "admin" =>
              \/ Users_In_Groups'[g][u] = "admin"
              \/ \A v \in Usernames : Users_In_Groups'[g][v] = NoRow]_vars

\* "only admin can remove group" (PublicGroup.cpp:63), and "admin and fc can"
\* add a user (PublicGroup.cpp:113, under "Checking Permission").
OnlyAuthorizedChange ==
    [][\A g \in Codes :
          /\ g \in GroupRows /\ PublicGroups'[g] = NoRow =>
                MayAct(g, call'.effector, Admin)
          /\ \A u \in Usernames :
                /\ call'.op = "setNumber"
                /\ Users_In_Groups[g][u] = NoRow
                /\ Users_In_Groups'[g][u] # NoRow
                => MayAct(g, call'.effector, FullControl)]_vars
=============================================================================
