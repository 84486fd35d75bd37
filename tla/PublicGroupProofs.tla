-------------------------- MODULE PublicGroupProofs --------------------------
(***************************************************************************)
(* The safety properties of PublicGroup, for every number of users, codes  *)
(* and faults, and for every limit: the type invariant and what guards     *)
(* membership; the counter number_of_users and the foreign keys; and,      *)
(* built on both, the refinement: up to the first fault PublicGroup        *)
(* implements Groups.                                                      *)
(***************************************************************************)
EXTENDS PublicGroupRefinement, FiniteSetTheorems, WellFoundedInduction, TLAPS

\* The facts about the constants that every proof below uses.
LEMMA ConstantFacts ==
    /\ MaxCode \in Nat /\ MaxCode >= 1
    /\ GroupLimit \in Nat /\ GroupLimit >= 1
    /\ MaxFaults \in Nat
    /\ IsFiniteSet(Usernames)
    /\ NoRow \notin Usernames /\ NoRow \notin Status /\ NoRow \notin GroupRow
  BY GroupAssumption, GroupRowAssumption, NoRowAssumption

-----------------------------------------------------------------------------
(***************************************************************************)
(* Types                                                                   *)
(***************************************************************************)

\* A set of numbers from 1 to n that is not empty has a greatest element.
LEMMA GreatestBounded ==
    ASSUME NEW n \in Nat, NEW T \in SUBSET (1 .. n), T # {}
    PROVE  \E x \in T : \A y \in T : y <= x
<1> DEFINE D == {n - x : x \in T}
<1>1. D \in SUBSET Nat /\ D # {}
  <2>1. \A x \in T : n - x \in Nat
    OBVIOUS
  <2>2. PICK x : x \in T
    OBVIOUS
  <2>3. n - x \in D
    BY <2>2
  <2>4. QED
    BY <2>1, <2>3
<1>2. PICK d \in D : \A e \in D : d <= e
  <2> DEFINE R == OpToRel(<, Nat)
  <2>1. IsWellFoundedOn(R, Nat)
    BY NatLessThanWellFounded
  <2>2. \A x, y \in Nat : y < x => <<y, x>> \in R
    BY DEF OpToRel
  <2> HIDE DEF D, R
  <2>3. PICK d \in D : \A e \in D : ~ (<<e, d>> \in R)
    BY <1>1, <2>1, WFMin
  <2>4. \A e \in D : ~ (e < d)
    BY <1>1, <2>2, <2>3
  <2> QED
    BY <1>1, <2>4
<1>3. PICK x \in T : d = n - x
  OBVIOUS
<1>4. \A y \in T : y <= x
  <2> TAKE y \in T
  <2>1. n - x <= n - y
    BY <1>2, <1>3
  <2>2. x \in Int /\ y \in Int
    OBVIOUS
  <2>3. QED
    BY <2>1, <2>2
<1>5. QED
  <2> HIDE DEF D
  <2> QED
    BY <1>4

\* LastCode, ORDER BY code DESC LIMIT 1, is a row if there is one.
LEMMA LastCodeIsRow ==
    ASSUME GroupRows # {}
    PROVE  LastCode \in GroupRows /\ \A h \in GroupRows : h <= LastCode
<1>1. GroupRows \in SUBSET (1 .. MaxCode) /\ MaxCode \in Nat
  BY ConstantFacts DEF GroupRows, Codes
<1>2. \E g \in GroupRows : \A h \in GroupRows : h <= g
  BY <1>1, GreatestBounded
<1>3. QED
  BY <1>2 DEF LastCode

\* The types of the tables are kept by each of the statements.
LEMMA MemberStatementTypes ==
    ASSUME TypeOK, NEW g \in Codes, NEW u \in Usernames, NEW s \in Status \cup {NoRow}
    PROVE  /\ InsertMember(g, u, s) \in [Codes -> [Usernames -> Status \cup {NoRow}]]
           /\ WithStatus(g, u, s) \in [Codes -> [Usernames -> Status \cup {NoRow}]]
  BY DEF InsertMember, WithStatus, TypeOK

LEMMA NumberStatementTypes ==
    ASSUME TypeOK, NEW g \in Codes, NEW n \in Int
    PROVE  SetNumber(g, n) \in [Codes -> GroupRow \cup {NoRow}]
<1>1. PublicGroups \in [Codes -> GroupRow \cup {NoRow}]
  BY DEF TypeOK
<1>2. CASE PublicGroups[g] = NoRow
  BY <1>1, <1>2 DEF SetNumber
<1>3. CASE PublicGroups[g] # NoRow
  <2>1. PublicGroups[g] \in GroupRow
    BY <1>1, <1>3
  <2>2. [PublicGroups[g] EXCEPT !.number_of_users = n] \in GroupRow
    BY <2>1 DEF GroupRow
  <2>3. QED
    BY <1>1, <1>3, <2>2 DEF SetNumber
<1>4. QED
  BY <1>2, <1>3

\* The number of users of a group that has a row is an integer.
LEMMA NumberType ==
    ASSUME TypeOK, NEW g \in GroupRows
    PROVE  getNumberOfUsersInGroup(g) \in Int
  BY DEF TypeOK, GroupRows, getNumberOfUsersInGroup, GroupRow

\* A call that is over has the type of a call.
LEMMA NoCallType == NoCall \in Calls
  BY ConstantFacts DEF NoCall, Calls, Pending

\* What a step that can be lost or not does to faults.
LEMMA FaultTypes ==
    ASSUME TypeOK, QueryLost \/ UNCHANGED faults
    PROVE  faults' \in 0 .. MaxFaults
  BY ConstantFacts DEF TypeOK, QueryLost

\* A call that ends without a write keeps the types.
LEMMA EndTypes ==
    ASSUME TypeOK,
           \/ Dies
           \/ \E e \in Replies, d \in BOOLEAN : Throw(e) /\ Unlock(d)
    PROVE  TypeOK'
  BY NoCallType DEF TypeOK, Dies, Restart, Throw, Unlock, Replies, tables

\* Every step keeps the types.
LEMMA TypeStep == TypeOK /\ [Next]_vars => TypeOK'
<1> SUFFICES ASSUME TypeOK, [Next]_vars PROVE TypeOK'
  OBVIOUS
<1> USE ConstantFacts
<1>1. ASSUME NEW e \in Usernames, createGroup(e) PROVE TypeOK'
  <2>1. NextCode \in Codes /\ NextCode = seq + 1 /\ seq \in 0 .. MaxCode
    BY <1>1 DEF createGroup, NextCode, TypeOK
  <2>2. NewGroupRow(e) \in GroupRow
    BY DEF NewGroupRow, GroupRow
  <2>3. PublicGroups' \in [Codes -> GroupRow \cup {NoRow}] /\ seq' \in 0 .. MaxCode
    <3>1. PublicGroups \in [Codes -> GroupRow \cup {NoRow}]
      BY DEF TypeOK
    <3>2. \/ /\ PublicGroups' = [PublicGroups EXCEPT ![NextCode] = NewGroupRow(e)]
             /\ seq' = IF NextCode > seq THEN NextCode ELSE seq
          \/ UNCHANGED <<PublicGroups, seq>>
      BY <1>1 DEF createGroup
    <3>3. PublicGroups' \in [Codes -> GroupRow \cup {NoRow}]
      BY <2>1, <2>2, <3>1, <3>2
    <3>4. QED
      BY <2>1, <3>2, <3>3 DEF Codes
  <2>4. call' \in Calls
    <3>1. \/ call' = Pending("insertAdmin", e, NextCode, 0, FALSE)
          \/ call' = Pending("insertAdmin", e, 0, 0, FALSE)
      BY <1>1 DEF createGroup
    <3>2. NextCode \in 0 .. MaxCode /\ 0 \in 0 .. MaxCode
      BY <2>1 DEF Codes
    <3>3. \A c \in 0 .. MaxCode : Pending("insertAdmin", e, c, 0, FALSE) \in Calls
      BY DEF Pending, Calls
    <3>4. QED
      BY <3>1, <3>2, <3>3
  <2>5. faults' \in 0 .. MaxFaults
    BY <1>1, FaultTypes DEF createGroup
  <2>6. QED
    BY <1>1, <2>3, <2>4, <2>5 DEF createGroup, TypeOK
<1>2. CASE createGroup_insertAdmin
  <2>1. CASE Throw("FailedCreateGroupException")
    BY <1>2, <2>1, EndTypes DEF createGroup_insertAdmin, Unlock, Replies
  <2>2. CASE GroupRows # {} /\ ~Throw("FailedCreateGroupException")
    <3>1. LastCode \in Codes
      BY <2>2, LastCodeIsRow DEF GroupRows
    <3>2. call.effector \in Usernames \cup {NoRow}
      BY DEF TypeOK, Calls
    <3>3. Users_In_Groups' \in [Codes -> [Usernames -> Status \cup {NoRow}]]
      BY <1>2, <2>2, <3>1, <3>2 DEF createGroup_insertAdmin, InsertMember, WithStatus, TypeOK, Status
    <3>4. faults' \in 0 .. MaxFaults
      BY <1>2, <2>2, FaultTypes DEF createGroup_insertAdmin
    <3>5. QED
      BY <1>2, <2>2, <3>3, <3>4, NoCallType
      DEF createGroup_insertAdmin, Return, TypeOK, Replies
  <2>3. QED
    BY <1>2, <2>1, <2>2 DEF createGroup_insertAdmin
<1>3. ASSUME NEW e \in Usernames, NEW g \in Codes, removeGroup(e, g) PROVE TypeOK'
  <2>1. CASE Throw("NoSuchUserInTheGroupException") /\ Unlock(FALSE)
    BY <2>1, EndTypes DEF Replies
  <2>2. CASE Dies
    BY <2>2, EndTypes
  <2>3. CASE /\ ~Dies /\ ~(Throw("NoSuchUserInTheGroupException") /\ Unlock(FALSE))
    <3>1. PublicGroups' \in [Codes -> GroupRow \cup {NoRow}]
      BY <1>3, <2>3 DEF removeGroup, TypeOK
    <3>2. faults' \in 0 .. MaxFaults
      BY <1>3, <2>3, FaultTypes DEF removeGroup
    <3>3. call' \in Calls
      <4>1. call' = Pending("deleteMembers", e, g, 0, ~MayAct(g, e, Admin))
        BY <1>3, <2>3 DEF removeGroup
      <4>2. QED
        BY <4>1 DEF Codes, Pending, Calls
    <3>4. QED
      BY <1>3, <2>3, <3>1, <3>2, <3>3 DEF removeGroup, TypeOK
  <2>4. QED
    BY <2>1, <2>2, <2>3
<1>4. CASE removeGroup_deleteMembers
  <2>1. call.op = "deleteMembers" /\ call \in Calls
    BY <1>4 DEF removeGroup_deleteMembers, TypeOK
  <2>2. Users_In_Groups' \in [Codes -> [Usernames -> Status \cup {NoRow}]]
    BY <1>4, <2>1 DEF removeGroup_deleteMembers, DeleteMembers, TypeOK
  <2>3. call' \in Calls
    BY <1>4, <2>1 DEF removeGroup_deleteMembers, Pending, Calls
  <2>4. QED
    BY <1>4, <2>2, <2>3, FaultTypes DEF removeGroup_deleteMembers, TypeOK
<1>5. CASE removeGroup_deleteLists
  <2>1. call.doubleUnlock \in BOOLEAN
    BY DEF TypeOK, Calls
  <2>2. QED
    BY <1>5, <2>1, FaultTypes, NoCallType
    DEF removeGroup_deleteLists, Unlock, Return, TypeOK, Replies
<1>6. ASSUME NEW e \in Usernames, NEW u \in Usernames, NEW g \in Codes, NEW s \in Status,
             addUser(e, g, u, s)
      PROVE  TypeOK'
  <2>1. CASE \/ Dies
             \/ \E x \in Replies, d \in BOOLEAN : Throw(x) /\ Unlock(d)
    BY <2>1, EndTypes
  <2>2. CASE ~ \/ Dies
               \/ \E x \in Replies, d \in BOOLEAN : Throw(x) /\ Unlock(d)
    <3>1. /\ g \in GroupRows
          /\ \/ Users_In_Groups' = InsertMember(g, u, s) /\ UNCHANGED faults
             \/ QueryLost /\ UNCHANGED Users_In_Groups
          /\ call' = Pending("setNumber", e, g, getNumberOfUsersInGroup(g) + 1,
                             ~MayAct(g, e, FullControl))
          /\ mtx' = "held"
          /\ UNCHANGED <<PublicGroups, Lists, seq, reply>>
      BY <1>6, <2>2 DEF addUser, Replies
    <3>2. Users_In_Groups' \in [Codes -> [Usernames -> Status \cup {NoRow}]]
      BY <3>1, MemberStatementTypes DEF TypeOK
    <3>3. call' \in Calls
      <4>1. getNumberOfUsersInGroup(g) + 1 \in Int
        BY <3>1, NumberType
      <4>2. QED
        BY <3>1, <4>1 DEF Codes, Pending, Calls
    <3>4. QED
      BY <3>1, <3>2, <3>3, FaultTypes DEF TypeOK
  <2>3. QED
    BY <2>1, <2>2
<1>7. ASSUME NEW e \in Usernames, NEW u \in Usernames, NEW g \in Codes, removeUser(e, g, u)
      PROVE  TypeOK'
  <2>1. CASE EffectorAndTargetRefused(e, g, u) \/ Dies
    BY <2>1, EndTypes DEF EffectorAndTargetRefused, Replies
  <2>2. CASE ~(EffectorAndTargetRefused(e, g, u) \/ Dies)
    <3>1. /\ g \in GroupRows
          /\ \/ Users_In_Groups' = WithStatus(g, u, NoRow) /\ UNCHANGED faults
             \/ QueryLost /\ UNCHANGED Users_In_Groups
          /\ call' = Pending("setNumber", e, g, NumberAfterRemoval(g), FALSE)
          /\ mtx' = "held"
          /\ UNCHANGED <<PublicGroups, Lists, seq, reply>>
      BY <1>7, <2>2 DEF removeUser
    <3>2. Users_In_Groups' \in [Codes -> [Usernames -> Status \cup {NoRow}]]
      BY <3>1, MemberStatementTypes DEF TypeOK
    <3>3. call' \in Calls
      <4>1. NumberAfterRemoval(g) \in Int
        BY <3>1, NumberType DEF NumberAfterRemoval
      <4>2. QED
        BY <3>1, <4>1 DEF Codes, Pending, Calls
    <3>4. QED
      BY <3>1, <3>2, <3>3, FaultTypes DEF TypeOK
  <2>3. QED
    BY <2>1, <2>2
<1>8. CASE setNumberOfUsers
  <2>1. call.doubleUnlock \in BOOLEAN /\ call.number_of_users \in Int /\ call.code \in 0 .. MaxCode
    BY DEF TypeOK, Calls
  <2>2. PublicGroups' \in [Codes -> GroupRow \cup {NoRow}]
    <3>1. CASE call.code \in Codes
      BY <1>8, <2>1, <3>1, NumberStatementTypes DEF setNumberOfUsers, TypeOK
    <3>2. CASE call.code \notin Codes
      BY <1>8, <3>2 DEF setNumberOfUsers, SetNumber, TypeOK
    <3>3. QED
      BY <3>1, <3>2
  <2>3. QED
    BY <1>8, <2>1, <2>2, FaultTypes, NoCallType
    DEF setNumberOfUsers, Unlock, Return, TypeOK, Replies
<1>9. ASSUME NEW e \in Usernames, NEW u \in Usernames, NEW g \in Codes, NEW s \in Status,
             setUserStatus(e, g, u, s)
      PROVE  TypeOK'
  <2>1. CASE EffectorAndTargetRefused(e, g, u)
    BY <2>1, EndTypes DEF EffectorAndTargetRefused, Replies
  <2>2. CASE ~EffectorAndTargetRefused(e, g, u)
    <3>1. Users_In_Groups' \in [Codes -> [Usernames -> Status \cup {NoRow}]]
      <4>1. \/ Users_In_Groups' = WithStatus(g, u, s)
            \/ UNCHANGED Users_In_Groups
        BY <1>9, <2>2 DEF setUserStatus
      <4>2. QED
        BY <4>1, MemberStatementTypes DEF TypeOK
    <3>2. QED
      BY <1>9, <2>2, <3>1, FaultTypes, NoCallType
      DEF setUserStatus, Unlock, Return, TypeOK, Replies
  <2>3. QED
    BY <2>1, <2>2
<1>10. ASSUME NEW e \in Usernames, NEW g \in Codes, EditList(e, g) PROVE TypeOK'
  BY <1>10 DEF EditList, TypeOK
<1>11. CASE Kill
  BY <1>11, NoCallType, FaultTypes DEF Kill, Restart, TypeOK, tables, Replies
<1>12. CASE UNCHANGED vars
  BY <1>12 DEF vars, TypeOK
<1>13. QED
  BY <1>1, <1>2, <1>3, <1>4, <1>5, <1>6, <1>7, <1>8, <1>9, <1>10, <1>11, <1>12
  DEF Next, Begin, Step

\* All variables keep their types: whatever is lost or killed, a row has the
\* columns of its table and call describes a statement that the code has.
THEOREM TypeCorrect == Spec => []TypeOK
<1>1. Init => TypeOK
  BY ConstantFacts, NoCallType DEF Init, TypeOK, Replies
<1>2. QED
  BY <1>1, TypeStep, PTL DEF Spec
-----------------------------------------------------------------------------
(***************************************************************************)
(* Admins                                                                  *)
(***************************************************************************)

\* "admin" is the only status with the level of an admin.
LEMMA AdminLevel ==
    ASSUME NEW s \in Status \cup {NoRow}
    PROVE  getPermission(s) = Admin <=> s = "admin"
  BY ConstantFacts
  DEF getPermission, Status, Admin, FullControl, ReadWrite, Read, Non

\* The three ways in which a step changes the membership: not at all, all of a
\* group at once, or one row that is not an admin's, in a group that has members
\* unless the row becomes an admin's.
OneRowChanges ==
    \E g \in Codes, u \in Usernames, s \in Status \cup {NoRow} :
        /\ Users_In_Groups' = WithStatus(g, u, s)
        /\ Users_In_Groups[g][u] # "admin"
        /\ s = "admin" \/ Members(g) # {}

MembershipChange ==
    \/ UNCHANGED Users_In_Groups
    \/ Users_In_Groups' = DeleteMembers(call.code)
    \/ OneRowChanges

\* Every step changes the membership in one of these ways.
LEMMA MembershipSteps == TypeOK /\ [Next]_vars => MembershipChange
<1> SUFFICES ASSUME TypeOK, [Next]_vars, Users_In_Groups' # Users_In_Groups
             PROVE  Users_In_Groups' = DeleteMembers(call.code) \/ OneRowChanges
  BY DEF MembershipChange
<1> USE ConstantFacts
<1>1. ASSUME NEW e \in Usernames, createGroup(e) PROVE FALSE
  BY <1>1 DEF createGroup
<1>2. CASE createGroup_insertAdmin
  <2>1. /\ GroupRows # {} /\ Users_In_Groups' = InsertMember(LastCode, call.effector, "admin")
    BY <1>2 DEF createGroup_insertAdmin, Throw, tables
  <2>2. LastCode \in Codes
    BY <2>1, LastCodeIsRow DEF GroupRows
  <2>3. /\ ~isUserExistsInGroup(LastCode, call.effector)
        /\ Users_In_Groups' = WithStatus(LastCode, call.effector, "admin")
    BY <2>1 DEF InsertMember
  <2>4. call.effector \in Usernames
    BY <2>3, <2>2 DEF TypeOK, WithStatus
  <2>5. Users_In_Groups[LastCode][call.effector] # "admin"
    BY <2>3, <2>4 DEF isUserExistsInGroup, Members, Status
  <2>6. QED
    BY <2>2, <2>3, <2>4, <2>5 DEF OneRowChanges, Status
<1>3. ASSUME NEW e \in Usernames, NEW g \in Codes, removeGroup(e, g) PROVE FALSE
  BY <1>3 DEF removeGroup, Throw, Dies, tables
<1>4. CASE removeGroup_deleteMembers
  BY <1>4 DEF removeGroup_deleteMembers
<1>5. CASE removeGroup_deleteLists
  BY <1>5 DEF removeGroup_deleteLists
<1>6. ASSUME NEW e \in Usernames, NEW u \in Usernames, NEW g \in Codes, NEW s \in Status,
             addUser(e, g, u, s)
      PROVE  OneRowChanges
  <2>1. /\ isUserExistsInGroup(g, e) /\ ~isUserExistsInGroup(g, u)
        /\ Users_In_Groups' = InsertMember(g, u, s)
    BY <1>6 DEF addUser, Throw, Dies, tables
  <2>2. Users_In_Groups' = WithStatus(g, u, s)
    BY <2>1 DEF InsertMember
  <2>3. Users_In_Groups[g][u] # "admin" /\ Members(g) # {}
    BY <2>1 DEF isUserExistsInGroup, Members, Status
  <2>4. QED
    BY <2>2, <2>3 DEF OneRowChanges
<1>7. ASSUME NEW e \in Usernames, NEW u \in Usernames, NEW g \in Codes,
             NEW s \in Status \cup {NoRow},
             EffectorAndTargetAccepted(e, g, u), Users_In_Groups' = WithStatus(g, u, s)
      PROVE  OneRowChanges
  <2>1. Users_In_Groups[g][u] \in Status \cup {NoRow}
    BY DEF TypeOK
  <2>2. Users_In_Groups[g][u] # "admin" /\ Members(g) # {}
    BY <1>7, <2>1, AdminLevel
    DEF EffectorAndTargetAccepted, TargetIsAdmin, isUserExistsInGroup
  <2>3. QED
    BY <1>7, <2>2 DEF OneRowChanges
<1>8. ASSUME NEW e \in Usernames, NEW u \in Usernames, NEW g \in Codes, removeUser(e, g, u)
      PROVE  OneRowChanges
  <2>1. EffectorAndTargetAccepted(e, g, u) /\ Users_In_Groups' = WithStatus(g, u, NoRow)
    BY <1>8 DEF removeUser, EffectorAndTargetRefused, Throw, Dies, tables
  <2>2. QED
    BY <2>1, <1>7
<1>9. CASE setNumberOfUsers
  BY <1>9 DEF setNumberOfUsers
<1>10. ASSUME NEW e \in Usernames, NEW u \in Usernames, NEW g \in Codes, NEW s \in Status,
              setUserStatus(e, g, u, s)
       PROVE  OneRowChanges
  <2>1. EffectorAndTargetAccepted(e, g, u) /\ Users_In_Groups' = WithStatus(g, u, s)
    BY <1>10 DEF setUserStatus, EffectorAndTargetRefused, Throw, tables
  <2>2. QED
    BY <2>1, <1>7
<1>11. ASSUME NEW e \in Usernames, NEW g \in Codes, EditList(e, g) PROVE FALSE
  BY <1>11 DEF EditList
<1>12. CASE Kill
  BY <1>12 DEF Kill, tables
<1>13. CASE UNCHANGED vars
  BY <1>13 DEF vars
<1>14. QED
  BY <1>1, <1>2, <1>3, <1>4, <1>5, <1>6, <1>8, <1>9, <1>10, <1>11, <1>12, <1>13
  DEF Next, Begin, Step

\* A change of the membership leaves every group that has members an admin.
LEMMA AdminStep == TypeOK /\ NeverAdminless /\ MembershipChange => NeverAdminless'
<1> SUFFICES ASSUME TypeOK, NeverAdminless, MembershipChange, NEW h \in Codes, Members(h)' # {}
             PROVE  \E v \in Usernames : Users_In_Groups'[h][v] = "admin"
  BY DEF NeverAdminless
<1> USE ConstantFacts
<1>1. CASE UNCHANGED Users_In_Groups
  BY <1>1 DEF NeverAdminless, Members
<1>2. CASE Users_In_Groups' = DeleteMembers(call.code)
  <2>1. h # call.code
    BY <1>2 DEF DeleteMembers, Members, TypeOK
  <2>2. Users_In_Groups'[h] = Users_In_Groups[h]
    BY <1>2, <2>1 DEF DeleteMembers, TypeOK
  <2>3. QED
    BY <2>2 DEF NeverAdminless, Members
<1>3. CASE OneRowChanges
  <2>1. PICK g \in Codes, u \in Usernames, s \in Status \cup {NoRow} :
           /\ Users_In_Groups' = WithStatus(g, u, s)
           /\ Users_In_Groups[g][u] # "admin"
           /\ s = "admin" \/ Members(g) # {}
    BY <1>3 DEF OneRowChanges
  <2>2. \A k \in Codes, v \in Usernames :
           Users_In_Groups'[k][v] = IF k = g /\ v = u THEN s ELSE Users_In_Groups[k][v]
    BY <2>1 DEF WithStatus, TypeOK
  <2>3. CASE h # g
    BY <2>2, <2>3 DEF NeverAdminless, Members
  <2>4. CASE h = g /\ s = "admin"
    BY <2>2, <2>4
  <2>5. CASE h = g /\ Members(g) # {}
    BY <2>1, <2>2, <2>5 DEF NeverAdminless
  <2>6. QED
    BY <2>1, <2>3, <2>4, <2>5
<1>4. QED
  BY <1>1, <1>2, <1>3 DEF MembershipChange

\* Whatever is killed or lost, a group that has members has an admin.
THEOREM NeverAdminlessHolds == Spec => []NeverAdminless
<1>1. Init => TypeOK /\ NeverAdminless
  BY ConstantFacts, NoCallType DEF Init, TypeOK, Replies, NeverAdminless, Members
<1>2. TypeOK /\ NeverAdminless /\ [Next]_vars => (TypeOK /\ NeverAdminless)'
  BY TypeStep, MembershipSteps, AdminStep
<1>3. QED
  BY <1>1, <1>2, PTL DEF Spec

\* An admin stays admin until the whole membership of the group is deleted.
THEOREM AdminUntouchableHolds == Spec => AdminUntouchable
<1>1. TypeOK /\ [Next]_vars =>
        [\A g \in Codes, u \in Usernames :
            Users_In_Groups[g][u] = "admin" =>
                \/ Users_In_Groups'[g][u] = "admin"
                \/ \A v \in Usernames : Users_In_Groups'[g][v] = NoRow]_vars
  <2> SUFFICES ASSUME TypeOK, [Next]_vars, NEW h \in Codes, NEW w \in Usernames,
                      Users_In_Groups[h][w] = "admin"
               PROVE  \/ Users_In_Groups'[h][w] = "admin"
                      \/ \A v \in Usernames : Users_In_Groups'[h][v] = NoRow
    OBVIOUS
  <2>1. CASE UNCHANGED Users_In_Groups
    BY <2>1
  <2>2. CASE Users_In_Groups' = DeleteMembers(call.code)
    BY <2>2 DEF DeleteMembers, TypeOK
  <2>3. CASE OneRowChanges
    BY <2>3 DEF OneRowChanges, WithStatus, TypeOK
  <2>4. QED
    BY <2>1, <2>2, <2>3, MembershipSteps DEF MembershipChange
<1>2. QED
  BY <1>1, TypeCorrect, PTL DEF Spec, AdminUntouchable
-----------------------------------------------------------------------------
(***************************************************************************)
(* Codes                                                                   *)
(***************************************************************************)

\* No row carries a code that AUTOINCREMENT has not given out, and while
\* createGroup is under way, the last code given out is the one of its row.
CodesInv ==
    /\ \A g \in Codes : g > seq => g \notin GroupRows /\ Members(g) = {} /\ g \notin Lists
    /\ call.op = "insertAdmin" /\ call.code # 0 => call.code = seq /\ call.code \in GroupRows
    /\ FreshCode

\* A call that ends without a write changes nothing that CodesInv is about.
LEMMA CodesEnd ==
    ASSUME TypeOK, CodesInv, UNCHANGED tables, call' = NoCall
    PROVE  CodesInv'
  BY DEF CodesInv, FreshCode, tables, GroupRows, Members, NoCall, Pending

\* So does a step that adds no row for a group without any.
LEMMA CodesKept ==
    ASSUME TypeOK, CodesInv, seq' = seq, call'.op # "insertAdmin",
           \A g \in Codes : g > seq =>
               /\ PublicGroups'[g] = PublicGroups[g]
               /\ \A u \in Usernames : Users_In_Groups'[g][u] = Users_In_Groups[g][u]
               /\ g \in Lists' => g \in Lists
    PROVE  CodesInv'
  BY DEF CodesInv, FreshCode, GroupRows, Members

\* Every step keeps it.
LEMMA CodesStep == TypeOK /\ CodesInv /\ [Next]_vars => CodesInv'
<1> SUFFICES ASSUME TypeOK, CodesInv, [Next]_vars PROVE CodesInv'
  OBVIOUS
<1> USE ConstantFacts
<1>t. /\ seq \in 0 .. MaxCode
      /\ PublicGroups \in [Codes -> GroupRow \cup {NoRow}]
      /\ Users_In_Groups \in [Codes -> [Usernames -> Status \cup {NoRow}]]
  BY DEF TypeOK
<1>m. \A g \in Codes, u \in Usernames : isUserExistsInGroup(g, u) => ~(g > seq)
  BY DEF CodesInv, isUserExistsInGroup
<1>r. \A g \in GroupRows : g \in Codes /\ ~(g > seq)
  BY DEF CodesInv, GroupRows
<1>1. ASSUME NEW e \in Usernames, createGroup(e) PROVE CodesInv'
  <2>1. CASE /\ NextCode \in Codes
             /\ PublicGroups' = [PublicGroups EXCEPT ![NextCode] = NewGroupRow(e)]
             /\ seq' = IF NextCode > seq THEN NextCode ELSE seq
             /\ call' = Pending("insertAdmin", e, NextCode, 0, FALSE)
             /\ UNCHANGED <<Users_In_Groups, Lists>>
    <3>1. NextCode = seq + 1 /\ seq' = seq + 1 /\ NextCode \in Codes /\ NextCode > seq
      BY <1>t, <2>1 DEF NextCode
    <3>2. NewGroupRow(e) # NoRow
      BY DEF NewGroupRow, GroupRow
    <3>3. call'.op = "insertAdmin" /\ call'.code = NextCode
      BY <2>1 DEF Pending
    <3>4. PublicGroups'[NextCode] # NoRow
      BY <1>t, <2>1, <3>1, <3>2
    <3>5. \A g \in Codes : g # NextCode => PublicGroups'[g] = PublicGroups[g]
      BY <1>t, <2>1
    <3>6. \A g \in Codes : g > seq' => g > seq /\ g # NextCode
      BY <1>t, <3>1 DEF Codes
    <3>7. {u \in Usernames : Users_In_Groups'[NextCode][u] # NoRow} = {} /\ NextCode \notin Lists'
      BY <2>1, <3>1 DEF CodesInv, Members
    <3>8. ASSUME NEW g \in Codes, g > seq'
          PROVE  /\ PublicGroups'[g] = NoRow
                 /\ {u \in Usernames : Users_In_Groups'[g][u] # NoRow} = {}
                 /\ g \notin Lists'
      BY <2>1, <3>5, <3>6, <3>8 DEF CodesInv, GroupRows, Members
    <3>9. QED
      <4>1. \A g \in Codes : g > seq' =>
               (g \notin GroupRows /\ Members(g) = {} /\ g \notin Lists)'
        BY <3>8 DEF GroupRows, Members
      <4>2. call'.code = seq' /\ call'.code \in GroupRows'
        BY <3>1, <3>3, <3>4 DEF GroupRows
      <4>3. FreshCode'
        BY <3>3, <3>7 DEF FreshCode, Members
      <4>4. QED
        BY <4>1, <4>2, <4>3 DEF CodesInv
  <2>2. CASE /\ call' = Pending("insertAdmin", e, 0, 0, FALSE)
             /\ UNCHANGED tables
    BY <2>2 DEF CodesInv, FreshCode, GroupRows, Members, tables, Pending
  <2>3. QED
    BY <1>1, <2>1, <2>2 DEF createGroup, tables
<1>2. CASE createGroup_insertAdmin
  <2>1. CASE UNCHANGED Users_In_Groups
    BY <1>2, <2>1, CodesEnd DEF createGroup_insertAdmin, Throw, Return, tables
  <2>2. CASE /\ GroupRows # {} /\ UNCHANGED <<PublicGroups, Lists, seq>> /\ call' = NoCall
             /\ Users_In_Groups' = WithStatus(LastCode, call.effector, "admin")
    <3>1. LastCode \in Codes /\ ~(LastCode > seq)
      BY <2>2, <1>r, LastCodeIsRow
    <3>2. \A g \in Codes : g > seq => Users_In_Groups'[g] = Users_In_Groups[g]
      BY <1>t, <2>2, <3>1 DEF WithStatus
    <3>3. call'.op # "insertAdmin"
      BY <2>2 DEF NoCall, Pending
    <3>4. QED
      BY <2>2, <3>2, <3>3, CodesKept
  <2>3. QED
    BY <1>2, <2>1, <2>2 DEF createGroup_insertAdmin, Throw, Return, tables, InsertMember
<1>3. ASSUME NEW e \in Usernames, NEW g \in Codes, removeGroup(e, g) PROVE CodesInv'
  <2>1. CASE UNCHANGED tables /\ call' = NoCall
    BY <2>1, CodesEnd
  <2>2. CASE /\ isUserExistsInGroup(g, e)
             /\ PublicGroups' = [PublicGroups EXCEPT ![g] = NoRow] \/ UNCHANGED PublicGroups
             /\ call' = Pending("deleteMembers", e, g, 0, ~MayAct(g, e, Admin))
             /\ UNCHANGED <<Users_In_Groups, Lists, seq>>
    <3>1. \A h \in Codes : h > seq => PublicGroups'[h] = PublicGroups[h]
      BY <1>t, <1>m, <2>2
    <3>2. call'.op # "insertAdmin"
      BY <2>2 DEF Pending
    <3>3. QED
      BY <2>2, <3>1, <3>2, CodesKept
  <2>3. QED
    BY <1>3, <2>1, <2>2 DEF removeGroup, Throw, Dies, Restart, tables
<1>4. CASE removeGroup_deleteMembers
  <2>1. call'.op # "insertAdmin"
    BY <1>4 DEF removeGroup_deleteMembers, Pending
  <2>2. \A g \in Codes : g > seq =>
           \A u \in Usernames : Users_In_Groups'[g][u] = Users_In_Groups[g][u]
    <3>1. \A g \in Codes : g > seq => \A u \in Usernames : Users_In_Groups[g][u] = NoRow
      BY DEF CodesInv, Members
    <3>2. QED
      BY <1>4, <1>t, <3>1 DEF removeGroup_deleteMembers, DeleteMembers
  <2>3. QED
    BY <1>4, <2>1, <2>2, CodesKept DEF removeGroup_deleteMembers
<1>5. CASE removeGroup_deleteLists
  <2>1. call'.op # "insertAdmin"
    BY <1>5 DEF removeGroup_deleteLists, Return, NoCall, Pending
  <2>2. QED
    BY <1>5, <2>1, CodesKept DEF removeGroup_deleteLists
<1>6. ASSUME NEW g \in Codes, NEW u \in Usernames, NEW s \in Status \cup {NoRow},
             ~(g > seq), call'.op # "insertAdmin",
             Users_In_Groups' = WithStatus(g, u, s) \/ UNCHANGED Users_In_Groups,
             UNCHANGED <<PublicGroups, Lists, seq>>
      PROVE  CodesInv'
  <2>1. \A h \in Codes : h > seq => Users_In_Groups'[h] = Users_In_Groups[h]
    BY <1>t, <1>6 DEF WithStatus
  <2>2. QED
    BY <1>6, <2>1, CodesKept
<1>7. ASSUME NEW e \in Usernames, NEW u \in Usernames, NEW g \in Codes, NEW s \in Status,
             addUser(e, g, u, s)
      PROVE  CodesInv'
  <2>1. CASE UNCHANGED tables /\ call' = NoCall
    BY <2>1, CodesEnd
  <2>2. CASE /\ isUserExistsInGroup(g, e)
             /\ Users_In_Groups' = WithStatus(g, u, s) \/ UNCHANGED Users_In_Groups
             /\ call'.op = "setNumber"
             /\ UNCHANGED <<PublicGroups, Lists, seq>>
    BY <2>2, <1>m, <1>6
  <2>3. \/ UNCHANGED tables /\ call' = NoCall
        \/ /\ isUserExistsInGroup(g, e)
           /\ Users_In_Groups' = InsertMember(g, u, s) \/ UNCHANGED Users_In_Groups
           /\ call' = Pending("setNumber", e, g, getNumberOfUsersInGroup(g) + 1,
                              ~MayAct(g, e, FullControl))
           /\ UNCHANGED <<PublicGroups, Lists, seq>>
    BY <1>7 DEF addUser, Throw, Dies, Restart
  <2>4. Pending("setNumber", e, g, getNumberOfUsersInGroup(g) + 1,
                ~MayAct(g, e, FullControl)).op = "setNumber"
    BY DEF Pending
  <2>5. InsertMember(g, u, s) \in {WithStatus(g, u, s), Users_In_Groups}
    BY DEF InsertMember
  <2>6. QED
    BY <2>1, <2>2, <2>3, <2>4, <2>5
<1>8. ASSUME NEW e \in Usernames, NEW u \in Usernames, NEW g \in Codes, removeUser(e, g, u)
      PROVE  CodesInv'
  <2>1. CASE UNCHANGED tables /\ call' = NoCall
    BY <2>1, CodesEnd
  <2>2. CASE /\ isUserExistsInGroup(g, e)
             /\ Users_In_Groups' = WithStatus(g, u, NoRow) \/ UNCHANGED Users_In_Groups
             /\ call'.op = "setNumber"
             /\ UNCHANGED <<PublicGroups, Lists, seq>>
    BY <2>2, <1>m, <1>6
  <2>3. \/ UNCHANGED tables /\ call' = NoCall
        \/ /\ isUserExistsInGroup(g, e)
           /\ Users_In_Groups' = WithStatus(g, u, NoRow) \/ UNCHANGED Users_In_Groups
           /\ call' = Pending("setNumber", e, g, NumberAfterRemoval(g), FALSE)
           /\ UNCHANGED <<PublicGroups, Lists, seq>>
    BY <1>8
    DEF removeUser, EffectorAndTargetRefused, EffectorAndTargetAccepted, Throw, Dies, Restart
  <2>4. Pending("setNumber", e, g, NumberAfterRemoval(g), FALSE).op = "setNumber"
    BY DEF Pending
  <2>5. QED
    BY <2>1, <2>2, <2>3, <2>4
<1>9. CASE setNumberOfUsers
  <2>1. call'.op # "insertAdmin"
    BY <1>9 DEF setNumberOfUsers, Return, NoCall, Pending
  <2>2. \A g \in Codes : g > seq => PublicGroups'[g] = PublicGroups[g]
    <3>1. \A g \in Codes : g > seq => PublicGroups[g] = NoRow
      BY DEF CodesInv, GroupRows
    <3>2. QED
      BY <1>9, <1>t, <3>1 DEF setNumberOfUsers, SetNumber
  <2>3. QED
    BY <1>9, <2>1, <2>2, CodesKept DEF setNumberOfUsers
<1>10. ASSUME NEW e \in Usernames, NEW u \in Usernames, NEW g \in Codes, NEW s \in Status,
              setUserStatus(e, g, u, s)
       PROVE  CodesInv'
  <2>1. CASE UNCHANGED tables /\ call' = NoCall
    BY <2>1, CodesEnd
  <2>2. CASE /\ isUserExistsInGroup(g, e)
             /\ Users_In_Groups' = WithStatus(g, u, s) \/ UNCHANGED Users_In_Groups
             /\ call'.op = "none"
             /\ UNCHANGED <<PublicGroups, Lists, seq>>
    BY <2>2, <1>m, <1>6
  <2>3. \/ UNCHANGED tables /\ call' = NoCall
        \/ /\ isUserExistsInGroup(g, e)
           /\ Users_In_Groups' = WithStatus(g, u, s) \/ UNCHANGED Users_In_Groups
           /\ call' = NoCall
           /\ UNCHANGED <<PublicGroups, Lists, seq>>
    BY <1>10
    DEF setUserStatus, EffectorAndTargetRefused, EffectorAndTargetAccepted, Throw, Return
  <2>4. NoCall.op = "none"
    BY DEF NoCall, Pending
  <2>5. QED
    BY <2>1, <2>2, <2>3, <2>4
<1>11. ASSUME NEW e \in Usernames, NEW g \in Codes, EditList(e, g) PROVE CodesInv'
  <2>1. ~(g > seq) /\ call'.op # "insertAdmin"
    BY <1>11, <1>m DEF EditList, NoCall, Pending
  <2>2. QED
    BY <1>11, <2>1, CodesKept DEF EditList
<1>12. CASE Kill
  BY <1>12, CodesEnd DEF Kill, Restart
<1>13. CASE UNCHANGED vars
  BY <1>13 DEF vars, CodesInv, FreshCode, GroupRows, Members
<1>14. QED
  BY <1>1, <1>2, <1>3, <1>4, <1>5, <1>7, <1>8, <1>9, <1>10, <1>11, <1>12, <1>13
  DEF Next, Begin, Step

\* A new group never inherits the members or the list of an earlier one.
THEOREM FreshCodeHolds == Spec => []FreshCode
<1>1. Init => TypeOK /\ CodesInv
  BY ConstantFacts, NoCallType
  DEF Init, TypeOK, Replies, CodesInv, FreshCode, GroupRows, Members, NoCall, Pending
<1>2. TypeOK /\ CodesInv /\ [Next]_vars => (TypeOK /\ CodesInv)'
  BY TypeStep, CodesStep
<1>3. TypeOK /\ CodesInv => FreshCode
  BY DEF CodesInv
<1>4. QED
  BY <1>1, <1>2, <1>3, PTL DEF Spec
-----------------------------------------------------------------------------
(***************************************************************************)
(* The counter                                                             *)
(***************************************************************************)

\* createGroup has lost its INSERT and will put its admin into the last group.
Stray == IF call.op = "insertAdmin" /\ call.code = 0 THEN 1 ELSE 0

\* The counter of a group, before and after the UPDATE that is pending, is
\* within the limit, and a fault whose damage is still to come is not yet spent.
GroupCounted(g) ==
    /\ getNumberOfUsersInGroup(g) <= GroupLimit
    /\ IntendedNumber(g) <= GroupLimit
    /\ Stray - faults <= Drift(g)
    /\ faults = 0 => Drift(g) = 0

\* What a call that is under way has found or done: an UPDATE moves the counter
\* of an existing group by one, and without a fault a group whose members are
\* deleted has lost its row.
CallCounted ==
    /\ Stray <= faults
    /\ call.op = "insertAdmin" => call.effector \in Usernames
    /\ call.op = "setNumber" =>
          /\ call.code \in GroupRows
          /\ call.number_of_users \in {getNumberOfUsersInGroup(call.code) - 1,
                                       getNumberOfUsersInGroup(call.code) + 1}
    /\ call.op \in {"deleteMembers", "deleteLists"} =>
          call.code \in Codes /\ (faults = 0 => call.code \notin GroupRows)

CountInv == CallCounted /\ \A g \in GroupRows : GroupCounted(g)

\* The members of a group can be counted.
LEMMA MembersFinite ==
    ASSUME NEW g
    PROVE  /\ IsFiniteSet(Members(g)) /\ Cardinality(Members(g)) \in Nat
           /\ IsFiniteSet(Members(g)') /\ Cardinality(Members(g)') \in Nat
<1>1. Members(g) \in SUBSET Usernames /\ Members(g)' \in SUBSET Usernames
  BY DEF Members
<1>2. IsFiniteSet(Members(g)) /\ IsFiniteSet(Members(g)')
  BY <1>1, ConstantFacts, FS_Subset
<1>3. QED
  BY <1>2, FS_CardinalityType

\* What a changed row does to the members of each group.
LEMMA MembersAfter ==
    ASSUME TypeOK, NEW g \in Codes, NEW u \in Usernames, NEW s \in Status \cup {NoRow},
           Users_In_Groups' = WithStatus(g, u, s)
    PROVE  /\ \A h \in Codes : h # g => Members(h)' = Members(h)
           /\ s # NoRow => Members(g)' = Members(g) \cup {u}
           /\ s = NoRow => Members(g)' = Members(g) \ {u}
<1>1. \A h \in Codes, v \in Usernames :
         Users_In_Groups'[h][v] = IF h = g /\ v = u THEN s ELSE Users_In_Groups[h][v]
  BY DEF WithStatus, TypeOK
<1>2. QED
  BY <1>1 DEF Members

\* A new member adds one to the membership, a member who goes takes one.
LEMMA CountAfter ==
    ASSUME TypeOK, NEW g \in Codes, NEW u \in Usernames, NEW s \in Status \cup {NoRow},
           Users_In_Groups' = WithStatus(g, u, s)
    PROVE  /\ s # NoRow /\ u \notin Members(g) =>
                  Cardinality(Members(g)') = Cardinality(Members(g)) + 1
           /\ s # NoRow /\ u \in Members(g) => Members(g)' = Members(g)
           /\ s = NoRow /\ u \in Members(g) =>
                  Cardinality(Members(g)') = Cardinality(Members(g)) - 1
<1>1. IsFiniteSet(Members(g))
  BY MembersFinite
<1>2. CASE s # NoRow /\ u \notin Members(g)
  <2>1. Members(g)' = Members(g) \cup {u}
    BY <1>2, MembersAfter
  <2>2. Cardinality(Members(g) \cup {u}) = Cardinality(Members(g)) + 1
    BY <1>1, <1>2, FS_AddElement
  <2>3. QED
    BY <1>2, <2>1, <2>2
<1>3. CASE s # NoRow /\ u \in Members(g)
  BY <1>3, MembersAfter
<1>4. CASE s = NoRow /\ u \in Members(g)
  <2>1. Members(g)' = Members(g) \ {u}
    BY <1>4, MembersAfter
  <2>2. Cardinality(Members(g) \ {u}) = Cardinality(Members(g)) - 1
    BY <1>1, <1>4, FS_RemoveElement
  <2>3. QED
    BY <1>4, <2>1, <2>2
<1>5. QED
  BY <1>2, <1>3, <1>4

\* The counters of the groups that have a row are integers.
LEMMA CountTypes ==
    ASSUME TypeOK, NEW g \in GroupRows
    PROVE  /\ getNumberOfUsersInGroup(g) \in Int /\ IntendedNumber(g) \in Int
           /\ AdminPending(g) \in 0 .. 1 /\ Stray \in 0 .. 1
           /\ faults \in Nat /\ Drift(g) \in Int
<1>1. getNumberOfUsersInGroup(g) \in Int
  BY NumberType
<1>2. IntendedNumber(g) \in Int
  BY <1>1 DEF IntendedNumber, getNumberOfUsersInGroup, TypeOK, Calls
<1>3. AdminPending(g) \in 0 .. 1 /\ Stray \in 0 .. 1
  BY DEF AdminPending, Stray
<1>4. faults \in Nat
  BY DEF TypeOK
<1>5. Drift(g) \in Int
  BY <1>2, <1>3, MembersFinite DEF Drift
<1>6. QED
  BY <1>1, <1>2, <1>3, <1>4, <1>5

\* Between calls the intended number is the number, and nothing is pending.
LEMMA Idle ==
    ASSUME NEW g
    PROVE  /\ call = NoCall =>
                  /\ IntendedNumber(g) = getNumberOfUsersInGroup(g)
                  /\ AdminPending(g) = 0 /\ Stray = 0
           /\ call' = NoCall =>
                  /\ IntendedNumber(g)' = getNumberOfUsersInGroup(g)'
                  /\ AdminPending(g)' = 0 /\ Stray' = 0
  BY DEF IntendedNumber, getNumberOfUsersInGroup, AdminPending, Stray, NoCall, Pending

\* A call that ends without a write, or is killed, keeps the counters: only an
\* UPDATE that was still to come is missed, and that is paid for by the fault.
LEMMA CountEnd ==
    ASSUME TypeOK, TypeOK', CountInv, UNCHANGED <<PublicGroups, Users_In_Groups>>, call' = NoCall,
           (call = NoCall /\ UNCHANGED faults) \/ faults' = faults + 1
    PROVE  CountInv'
<1>1. CallCounted'
  BY Idle DEF CallCounted, Stray, NoCall, Pending, TypeOK
<1>2. ASSUME NEW h \in GroupRows' PROVE GroupCounted(h)'
  <2>1. h \in GroupRows /\ Members(h)' = Members(h)
        /\ getNumberOfUsersInGroup(h)' = getNumberOfUsersInGroup(h)
    BY <1>2 DEF GroupRows, Members, getNumberOfUsersInGroup
  <2>2. GroupCounted(h) /\ CallCounted
    BY <2>1 DEF CountInv
  <2>3. getNumberOfUsersInGroup(h) >= IntendedNumber(h) - 1
    BY <2>1, <2>2, CountTypes DEF IntendedNumber, CallCounted, getNumberOfUsersInGroup
  <2>4. /\ getNumberOfUsersInGroup(h) \in Int /\ IntendedNumber(h) \in Int
        /\ AdminPending(h) \in 0 .. 1 /\ Stray \in 0 .. 1 /\ faults \in Nat
        /\ Cardinality(Members(h)) \in Nat /\ GroupLimit \in Nat
    BY <2>1, CountTypes, MembersFinite, ConstantFacts
  <2>5. /\ IntendedNumber(h)' = getNumberOfUsersInGroup(h) /\ AdminPending(h)' = 0 /\ Stray' = 0
        /\ call = NoCall => /\ IntendedNumber(h) = getNumberOfUsersInGroup(h)
                            /\ AdminPending(h) = 0 /\ Stray = 0
    BY <2>1, Idle
  <2>6. QED
    BY <2>1, <2>2, <2>3, <2>4, <2>5 DEF GroupCounted, Drift
<1>3. QED
  BY <1>1, <1>2 DEF CountInv

\* A call that begins leaves the counter of every group right whose rows it does
\* not touch and whose counter it is not going to set.
LEMMA CountKept ==
    ASSUME TypeOK, CountInv, call = NoCall, NEW h \in GroupRows,
           Members(h)' = Members(h),
           getNumberOfUsersInGroup(h)' = getNumberOfUsersInGroup(h),
           IntendedNumber(h)' = getNumberOfUsersInGroup(h), AdminPending(h)' = 0,
           \/ Stray' = 0 /\ faults' = faults
           \/ Stray' \in 0 .. 1 /\ faults' = faults + 1
    PROVE  GroupCounted(h)'
<1>1. /\ getNumberOfUsersInGroup(h) \in Int /\ faults \in Nat
      /\ Cardinality(Members(h)) \in Nat /\ GroupLimit \in Nat
  BY CountTypes, MembersFinite, ConstantFacts
<1>2. /\ IntendedNumber(h) = getNumberOfUsersInGroup(h) /\ AdminPending(h) = 0 /\ Stray = 0
  BY Idle
<1>3. GroupCounted(h)
  BY DEF CountInv
<1>4. QED
  BY <1>1, <1>2, <1>3 DEF GroupCounted, Drift

\* The first statement of addUser and of removeUser: the UPDATE that is pending
\* moves the counter as the changed row moves the membership.
LEMMA CountMember ==
    ASSUME TypeOK, CountInv, call = NoCall, NEW g \in GroupRows,
           NEW e, NEW n, NEW d \in BOOLEAN,
           NEW u \in Usernames, NEW s \in Status \cup {NoRow},
           \/ /\ s # NoRow /\ u \notin Members(g)
              /\ n = getNumberOfUsersInGroup(g) + 1 /\ getNumberOfUsersInGroup(g) # GroupLimit
           \/ /\ s = NoRow /\ u \in Members(g) /\ n = getNumberOfUsersInGroup(g) - 1,
           \/ Users_In_Groups' = WithStatus(g, u, s) /\ UNCHANGED faults
           \/ QueryLost /\ UNCHANGED Users_In_Groups,
           call' = Pending("setNumber", e, g, n, d),
           UNCHANGED PublicGroups
    PROVE  CountInv'
<1>1. /\ call'.op = "setNumber" /\ call'.code = g /\ call'.number_of_users = n
      /\ Stray' = 0 /\ faults \in Nat /\ faults' \in {faults, faults + 1}
      /\ g \in Codes /\ GroupRows' = GroupRows
      /\ \A h : getNumberOfUsersInGroup(h)' = getNumberOfUsersInGroup(h)
  BY DEF Pending, Stray, QueryLost, TypeOK, GroupRows, getNumberOfUsersInGroup
<1>2. CallCounted'
  BY <1>1 DEF CallCounted
<1>3. ASSUME NEW h \in GroupRows, h # g PROVE GroupCounted(h)'
  <2>1. Members(h)' = Members(h)
    <3>1. CASE Users_In_Groups' = WithStatus(g, u, s)
      BY <1>1, <1>3, <3>1, MembersAfter DEF GroupRows
    <3>2. CASE UNCHANGED Users_In_Groups
      BY <3>2 DEF Members
    <3>3. QED
      BY <3>1, <3>2
  <2>2. IntendedNumber(h)' = getNumberOfUsersInGroup(h) /\ AdminPending(h)' = 0
    BY <1>1, <1>3 DEF IntendedNumber, AdminPending, getNumberOfUsersInGroup
  <2>3. QED
    BY <1>1, <1>3, <2>1, <2>2, CountKept
<1>4. GroupCounted(g)'
  <2>1. /\ getNumberOfUsersInGroup(g) \in Int /\ GroupLimit \in Nat
        /\ Cardinality(Members(g)) \in Nat /\ Cardinality(Members(g)') \in Nat
    BY CountTypes, MembersFinite, ConstantFacts
  <2>2. /\ IntendedNumber(g) = getNumberOfUsersInGroup(g) /\ AdminPending(g) = 0 /\ Stray = 0
    BY Idle
  <2>3. GroupCounted(g)
    BY DEF CountInv
  <2>4. IntendedNumber(g)' = n /\ AdminPending(g)' = 0
    BY <1>1 DEF IntendedNumber, AdminPending
  <2>5. CASE Users_In_Groups' = WithStatus(g, u, s) /\ UNCHANGED faults
    <3>1. Cardinality(Members(g)') - Cardinality(Members(g)) = n - getNumberOfUsersInGroup(g)
      BY <1>1, <2>1, <2>5, CountAfter
    <3>2. QED
      BY <1>1, <2>1, <2>2, <2>3, <2>4, <2>5, <3>1 DEF GroupCounted, Drift
  <2>6. CASE faults' = faults + 1 /\ Members(g)' = Members(g)
    BY <1>1, <2>1, <2>2, <2>3, <2>4, <2>6 DEF GroupCounted, Drift
  <2>7. QED
    BY <2>5, <2>6 DEF QueryLost, Members
<1>5. QED
  BY <1>1, <1>2, <1>3, <1>4 DEF CountInv

\* createGroup counts its admin when it makes the row; if it loses the row, the
\* admin goes to somebody else's group, whose counter is not set.
LEMMA CountCreate ==
    ASSUME TypeOK, CodesInv, CountInv, NEW e \in Usernames, createGroup(e)
    PROVE  CountInv'
<1> USE ConstantFacts
<1>0. PICK k \in Codes : k = NextCode
  BY DEF createGroup
<1>1. call = NoCall /\ k > seq
      /\ UNCHANGED Users_In_Groups /\ faults \in Nat
      /\ PublicGroups \in [Codes -> GroupRow \cup {NoRow}]
  BY <1>0 DEF createGroup, Locked, TypeOK, NextCode
<1>2. \A h : Members(h)' = Members(h)
  BY <1>1 DEF Members
<1>3. CASE /\ PublicGroups' = [PublicGroups EXCEPT ![k] = NewGroupRow(e)]
           /\ call' = Pending("insertAdmin", e, k, 0, FALSE)
           /\ UNCHANGED faults
  <2>1. call'.op = "insertAdmin" /\ call'.code = k /\ call'.effector = e /\ faults' = faults
    BY <1>3 DEF Pending
  <2>2. Stray' = 0 /\ CallCounted'
    <3>1. k # 0
      BY DEF Codes
    <3>2. Stray' = 0
      BY <2>1, <3>1 DEF Stray
    <3>3. QED
      BY <1>1, <2>1, <3>2 DEF CallCounted
  <2>3. k \notin GroupRows /\ Members(k) = {}
    BY <1>1 DEF CodesInv
  <2>4. GroupCounted(k)'
    <3>1. getNumberOfUsersInGroup(k)' = 1 /\ IntendedNumber(k)' = 1
      BY <1>1, <1>3, <2>1 DEF getNumberOfUsersInGroup, IntendedNumber, NewGroupRow
    <3>2. AdminPending(k)' = 1
      BY <2>1 DEF AdminPending
    <3>3. Cardinality(Members(k)') = 0
      BY <1>2, <2>3, FS_EmptySet
    <3>4. QED
      BY <1>1, <1>3, <2>2, <3>1, <3>2, <3>3 DEF GroupCounted, Drift
  <2>5. ASSUME NEW h \in GroupRows', h # k PROVE GroupCounted(h)'
    <3>1. h \in GroupRows /\ PublicGroups'[h] = PublicGroups[h]
      BY <1>1, <1>3, <2>5 DEF GroupRows
    <3>2. /\ getNumberOfUsersInGroup(h)' = getNumberOfUsersInGroup(h)
          /\ IntendedNumber(h)' = getNumberOfUsersInGroup(h) /\ AdminPending(h)' = 0
      BY <2>1, <2>5, <3>1 DEF getNumberOfUsersInGroup, IntendedNumber, AdminPending
    <3>3. QED
      BY <1>1, <1>2, <1>3, <2>2, <3>1, <3>2, CountKept
  <2>6. QED
    BY <2>2, <2>4, <2>5 DEF CountInv
<1>4. CASE /\ QueryLost /\ UNCHANGED PublicGroups
           /\ call' = Pending("insertAdmin", e, 0, 0, FALSE)
  <2>1. call'.op = "insertAdmin" /\ call'.code = 0 /\ call'.effector = e /\ faults' = faults + 1
    BY <1>4 DEF Pending, QueryLost
  <2>2. Stray' = 1 /\ CallCounted'
    BY <1>1, <2>1 DEF Stray, CallCounted
  <2>3. ASSUME NEW h \in GroupRows' PROVE GroupCounted(h)'
    <3>1. h \in GroupRows /\ PublicGroups'[h] = PublicGroups[h] /\ h # 0
      BY <1>1, <1>4, <2>3 DEF GroupRows, Codes
    <3>2. /\ getNumberOfUsersInGroup(h)' = getNumberOfUsersInGroup(h)
          /\ IntendedNumber(h)' = getNumberOfUsersInGroup(h) /\ AdminPending(h)' = 0
      BY <2>1, <3>1 DEF getNumberOfUsersInGroup, IntendedNumber, AdminPending
    <3>3. QED
      BY <1>1, <1>2, <2>1, <2>2, <3>1, <3>2, CountKept
  <2>4. QED
    BY <2>2, <2>3 DEF CountInv
<1>5. QED
  BY <1>0, <1>3, <1>4 DEF createGroup

\* While createGroup is under way, the last row is the one it has made, if any.
LEMMA LastIsOwn ==
    ASSUME TypeOK, CodesInv, call.op = "insertAdmin", call.code # 0
    PROVE  GroupRows # {} /\ LastCode = call.code /\ Members(call.code) = {}
<1>1. call.code \in GroupRows /\ call.code = seq /\ Members(call.code) = {}
  BY DEF CodesInv, FreshCode
<1>2. LastCode \in GroupRows /\ call.code <= LastCode
  BY <1>1, LastCodeIsRow
<1>3. LastCode \in Codes /\ LastCode <= seq
  BY <1>2, ConstantFacts DEF CodesInv, TypeOK, GroupRows, Codes
<1>4. QED
  BY <1>1, <1>2, <1>3, ConstantFacts DEF Codes, TypeOK

\* The row of the admin.
LEMMA CountAdmin ==
    ASSUME TypeOK, TypeOK', CodesInv, CountInv, createGroup_insertAdmin
    PROVE  CountInv'
<1> USE ConstantFacts
<1>1. call.op = "insertAdmin" /\ call' = NoCall /\ UNCHANGED PublicGroups
  BY DEF createGroup_insertAdmin, Throw, Return, tables
<1>2. CASE GroupRows = {}
  <2>1. GroupRows' = {}
    BY <1>1, <1>2 DEF GroupRows
  <2>2. CallCounted'
    BY <1>1 DEF CallCounted, Stray, NoCall, Pending, TypeOK
  <2>3. QED
    BY <2>1, <2>2 DEF CountInv
<1>3. CASE QueryLost /\ UNCHANGED Users_In_Groups
  BY <1>1, <1>3, CountEnd DEF QueryLost
<1>4. CASE /\ GroupRows # {} /\ UNCHANGED faults
           /\ Users_In_Groups' = InsertMember(LastCode, call.effector, "admin")
  <2>0. PICK g : g = LastCode
    OBVIOUS
  <2>1. g \in GroupRows /\ g \in Codes /\ call.effector \in Usernames
    BY <1>1, <1>4, <2>0, LastCodeIsRow DEF GroupRows, CountInv, CallCounted
  <2>2. CallCounted'
    BY <1>1 DEF CallCounted, Stray, NoCall, Pending, TypeOK
  <2>3. /\ \A h \in Codes : h # g => Members(h)' = Members(h)
        /\ \/ Members(g)' = Members(g) /\ call.effector \in Members(g)
           \/ Cardinality(Members(g)') = Cardinality(Members(g)) + 1
    <3>1. CASE call.effector \in Members(g)
      BY <1>4, <2>0, <3>1 DEF InsertMember, isUserExistsInGroup, Members
    <3>2. CASE call.effector \notin Members(g)
      <4>1. Users_In_Groups' = WithStatus(g, call.effector, "admin")
        BY <1>4, <2>0, <3>2 DEF InsertMember, isUserExistsInGroup
      <4>2. "admin" \in Status /\ "admin" # NoRow
        BY DEF Status
      <4>3. QED
        BY <2>1, <3>2, <4>1, <4>2, MembersAfter, CountAfter
    <3>3. QED
      BY <3>1, <3>2
  <2>4. ASSUME NEW h \in GroupRows' PROVE GroupCounted(h)'
    <3>1. /\ h \in GroupRows /\ h \in Codes
          /\ getNumberOfUsersInGroup(h)' = getNumberOfUsersInGroup(h)
      BY <1>1, <2>4 DEF GroupRows, getNumberOfUsersInGroup
    <3>2. /\ getNumberOfUsersInGroup(h) \in Int /\ faults \in Nat
          /\ Cardinality(Members(h)) \in Nat /\ Cardinality(Members(h)') \in Nat
      BY <3>1, CountTypes, MembersFinite
    <3>3. IntendedNumber(h)' = getNumberOfUsersInGroup(h) /\ AdminPending(h)' = 0 /\ Stray' = 0
      BY <1>1, <3>1, Idle
    <3>4. IntendedNumber(h) = getNumberOfUsersInGroup(h) /\ GroupCounted(h)
      BY <1>1, <3>1 DEF IntendedNumber, getNumberOfUsersInGroup, CountInv
    <3>5. CASE call.code = 0
      <4>1. Stray = 1 /\ faults # 0 /\ AdminPending(h) = 0
        BY <1>1, <3>1, <3>2, <3>5 DEF Stray, AdminPending, CountInv, CallCounted, Codes
      <4>2. Cardinality(Members(h)') <= Cardinality(Members(h)) + 1
        BY <2>3, <3>1, <3>2
      <4>3. QED
        BY <1>4, <3>1, <3>2, <3>3, <3>4, <4>1, <4>2 DEF GroupCounted, Drift
    <3>6. CASE call.code # 0
      <4>1. g = call.code /\ Members(g) = {} /\ Stray = 0
        BY <1>1, <2>0, <3>6, LastIsOwn DEF Stray
      <4>2. Cardinality(Members(h)') = Cardinality(Members(h)) + AdminPending(h)
            /\ AdminPending(h) \in 0 .. 1
        BY <1>1, <2>3, <3>1, <3>2, <4>1 DEF AdminPending
      <4>3. QED
        BY <1>4, <3>1, <3>2, <3>3, <3>4, <4>1, <4>2 DEF GroupCounted, Drift
    <3>7. QED
      BY <3>5, <3>6
  <2>5. QED
    BY <2>2, <2>4 DEF CountInv
<1>5. QED
  BY <1>2, <1>3, <1>4 DEF createGroup_insertAdmin

\* Every step keeps the counters.
LEMMA CountStep == TypeOK /\ CodesInv /\ CountInv /\ [Next]_vars => CountInv'
<1> SUFFICES ASSUME TypeOK, CodesInv, CountInv, [Next]_vars PROVE CountInv'
  OBVIOUS
<1> USE ConstantFacts
<1>t. TypeOK'
  BY TypeStep
<1>f. /\ faults \in Nat /\ PublicGroups \in [Codes -> GroupRow \cup {NoRow}]
      /\ Users_In_Groups \in [Codes -> [Usernames -> Status \cup {NoRow}]]
  BY DEF TypeOK
<1>1. ASSUME NEW e \in Usernames, createGroup(e) PROVE CountInv'
  BY <1>1, CountCreate
<1>2. CASE createGroup_insertAdmin
  BY <1>2, <1>t, CountAdmin
<1>3. ASSUME NEW e \in Usernames, NEW g \in Codes, removeGroup(e, g) PROVE CountInv'
  <2>1. CASE UNCHANGED <<tables, faults>> /\ call' = NoCall
    BY <1>3, <1>t, <2>1, CountEnd DEF removeGroup, Locked, tables
  <2>2. CASE /\ \/ PublicGroups' = [PublicGroups EXCEPT ![g] = NoRow] /\ UNCHANGED faults
                \/ QueryLost /\ UNCHANGED PublicGroups
             /\ call' = Pending("deleteMembers", e, g, 0, ~MayAct(g, e, Admin))
             /\ UNCHANGED Users_In_Groups
    <3>1. call = NoCall /\ call'.op = "deleteMembers" /\ call'.code = g
      BY <1>3, <2>2 DEF removeGroup, Locked, Pending
    <3>2. /\ Stray' = 0 /\ faults' \in {faults, faults + 1}
          /\ \A h : Members(h)' = Members(h)
          /\ faults' = faults => g \notin GroupRows'
      BY <1>f, <2>2, <3>1 DEF Stray, QueryLost, Members, GroupRows
    <3>3. CallCounted'
      BY <1>f, <3>1, <3>2 DEF CallCounted
    <3>4. ASSUME NEW h \in GroupRows' PROVE GroupCounted(h)'
      <4>1. h \in GroupRows /\ PublicGroups'[h] = PublicGroups[h]
        BY <1>f, <2>2, <3>4 DEF GroupRows
      <4>2. /\ getNumberOfUsersInGroup(h)' = getNumberOfUsersInGroup(h)
            /\ IntendedNumber(h)' = getNumberOfUsersInGroup(h) /\ AdminPending(h)' = 0
        BY <3>1, <4>1 DEF getNumberOfUsersInGroup, IntendedNumber, AdminPending
      <4>3. QED
        BY <3>1, <3>2, <4>1, <4>2, CountKept
    <3>5. QED
      BY <3>3, <3>4 DEF CountInv
  <2>3. QED
    BY <1>3, <2>1, <2>2 DEF removeGroup, Throw, Dies, Restart
<1>4. CASE removeGroup_deleteMembers
  <2>1. /\ call.op = "deleteMembers" /\ call'.op = "deleteLists" /\ UNCHANGED PublicGroups
        /\ call'.code = call.code
        /\ faults' \in {faults, faults + 1}
        /\ UNCHANGED Users_In_Groups \/ Users_In_Groups' = DeleteMembers(call.code)
        /\ faults' = faults \/ UNCHANGED Users_In_Groups
    BY <1>4 DEF removeGroup_deleteMembers, Pending, QueryLost
  <2>2. CallCounted' /\ Stray' = 0 /\ Stray = 0 /\ CallCounted
    BY <1>f, <2>1 DEF CallCounted, Stray, CountInv, GroupRows
  <2>3. ASSUME NEW h \in GroupRows' PROVE GroupCounted(h)'
    <3>1. /\ h \in GroupRows /\ h \in Codes
          /\ getNumberOfUsersInGroup(h)' = getNumberOfUsersInGroup(h)
      BY <2>1, <2>3 DEF GroupRows, getNumberOfUsersInGroup
    <3>2. /\ IntendedNumber(h) = getNumberOfUsersInGroup(h) /\ AdminPending(h) = 0
          /\ IntendedNumber(h)' = getNumberOfUsersInGroup(h) /\ AdminPending(h)' = 0
      BY <2>1, <3>1 DEF IntendedNumber, AdminPending, getNumberOfUsersInGroup
    <3>3. /\ getNumberOfUsersInGroup(h) \in Int /\ GroupCounted(h)
          /\ Cardinality(Members(h)) \in Nat /\ Cardinality(Members(h)') \in Nat
      BY <3>1, CountTypes, MembersFinite DEF CountInv
    <3>4. CASE h # call.code \/ UNCHANGED Users_In_Groups
      <4>1. Members(h)' = Members(h)
        BY <1>f, <2>1, <3>1, <3>4 DEF Members, DeleteMembers
      <4>2. QED
        BY <1>f, <2>1, <2>2, <3>1, <3>2, <3>3, <4>1 DEF GroupCounted, Drift
    <3>5. CASE h = call.code /\ Users_In_Groups' = DeleteMembers(call.code)
      <4>1. Members(h)' = {}
        BY <1>f, <3>1, <3>5 DEF Members, DeleteMembers
      <4>2. Cardinality(Members(h)') = 0
        BY <4>1, FS_EmptySet
      <4>3. faults # 0
        BY <2>1, <2>2, <3>1, <3>5 DEF CallCounted
      <4>4. QED
        BY <1>f, <2>1, <2>2, <3>1, <3>2, <3>3, <4>2, <4>3 DEF GroupCounted, Drift
    <3>6. QED
      BY <2>1, <3>4, <3>5
  <2>4. QED
    BY <2>2, <2>3 DEF CountInv
<1>5. CASE removeGroup_deleteLists
  <2>1. /\ call.op = "deleteLists" /\ call' = NoCall /\ faults' \in {faults, faults + 1}
        /\ UNCHANGED <<PublicGroups, Users_In_Groups>>
    BY <1>5 DEF removeGroup_deleteLists, Return, QueryLost
  <2>2. CallCounted'
    BY <1>f, <2>1 DEF CallCounted, Stray, NoCall, Pending
  <2>3. ASSUME NEW h \in GroupRows' PROVE GroupCounted(h)'
    <3>1. /\ h \in GroupRows /\ Members(h)' = Members(h)
          /\ getNumberOfUsersInGroup(h)' = getNumberOfUsersInGroup(h)
      BY <2>1, <2>3 DEF GroupRows, Members, getNumberOfUsersInGroup
    <3>2. IntendedNumber(h) = getNumberOfUsersInGroup(h) /\ AdminPending(h) = 0 /\ Stray = 0
      BY <2>1 DEF IntendedNumber, AdminPending, getNumberOfUsersInGroup, Stray
    <3>3. IntendedNumber(h)' = getNumberOfUsersInGroup(h) /\ AdminPending(h)' = 0 /\ Stray' = 0
      BY <2>1, <3>1, Idle
    <3>4. /\ getNumberOfUsersInGroup(h) \in Int /\ GroupCounted(h)
          /\ Cardinality(Members(h)) \in Nat
      BY <3>1, CountTypes, MembersFinite DEF CountInv
    <3>5. QED
      BY <1>f, <2>1, <3>1, <3>2, <3>3, <3>4 DEF GroupCounted, Drift
  <2>4. QED
    BY <2>2, <2>3 DEF CountInv
<1>6. ASSUME NEW e \in Usernames, NEW u \in Usernames, NEW g \in Codes, NEW s \in Status,
             addUser(e, g, u, s)
      PROVE  CountInv'
  <2>1. CASE UNCHANGED <<tables, faults>> /\ call' = NoCall
    BY <1>6, <1>t, <2>1, CountEnd DEF addUser, Locked, tables
  <2>2. CASE /\ g \in GroupRows /\ ~GroupFull(g) /\ ~isUserExistsInGroup(g, u)
             /\ \/ Users_In_Groups' = InsertMember(g, u, s) /\ UNCHANGED faults
                \/ QueryLost /\ UNCHANGED Users_In_Groups
             /\ call' = Pending("setNumber", e, g, getNumberOfUsersInGroup(g) + 1,
                                ~MayAct(g, e, FullControl))
             /\ UNCHANGED PublicGroups
    <3>1. /\ call = NoCall /\ s # NoRow /\ u \notin Members(g)
          /\ getNumberOfUsersInGroup(g) # GroupLimit
      BY <1>6, <2>2 DEF addUser, Locked, isUserExistsInGroup, GroupFull
    <3>2. InsertMember(g, u, s) = WithStatus(g, u, s)
      BY <2>2 DEF InsertMember
    <3>3. QED
      BY <2>2, <3>1, <3>2, CountMember
  <2>3. QED
    BY <1>6, <2>1, <2>2 DEF addUser, Throw, Dies, Restart
<1>7. ASSUME NEW e \in Usernames, NEW u \in Usernames, NEW g \in Codes, removeUser(e, g, u)
      PROVE  CountInv'
  <2>1. CASE UNCHANGED <<tables, faults>> /\ call' = NoCall
    BY <1>7, <1>t, <2>1, CountEnd DEF removeUser, Locked, tables
  <2>2. CASE /\ g \in GroupRows /\ EffectorAndTargetAccepted(e, g, u)
             /\ \/ Users_In_Groups' = WithStatus(g, u, NoRow) /\ UNCHANGED faults
                \/ QueryLost /\ UNCHANGED Users_In_Groups
             /\ call' = Pending("setNumber", e, g, NumberAfterRemoval(g), FALSE)
             /\ UNCHANGED PublicGroups
    <3>1. /\ call = NoCall /\ u \in Members(g)
          /\ NumberAfterRemoval(g) = getNumberOfUsersInGroup(g) - 1
      BY <1>7, <2>2
      DEF removeUser, Locked, isUserExistsInGroup, EffectorAndTargetAccepted, NumberAfterRemoval
    <3>2. QED
      BY <2>2, <3>1, CountMember
  <2>3. QED
    BY <1>7, <2>1, <2>2 DEF removeUser, EffectorAndTargetRefused, Throw, Dies, Restart
<1>8. CASE setNumberOfUsers
  <2>1. call.op = "setNumber" /\ call' = NoCall /\ UNCHANGED Users_In_Groups
    BY <1>8 DEF setNumberOfUsers, Return
  <2>2. CASE QueryLost /\ UNCHANGED PublicGroups
    BY <1>t, <2>1, <2>2, CountEnd DEF QueryLost
  <2>3. CASE PublicGroups' = SetNumber(call.code, call.number_of_users) /\ UNCHANGED faults
    <3>1. PICK g \in GroupRows : g = call.code
      BY <2>1 DEF CountInv, CallCounted
    <3>2. /\ g \in Codes /\ PublicGroups[g] # NoRow /\ PublicGroups[g] \in GroupRow
          /\ PublicGroups' = [PublicGroups EXCEPT ![g].number_of_users = call.number_of_users]
      BY <1>f, <2>3, <3>1 DEF SetNumber, GroupRows
    <3>3. CallCounted'
      BY <1>f, <2>1, <2>3 DEF CallCounted, Stray, NoCall, Pending
    <3>4. ASSUME NEW h \in GroupRows' PROVE GroupCounted(h)'
      <4>1. h \in GroupRows /\ Members(h)' = Members(h)
        BY <1>f, <2>1, <3>2, <3>4 DEF GroupRows, Members
      <4>2. getNumberOfUsersInGroup(h)' = IntendedNumber(h)
        BY <1>f, <2>1, <3>1, <3>2, <4>1
        DEF getNumberOfUsersInGroup, IntendedNumber, GroupRow, GroupRows
      <4>3. AdminPending(h) = 0 /\ Stray = 0
        BY <2>1 DEF AdminPending, Stray
      <4>4. IntendedNumber(h)' = IntendedNumber(h) /\ AdminPending(h)' = 0 /\ Stray' = 0
        BY <2>1, <4>2, Idle
      <4>5. GroupCounted(h)
        BY <4>1 DEF CountInv
      <4>6. QED
        BY <2>3, <4>1, <4>2, <4>3, <4>4, <4>5 DEF GroupCounted, Drift
    <3>5. QED
      BY <3>3, <3>4 DEF CountInv
  <2>4. QED
    BY <1>8, <2>2, <2>3 DEF setNumberOfUsers
<1>9. ASSUME NEW e \in Usernames, NEW u \in Usernames, NEW g \in Codes, NEW s \in Status,
             setUserStatus(e, g, u, s)
      PROVE  CountInv'
  <2>1. call = NoCall /\ call' = NoCall /\ UNCHANGED PublicGroups
    BY <1>9 DEF setUserStatus, Locked, EffectorAndTargetRefused, Throw, Return, tables
  <2>2. CASE UNCHANGED Users_In_Groups /\ faults' \in {faults, faults + 1}
    BY <1>t, <2>1, <2>2, CountEnd
  <2>3. CASE /\ EffectorAndTargetAccepted(e, g, u) /\ UNCHANGED faults
             /\ Users_In_Groups' = WithStatus(g, u, s)
    <3>1. s # NoRow /\ u \in Members(g)
      BY <2>3 DEF EffectorAndTargetAccepted, isUserExistsInGroup
    <3>2. \A h \in Codes : Members(h)' = Members(h)
      BY <2>3, <3>1, MembersAfter, CountAfter
    <3>3. CallCounted'
      BY <1>f, <2>1, <2>3 DEF CallCounted, Stray, NoCall, Pending
    <3>4. ASSUME NEW h \in GroupRows' PROVE GroupCounted(h)'
      <4>1. /\ h \in GroupRows /\ h \in Codes
            /\ getNumberOfUsersInGroup(h)' = getNumberOfUsersInGroup(h)
        BY <2>1, <3>4 DEF GroupRows, getNumberOfUsersInGroup
      <4>2. IntendedNumber(h)' = getNumberOfUsersInGroup(h) /\ AdminPending(h)' = 0 /\ Stray' = 0
        BY <2>1, <4>1, Idle
      <4>3. QED
        BY <2>1, <2>3, <3>2, <4>1, <4>2, CountKept
    <3>5. QED
      BY <3>3, <3>4 DEF CountInv
  <2>4. QED
    BY <1>9, <2>2, <2>3
    DEF setUserStatus, EffectorAndTargetRefused, Throw, QueryLost, tables
<1>10. ASSUME NEW e \in Usernames, NEW g \in Codes, EditList(e, g) PROVE CountInv'
  BY <1>10, <1>t, CountEnd DEF EditList
<1>11. CASE Kill
  BY <1>11, <1>t, CountEnd DEF Kill, Restart, QueryLost, tables
<1>12. CASE UNCHANGED vars
  BY <1>12
  DEF vars, CountInv, CallCounted, GroupCounted, Stray, GroupRows, Drift, IntendedNumber,
      AdminPending, Members, getNumberOfUsersInGroup
<1>13. QED
  BY <1>1, <1>2, <1>3, <1>4, <1>5, <1>6, <1>7, <1>8, <1>9, <1>10, <1>11, <1>12
  DEF Next, Begin, Step

\* Before the first call there is no group.
LEMMA CountStart == Init => CountInv
  BY ConstantFacts DEF Init, CountInv, CallCounted, GroupRows, Stray, NoCall, Pending

\* The three invariants are inductive together.
LEMMA GroupInvariants == Spec => [](TypeOK /\ CodesInv /\ CountInv)
<1>1. Init => TypeOK /\ CodesInv /\ CountInv
  BY ConstantFacts, NoCallType, CountStart
  DEF Init, TypeOK, Replies, CodesInv, FreshCode, GroupRows, Members, NoCall, Pending
<1>2. TypeOK /\ CodesInv /\ CountInv /\ [Next]_vars => (TypeOK /\ CodesInv /\ CountInv)'
  BY TypeStep, CodesStep, CountStep
<1>3. QED
  BY <1>1, <1>2, PTL DEF Spec

\* number_of_users is exact without faults, and too small by at most one for
\* each kill or lost statement, whatever calls follow.
THEOREM CounterDriftHolds == Spec => []CounterDrift
<1>1. TypeOK /\ CountInv => CounterDrift
  <2> SUFFICES ASSUME TypeOK, CountInv, NEW g \in GroupRows
               PROVE  -faults <= Drift(g) /\ (faults = 0 => Drift(g) = 0)
    BY DEF CounterDrift
  <2> QED
    BY CountTypes DEF CountInv, GroupCounted
<1>2. QED
  BY <1>1, GroupInvariants, PTL

\* The counter never steps over the limit that addUser tests with ==, and the
\* membership exceeds it by no more than the number of faults.
THEOREM GroupCapacityHolds == Spec => []GroupCapacity
<1>1. TypeOK /\ CountInv => GroupCapacity
  <2> SUFFICES ASSUME TypeOK, CountInv, NEW g \in GroupRows
               PROVE  /\ IntendedNumber(g) <= GroupLimit
                      /\ Cardinality(Members(g)) <= GroupLimit + faults
    BY DEF GroupCapacity
  <2>1. GroupCounted(g)
    BY DEF CountInv
  <2>2. /\ IntendedNumber(g) \in Int /\ AdminPending(g) \in 0 .. 1 /\ Stray \in 0 .. 1
        /\ faults \in Nat /\ Cardinality(Members(g)) \in Nat /\ GroupLimit \in Nat
    BY CountTypes, MembersFinite, ConstantFacts
  <2>3. QED
    BY <2>1, <2>2 DEF GroupCounted, Drift
<1>2. QED
  BY <1>1, GroupInvariants, PTL
-----------------------------------------------------------------------------
(***************************************************************************)
(* Foreign keys                                                            *)
(***************************************************************************)

\* The rows that removeGroup or createGroup still has to delete or insert are
\* the only exceptions to ReferentialIntegrity while a call is under way.
RowsOwned(g) ==
    /\ Members(g) # {} => g \in GroupRows \/ (call.op = "deleteMembers" /\ call.code = g)
    /\ g \in Lists =>
          g \in GroupRows \/ (call.op \in {"deleteMembers", "deleteLists"} /\ call.code = g)
    /\ g \in GroupRows =>
          \/ Users_In_Groups[g][PublicGroups[g].admin] = "admin"
          \/ /\ call.op = "insertAdmin" /\ call.code = g
             /\ call.effector = PublicGroups[g].admin

IntegrityInv == faults = 0 => \A g \in Codes : RowsOwned(g)

(***************************************************************************)
(* The steps that lose nothing.  What each of them does to the tables, in  *)
(* the words of the invariants: the row of a new group and the row of its  *)
(* admin, the three DELETEs of removeGroup, a change of one membership     *)
(* row, the UPDATE of the counter, and a change of the lists.              *)
(***************************************************************************)
RowMade(e, g) ==
    /\ call = NoCall /\ call'.op = "insertAdmin" /\ call'.code = g /\ call'.effector = e
    /\ g = seq + 1 /\ seq' = g
    /\ PublicGroups' = [PublicGroups EXCEPT ![g] = NewGroupRow(e)]
    /\ UNCHANGED <<Users_In_Groups, Lists>>

AdminMade(e, g) ==
    /\ call.op = "insertAdmin" /\ call.code = g /\ call.effector = e /\ call' = NoCall
    /\ g \in GroupRows /\ g <= seq /\ Members(g) = {}
    /\ Users_In_Groups' = WithStatus(g, e, "admin")
    /\ UNCHANGED <<PublicGroups, Lists, seq>>

RowDeleted(e, g) ==
    /\ call = NoCall /\ call'.op = "deleteMembers" /\ call'.code = g
    /\ e \in Members(g)
    /\ PublicGroups' = [PublicGroups EXCEPT ![g] = NoRow]
    /\ UNCHANGED <<Users_In_Groups, Lists, seq>>

MembersDeleted(g) ==
    /\ call.op = "deleteMembers" /\ call.code = g
    /\ call'.op = "deleteLists" /\ call'.code = g
    /\ g \notin GroupRows
    /\ Users_In_Groups' = DeleteMembers(g)
    /\ UNCHANGED <<PublicGroups, Lists, seq>>

ListsDeleted(g) ==
    /\ call.op = "deleteLists" /\ call.code = g /\ call' = NoCall
    /\ g \notin GroupRows
    /\ Lists' = Lists \ {g}
    /\ UNCHANGED <<PublicGroups, Users_In_Groups, seq>>

\* Somebody new in a group that is not full, or a change to a member who is not
\* admin, made by a member with full control.
MemberChanged(e, g, u, s) ==
    /\ call = NoCall /\ call'.op \in {"none", "setNumber"}
    /\ g \in GroupRows /\ e \in Members(g)
    /\ Users_In_Groups' = WithStatus(g, u, s)
    /\ \/ /\ s # NoRow /\ getPermission(s) # Non /\ u \notin Members(g)
          /\ Cardinality(Members(g)) < GroupLimit
       \/ EffectorAndTargetAccepted(e, g, u)
    /\ UNCHANGED <<PublicGroups, Lists, seq>>

NumberSet(g, n) ==
    /\ call.op = "setNumber" /\ call' = NoCall
    /\ g \in GroupRows
    /\ PublicGroups' = [PublicGroups EXCEPT ![g].number_of_users = n]
    /\ UNCHANGED <<Users_In_Groups, Lists, seq>>

ListEdited(e, g) ==
    /\ call = NoCall /\ call' = NoCall
    /\ g \in GroupRows /\ e \in Members(g) /\ MayAct(g, e, ReadWrite)
    /\ Lists' \in {Lists \cup {g}, Lists \ {g}}
    /\ UNCHANGED <<PublicGroups, Users_In_Groups, seq>>

NothingDone == UNCHANGED <<PublicGroups, Users_In_Groups, Lists, seq, call>>

LosslessStep ==
    \/ NothingDone
    \/ \E e \in Usernames, g \in Codes :
          \/ RowMade(e, g) \/ AdminMade(e, g) \/ RowDeleted(e, g) \/ ListEdited(e, g)
          \/ \E u \in Usernames, s \in Status \cup {NoRow} : MemberChanged(e, g, u, s)
    \/ \E g \in Codes :
          \/ MembersDeleted(g) \/ ListsDeleted(g) \/ \E n \in Int : NumberSet(g, n)

\* Every step loses one statement or none.
LEMMA FaultSteps == [Next]_vars => UNCHANGED faults \/ QueryLost
<1> SUFFICES ASSUME [Next]_vars PROVE UNCHANGED faults \/ QueryLost
  OBVIOUS
<1>1. CASE Step
  BY <1>1
  DEF Step, createGroup_insertAdmin, removeGroup_deleteMembers, removeGroup_deleteLists,
      setNumberOfUsers, Throw
<1>2. ASSUME NEW e \in Usernames, createGroup(e) PROVE UNCHANGED faults \/ QueryLost
  BY <1>2 DEF createGroup
<1>3. ASSUME NEW e \in Usernames, NEW g \in Codes, removeGroup(e, g) \/ EditList(e, g)
      PROVE  UNCHANGED faults \/ QueryLost
  BY <1>3 DEF removeGroup, EditList, Throw, Dies
<1>4. ASSUME NEW e, NEW u, NEW g, removeUser(e, g, u) PROVE UNCHANGED faults \/ QueryLost
  BY <1>4 DEF removeUser, EffectorAndTargetRefused, Throw, Dies
<1>5. ASSUME NEW e, NEW u, NEW g, NEW s, addUser(e, g, u, s) \/ setUserStatus(e, g, u, s)
      PROVE  UNCHANGED faults \/ QueryLost
  BY <1>5 DEF addUser, setUserStatus, EffectorAndTargetRefused, Throw, Dies
<1>6. CASE Kill \/ UNCHANGED vars
  BY <1>6 DEF Kill, vars
<1>7. QED
  BY <1>1, <1>2, <1>3, <1>4, <1>5, <1>6 DEF Next, Begin

\* A step after which nothing has been lost yet is one of these.
LEMMA LosslessSteps ==
    TypeOK /\ CodesInv /\ CountInv /\ IntegrityInv /\ [Next]_vars /\ faults' = 0
        => faults = 0 /\ LosslessStep
<1> SUFFICES ASSUME TypeOK, CodesInv, CountInv, IntegrityInv, [Next]_vars, faults' = 0
             PROVE  faults = 0 /\ LosslessStep
  OBVIOUS
<1> USE ConstantFacts
<1>f. faults \in Nat /\ PublicGroups \in [Codes -> GroupRow \cup {NoRow}]
  BY DEF TypeOK
<1>q. ~QueryLost
  BY <1>f DEF QueryLost
<1>z. faults = 0
  BY <1>q, FaultSteps
<1> SUFFICES LosslessStep
  BY <1>z
<1>m. \A g \in Codes, u \in Usernames : call = NoCall /\ isUserExistsInGroup(g, u) => g \in GroupRows
  BY <1>z DEF IntegrityInv, RowsOwned, isUserExistsInGroup, NoCall, Pending
<1>1. ASSUME NEW e \in Usernames, createGroup(e) PROVE LosslessStep
  <2>1. PICK k \in Codes : k = NextCode
    BY <1>1 DEF createGroup
  <2>2. k = seq + 1 /\ seq \in Nat
    BY <2>1 DEF NextCode, TypeOK
  <2>3. /\ PublicGroups' = [PublicGroups EXCEPT ![k] = NewGroupRow(e)]
        /\ call' = Pending("insertAdmin", e, k, 0, FALSE)
        /\ seq' = IF k > seq THEN k ELSE seq
        /\ call = NoCall /\ UNCHANGED <<Users_In_Groups, Lists>>
    <3>1. /\ PublicGroups' = [PublicGroups EXCEPT ![NextCode] = NewGroupRow(e)]
          /\ call' = Pending("insertAdmin", e, NextCode, 0, FALSE)
          /\ seq' = IF NextCode > seq THEN NextCode ELSE seq
          /\ call = NoCall /\ UNCHANGED <<Users_In_Groups, Lists>>
      BY <1>1, <1>q DEF createGroup, Locked
    <3>2. QED
      BY <2>1, <3>1
  <2>4. RowMade(e, k)
    BY <2>2, <2>3 DEF RowMade, Pending
  <2>5. QED
    BY <2>4 DEF LosslessStep
<1>2. CASE createGroup_insertAdmin
  <2>1. /\ call.op = "insertAdmin" /\ call.code # 0 /\ call.effector \in Usernames
    BY <1>2, <1>z DEF createGroup_insertAdmin, CountInv, CallCounted, Stray
  <2>2. PICK g : g = LastCode
    OBVIOUS
  <2>3. GroupRows # {} /\ g = call.code /\ Members(g) = {} /\ g \in GroupRows /\ g \in Codes
        /\ call.code = seq
    BY <2>1, <2>2, LastIsOwn, LastCodeIsRow DEF GroupRows, CodesInv
  <2>4. /\ Users_In_Groups' = InsertMember(g, call.effector, "admin") /\ call' = NoCall
        /\ UNCHANGED <<PublicGroups, Lists, seq>>
    BY <1>2, <1>q, <2>2, <2>3 DEF createGroup_insertAdmin, Return
  <2>5. Users_In_Groups' = WithStatus(g, call.effector, "admin")
    BY <2>3, <2>4 DEF InsertMember, isUserExistsInGroup
  <2>6. g <= seq
    BY <2>3 DEF Codes
  <2>7. AdminMade(call.effector, g)
    BY <2>1, <2>3, <2>4, <2>5, <2>6 DEF AdminMade
  <2>8. QED
    BY <2>1, <2>3, <2>7 DEF LosslessStep
<1>3. ASSUME NEW e \in Usernames, NEW g \in Codes, removeGroup(e, g) PROVE LosslessStep
  <2>1. CASE UNCHANGED tables /\ call = NoCall /\ call' = NoCall
    BY <2>1 DEF LosslessStep, NothingDone, tables
  <2>2. CASE /\ isUserExistsInGroup(g, e) /\ call = NoCall
             /\ PublicGroups' = [PublicGroups EXCEPT ![g] = NoRow]
             /\ call' = Pending("deleteMembers", e, g, 0, ~MayAct(g, e, Admin))
             /\ UNCHANGED <<Users_In_Groups, Lists, seq>>
    <3>1. RowDeleted(e, g)
      BY <2>2 DEF RowDeleted, Pending, isUserExistsInGroup
    <3>2. QED
      BY <3>1 DEF LosslessStep
  <2>3. QED
    BY <1>3, <1>q, <2>1, <2>2 DEF removeGroup, Locked, Throw, Dies, Restart
<1>4. CASE removeGroup_deleteMembers
  <2>1. call.op = "deleteMembers" /\ call.code \in Codes /\ call.code \notin GroupRows
    BY <1>4, <1>z DEF removeGroup_deleteMembers, CountInv, CallCounted
  <2>2. call'.op = "deleteLists" /\ call'.code = call.code
        /\ Users_In_Groups' = DeleteMembers(call.code) /\ UNCHANGED <<PublicGroups, Lists, seq>>
    BY <1>4, <1>q DEF removeGroup_deleteMembers, Pending
  <2>3. QED
    BY <2>1, <2>2 DEF LosslessStep, MembersDeleted
<1>5. CASE removeGroup_deleteLists
  <2>1. call.op = "deleteLists" /\ call.code \in Codes /\ call.code \notin GroupRows
    BY <1>5, <1>z DEF removeGroup_deleteLists, CountInv, CallCounted
  <2>2. call' = NoCall /\ Lists' = Lists \ {call.code}
        /\ UNCHANGED <<PublicGroups, Users_In_Groups, seq>>
    BY <1>5, <1>q DEF removeGroup_deleteLists, Return
  <2>3. QED
    BY <2>1, <2>2 DEF LosslessStep, ListsDeleted
<1>6. ASSUME NEW e \in Usernames, NEW u \in Usernames, NEW g \in Codes, NEW s \in Status,
             addUser(e, g, u, s)
      PROVE  LosslessStep
  <2>1. CASE UNCHANGED tables /\ call = NoCall /\ call' = NoCall
    BY <2>1 DEF LosslessStep, NothingDone, tables
  <2>2. CASE /\ call = NoCall /\ g \in GroupRows /\ ~GroupFull(g)
             /\ isUserExistsInGroup(g, e) /\ ~isUserExistsInGroup(g, u)
             /\ getPermission(s) # Non
             /\ Users_In_Groups' = InsertMember(g, u, s)
             /\ call' = Pending("setNumber", e, g, getNumberOfUsersInGroup(g) + 1,
                                ~MayAct(g, e, FullControl))
             /\ UNCHANGED <<PublicGroups, Lists, seq>>
    <3>1. Users_In_Groups' = WithStatus(g, u, s) /\ s # NoRow
      BY <2>2 DEF InsertMember
    <3>2. Cardinality(Members(g)) < GroupLimit
      <4>1. /\ getNumberOfUsersInGroup(g) \in Int /\ Cardinality(Members(g)) \in Nat
            /\ GroupCounted(g) /\ GroupLimit \in Nat
        BY <2>2, CountTypes, MembersFinite DEF CountInv
      <4>2. IntendedNumber(g) = getNumberOfUsersInGroup(g) /\ AdminPending(g) = 0
        BY <2>2, Idle
      <4>3. getNumberOfUsersInGroup(g) # GroupLimit
        BY <2>2 DEF GroupFull
      <4>4. QED
        BY <1>z, <4>1, <4>2, <4>3 DEF GroupCounted, Drift
    <3>3. call'.op = "setNumber" /\ e \in Members(g) /\ u \notin Members(g)
      BY <2>2 DEF Pending, isUserExistsInGroup
    <3>4. MemberChanged(e, g, u, s)
      BY <2>2, <3>1, <3>2, <3>3 DEF MemberChanged
    <3>5. QED
      BY <3>4 DEF LosslessStep
  <2>3. QED
    BY <1>6, <1>q, <2>1, <2>2 DEF addUser, Locked, Throw, Dies, Restart
<1>7. ASSUME NEW e \in Usernames, NEW u \in Usernames, NEW g \in Codes, removeUser(e, g, u)
      PROVE  LosslessStep
  <2>1. CASE UNCHANGED tables /\ call = NoCall /\ call' = NoCall
    BY <2>1 DEF LosslessStep, NothingDone, tables
  <2>2. CASE /\ call = NoCall /\ g \in GroupRows /\ EffectorAndTargetAccepted(e, g, u)
             /\ Users_In_Groups' = WithStatus(g, u, NoRow)
             /\ call' = Pending("setNumber", e, g, NumberAfterRemoval(g), FALSE)
             /\ UNCHANGED <<PublicGroups, Lists, seq>>
    <3>1. call'.op = "setNumber" /\ e \in Members(g)
      BY <2>2 DEF Pending, isUserExistsInGroup, EffectorAndTargetAccepted
    <3>2. MemberChanged(e, g, u, NoRow)
      BY <2>2, <3>1 DEF MemberChanged
    <3>3. QED
      BY <3>2 DEF LosslessStep
  <2>3. QED
    BY <1>7, <1>q, <2>1, <2>2 DEF removeUser, EffectorAndTargetRefused, Locked, Throw, Dies, Restart
<1>8. CASE setNumberOfUsers
  <2>1. call.op = "setNumber" /\ call.code \in GroupRows /\ call.number_of_users \in Int
    BY <1>8 DEF setNumberOfUsers, CountInv, CallCounted, TypeOK, Calls
  <2>2. /\ call' = NoCall /\ UNCHANGED <<Users_In_Groups, Lists, seq>>
        /\ PublicGroups' = [PublicGroups EXCEPT ![call.code].number_of_users = call.number_of_users]
    BY <1>8, <1>q, <2>1 DEF setNumberOfUsers, Return, SetNumber, GroupRows
  <2>3. NumberSet(call.code, call.number_of_users) /\ call.code \in Codes
    BY <2>1, <2>2 DEF NumberSet, GroupRows
  <2>4. QED
    BY <2>1, <2>3 DEF LosslessStep
<1>9. ASSUME NEW e \in Usernames, NEW u \in Usernames, NEW g \in Codes, NEW s \in Status,
             setUserStatus(e, g, u, s)
      PROVE  LosslessStep
  <2>1. CASE UNCHANGED tables /\ call = NoCall /\ call' = NoCall
    BY <2>1 DEF LosslessStep, NothingDone, tables
  <2>2. CASE /\ call = NoCall /\ EffectorAndTargetAccepted(e, g, u)
             /\ Users_In_Groups' = WithStatus(g, u, s)
             /\ call' = NoCall
             /\ UNCHANGED <<PublicGroups, Lists, seq>>
    <3>1. call'.op = "none" /\ e \in Members(g) /\ g \in GroupRows
      BY <1>m, <2>2 DEF NoCall, Pending, isUserExistsInGroup, EffectorAndTargetAccepted
    <3>2. MemberChanged(e, g, u, s)
      BY <2>2, <3>1 DEF MemberChanged
    <3>3. QED
      BY <3>2 DEF LosslessStep
  <2>3. QED
    BY <1>9, <1>q, <2>1, <2>2
    DEF setUserStatus, EffectorAndTargetRefused, Locked, Throw, Return
<1>10. ASSUME NEW e \in Usernames, NEW g \in Codes, EditList(e, g) PROVE LosslessStep
  <2>1. ListEdited(e, g)
    BY <1>10, <1>m DEF EditList, ListEdited, isUserExistsInGroup
  <2>2. QED
    BY <2>1 DEF LosslessStep
<1>11. CASE Kill
  BY <1>11, <1>q DEF Kill, Restart, LosslessStep, NothingDone, tables
<1>12. CASE UNCHANGED vars
  BY <1>12 DEF vars, LosslessStep, NothingDone
<1>13. QED
  BY <1>z, <1>1, <1>2, <1>3, <1>4, <1>5, <1>6, <1>7, <1>8, <1>9, <1>10, <1>11, <1>12
  DEF Next, Begin, Step

\* The parts of the type invariant that the proofs below need.
LEMMA TableTypes ==
    ASSUME TypeOK
    PROVE  /\ PublicGroups \in [Codes -> GroupRow \cup {NoRow}]
           /\ Users_In_Groups \in [Codes -> [Usernames -> Status \cup {NoRow}]]
           /\ Lists \in SUBSET Codes
           /\ \A g \in GroupRows : g \in Codes /\ PublicGroups[g].admin \in Usernames
  BY DEF TypeOK, GroupRows, GroupRow

\* Every lossless step keeps the rows owned.
LEMMA IntegrityStep ==
    TypeOK /\ CodesInv /\ CountInv /\ IntegrityInv /\ [Next]_vars => IntegrityInv'
<1> SUFFICES ASSUME TypeOK, CodesInv, CountInv, IntegrityInv, [Next]_vars, faults' = 0,
                    NEW h \in Codes
             PROVE  RowsOwned(h)'
  BY DEF IntegrityInv
<1> USE ConstantFacts, TableTypes
<1>1. faults = 0 /\ LosslessStep
  BY LosslessSteps
<1>2. RowsOwned(h)
  BY <1>1 DEF IntegrityInv
<1>n. call = NoCall => call.op = "none"
  BY DEF NoCall, Pending
<1>p. call' = NoCall => call'.op = "none"
  BY DEF NoCall, Pending
<1>3. CASE NothingDone
  BY <1>2, <1>3 DEF NothingDone, RowsOwned, Members, GroupRows
<1>4. ASSUME NEW e \in Usernames, NEW g \in Codes, RowMade(e, g) PROVE RowsOwned(h)'
  <2>1. /\ PublicGroups'[g] = NewGroupRow(e) /\ NewGroupRow(e).admin = e
        /\ h # g => PublicGroups'[h] = PublicGroups[h]
        /\ NewGroupRow(e) # NoRow
    BY <1>4 DEF RowMade, NewGroupRow, GroupRow
  <2>2. /\ call = NoCall /\ call'.op = "insertAdmin" /\ call'.code = g /\ call'.effector = e
        /\ UNCHANGED <<Users_In_Groups, Lists>>
    BY <1>4 DEF RowMade
  <2>3. QED
    BY <1>2, <1>n, <2>1, <2>2 DEF RowsOwned, Members, GroupRows
<1>5. ASSUME NEW e \in Usernames, NEW g \in Codes, AdminMade(e, g) PROVE RowsOwned(h)'
  <2>1. /\ call.op = "insertAdmin" /\ call.code = g /\ call.effector = e /\ call'.op = "none"
        /\ g \in GroupRows /\ UNCHANGED <<PublicGroups, Lists>>
    BY <1>5, <1>p DEF AdminMade
  <2>2. \A k \in Codes, v \in Usernames :
           Users_In_Groups'[k][v] = IF k = g /\ v = e THEN "admin" ELSE Users_In_Groups[k][v]
    BY <1>5 DEF AdminMade, WithStatus
  <2>3. "admin" # NoRow
    BY DEF Status
  <2>4. QED
    BY <1>2, <2>1, <2>2, <2>3 DEF RowsOwned, Members, GroupRows
<1>6. ASSUME NEW e \in Usernames, NEW g \in Codes, RowDeleted(e, g) PROVE RowsOwned(h)'
  <2>1. /\ PublicGroups'[g] = NoRow /\ (h # g => PublicGroups'[h] = PublicGroups[h])
        /\ call = NoCall /\ call'.op = "deleteMembers" /\ call'.code = g
        /\ UNCHANGED <<Users_In_Groups, Lists>>
    BY <1>6 DEF RowDeleted
  <2>2. QED
    BY <1>2, <1>n, <2>1 DEF RowsOwned, Members, GroupRows
<1>7. ASSUME NEW g \in Codes, MembersDeleted(g) PROVE RowsOwned(h)'
  <2>1. /\ call.op = "deleteMembers" /\ call.code = g /\ call'.op = "deleteLists" /\ call'.code = g
        /\ g \notin GroupRows /\ UNCHANGED <<PublicGroups, Lists>>
    BY <1>7 DEF MembersDeleted
  <2>2. \A v \in Usernames :
           Users_In_Groups'[h][v] = IF h = g THEN NoRow ELSE Users_In_Groups[h][v]
    BY <1>7 DEF MembersDeleted, DeleteMembers
  <2>3. QED
    BY <1>2, <2>1, <2>2 DEF RowsOwned, Members, GroupRows
<1>8. ASSUME NEW g \in Codes, ListsDeleted(g) PROVE RowsOwned(h)'
  BY <1>2, <1>8, <1>p DEF ListsDeleted, RowsOwned, Members, GroupRows
<1>9. ASSUME NEW e \in Usernames, NEW g \in Codes, NEW u \in Usernames,
             NEW s \in Status \cup {NoRow}, MemberChanged(e, g, u, s)
      PROVE  RowsOwned(h)'
  <2>1. /\ call.op = "none" /\ call'.op \in {"none", "setNumber"} /\ g \in GroupRows
        /\ UNCHANGED <<PublicGroups, Lists>>
    BY <1>9, <1>n DEF MemberChanged
  <2>2. \A k \in Codes, v \in Usernames :
           Users_In_Groups'[k][v] = IF k = g /\ v = u THEN s ELSE Users_In_Groups[k][v]
    BY <1>9 DEF MemberChanged, WithStatus
  <2>3. Users_In_Groups[g][u] # "admin"
    <3>1. CASE u \notin Members(g)
      BY <3>1 DEF Members, Status
    <3>2. CASE EffectorAndTargetAccepted(e, g, u)
      BY <3>2, AdminLevel DEF EffectorAndTargetAccepted, TargetIsAdmin
    <3>3. QED
      BY <1>9, <3>1, <3>2 DEF MemberChanged
  <2>4. QED
    BY <1>2, <2>1, <2>2, <2>3 DEF RowsOwned, Members, GroupRows
<1>10. ASSUME NEW g \in Codes, NEW n \in Int, NumberSet(g, n) PROVE RowsOwned(h)'
  <2>1. /\ call.op = "setNumber" /\ call'.op = "none" /\ UNCHANGED <<Users_In_Groups, Lists>>
        /\ g \in GroupRows
    BY <1>10, <1>p DEF NumberSet
  <2>2. /\ h \in GroupRows' <=> h \in GroupRows
        /\ h \in GroupRows => PublicGroups'[h].admin = PublicGroups[h].admin
    BY <1>10 DEF NumberSet, GroupRows, GroupRow
  <2>3. QED
    BY <1>2, <2>1, <2>2 DEF RowsOwned, Members
<1>11. ASSUME NEW e \in Usernames, NEW g \in Codes, ListEdited(e, g) PROVE RowsOwned(h)'
  BY <1>2, <1>11, <1>n, <1>p DEF ListEdited, RowsOwned, Members, GroupRows
<1>12. QED
  BY <1>1, <1>3, <1>4, <1>5, <1>6, <1>7, <1>8, <1>9, <1>10, <1>11 DEF LosslessStep

\* The four invariants are inductive together.
LEMMA AllInvariants == Spec => [](TypeOK /\ CodesInv /\ CountInv /\ IntegrityInv)
<1>1. Init => IntegrityInv
  BY ConstantFacts DEF Init, IntegrityInv, RowsOwned, Members, GroupRows
<1>2. QED
  BY <1>1, GroupInvariants, IntegrityStep, PTL DEF Spec

\* Without faults the foreign keys hold between calls although nobody enforces
\* them, and the admin column names an admin.
THEOREM ReferentialIntegrityHolds == Spec => []ReferentialIntegrity
<1>1. IntegrityInv => ReferentialIntegrity
  BY DEF IntegrityInv, RowsOwned, ReferentialIntegrity, NoCall, Pending
<1>2. QED
  BY <1>1, AllInvariants, PTL
-----------------------------------------------------------------------------
(***************************************************************************)
(* Refinement                                                              *)
(***************************************************************************)

\* A group that has a row shows its membership, another one shows none.
LEMMA Shown ==
    ASSUME TypeOK, NEW g \in Codes
    PROVE  /\ g \in GroupRows => membersBar[g] = Users_In_Groups[g] /\ Abstract!In(g) = Members(g)
           /\ g \notin GroupRows => membersBar[g] = [u \in Usernames |-> NoRow]
  BY DEF membersBar, Abstract!In, Members

\* Groups counts, and speaks of statuses and permissions, as PublicGroup does.
LEMMA Vocabulary ==
    /\ Abstract!Status = Status
    /\ Abstract!Non = Non /\ Abstract!FullControl = FullControl /\ Abstract!ReadWrite = ReadWrite
    /\ \A s : Abstract!getPermission(s) = getPermission(s)
    /\ \A s, p : Abstract!isAuthorized(s, p) <=> isAuthorized(s, p)
    /\ \A S : Abstract!Cardinality(S) = Cardinality(S)
<1>1. Abstract!Status = Status
  BY DEF Abstract!Status, Status
<1>2. /\ Abstract!Non = Non /\ Abstract!FullControl = FullControl /\ Abstract!ReadWrite = ReadWrite
      /\ Abstract!Admin = Admin /\ Abstract!Read = Read
  BY DEF Abstract!Non, Non, Abstract!FullControl, FullControl, Abstract!ReadWrite, ReadWrite,
     Abstract!Admin, Admin, Abstract!Read, Read
<1>3. \A s : Abstract!getPermission(s) = getPermission(s)
  BY <1>2 DEF Abstract!getPermission, getPermission
<1>4. \A s, p : Abstract!isAuthorized(s, p) <=> isAuthorized(s, p)
  BY <1>3 DEF Abstract!isAuthorized, isAuthorized
<1>5. \A S : Abstract!Cardinality(S) = Cardinality(S)
  BY DEF Abstract!Cardinality, Cardinality
<1>6. QED
  BY <1>1, <1>2, <1>3, <1>4, <1>5

\* Two memberships with the same rows are the same.
LEMMA SameRows ==
    ASSUME NEW A \in [Codes -> [Usernames -> Status \cup {NoRow}]],
           NEW B \in [Codes -> [Usernames -> Status \cup {NoRow}]],
           \A h \in Codes, v \in Usernames : A[h][v] = B[h][v]
    PROVE  A = B
<1>1. \A h \in Codes : A[h] = B[h]
  OBVIOUS
<1>2. QED
  BY <1>1

\* A lossless step changes a group for the caller all at once or not at all.
LEMMA LosslessRefines ==
    ASSUME TypeOK, TypeOK', CodesInv, IntegrityInv, faults = 0, LosslessStep
    PROVE  [Abstract!ANext]_(Abstract!avars)
<1> USE ConstantFacts, TableTypes
<1>n. call = NoCall => call.op = "none"
  BY DEF NoCall, Pending
<1>p. call' = NoCall => call'.op = "none"
  BY DEF NoCall, Pending
<1>s. seq \in Nat /\ Codes = 1 .. MaxCode
  BY DEF TypeOK, Codes
<1>b. /\ membersBar \in [Codes -> [Usernames -> Status \cup {NoRow}]]
      /\ membersBar' \in [Codes -> [Usernames -> Status \cup {NoRow}]]
  BY DEF membersBar, TypeOK
<1>r. ASSUME NEW h \in Codes, NEW v \in Usernames
      PROVE  /\ membersBar[h][v] = IF h \in GroupRows THEN Users_In_Groups[h][v] ELSE NoRow
             /\ membersBar'[h][v] = IF h \in GroupRows' THEN Users_In_Groups'[h][v] ELSE NoRow
  BY DEF membersBar, TypeOK
<1>u. (call.op # "insertAdmin" => usedBar = {g \in Codes : g <= seq})
      /\ (call'.op # "insertAdmin" => usedBar' = {g \in Codes : g <= seq'})
  BY <1>s DEF usedBar
<1>3. CASE NothingDone
  <2>1. UNCHANGED <<membersBar, listedBar, usedBar>>
    BY <1>3 DEF NothingDone, membersBar, listedBar, usedBar, GroupRows
  <2>2. QED
    BY <2>1 DEF Abstract!avars
<1>4. ASSUME NEW e \in Usernames, NEW g \in Codes, RowMade(e, g)
      PROVE  UNCHANGED Abstract!avars
  <2>1. /\ PublicGroups'[g] # NoRow /\ g \notin GroupRows /\ g \notin Lists
        /\ \A h \in Codes : h # g => PublicGroups'[h] = PublicGroups[h]
        /\ \A v \in Usernames : Users_In_Groups[g][v] = NoRow
        /\ UNCHANGED <<Users_In_Groups, Lists>> /\ g = seq + 1 /\ seq' = g
        /\ call = NoCall /\ call'.op = "insertAdmin" /\ call'.code = g
    <3>1. g > seq /\ NewGroupRow(e) # NoRow
      BY <1>4, <1>s DEF RowMade, NewGroupRow, GroupRow
    <3>2. g \notin GroupRows /\ g \notin Lists /\ Members(g) = {}
      BY <3>1 DEF CodesInv
    <3>3. QED
      BY <1>4, <3>1, <3>2 DEF RowMade, Members
  <2>2. \A h \in Codes, v \in Usernames : membersBar'[h][v] = membersBar[h][v]
    BY <1>r, <2>1 DEF GroupRows
  <2>3. membersBar' = membersBar
    BY <1>b, <2>2, SameRows
  <2>4. listedBar' = listedBar
    BY <2>1 DEF listedBar, GroupRows
  <2>5. usedBar' = usedBar
    <3>1. usedBar' = {h \in Codes : h <= g} \ {g}
      BY <2>1 DEF usedBar
    <3>2. usedBar = {h \in Codes : h <= seq}
      BY <1>u, <1>n, <2>1
    <3>3. QED
      BY <1>s, <2>1, <3>1, <3>2
  <2>6. QED
    BY <2>3, <2>4, <2>5 DEF Abstract!avars
<1>5. ASSUME NEW e \in Usernames, NEW g \in Codes, AdminMade(e, g)
      PROVE  Abstract!Create(e, g)
  <2>1. /\ call.op = "insertAdmin" /\ call.code = g /\ call'.op = "none"
        /\ g \in GroupRows /\ g <= seq /\ UNCHANGED <<PublicGroups, Lists, seq>>
        /\ \A v \in Usernames : Users_In_Groups[g][v] = NoRow
    BY <1>5, <1>p DEF AdminMade, Members
  <2>2. \A h \in Codes, v \in Usernames :
           Users_In_Groups'[h][v] = IF h = g /\ v = e THEN "admin" ELSE Users_In_Groups[h][v]
    BY <1>5 DEF AdminMade, WithStatus
  <2>3. /\ usedBar = {h \in Codes : h <= seq} \ {g}
        /\ usedBar' = {h \in Codes : h <= seq}
    BY <1>u, <2>1 DEF usedBar
  <2>4. g \in Codes \ usedBar /\ usedBar' = usedBar \cup {g}
    BY <2>1, <2>3
  <2>5. listedBar' = listedBar
    BY <2>1 DEF listedBar, GroupRows
  <2>6. membersBar' = [membersBar EXCEPT ![g] =
                          [v \in Usernames |-> IF v = e THEN "admin" ELSE NoRow]]
    <3> DEFINE B == [membersBar EXCEPT ![g] =
                        [v \in Usernames |-> IF v = e THEN "admin" ELSE NoRow]]
    <3>1. B \in [Codes -> [Usernames -> Status \cup {NoRow}]]
      BY <1>b DEF Status
    <3>2. \A h \in Codes, v \in Usernames : membersBar'[h][v] = B[h][v]
      <4>1. \A h \in Codes, v \in Usernames :
               B[h][v] = IF h = g THEN (IF v = e THEN "admin" ELSE NoRow) ELSE membersBar[h][v]
        BY <1>b
      <4>2. GroupRows' = GroupRows
        BY <2>1 DEF GroupRows
      <4>3. QED
        BY <1>r, <2>1, <2>2, <4>1, <4>2
    <3>3. membersBar' = B
      BY <1>b, <3>1, <3>2, SameRows
    <3>4. QED
      BY <3>3
  <2>7. QED
    BY <2>4, <2>5, <2>6 DEF Abstract!Create
<1>6. ASSUME NEW e \in Usernames, NEW g \in Codes, RowDeleted(e, g)
      PROVE  Abstract!Close(e, g)
  <2>1. /\ call = NoCall /\ call'.op = "deleteMembers" /\ e \in Members(g)
        /\ UNCHANGED <<Users_In_Groups, Lists, seq>>
        /\ PublicGroups'[g] = NoRow
        /\ \A h \in Codes : h # g => PublicGroups'[h] = PublicGroups[h]
    BY <1>6 DEF RowDeleted
  <2>2. g \in GroupRows
    BY <1>n, <2>1 DEF IntegrityInv, RowsOwned
  <2>3. e \in Abstract!In(g)
    BY <2>1, <2>2, Shown
  <2>4. usedBar' = usedBar
    BY <1>n, <1>u, <2>1
  <2>5. listedBar' = listedBar \ {g}
    BY <2>1 DEF listedBar, GroupRows
  <2>6. membersBar' = [membersBar EXCEPT ![g] = [v \in Usernames |-> NoRow]]
    <3> DEFINE B == [membersBar EXCEPT ![g] = [v \in Usernames |-> NoRow]]
    <3>1. B \in [Codes -> [Usernames -> Status \cup {NoRow}]]
      BY <1>b
    <3>2. \A h \in Codes, v \in Usernames : membersBar'[h][v] = B[h][v]
      <4>1. \A h \in Codes, v \in Usernames :
               B[h][v] = IF h = g THEN NoRow ELSE membersBar[h][v]
        BY <1>b
      <4>2. QED
        BY <1>r, <2>1, <4>1 DEF GroupRows
    <3>3. membersBar' = B
      BY <1>b, <3>1, <3>2, SameRows
    <3>4. QED
      BY <3>3
  <2>7. QED
    BY <2>3, <2>4, <2>5, <2>6 DEF Abstract!Close
<1>7. ASSUME NEW g \in Codes, MembersDeleted(g) PROVE UNCHANGED Abstract!avars
  <2>1. /\ call.op = "deleteMembers" /\ call'.op = "deleteLists"
        /\ g \notin GroupRows /\ UNCHANGED <<PublicGroups, Lists, seq>>
    BY <1>7 DEF MembersDeleted
  <2>2. \A h \in Codes : h # g => Users_In_Groups'[h] = Users_In_Groups[h]
    BY <1>7 DEF MembersDeleted, DeleteMembers
  <2>3. \A h \in Codes, v \in Usernames : membersBar'[h][v] = membersBar[h][v]
    BY <1>r, <2>1, <2>2 DEF GroupRows
  <2>4. membersBar' = membersBar
    BY <1>b, <2>3, SameRows
  <2>5. listedBar' = listedBar /\ usedBar' = usedBar
    BY <1>u, <2>1 DEF listedBar, GroupRows
  <2>6. QED
    BY <2>4, <2>5 DEF Abstract!avars
<1>8. ASSUME NEW g \in Codes, ListsDeleted(g) PROVE UNCHANGED Abstract!avars
  <2>1. /\ call.op = "deleteLists" /\ call'.op = "none" /\ Lists' = Lists \ {g}
        /\ g \notin GroupRows /\ UNCHANGED <<PublicGroups, Users_In_Groups, seq>>
    BY <1>8, <1>p DEF ListsDeleted
  <2>2. membersBar' = membersBar
    BY <2>1 DEF membersBar, GroupRows
  <2>3. listedBar' = listedBar /\ usedBar' = usedBar
    BY <1>u, <2>1 DEF listedBar, GroupRows
  <2>4. QED
    BY <2>2, <2>3 DEF Abstract!avars
<1>9. ASSUME NEW e \in Usernames, NEW g \in Codes, NEW u \in Usernames,
             NEW s \in Status \cup {NoRow}, MemberChanged(e, g, u, s)
      PROVE  Abstract!ANext
  <2>1. /\ call.op = "none" /\ call'.op \in {"none", "setNumber"}
        /\ g \in GroupRows /\ e \in Members(g) /\ UNCHANGED <<PublicGroups, Lists, seq>>
    BY <1>9, <1>n DEF MemberChanged
  <2>2. \A h \in Codes, v \in Usernames :
           Users_In_Groups'[h][v] = IF h = g /\ v = u THEN s ELSE Users_In_Groups[h][v]
    BY <1>9 DEF MemberChanged, WithStatus
  <2>3. membersBar' = [membersBar EXCEPT ![g][u] = s]
    <3> DEFINE B == [membersBar EXCEPT ![g][u] = s]
    <3>1. B \in [Codes -> [Usernames -> Status \cup {NoRow}]]
      BY <1>b
    <3>2. \A h \in Codes, v \in Usernames : membersBar'[h][v] = B[h][v]
      <4>1. \A h \in Codes, v \in Usernames :
               B[h][v] = IF h = g /\ v = u THEN s ELSE membersBar[h][v]
        BY <1>b
      <4>2. GroupRows' = GroupRows
        BY <2>1 DEF GroupRows
      <4>3. QED
        BY <1>r, <2>1, <2>2, <4>1, <4>2
    <3>3. membersBar' = B
      BY <1>b, <3>1, <3>2, SameRows
    <3>4. QED
      BY <3>3
  <2>4. listedBar' = listedBar /\ usedBar' = usedBar
    BY <1>u, <2>1 DEF listedBar, GroupRows
  <2>5. Abstract!In(g) = Members(g) /\ membersBar[g] = Users_In_Groups[g]
    BY <2>1, Shown
  <2>6. CASE /\ s # NoRow /\ getPermission(s) # Non /\ u \notin Members(g)
             /\ Cardinality(Members(g)) < GroupLimit
    <3>1. Abstract!Invite(e, g, u, s)
      BY <2>1, <2>3, <2>4, <2>5, <2>6, Vocabulary DEF Abstract!Invite
    <3>2. QED
      BY <2>6, <3>1, Vocabulary DEF Abstract!ANext
  <2>7. CASE EffectorAndTargetAccepted(e, g, u)
    <3>1. Abstract!Manages(e, g, u)
      BY <2>1, <2>5, <2>7, AdminLevel, Vocabulary
      DEF Abstract!Manages, EffectorAndTargetAccepted, MayAct, TargetIsAdmin, isUserExistsInGroup
    <3>2. CASE s = NoRow
      BY <2>3, <2>4, <3>1, <3>2 DEF Abstract!ANext, Abstract!Expel
    <3>3. CASE s \in Status
      BY <2>3, <2>4, <3>1, <3>3, Vocabulary DEF Abstract!ANext, Abstract!SetStatus
    <3>4. QED
      BY <3>2, <3>3
  <2>8. QED
    BY <1>9, <2>6, <2>7 DEF MemberChanged
<1>10. ASSUME NEW g \in Codes, NEW n \in Int, NumberSet(g, n) PROVE UNCHANGED Abstract!avars
  <2>1. /\ call.op = "setNumber" /\ call'.op = "none" /\ UNCHANGED <<Users_In_Groups, Lists, seq>>
    BY <1>10, <1>p DEF NumberSet
  <2>2. GroupRows' = GroupRows
    BY <1>10 DEF NumberSet, GroupRows, GroupRow
  <2>3. membersBar' = membersBar /\ listedBar' = listedBar /\ usedBar' = usedBar
    BY <1>u, <2>1, <2>2 DEF membersBar, listedBar
  <2>4. QED
    BY <2>3 DEF Abstract!avars
<1>11. ASSUME NEW e \in Usernames, NEW g \in Codes, ListEdited(e, g)
       PROVE  Abstract!Edit(e, g)
  <2>1. /\ call.op = "none" /\ call'.op = "none" /\ g \in GroupRows /\ e \in Members(g)
        /\ MayAct(g, e, ReadWrite) /\ UNCHANGED <<PublicGroups, Users_In_Groups, seq>>
        /\ Lists' \in {Lists \cup {g}, Lists \ {g}}
    BY <1>11, <1>n, <1>p DEF ListEdited
  <2>2. membersBar' = membersBar /\ usedBar' = usedBar
    BY <1>u, <2>1 DEF membersBar, GroupRows
  <2>3. listedBar' \in {listedBar \cup {g}, listedBar \ {g}}
    BY <2>1 DEF listedBar, GroupRows
  <2>4. e \in Abstract!In(g) /\ isAuthorized(membersBar[g][e], ReadWrite)
    BY <2>1, Shown DEF MayAct
  <2>5. QED
    BY <2>2, <2>3, <2>4, Vocabulary DEF Abstract!Edit
<1>12. QED
  BY <1>3, <1>4, <1>5, <1>6, <1>7, <1>8, <1>9, <1>10, <1>11 DEF LosslessStep, Abstract!ANext

\* Up to the first fault PublicGroup implements Groups: the counter that addUser
\* tests stands for the size of the group, and createGroup and removeGroup are
\* atomic for the caller although they take two and three statements.
THEOREM GroupsImplemented == Spec => ImplementsGroups
<1>1. Init => Abstract!AInit
  <2> SUFFICES ASSUME Init PROVE Abstract!AInit
    OBVIOUS
  <2>1. GroupRows = {} /\ seq = 0 /\ Lists = {}
    BY DEF Init, GroupRows
  <2>2. usedBar = {}
    BY <2>1, ConstantFacts DEF usedBar, Codes
  <2>3. QED
    BY <2>1, <2>2 DEF Abstract!AInit, membersBar, listedBar
<1>2. TypeOK /\ CodesInv /\ CountInv /\ IntegrityInv /\ [Next]_vars
        => [faults' = 0 => Abstract!ANext]_(Abstract!avars)
  BY TypeStep, LosslessSteps, LosslessRefines
<1>3. QED
  BY <1>1, <1>2, AllInvariants, PTL DEF Spec, ImplementsGroups
=============================================================================
