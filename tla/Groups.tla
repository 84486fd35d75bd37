------------------------------- MODULE Groups -------------------------------
(***************************************************************************)
(* What PublicGroup promises its callers when no statement is lost: groups *)
(* with members, changed by atomic operations.  There is no number_of_     *)
(* users here; the limit is on the membership itself.  There is no admin   *)
(* column either, and no mutex.                                            *)
(***************************************************************************)
EXTENDS Database, FiniteSets

CONSTANTS Codes, GroupLimit

VARIABLES
    members,  \* group -> user -> status, NoRow for who is not in the group
    listed,   \* the groups with a shopping list
    used      \* the codes given out so far

avars == <<members, listed, used>>

In(g) == {u \in Usernames : members[g][u] # NoRow}

AInit ==
    /\ members = [g \in Codes |-> [u \in Usernames |-> NoRow]]
    /\ listed = {}
    /\ used = {}

\* A new group has exactly one member, its admin.
Create(admin, g) ==
    /\ g \in Codes \ used
    /\ used' = used \cup {g}
    /\ members' = [members EXCEPT ![g] =
                      [u \in Usernames |-> IF u = admin THEN "admin" ELSE NoRow]]
    /\ UNCHANGED listed

\* Any member may close the group, which takes members and list with it.
Close(effector, g) ==
    /\ effector \in In(g)
    /\ members' = [members EXCEPT ![g] = [u \in Usernames |-> NoRow]]
    /\ listed' = listed \ {g}
    /\ UNCHANGED used

\* Any member may bring in somebody new, with a known status, up to the limit.
Invite(effector, g, u, s) ==
    /\ effector \in In(g) /\ u \notin In(g)
    /\ getPermission(s) # Non
    /\ Cardinality(In(g)) < GroupLimit
    /\ members' = [members EXCEPT ![g][u] = s]
    /\ UNCHANGED <<listed, used>>

Manages(effector, g, u) ==
    /\ effector \in In(g) /\ u \in In(g)
    /\ isAuthorized(members[g][effector], FullControl)
    /\ members[g][u] # "admin"

Expel(effector, g, u) ==
    /\ Manages(effector, g, u)
    /\ members' = [members EXCEPT ![g][u] = NoRow]
    /\ UNCHANGED <<listed, used>>

SetStatus(effector, g, u, s) ==
    /\ Manages(effector, g, u)
    /\ members' = [members EXCEPT ![g][u] = s]
    /\ UNCHANGED <<listed, used>>

Edit(effector, g) ==
    /\ effector \in In(g)
    /\ isAuthorized(members[g][effector], ReadWrite)
    /\ listed' \in {listed \cup {g}, listed \ {g}}
    /\ UNCHANGED <<members, used>>

ANext ==
    \E e \in Usernames, g \in Codes :
        \/ Create(e, g) \/ Close(e, g) \/ Edit(e, g)
        \/ \E u \in Usernames :
              \/ Expel(e, g, u)
              \/ \E s \in Status : Invite(e, g, u, s) \/ SetStatus(e, g, u, s)

ASpec == AInit /\ [][ANext]_avars
=============================================================================
