----------------------- MODULE PublicGroupRefinement -----------------------
(***************************************************************************)
(* PublicGroup implements Groups as long as nothing is killed or lost.     *)
(*                                                                         *)
(* A call takes effect at one of its statements: createGroup at the INSERT *)
(* of the admin's row, removeGroup at the DELETE of the group's row (the   *)
(* rows that are still to go no longer count), addUser and removeUser at   *)
(* the change of Users_In_Groups.  The UPDATE of number_of_users that      *)
(* follows is invisible, which is only sound if the number is right again  *)
(* before the next call reads it.                                          *)
(***************************************************************************)
EXTENDS PublicGroup

membersBar ==
    [g \in Codes |-> IF g \in GroupRows
                     THEN Users_In_Groups[g]
                     ELSE [u \in Usernames |-> NoRow]]

listedBar == Lists \cap GroupRows

usedBar == {g \in Codes : g <= seq} \ {IF call.op = "insertAdmin" THEN call.code ELSE 0}

Abstract == INSTANCE Groups
            WITH members <- membersBar, listed <- listedBar, used <- usedBar

\* Up to the first kill or lost statement, every step of PublicGroup is a step of
\* Groups or changes nothing there: the counter that addUser tests stands for the
\* size of the group, and removeGroup is one atomic removal although it takes
\* three statements.
ImplementsGroups == Abstract!AInit /\ [][faults' = 0 => Abstract!ANext]_(Abstract!avars)
=============================================================================
