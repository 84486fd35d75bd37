------------------------------ MODULE Database ------------------------------
(***************************************************************************)
(* What Database.h and Database.cpp give to every other component: the     *)
(* permission scale, and the shape of the tables.  A table is a total      *)
(* function from its PRIMARY KEY to its remaining columns, or to NoRow.    *)
(* SQLite itself is not under src/; the tables are modelled from the DDL   *)
(* and from the statements the components send to DataBase::query.         *)
(***************************************************************************)
EXTENDS Integers

CONSTANTS
    Usernames,   \* the names a session can carry, the empty name included
    NoRow        \* the value of a table at a key it has no row for

\* The status column of Users_In_Groups is free text.  The code only ever
\* compares it with four strings; "other" stands for all the rest.
Status == {"admin", "fc", "rw", "r", "other"}

ASSUME NoRowAssumption == NoRow \notin Status

(***************************************************************************)
(* Permissions                                                             *)
(***************************************************************************)
Admin       == 4
FullControl == 3
ReadWrite   == 2
Read        == 1
Non         == 0

\* Permissions::getPermission, as the level of the Permission it returns.
getPermission(status) ==
    CASE status = "admin" -> Admin
      [] status = "fc"    -> FullControl
      [] status = "rw"    -> ReadWrite
      [] status = "r"     -> Read
      [] OTHER            -> Non

isAuthorized(status, requested) == getPermission(status) >= requested
=============================================================================
