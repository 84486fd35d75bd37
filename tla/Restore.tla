------------------------------ MODULE Restore ------------------------------
(***************************************************************************)
(* Restore: all groups of a user with their members and lists as one text, *)
(* the answer to RE_RESTORE.  It reads tables and changes none, so it is   *)
(* an operator on the state of PublicLists.  A text is a sequence of       *)
(* pieces, of which each separator is one; the names and remarks of items  *)
(* are such sequences.                                                     *)
(***************************************************************************)
EXTENDS PublicLists, Texts

CONSTANT
    GroupName   \* group code -> its name

Separators == {"@", "|", ",", "-", ":"}

\* Tables are finite, names and remarks are texts, and a code is written in digits.
ASSUME RestoreAssumption ==
    /\ IsFiniteSet(Codes) /\ IsFiniteSet(Usernames) /\ IsFiniteSet(Items)
    /\ Items \subseteq Seq(STRING) /\ Remarks \subseteq Seq(STRING)
    /\ \A g \in Codes : ToString(g) \notin Separators

GroupsOf(u) == {g \in Codes : isUserExistsInGroup(g, u)}
MembersOf(g) == {u \in Usernames : isUserExistsInGroup(g, u)}
ListOf(g) == {i \in Items : isItemExistsInList(g, i)}

\* The rows of a SELECT: their order is SQLite's.
findGroupsOfUser(u) == SetToSeq(GroupsOf(u))
findUsersInGroup(g) == SetToSeq(MembersOf(g))
findItemsInGroup(g) == SetToSeq(ListOf(g))

\* to_string of a quantity; a minus sign is a dash.
QuantityText(q) ==
    CASE q = Null -> <<>>
      [] q # Null /\ q >= 0 -> <<ToString(q)>>
      [] OTHER -> <<"-", ToString(-q)>>

removeLastChar(st) == Front(st)

UserEntry(g, u) == <<u, ":", Users_In_Groups[g][u]>>
ItemEntry(g, i) ==
    i \o <<":">> \o QuantityText(Lists[g][i].quantity) \o <<":">> \o Lists[g][i].remarks

\* Each entry of a loop is followed by a dash, and the last dash is removed.
AppendEntriesUntrimmed(ret, entries) == ret \o Terminated(entries, "-")
AppendEntries(ret, entries) == removeLastChar(ret \o Terminated(entries, "-"))

\* The code and the name of a group, as the start of its text.
getNextGroup(g) == <<ToString(g), ",", GroupName[g], ",">>

GroupText(g) ==
    LET users == findUsersInGroup(g)
        items == findItemsInGroup(g)
        upto  == AppendEntries(getNextGroup(g), [k \in DOMAIN users |-> UserEntry(g, users[k])])
    IN  AppendEntries(upto \o <<",">>, [k \in DOMAIN items |-> ItemEntry(g, items[k])]) \o <<"|">>

buildRestoreMessage(u) ==
    LET groups == findGroupsOfUser(u)
    IN  <<"@", "400", "|">> \o FlattenSeq([k \in DOMAIN groups |-> GroupText(groups[k])]) \o <<"|">>
-----------------------------------------------------------------------------
(***************************************************************************)
(* The reader of the message, from the structure that Restore.h documents: *)
(* code,groupname,user1:status-user2:status,item1:quantity:remarks-item2.. *)
(***************************************************************************)
AllPieces(entries, separator) == {Pieces(entries[k], separator) : k \in DOMAIN entries}

GroupFields(message) ==
    LET parts == Pieces(message, "|")
    IN  {Pieces(parts[k], ",") : k \in 2 .. Len(parts) - 2}

Decoded(message) ==
    {[code |-> f[1], name |-> f[2],
      users |-> AllPieces(Pieces(f[3], "-"), ":"),
      items |-> AllPieces(Pieces(f[4], "-"), ":")] : f \in GroupFields(message)}

Plain(text) == \A k \in DOMAIN text : text[k] \notin Separators

PlainNames(g) == Plain(<<GroupName[g]>>) /\ \A v \in MembersOf(g) : Plain(<<v>>)

\* What a reader needs: a list that is not empty, no separator in a name or
\* remark, and no negative quantity.
Readable(g) ==
    /\ ListOf(g) # {}
    /\ PlainNames(g)
    /\ \A i \in ListOf(g) :
          /\ Plain(i) /\ Plain(Lists[g][i].remarks)
          /\ Plain(QuantityText(Lists[g][i].quantity))

Stored(u) ==
    {[code |-> <<ToString(g)>>, name |-> <<GroupName[g]>>,
      users |-> {<< <<v>>, <<Users_In_Groups[g][v]>> >> : v \in MembersOf(g)},
      items |-> {<<i, QuantityText(Lists[g][i].quantity), Lists[g][i].remarks>> :
                     i \in ListOf(g)}] : g \in GroupsOf(u)}

\* A client that reads the message by the documented structure gets exactly the
\* tables, as long as every group of the user is readable.  Negative quantities
\* come from addItem or from an overflow; an empty list is removeLastChar's doing:
\* it takes the comma before the list, and the group arrives with three fields.
RestoreDecodes ==
    \A u \in Usernames :
        /\ (\A g \in GroupsOf(u) : Readable(g)) => Decoded(buildRestoreMessage(u)) = Stored(u)
        /\ (\A g \in GroupsOf(u) : ListOf(g) = {} /\ PlainNames(g)) =>
               \A f \in GroupFields(buildRestoreMessage(u)) : Len(f) = 3
=============================================================================
