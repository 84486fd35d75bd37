---------------------------- MODULE PublicLists ----------------------------
(***************************************************************************)
(* PublicLists: the shopping lists, in table Lists.  Each call is one      *)
(* critical section with at most one writing statement, so a call is one   *)
(* step; the statement can be lost, because DataBase::query swallows the   *)
(* error.                                                                  *)
(*                                                                         *)
(* A quantity travels as text and is read in three ways that do not agree: *)
(* by stoi, which takes a numeric prefix and throws on anything else or on *)
(* a number that is no int; by isNumber, which asks for digits and accepts *)
(* the empty text; and by SQLite, which gets it unquoted.  A text is the   *)
(* record of the three answers.  Clients never send an empty one: Parser   *)
(* refuses it (module Parser).  It is what a NULL reads as.                *)
(*                                                                         *)
(* What stoi throws passes through addItem and updateItem without an       *)
(* unlock.  The mutex stays locked, the next call waits for it for ever,   *)
(* and with it threads_handler, which joins every handler thread.          *)
(***************************************************************************)
EXTENDS Database

CONSTANTS
    Codes,          \* group codes
    Items,          \* item names
    Remarks,        \* remarks of an item
    QuantityTexts,  \* the quantities clients send
    IntMax,         \* an int is in -IntMax-1 .. IntMax
    Null,           \* SQL NULL
    Invalid,        \* stoi throws, or SQLite refuses the statement
    MaxLost         \* bound on the statements lost

IntMin == -IntMax - 1
Ints   == IntMin .. IntMax

QuantityRecords == [stoi : Ints \cup {Invalid}, isNumber : BOOLEAN, sql : Int \cup {Null, Invalid}]

Numeral(n) ==
    [stoi |-> IF n \in Ints THEN n ELSE Invalid, isNumber |-> n >= 0, sql |-> n]

EmptyText == [stoi |-> Invalid, isNumber |-> TRUE, sql |-> Invalid]

ASSUME ListsAssumption ==
    /\ IntMax \in Nat /\ MaxLost \in Nat
    /\ QuantityTexts \subseteq QuantityRecords \ {EmptyText}
    /\ Null \notin Int /\ Invalid \notin Int /\ Null # Invalid

\* Digits that stoi can read are the same number to SQLite.
ASSUME DigitsAssumption ==
    \A text \in QuantityTexts : text.isNumber /\ text.stoi # Invalid => text.sql = text.stoi

Row == [quantity : Int \cup {Null}, remarks : Remarks]

ASSUME RowAssumption == NoRow \notin Row

VARIABLES
    Lists,            \* group_code -> item_name -> row
    Users_In_Groups,  \* group_code -> username -> status
    mtx,              \* PublicLists::mtx: "free", or "leaked" by an exception
    server,           \* "hung" once a handler waits for a leaked mtx
    reply,            \* outcome of the last request, "none" if it was no list request
    lost,             \* statements lost so far
    numerals          \* every quantity sent so far was an int in decimal

tables == <<Lists, Users_In_Groups>>
vars   == <<Lists, Users_In_Groups, mtx, server, reply, lost, numerals>>

Replies == {"none", "ok", "NoSuchUserInTheGroupException", "PermissionIsDeniedException",
            "SystemException", "Unknown Error"}

TypeOK ==
    /\ Lists \in [Codes -> [Items -> Row \cup {NoRow}]]
    /\ Users_In_Groups \in [Codes -> [Usernames -> Status \cup {NoRow}]]
    /\ mtx \in {"free", "leaked"}
    /\ server \in {"running", "hung"}
    /\ reply \in Replies
    /\ lost \in 0 .. MaxLost
    /\ numerals \in BOOLEAN

Init ==
    /\ Lists = [g \in Codes |-> [i \in Items |-> NoRow]]
    /\ Users_In_Groups \in [Codes -> [Usernames -> {"admin", NoRow}]]
    /\ mtx = "free" /\ server = "running"
    /\ reply = "none"
    /\ lost = 0
    /\ numerals = TRUE
-----------------------------------------------------------------------------
isUserExistsInGroup(g, u) == Users_In_Groups[g][u] # NoRow

isItemExistsInList(g, i) == Lists[g][i] # NoRow

MayWrite(g, effector) == isAuthorized(Users_In_Groups[g][effector], ReadWrite)

\* What DataBase::query makes of a quantity: "" stands for NULL.
getQuantity(g, i) ==
    IF Lists[g][i].quantity = Null THEN EmptyText ELSE Numeral(Lists[g][i].quantity)

\* An int sum that does not fit wraps around.
IntSumUnwrapped(a, b) == a + b
IntSum(a, b) == ((a + b - IntMin) % (2 * IntMax + 2)) + IntMin

WithRow(g, i, row) == [Lists EXCEPT ![g][i] = row]

\* INSERT INTO Lists VALUES(...), with the quantity as it came: an error of SQLite
\* leaves the table as it is.
InsertItemUnchecked(g, i, text, remarks) ==
    WithRow(g, i, [quantity |-> text.sql, remarks |-> remarks])
InsertItem(g, i, text, remarks) ==
    IF text.sql = Invalid
    THEN Lists
    ELSE WithRow(g, i, [quantity |-> text.sql, remarks |-> remarks])

\* UPDATE Lists SET item_name, quantity, remarks: refused by the primary key
\* (group_code, item_name) if another item has the new name.
UpdateItem(g, key, new_name, text, remarks) ==
    IF new_name # key /\ isItemExistsInList(g, new_name)
    THEN Lists
    ELSE [Lists EXCEPT ![g] =
             [i \in Items |-> CASE i = new_name -> [quantity |-> text.sql, remarks |-> remarks]
                                [] i = key /\ i # new_name -> NoRow
                                [] OTHER -> Lists[g][i]]]
-----------------------------------------------------------------------------
(***************************************************************************)
(* How a call ends                                                         *)
(***************************************************************************)
Locked == server = "running" /\ mtx = "free"

Throw(exception) ==
    /\ reply' = exception
    /\ UNCHANGED <<tables, mtx, server, lost>>

\* The last statement of a call and its unlock.
Write(newLists) ==
    /\ \/ Lists' = newLists /\ UNCHANGED lost
       \/ lost < MaxLost /\ lost' = lost + 1 /\ UNCHANGED Lists
    /\ reply' = "ok"
    /\ UNCHANGED <<Users_In_Groups, mtx, server>>

\* stoi throws: message_handler answers, nobody unlocks.
ThrowFromStoi ==
    /\ mtx' = "leaked"
    /\ reply' = "Unknown Error"
    /\ UNCHANGED <<tables, server, lost>>

\* The checks every call starts with, in the order of the code.
Refused(effector, g) ==
    \/ ~isUserExistsInGroup(g, effector) /\ Throw("NoSuchUserInTheGroupException")
    \/ /\ isUserExistsInGroup(g, effector) /\ ~MayWrite(g, effector)
       /\ Throw("PermissionIsDeniedException")

Accepted(effector, g) == isUserExistsInGroup(g, effector) /\ MayWrite(g, effector)

Sent(text) == numerals' = (numerals /\ \E n \in Ints : text = Numeral(n))
-----------------------------------------------------------------------------
incItem(g, i, inc) ==
    LET old == getQuantity(g, i).stoi
    IN  \/ (old = Invalid \/ inc.stoi = Invalid) /\ ThrowFromStoi
        \/ /\ old # Invalid /\ inc.stoi # Invalid
           /\ Write(WithRow(g, i, [Lists[g][i] EXCEPT !.quantity = IntSum(old, inc.stoi)]))

addItem(effector, g, i, text, remarks) ==
    /\ Locked /\ Sent(text)
    /\ \/ Refused(effector, g)
       \/ Accepted(effector, g) /\ isItemExistsInList(g, i) /\ incItem(g, i, text)
       \/ /\ Accepted(effector, g) /\ ~isItemExistsInList(g, i)
          /\ Write(InsertItem(g, i, text, remarks))

removeItem(effector, g, i) ==
    /\ Locked /\ UNCHANGED numerals
    /\ \/ Refused(effector, g)
       \/ Accepted(effector, g) /\ ~isItemExistsInList(g, i) /\ Throw("SystemException")
       \/ Accepted(effector, g) /\ isItemExistsInList(g, i) /\ Write(WithRow(g, i, NoRow))

Unchanged(g, key, new_name, text, remarks) ==
    new_name = key /\ text = getQuantity(g, key) /\ remarks = Lists[g][key].remarks

isNumber(text) == text.isNumber

\* if (stoi(new_quantity) <= 0)
NotPositiveUnchecked(text) == FALSE
NotPositive(text) == text.stoi <= 0

updateItem(effector, g, key, new_name, text, remarks) ==
    /\ Locked /\ Sent(text)
    /\ \/ Refused(effector, g)
       \/ /\ Accepted(effector, g)
          /\ \/ ~isItemExistsInList(g, key)
             \/ /\ isItemExistsInList(g, key)
                /\ Unchanged(g, key, new_name, text, remarks) \/ ~isNumber(text)
          /\ Throw("SystemException")
       \/ /\ Accepted(effector, g) /\ isItemExistsInList(g, key)
          /\ ~Unchanged(g, key, new_name, text, remarks) /\ isNumber(text)
          /\ \/ text.stoi = Invalid /\ ThrowFromStoi
             \/ /\ text.stoi # Invalid /\ NotPositive(text)
                /\ Throw("SystemException")
             \/ /\ text.stoi # Invalid /\ ~NotPositive(text)
                /\ Write(UpdateItem(g, key, new_name, text, remarks))

\* mtx.lock() of any call on a mutex that no living thread holds.
lockLeaked ==
    /\ server = "running" /\ mtx = "leaked"
    /\ server' = "hung" /\ reply' = "none"
    /\ UNCHANGED <<tables, mtx, lost, numerals>>

(***************************************************************************)
(* Around the lists: PublicGroup changes the membership and removes groups *)
(* under a mutex of its own, and the program can be restarted.             *)
(***************************************************************************)
membershipChanges(g, u, s) ==
    /\ server = "running"
    /\ Users_In_Groups' = [Users_In_Groups EXCEPT ![g][u] = s]
    /\ reply' = "none"
    /\ UNCHANGED <<Lists, mtx, server, lost, numerals>>

groupRemoved(g) ==
    /\ server = "running"
    /\ Users_In_Groups' = [Users_In_Groups EXCEPT ![g] = [u \in Usernames |-> NoRow]]
    /\ Lists' = [Lists EXCEPT ![g] = [i \in Items |-> NoRow]]
    /\ reply' = "none"
    /\ UNCHANGED <<mtx, server, lost, numerals>>

restart ==
    /\ mtx' = "free" /\ server' = "running" /\ reply' = "none"
    /\ UNCHANGED <<tables, lost, numerals>>

Next ==
    \/ \E e \in Usernames, g \in Codes, i \in Items :
          \/ removeItem(e, g, i)
          \/ \E text \in QuantityTexts, r \in Remarks :
                \/ addItem(e, g, i, text, r)
                \/ \E new_name \in Items : updateItem(e, g, i, new_name, text, r)
    \/ lockLeaked
    \/ \E g \in Codes, u \in Usernames, s \in Status \cup {NoRow} : membershipChanges(g, u, s)
    \/ \E g \in Codes : groupRemoved(g)
    \/ restart

Spec == Init /\ [][Next]_vars
-----------------------------------------------------------------------------
(***************************************************************************)
(* Properties                                                              *)
(***************************************************************************)

\* As long as every quantity that clients send is an int in decimal, negative
\* ones included, no sequence of calls leaks mtx: sums wrap, so whatever is
\* stored can be read again by the stoi of incItem.  One other text is enough to
\* break it, at once or through a stored quantity that a later call reads.
NumeralsNeverLeak ==
    numerals =>
        /\ mtx = "free"
        /\ \A g \in Codes, i \in Items : isItemExistsInList(g, i) => Lists[g][i].quantity \in Ints

\* The list after a call that is announced to all members as done.
AnnouncedAdd(g, i, text, remarks) ==
    IF isItemExistsInList(g, i)
    THEN WithRow(g, i, [Lists[g][i] EXCEPT !.quantity = @ + text.stoi])
    ELSE WithRow(g, i, [quantity |-> text.sql, remarks |-> remarks])

\* Every call answered "ok", which Manager announces to the whole group, has
\* stored what it announces, except when the statement was lost and in three
\* cases the code does not notice: a new item whose quantity is not SQL, an int
\* overflow, and a new name that is taken.  What updateItem stores is positive.
AnnouncedIsStored ==
    [][lost' = lost /\ reply' = "ok" =>
       \A e \in Usernames, g \in Codes, i \in Items :
          /\ removeItem(e, g, i) => Lists' = WithRow(g, i, NoRow)
          /\ \A text \in QuantityTexts, r \in Remarks :
                /\ addItem(e, g, i, text, r) =>
                      \/ ~isItemExistsInList(g, i) /\ text.sql = Invalid
                      \/ /\ isItemExistsInList(g, i)
                         /\ Lists[g][i].quantity + text.stoi \notin Ints
                      \/ Lists' = AnnouncedAdd(g, i, text, r)
                /\ \A new_name \in Items :
                      updateItem(e, g, i, new_name, text, r) =>
                          \/ new_name # i /\ isItemExistsInList(g, new_name)
                          \/ /\ Lists'[g][new_name].quantity \in 1 .. IntMax
                             /\ new_name # i => Lists'[g][i] = NoRow]_vars
=============================================================================
