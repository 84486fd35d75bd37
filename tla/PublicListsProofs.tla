------------------------- MODULE PublicListsProofs -------------------------
(***************************************************************************)
(* The shopping lists, for every set of groups, users, items and texts and *)
(* for every width of an int, and what a restore message carries of them   *)
(* and of the memberships, for every table and every text of a name.       *)
(***************************************************************************)
EXTENDS Restore, TextsProofs

\* The facts about the constants that the proofs below use.
LEMMA ConstantFacts ==
    /\ IntMax \in Nat /\ MaxLost \in Nat
    /\ Null \notin Int /\ Invalid \notin Int /\ Null # Invalid
    /\ NoRow \notin Row /\ NoRow \notin Status
    /\ \A n \in Ints : n \in Int /\ n # Invalid
  BY ListsAssumption, RowAssumption, NoRowAssumption DEF Ints, IntMin

\* A remainder is below the modulus, and a number below the modulus is its own.
LEMMA Remainder ==
    ASSUME NEW n \in Int, NEW m \in Nat, m > 0
    PROVE  /\ n % m \in 0 .. m - 1
           /\ n \in 0 .. m - 1 => n % m = n
  OBVIOUS

\* A sum of ints is an int, and it is the sum if that fits.
LEMMA SumFits ==
    ASSUME NEW a \in Ints, NEW b \in Ints
    PROVE  /\ IntSum(a, b) \in Ints
           /\ a + b \in Ints => IntSum(a, b) = a + b
<1>1. a \in Int /\ b \in Int /\ IntMax \in Nat /\ IntMin = -IntMax - 1
  BY ConstantFacts DEF IntMin
<1>2. a + b - IntMin \in Int /\ 2 * IntMax + 2 \in Nat /\ 2 * IntMax + 2 > 0
  BY <1>1
<1>3. PICK r \in Int : r = (a + b - IntMin) % (2 * IntMax + 2)
  BY <1>2, Remainder
<1>4. /\ r \in 0 .. 2 * IntMax + 1
      /\ a + b - IntMin \in 0 .. 2 * IntMax + 1 => r = a + b - IntMin
  BY <1>1, <1>2, <1>3, Remainder
<1>5. IntSum(a, b) = r + IntMin
  BY <1>3 DEF IntSum
<1>6. QED
  BY <1>1, <1>4, <1>5 DEF Ints
-----------------------------------------------------------------------------
(***************************************************************************)
(* Types                                                                   *)
(***************************************************************************)
ListTables == [Codes -> [Items -> Row \cup {NoRow}]]

\* The three readings of a quantity that a client sends.
LEMMA TextTypes ==
    ASSUME NEW text \in QuantityTexts
    PROVE  /\ text.stoi \in Ints \cup {Invalid} /\ text.sql \in Int \cup {Null, Invalid}
           /\ text.isNumber /\ text.stoi # Invalid => text.sql = text.stoi
  BY ListsAssumption, DigitsAssumption DEF QuantityRecords

\* A statement that writes a row of the table keeps the types, and changes that
\* row only.
LEMMA WithRowTypes ==
    ASSUME TypeOK, NEW g \in Codes, NEW i \in Items, NEW row \in Row \cup {NoRow}
    PROVE  /\ WithRow(g, i, row) \in ListTables
           /\ \A h \in Codes, j \in Items :
                 WithRow(g, i, row)[h][j] = IF h = g /\ j = i THEN row ELSE Lists[h][j]
  BY DEF WithRow, TypeOK, ListTables

LEMMA UpdateItemTypes ==
    ASSUME TypeOK, NEW g \in Codes, NEW key \in Items, NEW new_name \in Items,
           NEW text \in QuantityTexts, text.sql \in Int, NEW r \in Remarks
    PROVE  /\ UpdateItem(g, key, new_name, text, r) \in ListTables
           /\ ~(new_name # key /\ isItemExistsInList(g, new_name)) =>
                 \A h \in Codes, j \in Items :
                     UpdateItem(g, key, new_name, text, r)[h][j] =
                         IF h # g THEN Lists[h][j]
                         ELSE IF j = new_name THEN [quantity |-> text.sql, remarks |-> r]
                         ELSE IF j = key THEN NoRow ELSE Lists[h][j]
<1>1. Lists \in ListTables /\ [quantity |-> text.sql, remarks |-> r] \in Row
  BY DEF TypeOK, ListTables, Row
<1>2. CASE new_name # key /\ isItemExistsInList(g, new_name)
  BY <1>1, <1>2 DEF UpdateItem
<1>3. CASE ~(new_name # key /\ isItemExistsInList(g, new_name))
  <2> DEFINE L == [j \in Items |-> CASE j = new_name -> [quantity |-> text.sql, remarks |-> r]
                                     [] j = key /\ j # new_name -> NoRow
                                     [] OTHER -> Lists[g][j]]
  <2>1. ASSUME NEW j \in Items
        PROVE  L[j] = IF j = new_name THEN [quantity |-> text.sql, remarks |-> r]
                      ELSE IF j = key THEN NoRow ELSE Lists[g][j]
    OBVIOUS
  <2>2. L \in [Items -> Row \cup {NoRow}]
    <3>1. \A j \in Items : L[j] \in Row \cup {NoRow}
      BY <1>1, <2>1 DEF ListTables
    <3>2. QED
      BY <3>1
  <2>3. UpdateItem(g, key, new_name, text, r) = [Lists EXCEPT ![g] = L]
    BY <1>3 DEF UpdateItem
  <2> HIDE DEF L
  <2>4. QED
    BY <1>1, <2>1, <2>2, <2>3 DEF ListTables
<1>4. QED
  BY <1>2, <1>3

\* What the call that adds to an item writes.
IncreasedRow(g, i, inc) ==
    [Lists[g][i] EXCEPT !.quantity = IntSum(getQuantity(g, i).stoi, inc.stoi)]

LEMMA IncreaseTypes ==
    ASSUME TypeOK, NEW g \in Codes, NEW i \in Items, NEW text \in QuantityTexts,
           isItemExistsInList(g, i), getQuantity(g, i).stoi # Invalid, text.stoi # Invalid
    PROVE  /\ Lists[g][i] \in Row /\ Lists[g][i].quantity \in Ints
           /\ getQuantity(g, i).stoi = Lists[g][i].quantity
           /\ IncreasedRow(g, i, text) \in Row
           /\ IncreasedRow(g, i, text) =
                 [Lists[g][i] EXCEPT !.quantity = IntSum(Lists[g][i].quantity, text.stoi)]
           /\ IncreasedRow(g, i, text).quantity \in Ints
<1> USE ConstantFacts
<1>1. Lists[g][i] \in Row
  BY DEF TypeOK, isItemExistsInList
<1>2. Lists[g][i].quantity # Null
  BY DEF getQuantity, EmptyText
<1>3. Lists[g][i].quantity \in Ints /\ getQuantity(g, i).stoi = Lists[g][i].quantity
  BY <1>2 DEF getQuantity, Numeral
<1>4. IntSum(Lists[g][i].quantity, text.stoi) \in Ints
  BY <1>3, TextTypes, SumFits
<1>5. QED
  BY <1>1, <1>3, <1>4 DEF IncreasedRow, Row

\* A call that ends without a write keeps the types.
LEMMA EndTypes ==
    ASSUME TypeOK, numerals' \in BOOLEAN,
           \/ ThrowFromStoi
           \/ \E e \in Replies : Throw(e)
           \/ \E L \in ListTables : Write(L)
    PROVE  TypeOK'
<1>1. CASE ThrowFromStoi
  BY <1>1 DEF ThrowFromStoi, tables, TypeOK, Replies
<1>2. ASSUME NEW e \in Replies, Throw(e) PROVE TypeOK'
  BY <1>2 DEF Throw, tables, TypeOK
<1>3. ASSUME NEW L \in ListTables, Write(L) PROVE TypeOK'
  <2>1. lost' \in 0 .. MaxLost /\ Lists' \in ListTables
    BY <1>3, ConstantFacts DEF Write, TypeOK, ListTables
  <2>2. QED
    BY <1>3, <2>1 DEF Write, TypeOK, ListTables, Replies
<1>4. QED
  BY <1>1, <1>2, <1>3

\* What a call on the lists can do: it ends in an exception, it leaks mtx, or it
\* writes what it is for.
LEMMA addItemCases ==
    ASSUME TypeOK, NEW e \in Usernames, NEW g \in Codes, NEW i \in Items,
           NEW text \in QuantityTexts, NEW r \in Remarks, addItem(e, g, i, text, r)
    PROVE  \/ \E x \in Replies \ {"ok"} : Throw(x)
           \/ /\ ThrowFromStoi /\ isItemExistsInList(g, i)
              /\ getQuantity(g, i).stoi = Invalid \/ text.stoi = Invalid
           \/ /\ isItemExistsInList(g, i)
              /\ getQuantity(g, i).stoi # Invalid /\ text.stoi # Invalid
              /\ Write(WithRow(g, i, IncreasedRow(g, i, text)))
           \/ /\ ~isItemExistsInList(g, i)
              /\ Write(InsertItem(g, i, text, r))
  BY DEF addItem, Refused, incItem, IncreasedRow, Replies

LEMMA removeItemCases ==
    ASSUME NEW e, NEW g, NEW i, removeItem(e, g, i)
    PROVE  (\E x \in Replies \ {"ok"} : Throw(x)) \/ Write(WithRow(g, i, NoRow))
  BY DEF removeItem, Refused, Replies

LEMMA updateItemCases ==
    ASSUME NEW e, NEW g, NEW i, NEW new_name, NEW text \in QuantityTexts, NEW r,
           updateItem(e, g, i, new_name, text, r)
    PROVE  \/ \E x \in Replies \ {"ok"} : Throw(x)
           \/ ThrowFromStoi /\ text.stoi = Invalid
           \/ /\ text.sql = text.stoi /\ text.sql \in 1 .. IntMax
              /\ isItemExistsInList(g, i)
              /\ Write(UpdateItem(g, i, new_name, text, r))
<1>1. CASE Refused(e, g) \/ Throw("SystemException")
  BY <1>1 DEF Refused, Replies
<1>2. CASE text.stoi = Invalid /\ ThrowFromStoi
  BY <1>2
<1>3. CASE /\ isNumber(text) /\ text.stoi # Invalid /\ ~NotPositive(text)
           /\ isItemExistsInList(g, i) /\ Write(UpdateItem(g, i, new_name, text, r))
  <2>1. text.stoi \in Ints /\ text.sql = text.stoi
    BY <1>3, TextTypes DEF isNumber
  <2>2. text.stoi \in 1 .. IntMax
    BY <1>3, <2>1, ConstantFacts DEF Ints, NotPositive
  <2>3. QED
    BY <1>3, <2>1, <2>2
<1>4. QED
  BY <1>1, <1>2, <1>3 DEF updateItem

LEMMA InsertItemTypes ==
    ASSUME TypeOK, NEW g \in Codes, NEW i \in Items, NEW text \in QuantityTexts, NEW r \in Remarks
    PROVE  InsertItem(g, i, text, r) \in ListTables
<1>1. CASE text.sql = Invalid
  BY <1>1 DEF InsertItem, TypeOK, ListTables
<1>2. CASE text.sql # Invalid
  <2>1. [quantity |-> text.sql, remarks |-> r] \in Row
    BY <1>2, TextTypes DEF Row
  <2>2. QED
    BY <1>2, <2>1, WithRowTypes DEF InsertItem
<1>3. QED
  BY <1>1, <1>2

\* Every step keeps the types.
LEMMA TypeStep == TypeOK /\ [Next]_vars => TypeOK'
<1> SUFFICES ASSUME TypeOK, [Next]_vars PROVE TypeOK'
  OBVIOUS
<1> USE ConstantFacts
<1>1. ASSUME NEW e \in Usernames, NEW g \in Codes, NEW i \in Items, removeItem(e, g, i)
      PROVE  TypeOK'
  <2>1. numerals' \in BOOLEAN
    BY <1>1 DEF removeItem, TypeOK
  <2>2. WithRow(g, i, NoRow) \in ListTables
    BY WithRowTypes
  <2>3. QED
    BY <1>1, <2>1, <2>2, removeItemCases, EndTypes
<1>2. ASSUME NEW e \in Usernames, NEW g \in Codes, NEW i \in Items, NEW text \in QuantityTexts,
             NEW r \in Remarks, addItem(e, g, i, text, r)
      PROVE  TypeOK'
  <2>1. numerals' \in BOOLEAN
    BY <1>2 DEF addItem, Sent
  <2>2. InsertItem(g, i, text, r) \in ListTables
    BY InsertItemTypes
  <2>3. isItemExistsInList(g, i) /\ getQuantity(g, i).stoi # Invalid /\ text.stoi # Invalid
          => WithRow(g, i, IncreasedRow(g, i, text)) \in ListTables
    BY IncreaseTypes, WithRowTypes
  <2>4. QED
    BY <1>2, <2>1, <2>2, <2>3, addItemCases, EndTypes
<1>3. ASSUME NEW e \in Usernames, NEW g \in Codes, NEW i \in Items, NEW new_name \in Items,
             NEW text \in QuantityTexts, NEW r \in Remarks, updateItem(e, g, i, new_name, text, r)
      PROVE  TypeOK'
  <2>1. numerals' \in BOOLEAN
    BY <1>3 DEF updateItem, Sent
  <2>2. ASSUME text.sql \in 1 .. IntMax PROVE UpdateItem(g, i, new_name, text, r) \in ListTables
    <3>1. text.sql \in Int
      BY <2>2
    <3>2. QED
      BY <3>1, UpdateItemTypes
  <2>3. QED
    BY <1>3, <2>1, <2>2, updateItemCases, EndTypes
<1>4. CASE lockLeaked \/ restart
  BY <1>4 DEF lockLeaked, restart, tables, TypeOK, Replies
<1>5. ASSUME NEW g \in Codes, NEW u \in Usernames, NEW s \in Status \cup {NoRow},
             membershipChanges(g, u, s)
      PROVE  TypeOK'
  BY <1>5 DEF membershipChanges, TypeOK, Replies
<1>6. ASSUME NEW g \in Codes, groupRemoved(g) PROVE TypeOK'
  BY <1>6 DEF groupRemoved, TypeOK, Replies
<1>7. CASE UNCHANGED vars
  BY <1>7 DEF vars, TypeOK
<1>8. QED
  BY <1>1, <1>2, <1>3, <1>4, <1>5, <1>6, <1>7 DEF Next

\* All variables keep their types; in particular a stored quantity is always a
\* number or NULL, whatever texts the clients send.
THEOREM ListsTypeCorrect == Spec => []TypeOK
<1>1. Init => TypeOK
  BY ConstantFacts DEF Init, TypeOK, Replies, Status
<1>2. QED
  BY <1>1, TypeStep, PTL DEF Spec
-----------------------------------------------------------------------------
(***************************************************************************)
(* Quantities                                                              *)
(***************************************************************************)
QuantitiesAreInts(L) == \A g \in Codes, i \in Items : L[g][i] # NoRow => L[g][i].quantity \in Ints

\* A number that an int can hold is read as that number in all three ways.
LEMMA NumeralReadings ==
    ASSUME NEW text, Sent(text), numerals'
    PROVE  numerals /\ text.stoi \in Ints /\ text.stoi # Invalid /\ text.sql = text.stoi
<1>1. numerals /\ \E n \in Ints : text = Numeral(n)
  BY DEF Sent
<1>2. PICK n \in Ints : text = Numeral(n)
  BY <1>1
<1>3. QED
  BY <1>1, <1>2, ConstantFacts DEF Numeral

\* A call on numerals neither leaks mtx nor stores what cannot be read again.
LEMMA NumeralsEnd ==
    ASSUME NumeralsNeverLeak, numerals,
           \/ \E x : Throw(x)
           \/ \E L : Write(L) /\ QuantitiesAreInts(L)
    PROVE  NumeralsNeverLeak'
<1>1. mtx = "free" /\ QuantitiesAreInts(Lists)
  BY DEF NumeralsNeverLeak, QuantitiesAreInts, isItemExistsInList
<1>2. mtx' = mtx /\ QuantitiesAreInts(Lists')
  BY <1>1 DEF Throw, Write, tables
<1>3. QED
  BY <1>1, <1>2 DEF NumeralsNeverLeak, QuantitiesAreInts, isItemExistsInList

\* Every step keeps NumeralsNeverLeak.
LEMMA NumeralsStep == TypeOK /\ NumeralsNeverLeak /\ [Next]_vars => NumeralsNeverLeak'
<1> SUFFICES ASSUME TypeOK, NumeralsNeverLeak, [Next]_vars, numerals' PROVE NumeralsNeverLeak'
  BY DEF NumeralsNeverLeak
<1> USE ConstantFacts
<1>1. numerals => mtx = "free" /\ QuantitiesAreInts(Lists)
  BY DEF NumeralsNeverLeak, QuantitiesAreInts, isItemExistsInList
<1>2. ASSUME NEW g \in Codes, NEW i \in Items, NEW row \in Row \cup {NoRow}, numerals,
             row # NoRow => row.quantity \in Ints
      PROVE  QuantitiesAreInts(WithRow(g, i, row))
  BY <1>1, <1>2, WithRowTypes DEF QuantitiesAreInts
<1>3. ASSUME NEW e \in Usernames, NEW g \in Codes, NEW i \in Items, removeItem(e, g, i)
      PROVE  NumeralsNeverLeak'
  <2>1. numerals
    BY <1>3 DEF removeItem
  <2>2. QuantitiesAreInts(WithRow(g, i, NoRow))
    BY <1>2, <2>1
  <2>3. QED
    BY <1>3, <2>1, <2>2, removeItemCases, NumeralsEnd
<1>4. ASSUME NEW e \in Usernames, NEW g \in Codes, NEW i \in Items, NEW text \in QuantityTexts,
             NEW r \in Remarks, addItem(e, g, i, text, r)
      PROVE  NumeralsNeverLeak'
  <2>1. numerals /\ text.stoi \in Ints /\ text.stoi # Invalid /\ text.sql = text.stoi
    BY <1>4, NumeralReadings DEF addItem
  <2>2. isItemExistsInList(g, i) => getQuantity(g, i).stoi # Invalid
    BY <1>1, <2>1 DEF QuantitiesAreInts, isItemExistsInList, getQuantity, Numeral
  <2>3. isItemExistsInList(g, i) => QuantitiesAreInts(WithRow(g, i, IncreasedRow(g, i, text)))
    BY <1>2, <2>1, <2>2, IncreaseTypes
  <2>4. QuantitiesAreInts(InsertItem(g, i, text, r))
    <3>1. [quantity |-> text.sql, remarks |-> r] \in Row
      BY <2>1 DEF Row
    <3>2. QED
      BY <1>2, <2>1, <3>1 DEF InsertItem
  <2>5. QED
    BY <1>4, <2>1, <2>2, <2>3, <2>4, addItemCases, NumeralsEnd
<1>5. ASSUME NEW e \in Usernames, NEW g \in Codes, NEW i \in Items, NEW new_name \in Items,
             NEW text \in QuantityTexts, NEW r \in Remarks, updateItem(e, g, i, new_name, text, r)
      PROVE  NumeralsNeverLeak'
  <2>1. numerals /\ text.stoi \in Ints /\ text.stoi # Invalid /\ text.sql = text.stoi
    BY <1>5, NumeralReadings DEF updateItem
  <2>2. QuantitiesAreInts(UpdateItem(g, i, new_name, text, r))
    <3>1. CASE new_name # i /\ isItemExistsInList(g, new_name)
      BY <1>1, <2>1, <3>1 DEF UpdateItem
    <3>2. CASE ~(new_name # i /\ isItemExistsInList(g, new_name))
      <4>1. [quantity |-> text.sql, remarks |-> r].quantity \in Ints /\ text.sql \in Int
        BY <2>1
      <4>2. \A h \in Codes, j \in Items :
               UpdateItem(g, i, new_name, text, r)[h][j] =
                   IF h # g THEN Lists[h][j]
                   ELSE IF j = new_name THEN [quantity |-> text.sql, remarks |-> r]
                   ELSE IF j = i THEN NoRow ELSE Lists[h][j]
        BY <3>2, <4>1, UpdateItemTypes
      <4>3. QED
        BY <1>1, <2>1, <4>1, <4>2 DEF QuantitiesAreInts
    <3>3. QED
      BY <3>1, <3>2
  <2>3. QED
    BY <1>5, <2>1, <2>2, updateItemCases, NumeralsEnd
<1>6. CASE lockLeaked
  BY <1>6, <1>1 DEF lockLeaked
<1>7. CASE restart
  BY <1>7 DEF restart, tables, NumeralsNeverLeak, isItemExistsInList
<1>8. ASSUME NEW g \in Codes, NEW u \in Usernames, NEW s \in Status \cup {NoRow},
             membershipChanges(g, u, s)
      PROVE  NumeralsNeverLeak'
  BY <1>8 DEF membershipChanges, NumeralsNeverLeak, isItemExistsInList
<1>9. ASSUME NEW g \in Codes, groupRemoved(g) PROVE NumeralsNeverLeak'
  <2>1. \A h \in Codes, j \in Items : Lists'[h][j] = IF h = g THEN NoRow ELSE Lists[h][j]
    BY <1>9 DEF groupRemoved, TypeOK
  <2>2. UNCHANGED <<mtx, numerals>>
    BY <1>9 DEF groupRemoved
  <2>3. QED
    BY <2>1, <2>2 DEF NumeralsNeverLeak, isItemExistsInList
<1>10. CASE UNCHANGED vars
  BY <1>10 DEF vars, NumeralsNeverLeak, isItemExistsInList
<1>11. QED
  BY <1>3, <1>4, <1>5, <1>6, <1>7, <1>8, <1>9, <1>10 DEF Next

\* As long as clients send ints in decimal, no sequence of calls leaks mtx: a sum
\* of two ints wraps to an int, for every width of an int.
THEOREM NumeralsNeverLeakHolds == Spec => []NumeralsNeverLeak
<1>1. Init => NumeralsNeverLeak
  BY DEF Init, NumeralsNeverLeak, isItemExistsInList
<1>2. QED
  BY <1>1, NumeralsStep, ListsTypeCorrect, PTL DEF Spec
-----------------------------------------------------------------------------
(***************************************************************************)
(* Announcements                                                           *)
(***************************************************************************)

\* A call that answers "ok" and has lost nothing has written its statement.
LEMMA OkIsWritten ==
    ASSUME TypeOK, lost' = lost, reply' = "ok"
    PROVE  /\ \A x \in Replies \ {"ok"} : ~Throw(x)
           /\ ~ThrowFromStoi
           /\ \A L : Write(L) => Lists' = L
  BY DEF TypeOK, Throw, ThrowFromStoi, Write

\* Every call answered "ok" has stored what Manager announces to the group, up to
\* the lost statement and the three cases that the code does not notice.
THEOREM AnnouncedIsStoredHolds == Spec => AnnouncedIsStored
<1> DEFINE Announced ==
      lost' = lost /\ reply' = "ok" =>
       \A e \in Usernames, g \in Codes, i \in Items :
          /\ removeItem(e, g, i) => Lists' = WithRow(g, i, NoRow)
          /\ \A text \in QuantityTexts, r \in Remarks :
                /\ addItem(e, g, i, text, r) =>
                      \/ ~isItemExistsInList(g, i) /\ text.sql = Invalid
                      \/ /\ isItemExistsInList(g, i)
                         /\ Lists[g][i].quantity + text.stoi \notin Ints
                      \/ Lists' = AnnouncedAdd(g, i, text, r)
                /\ \A new_name \in Items :
                      updateItem(e, g, i, new_name, text, r) =>
                          \/ new_name # i /\ isItemExistsInList(g, new_name)
                          \/ /\ Lists'[g][new_name].quantity \in 1 .. IntMax
                             /\ new_name # i => Lists'[g][i] = NoRow
<1>1. TypeOK => Announced
  <2> SUFFICES ASSUME TypeOK, lost' = lost, reply' = "ok",
                      NEW e \in Usernames, NEW g \in Codes, NEW i \in Items
               PROVE  /\ removeItem(e, g, i) => Lists' = WithRow(g, i, NoRow)
                      /\ \A text \in QuantityTexts, r \in Remarks :
                            /\ addItem(e, g, i, text, r) =>
                                  \/ ~isItemExistsInList(g, i) /\ text.sql = Invalid
                                  \/ /\ isItemExistsInList(g, i)
                                     /\ Lists[g][i].quantity + text.stoi \notin Ints
                                  \/ Lists' = AnnouncedAdd(g, i, text, r)
                            /\ \A new_name \in Items :
                                  updateItem(e, g, i, new_name, text, r) =>
                                      \/ new_name # i /\ isItemExistsInList(g, new_name)
                                      \/ /\ Lists'[g][new_name].quantity \in 1 .. IntMax
                                         /\ new_name # i => Lists'[g][i] = NoRow
    OBVIOUS
  <2>1. ASSUME removeItem(e, g, i) PROVE Lists' = WithRow(g, i, NoRow)
    BY <2>1, removeItemCases, OkIsWritten
  <2>2. ASSUME NEW text \in QuantityTexts, NEW r \in Remarks, addItem(e, g, i, text, r),
               ~(~isItemExistsInList(g, i) /\ text.sql = Invalid),
               ~(isItemExistsInList(g, i) /\ Lists[g][i].quantity + text.stoi \notin Ints)
        PROVE  Lists' = AnnouncedAdd(g, i, text, r)
    <3>1. CASE isItemExistsInList(g, i)
      <4>1. /\ getQuantity(g, i).stoi # Invalid /\ text.stoi # Invalid
            /\ Lists' = WithRow(g, i, IncreasedRow(g, i, text))
        BY <2>2, <3>1, addItemCases, OkIsWritten
      <4>2. /\ Lists[g][i] \in Row /\ Lists[g][i].quantity \in Ints /\ text.stoi \in Ints
            /\ IncreasedRow(g, i, text) =
                  [Lists[g][i] EXCEPT !.quantity = IntSum(Lists[g][i].quantity, text.stoi)]
        BY <3>1, <4>1, IncreaseTypes, TextTypes
      <4>3. IntSum(Lists[g][i].quantity, text.stoi) = Lists[g][i].quantity + text.stoi
        BY <2>2, <3>1, <4>2, SumFits
      <4>4. IncreasedRow(g, i, text) = [Lists[g][i] EXCEPT !.quantity = @ + text.stoi]
        BY <4>2, <4>3
      <4>5. QED
        BY <3>1, <4>1, <4>4 DEF AnnouncedAdd
    <3>2. CASE ~isItemExistsInList(g, i)
      <4>1. Lists' = InsertItem(g, i, text, r)
        BY <2>2, <3>2, addItemCases, OkIsWritten
      <4>2. QED
        BY <2>2, <3>2, <4>1 DEF InsertItem, AnnouncedAdd
    <3>3. QED
      BY <3>1, <3>2
  <2>3. ASSUME NEW text \in QuantityTexts, NEW r \in Remarks, NEW new_name \in Items,
               updateItem(e, g, i, new_name, text, r),
               ~(new_name # i /\ isItemExistsInList(g, new_name))
        PROVE  /\ Lists'[g][new_name].quantity \in 1 .. IntMax
               /\ new_name # i => Lists'[g][i] = NoRow
    <3>1. /\ text.sql \in 1 .. IntMax /\ Lists' = UpdateItem(g, i, new_name, text, r)
      BY <2>3, updateItemCases, OkIsWritten
    <3>2. /\ Lists'[g][new_name] = [quantity |-> text.sql, remarks |-> r]
          /\ new_name # i => Lists'[g][i] = NoRow
      BY <2>3, <3>1, UpdateItemTypes
    <3>3. QED
      BY <3>1, <3>2
  <2>4. QED
    BY <2>1, <2>2, <2>3
<1>2. QED
  BY <1>1, ListsTypeCorrect, PTL DEF AnnouncedIsStored

(***************************************************************************)
(* The restore message.  A group is written as four fields, its members    *)
(* and its items as fields of fields; each level is joined by a separator  *)
(* of its own, and taking the message apart level by level gives the rows  *)
(* back.  The tables enter only through their types.                       *)
(***************************************************************************)

\* Everything that occurs in a restore message.
Char ==
    UNION {STRING, Separators, {"400"}, Usernames, Status, {GroupName[g] : g \in Codes},
           {ToString(g) : g \in Codes}, {ToString(n) : n \in Int}}

\* The parts of a restore message are among its characters.
LEMMA CharFacts ==
    /\ "@" \in Char /\ "|" \in Char /\ "," \in Char /\ "-" \in Char /\ ":" \in Char /\ "400" \in Char
    /\ STRING \subseteq Char /\ Usernames \subseteq Char /\ Status \subseteq Char
    /\ \A g \in Codes : GroupName[g] \in Char /\ ToString(g) \in Char
    /\ \A n \in Int : ToString(n) \in Char
<1>1. Separators \subseteq Char /\ "400" \in Char
  BY Zenon DEF Char
<1>2. {"@", "|", ",", "-", ":"} \subseteq Char
  BY <1>1, Zenon DEF Separators
<1>3. "@" \in Char /\ "|" \in Char /\ "," \in Char /\ "-" \in Char /\ ":" \in Char
  BY <1>2
<1>4. STRING \subseteq Char /\ Usernames \subseteq Char /\ Status \subseteq Char
  BY Zenon DEF Char
<1>5. /\ \A g \in Codes : GroupName[g] \in Char /\ ToString(g) \in Char
      /\ \A n \in Int : ToString(n) \in Char
  BY Zenon DEF Char
<1>6. QED
  BY <1>1, <1>3, <1>4, <1>5, Zenon

\* A plain text has no separator in it.
LEMMA PlainText ==
    ASSUME NEW t \in Seq(Char), Plain(t), NEW d \in Separators
    PROVE  ~Contains(t, d)
<1>1. DOMAIN t = 1 .. Len(t)
  BY LenProperties
<1>2. QED
  BY <1>1, Zenon DEF Plain, Contains

\* The separators differ from each other, from the code and from the status letters.
LEMMA SeparatorFacts ==
    /\ "|" \in Separators /\ "," \in Separators /\ "-" \in Separators /\ ":" \in Separators
    /\ "|" # "," /\ "|" # "-" /\ "|" # ":" /\ "," # "-" /\ "," # ":" /\ "-" # ":"
    /\ "@" # "|" /\ "400" # "|"
    /\ \A st \in Status : st \notin Separators
  BY DEF Separators, Status

\* A word that is no separator.
LEMMA PlainWord ==
    ASSUME NEW w \in Char, w \notin Separators
    PROVE  <<w>> \in Seq(Char) /\ Plain(<<w>>)
<1>1. <<w>> \in Seq(Char)
  BY OneCharacter
<1>2. Plain(<<w>>)
  BY DEF Plain
<1>3. QED
  BY <1>1, <1>2

\* The name and the status of a member, as texts.
LEMMA MemberFacts ==
    ASSUME TypeOK, NEW g \in Codes, NEW v \in MembersOf(g)
    PROVE  /\ v \in Usernames /\ Users_In_Groups[g][v] \in Status
           /\ <<v>> \in Seq(Char) /\ <<Users_In_Groups[g][v]>> \in Seq(Char)
           /\ Plain(<<Users_In_Groups[g][v]>>)
<1>1. v \in Usernames /\ Users_In_Groups[g][v] # NoRow
  BY Zenon DEF MembersOf, isUserExistsInGroup
<1>2. Users_In_Groups[g][v] \in Status
  BY <1>1, Zenon DEF TypeOK
<1>3. v \in Char /\ Users_In_Groups[g][v] \in Char
  BY <1>1, <1>2, CharFacts, Zenon
<1>4. <<v>> \in Seq(Char)
  BY <1>3, OneCharacter, Zenon
<1>5. <<Users_In_Groups[g][v]>> \in Seq(Char) /\ Plain(<<Users_In_Groups[g][v]>>)
  BY <1>2, <1>3, PlainWord, SeparatorFacts, Zenon
<1>6. QED
  BY <1>1, <1>2, <1>4, <1>5, Zenon

\* The name, the quantity and the remark of an item, as texts.
LEMMA ItemFacts ==
    ASSUME TypeOK, NEW g \in Codes, NEW i \in ListOf(g)
    PROVE  /\ i \in Seq(Char) /\ Lists[g][i].remarks \in Seq(Char)
           /\ QuantityText(Lists[g][i].quantity) \in Seq(Char)
<1>1. i \in Items /\ Lists[g][i] # NoRow
  BY Zenon DEF ListOf, isItemExistsInList
<1>2. Lists[g][i] \in Row
  BY <1>1, Zenon DEF TypeOK
<1>3. PICK q, r : q = Lists[g][i].quantity /\ r = Lists[g][i].remarks
  BY Zenon
<1>4. q \in Int \cup {Null} /\ r \in Remarks
  BY <1>2, <1>3 DEF Row
<1>5. i \in Seq(STRING) /\ r \in Seq(STRING)
  BY <1>1, <1>4, RestoreAssumption, Zenon
<1>6. i \in Seq(Char) /\ r \in Seq(Char)
  <2>1. PICK S : S = STRING
    BY Zenon
  <2>2. S \subseteq Char /\ i \in Seq(S) /\ r \in Seq(S)
    BY <1>5, <2>1, CharFacts, Zenon
  <2>3. QED
    BY <2>2, SeqMonotonic
<1>7. QuantityText(q) \in Seq(Char)
  <2>1. CASE q = Null
    <3>1. QuantityText(q) = <<>>
      BY <2>1 DEF QuantityText
    <3>2. QED
      BY <3>1, EmptySeq
  <2>2. CASE q # Null /\ q >= 0
    <3>1. QuantityText(q) = <<ToString(q)>>
      BY <2>2 DEF QuantityText
    <3>2. ToString(q) \in Char
      BY <1>4, <2>2, CharFacts, Zenon
    <3>3. QED
      BY <3>1, <3>2, OneCharacter, Zenon
  <2>3. CASE q # Null /\ ~(q >= 0)
    <3>1. QuantityText(q) = <<"-", ToString(-q)>>
      BY <2>3 DEF QuantityText
    <3>2. -q \in Int
      BY <1>4, <2>3
    <3>3. "-" \in Char /\ ToString(-q) \in Char
      BY <3>2, CharFacts, Zenon
    <3>4. QED
      BY <3>1, <3>3, OneMore, Zenon
  <2>4. QED
    BY <2>1, <2>2, <2>3, Zenon
<1>8. QED
  BY <1>3, <1>6, <1>7, Zenon

\* The entry of a member reads as its name and status.
LEMMA UserEntryReads ==
    ASSUME TypeOK, NEW g \in Codes, NEW v \in MembersOf(g), Plain(<<v>>)
    PROVE  /\ UserEntry(g, v) \in Seq(Char)
           /\ Gives(UserEntry(g, v), ":", << <<v>>, <<Users_In_Groups[g][v]>> >>)
           /\ \A d \in Separators : d # ":" => ~Contains(UserEntry(g, v), d)
<1>1. PICK col \in Char : col = ":"
  BY CharFacts, Zenon
<1>2. PICK a, b \in Seq(Char) : a = <<v>> /\ b = <<Users_In_Groups[g][v]>> /\ Plain(a) /\ Plain(b)
  BY MemberFacts, Zenon
<1>3. UserEntry(g, v) = a \o <<col>> \o b
  <2>1. v \in Char /\ Users_In_Groups[g][v] \in Char
    BY MemberFacts, CharFacts, Zenon
  <2>2. SpelledOut(<<v, col, Users_In_Groups[g][v]>>, v, col, Users_In_Groups[g][v])
    BY <2>1, CharactersApart, Zenon
  <2>3. UserEntry(g, v) = <<v, col, Users_In_Groups[g][v]>>
    BY <1>1, Zenon DEF UserEntry
  <2>4. QED
    BY <1>2, <2>2, <2>3, Zenon DEF SpelledOut
<1>4. PICK x \in Seq(Char) : x = a \o <<col>> \o b /\ Joined(x, <<a, b>>, col)
  BY JoinedTwo, Zenon
<1>5. PICK ps \in Seq(Seq(Char)) : ps = <<a, b>>
  BY OneMore, Zenon
<1>6. \A d \in Separators : ~Contains(a, d) /\ ~Contains(b, d)
  BY <1>2, PlainText, Zenon
<1>7. \A d \in Separators : Without(ps, d)
  BY <1>5, <1>6, TuplesWithout, Zenon
<1>8. Joined(x, ps, col)
  BY <1>4, <1>5, Zenon
<1>9. Gives(x, col, ps) /\ \A d \in Separators : d # col => ~Contains(x, d)
  BY <1>1, <1>7, <1>8, JoinedReads, SeparatorFacts, Zenon
<1>10. QED
  BY <1>1, <1>2, <1>3, <1>4, <1>5, <1>9, Zenon

\* The entry of an item reads as its three columns.
LEMMA ItemEntryReads ==
    ASSUME TypeOK, NEW g \in Codes, Readable(g), NEW i \in ListOf(g)
    PROVE  /\ ItemEntry(g, i) \in Seq(Char)
           /\ Gives(ItemEntry(g, i), ":",
                    <<i, QuantityText(Lists[g][i].quantity), Lists[g][i].remarks>>)
           /\ \A d \in Separators : d # ":" => ~Contains(ItemEntry(g, i), d)
<1>1. PICK col \in Char : col = ":"
  BY CharFacts, Zenon
<1>2. PICK a, b, p \in Seq(Char) :
          /\ a = i /\ b = QuantityText(Lists[g][i].quantity) /\ p = Lists[g][i].remarks
          /\ Plain(a) /\ Plain(b) /\ Plain(p)
  BY ItemFacts, Zenon DEF Readable
<1>3. ItemEntry(g, i) = a \o <<col>> \o b \o <<col>> \o p
  BY <1>1, <1>2, Zenon DEF ItemEntry
<1>4. PICK x \in Seq(Char) :
          x = a \o <<col>> \o b \o <<col>> \o p /\ Joined(x, <<a, b, p>>, col)
  BY JoinedThree, Zenon
<1>5. PICK ps \in Seq(Seq(Char)) : ps = <<a, b, p>>
  BY OneMore, Zenon
<1>6. \A d \in Separators : ~Contains(a, d) /\ ~Contains(b, d) /\ ~Contains(p, d)
  BY <1>2, PlainText, Zenon
<1>7. \A d \in Separators : Without(ps, d)
  BY <1>5, <1>6, TuplesWithout, Zenon
<1>8. Joined(x, ps, col)
  BY <1>4, <1>5, Zenon
<1>9. Gives(x, col, ps) /\ \A d \in Separators : d # col => ~Contains(x, d)
  BY <1>1, <1>7, <1>8, JoinedReads, SeparatorFacts, Zenon
<1>10. QED
  BY <1>1, <1>2, <1>3, <1>4, <1>5, <1>9, Zenon

UserTexts(g) == [k \in DOMAIN findUsersInGroup(g) |-> UserEntry(g, findUsersInGroup(g)[k])]
ItemTexts(g) == [k \in DOMAIN findItemsInGroup(g) |-> ItemEntry(g, findItemsInGroup(g)[k])]

\* The members as the text x that a reader takes apart.
UsersRead(g, x) ==
    /\ Joined(x, UserTexts(g), "-")
    /\ ~Contains(x, "|") /\ ~Contains(x, ",")
    /\ AllPieces(Pieces(x, "-"), ":") = {<< <<v>>, <<Users_In_Groups[g][v]>> >> : v \in MembersOf(g)}

\* The members of a group, written one after the other, are read back.
LEMMA UsersAreRead ==
    ASSUME TypeOK, NEW g \in Codes, PlainNames(g), MembersOf(g) # {}
    PROVE  \E x \in Seq(Char) : UsersRead(g, x)
<1>1. PICK dash \in Char : dash = "-"
  BY CharFacts, Zenon
<1>2. PICK M : M = MembersOf(g)
  BY Zenon
<1>3. IsFiniteSet(M)
  <2>1. M \in SUBSET Usernames
    BY <1>2 DEF MembersOf
  <2>2. QED
    BY <2>1, RestoreAssumption, FS_Subset
<1>4. PICK f : f = [v \in M |-> UserEntry(g, v)]
  BY Zenon
<1>5. ASSUME NEW v \in M
      PROVE  /\ UserEntry(g, v) \in Seq(Char)
             /\ Pieces(UserEntry(g, v), ":") = << <<v>>, <<Users_In_Groups[g][v]>> >>
             /\ \A d \in Separators : d # ":" => ~Contains(UserEntry(g, v), d)
  <2>1. Plain(<<v>>)
    BY <1>2, Zenon DEF PlainNames
  <2>2. Gives(UserEntry(g, v), ":", << <<v>>, <<Users_In_Groups[g][v]>> >>)
    BY <1>2, <2>1, UserEntryReads, Zenon
  <2>3. /\ UserEntry(g, v) \in Seq(Char)
        /\ \A d \in Separators : d # ":" => ~Contains(UserEntry(g, v), d)
    BY <1>2, <2>1, UserEntryReads, Zenon
  <2>4. QED
    BY <2>2, <2>3, Zenon DEF Gives
<1>6. f \in [M -> Seq(Char)]
  BY <1>4, <1>5, Zenon
<1>7. /\ \A m \in M : ~Contains(f[m], dash)
      /\ \A m \in M : ~Contains(f[m], "|")
      /\ \A m \in M : ~Contains(f[m], ",")
  BY <1>1, <1>4, <1>5, SeparatorFacts, Zenon
<1>8. PICK s : s = SetToSeq(M)
  BY Zenon
<1>9. PICK es : es = [k \in DOMAIN s |-> f[s[k]]] /\ Rows(es, M, f)
  BY <1>8, Zenon DEF Rows
<1>10. es = UserTexts(g)
  <2>1. s \in Seq(M)
    <3>1. SetToSeq(M) \in Seq(M)
      BY <1>3, SetToSeqLists
    <3>2. QED
      BY <1>8, <3>1, Zenon
  <2>2. \A k \in DOMAIN s : s[k] \in M
    BY <2>1
  <2>3. \A k \in DOMAIN s : f[s[k]] = UserEntry(g, s[k])
    BY <1>4, <2>2, Zenon
  <2>4. es = [k \in DOMAIN s |-> UserEntry(g, s[k])]
    BY <1>9, <2>3, Zenon
  <2>5. s = findUsersInGroup(g)
    BY <1>2, <1>8, Zenon DEF findUsersInGroup
  <2>6. QED
    BY <2>4, <2>5, Zenon DEF UserTexts
<1>11. PICK x \in Seq(Char) : Apart(x, es, dash, M, f)
  <2>1. M # {}
    BY <1>2, Zenon
  <2>2. QED
    BY <1>3, <1>6, <1>7, <1>9, <2>1, RowsJoined, Zenon
<1>12. ~Contains(x, "|") /\ ~Contains(x, ",")
  BY <1>1, <1>7, <1>11, SeparatorFacts, Zenon DEF Apart
<1>13. AllPieces(Pieces(x, "-"), ":") = {<< <<v>>, <<Users_In_Groups[g][v]>> >> : v \in M}
  <2>1. \A v \in M : Pieces(f[v], ":") = << <<v>>, <<Users_In_Groups[g][v]>> >>
    BY <1>4, <1>5, Zenon
  <2>2. {Pieces(f[v], ":") : v \in M} = {<< <<v>>, <<Users_In_Groups[g][v]>> >> : v \in M}
    BY <2>1, Zenon
  <2>3. EachTaken(Pieces(x, "-"), ":") = {Pieces(f[v], ":") : v \in M}
    BY <1>1, <1>11, Zenon DEF Apart
  <2>4. AllPieces(Pieces(x, "-"), ":") = EachTaken(Pieces(x, "-"), ":")
    BY Zenon DEF AllPieces, EachTaken
  <2>5. QED
    BY <2>2, <2>3, <2>4, Zenon
<1>14. UsersRead(g, x)
  BY <1>1, <1>2, <1>10, <1>11, <1>12, <1>13, Zenon DEF UsersRead, Apart
<1>15. QED
  BY <1>14, Zenon

\* The list as the text x that a reader takes apart.
ItemsRead(g, x) ==
    /\ Joined(x, ItemTexts(g), "-")
    /\ ~Contains(x, "|") /\ ~Contains(x, ",")
    /\ AllPieces(Pieces(x, "-"), ":") =
          {<<i, QuantityText(Lists[g][i].quantity), Lists[g][i].remarks>> : i \in ListOf(g)}

\* The items of a list, written one after the other, are read back.
LEMMA ItemsAreRead ==
    ASSUME TypeOK, NEW g \in Codes, Readable(g)
    PROVE  \E x \in Seq(Char) : ItemsRead(g, x)
<1>1. PICK dash \in Char : dash = "-"
  BY CharFacts, Zenon
<1>2. PICK M : M = ListOf(g)
  BY Zenon
<1>3. IsFiniteSet(M)
  <2>1. M \in SUBSET Items
    BY <1>2 DEF ListOf
  <2>2. QED
    BY <2>1, RestoreAssumption, FS_Subset
<1>4. PICK f : f = [i \in M |-> ItemEntry(g, i)]
  BY Zenon
<1>5. ASSUME NEW i \in M
      PROVE  /\ ItemEntry(g, i) \in Seq(Char)
             /\ Pieces(ItemEntry(g, i), ":") =
                   <<i, QuantityText(Lists[g][i].quantity), Lists[g][i].remarks>>
             /\ \A d \in Separators : d # ":" => ~Contains(ItemEntry(g, i), d)
  <2>1. Gives(ItemEntry(g, i), ":", <<i, QuantityText(Lists[g][i].quantity), Lists[g][i].remarks>>)
    BY <1>2, ItemEntryReads, Zenon
  <2>2. /\ ItemEntry(g, i) \in Seq(Char)
        /\ \A d \in Separators : d # ":" => ~Contains(ItemEntry(g, i), d)
    BY <1>2, ItemEntryReads, Zenon
  <2>3. QED
    BY <2>1, <2>2, Zenon DEF Gives
<1>6. f \in [M -> Seq(Char)]
  BY <1>4, <1>5, Zenon
<1>7. /\ \A m \in M : ~Contains(f[m], dash)
      /\ \A m \in M : ~Contains(f[m], "|")
      /\ \A m \in M : ~Contains(f[m], ",")
  BY <1>1, <1>4, <1>5, SeparatorFacts, Zenon
<1>8. PICK s : s = SetToSeq(M)
  BY Zenon
<1>9. PICK es : es = [k \in DOMAIN s |-> f[s[k]]] /\ Rows(es, M, f)
  BY <1>8, Zenon DEF Rows
<1>10. es = ItemTexts(g)
  <2>1. s \in Seq(M)
    <3>1. SetToSeq(M) \in Seq(M)
      BY <1>3, SetToSeqLists
    <3>2. QED
      BY <1>8, <3>1, Zenon
  <2>2. \A k \in DOMAIN s : s[k] \in M
    BY <2>1
  <2>3. \A k \in DOMAIN s : f[s[k]] = ItemEntry(g, s[k])
    BY <1>4, <2>2, Zenon
  <2>4. es = [k \in DOMAIN s |-> ItemEntry(g, s[k])]
    BY <1>9, <2>3, Zenon
  <2>5. s = findItemsInGroup(g)
    BY <1>2, <1>8, Zenon DEF findItemsInGroup
  <2>6. QED
    BY <2>4, <2>5, Zenon DEF ItemTexts
<1>11. PICK x \in Seq(Char) : Apart(x, es, dash, M, f)
  <2>1. M # {}
    BY <1>2, Zenon DEF Readable
  <2>2. QED
    BY <1>3, <1>6, <1>7, <1>9, <2>1, RowsJoined, Zenon
<1>12. ~Contains(x, "|") /\ ~Contains(x, ",")
  BY <1>1, <1>7, <1>11, SeparatorFacts, Zenon DEF Apart
<1>13. AllPieces(Pieces(x, "-"), ":") =
          {<<i, QuantityText(Lists[g][i].quantity), Lists[g][i].remarks>> : i \in M}
  <2>1. \A i \in M : Pieces(f[i], ":") = <<i, QuantityText(Lists[g][i].quantity), Lists[g][i].remarks>>
    BY <1>4, <1>5, Zenon
  <2>2. {Pieces(f[i], ":") : i \in M} =
           {<<i, QuantityText(Lists[g][i].quantity), Lists[g][i].remarks>> : i \in M}
    BY <2>1, Zenon
  <2>3. EachTaken(Pieces(x, "-"), ":") = {Pieces(f[i], ":") : i \in M}
    BY <1>1, <1>11, Zenon DEF Apart
  <2>4. AllPieces(Pieces(x, "-"), ":") = EachTaken(Pieces(x, "-"), ":")
    BY Zenon DEF AllPieces, EachTaken
  <2>5. QED
    BY <2>2, <2>3, <2>4, Zenon
<1>14. ItemsRead(g, x)
  BY <1>1, <1>2, <1>10, <1>11, <1>12, <1>13, Zenon DEF ItemsRead, Apart
<1>15. QED
  BY <1>14, Zenon

\* The text of a group up to its members, and without the | at its end.
UpTo(g) == AppendEntries(getNextGroup(g), UserTexts(g))
Body(g) == AppendEntries(UpTo(g) \o <<",">>, ItemTexts(g))

\* The text of a group is its body and a bar.
LEMMA GroupTextIs ==
    ASSUME NEW g
    PROVE  GroupText(g) = Body(g) \o <<"|">>
  BY Zenon DEF GroupText, Body, UpTo, UserTexts, ItemTexts

\* A loop that appended something leaves what it appended, without the last dash.
LEMMA EntriesAppended ==
    ASSUME NEW r \in Seq(Char), NEW x \in Seq(Char), NEW es, Joined(x, es, "-")
    PROVE  AppendEntries(r, es) = r \o x
<1>1. PICK dash \in Char : dash = "-"
  BY CharFacts, Zenon
<1>2. Joined(x, es, dash)
  BY <1>1, Zenon
<1>3. Front(r \o Terminated(es, dash)) = r \o x
  BY <1>2, FrontJoined
<1>4. QED
  BY <1>1, <1>3, Zenon DEF AppendEntries, removeLastChar

\* The code and the name of a group, as texts.
LEMMA NameFacts ==
    ASSUME NEW g \in Codes, PlainNames(g)
    PROVE  /\ <<ToString(g)>> \in Seq(Char) /\ <<GroupName[g]>> \in Seq(Char)
           /\ Plain(<<ToString(g)>>) /\ Plain(<<GroupName[g]>>)
           /\ getNextGroup(g) = <<ToString(g)>> \o <<",">> \o <<GroupName[g]>> \o <<",">>
<1>1. ToString(g) \in Char /\ GroupName[g] \in Char /\ "," \in Char
  BY CharFacts, Zenon
<1>2. ToString(g) \notin Separators
  BY RestoreAssumption, Zenon
<1>3. <<ToString(g)>> \in Seq(Char) /\ Plain(<<ToString(g)>>)
  BY <1>1, <1>2, PlainWord, Zenon
<1>4. <<GroupName[g]>> \in Seq(Char) /\ Plain(<<GroupName[g]>>)
  BY <1>1, OneCharacter, Zenon DEF PlainNames
<1>5. PICK a, b, c \in Char : a = ToString(g) /\ b = GroupName[g] /\ c = ","
  BY <1>1, Zenon
<1>6. Spelled(<<a, c, b, c>>, a, c, b, c)
  BY CharactersApart, Zenon
<1>7. getNextGroup(g) = <<a, c, b, c>>
  BY <1>5, Zenon DEF getNextGroup
<1>8. getNextGroup(g) = <<ToString(g)>> \o <<",">> \o <<GroupName[g]>> \o <<",">>
  BY <1>5, <1>6, <1>7, Zenon DEF Spelled
<1>9. QED
  BY <1>3, <1>4, <1>8, Zenon

\* The first three fields.
LEMMA UpToIs ==
    ASSUME TypeOK, NEW g \in Codes, PlainNames(g), NEW x \in Seq(Char), UsersRead(g, x)
    PROVE  UpTo(g) = <<ToString(g)>> \o <<",">> \o <<GroupName[g]>> \o <<",">> \o x
<1>1. PICK a, b \in Seq(Char), c \in Char : a = <<ToString(g)>> /\ b = <<GroupName[g]>> /\ c = ","
  BY NameFacts, CharFacts, Zenon
<1>2. PICK n \in Seq(Char) : n = getNextGroup(g)
  <2>1. <<c>> \in Seq(Char)
    BY OneCharacter
  <2>2. a \o <<c>> \o b \o <<c>> \in Seq(Char)
    BY <2>1, ConcatProperties
  <2>3. QED
    BY <1>1, <2>2, NameFacts, Zenon
<1>3. AppendEntries(n, UserTexts(g)) = n \o x
  BY EntriesAppended DEF UsersRead
<1>4. n = <<ToString(g)>> \o <<",">> \o <<GroupName[g]>> \o <<",">>
  BY <1>2, NameFacts, Zenon
<1>5. QED
  BY <1>2, <1>3, <1>4, Zenon DEF UpTo

\* What a reader finds in the text of a group that is readable.
FieldsRead(g, f) ==
    /\ f[1] = <<ToString(g)>> /\ f[2] = <<GroupName[g]>>
    /\ AllPieces(Pieces(f[3], "-"), ":") = {<< <<v>>, <<Users_In_Groups[g][v]>> >> : v \in MembersOf(g)}
    /\ AllPieces(Pieces(f[4], "-"), ":") =
          {<<i, QuantityText(Lists[g][i].quantity), Lists[g][i].remarks>> : i \in ListOf(g)}

\* The body of a readable group is read back as its rows.
LEMMA BodyReads ==
    ASSUME TypeOK, NEW g \in Codes, MembersOf(g) # {}, Readable(g)
    PROVE  /\ Body(g) \in Seq(Char) /\ ~Contains(Body(g), "|")
           /\ FieldsRead(g, Pieces(Body(g), ","))
<1>1. PlainNames(g)
  BY Zenon DEF Readable
<1>2. PICK a, b \in Seq(Char), c \in Char :
          /\ a = <<ToString(g)>> /\ b = <<GroupName[g]>> /\ c = ","
          /\ Plain(a) /\ Plain(b)
  BY <1>1, NameFacts, CharFacts, Zenon
<1>3. PICK x \in Seq(Char) : UsersRead(g, x)
  BY <1>1, UsersAreRead, Zenon
<1>4. PICK y \in Seq(Char) : ItemsRead(g, y)
  BY ItemsAreRead, Zenon
<1>5. PICK u \in Seq(Char) : u = UpTo(g) /\ u = a \o <<c>> \o b \o <<c>> \o x
  <2>1. a \o <<c>> \o b \o <<c>> \o x \in Seq(Char)
    BY JoinedThree, Zenon
  <2>2. UpTo(g) = <<ToString(g)>> \o <<",">> \o <<GroupName[g]>> \o <<",">> \o x
    BY <1>1, <1>3, UpToIs
  <2>3. QED
    BY <1>2, <2>1, <2>2, Zenon
<1>6. PICK uc \in Seq(Char) : uc = u \o <<c>>
  <2>1. <<c>> \in Seq(Char)
    BY OneCharacter
  <2>2. QED
    BY <2>1, ConcatProperties
<1>7. AppendEntries(uc, ItemTexts(g)) = uc \o y
  BY <1>4, EntriesAppended DEF ItemsRead
<1>8. PICK t \in Seq(Char) : t = Body(g) /\ Joined(t, <<a, b, x, y>>, c)
  <2>1. /\ a \o <<c>> \o b \o <<c>> \o x \o <<c>> \o y \in Seq(Char)
        /\ Joined(a \o <<c>> \o b \o <<c>> \o x \o <<c>> \o y, <<a, b, x, y>>, c)
    BY JoinedFour, Zenon
  <2>2. Body(g) = a \o <<c>> \o b \o <<c>> \o x \o <<c>> \o y
    BY <1>2, <1>5, <1>6, <1>7, Zenon DEF Body
  <2>3. QED
    BY <2>1, <2>2, Zenon
<1>9. PICK ps \in Seq(Seq(Char)) : ps = <<a, b, x, y>>
  BY OneMore, Zenon
<1>10. Joined(t, ps, c)
  BY <1>8, <1>9, Zenon
<1>11. Without(ps, ",") /\ Without(ps, "|")
  <2>1. ~Contains(a, ",") /\ ~Contains(b, ",") /\ ~Contains(a, "|") /\ ~Contains(b, "|")
    BY <1>2, PlainText, SeparatorFacts, Zenon
  <2>2. ~Contains(x, ",") /\ ~Contains(x, "|") /\ ~Contains(y, ",") /\ ~Contains(y, "|")
    BY <1>3, <1>4, Zenon DEF UsersRead, ItemsRead
  <2>3. QED
    BY <1>9, <2>1, <2>2, TuplesWithout, Zenon
<1>12. Gives(t, ",", ps) /\ ~Contains(t, "|")
  BY <1>2, <1>10, <1>11, JoinedReads, SeparatorFacts, Zenon
<1>13. ps[1] = a /\ ps[2] = b /\ ps[3] = x /\ ps[4] = y
  BY <1>9
<1>14. FieldsRead(g, ps)
  BY <1>2, <1>3, <1>4, <1>13, Zenon DEF FieldsRead, UsersRead, ItemsRead
<1>15. QED
  BY <1>8, <1>12, <1>14, Zenon DEF Gives

\* Without items, removeLastChar takes the comma and leaves three fields.
LEMMA BodyIsShort ==
    ASSUME TypeOK, NEW g \in Codes, MembersOf(g) # {}, PlainNames(g), ListOf(g) = {}
    PROVE  /\ Body(g) \in Seq(Char) /\ ~Contains(Body(g), "|")
           /\ Len(Pieces(Body(g), ",")) = 3
<1>1. PICK a, b \in Seq(Char), c \in Char :
          /\ a = <<ToString(g)>> /\ b = <<GroupName[g]>> /\ c = ","
          /\ Plain(a) /\ Plain(b)
  BY NameFacts, CharFacts, Zenon
<1>2. PICK x \in Seq(Char) : UsersRead(g, x)
  BY UsersAreRead, Zenon
<1>3. PICK u \in Seq(Char) : u = UpTo(g) /\ Joined(u, <<a, b, x>>, c)
  <2>1. /\ a \o <<c>> \o b \o <<c>> \o x \in Seq(Char)
        /\ Joined(a \o <<c>> \o b \o <<c>> \o x, <<a, b, x>>, c)
    BY JoinedThree, Zenon
  <2>2. UpTo(g) = <<ToString(g)>> \o <<",">> \o <<GroupName[g]>> \o <<",">> \o x
    BY <1>2, UpToIs
  <2>3. UpTo(g) = a \o <<c>> \o b \o <<c>> \o x
    BY <1>1, <2>2, Zenon
  <2>4. QED
    BY <2>1, <2>3, Zenon
<1>4. Terminated(ItemTexts(g), "-") = <<>>
  <2>1. PICK E : E = ListOf(g) /\ E = {}
    BY Zenon
  <2>2. SetToSeq(E) \in Seq(E)
    BY <2>1, SetToSeqLists, FS_EmptySet
  <2>3. findItemsInGroup(g) \in Seq(E)
    BY <2>1, <2>2, Zenon DEF findItemsInGroup
  <2>4. findItemsInGroup(g) = <<>>
    BY <2>1, <2>3
  <2>5. ItemTexts(g) = <<>>
    BY <2>4 DEF ItemTexts
  <2>6. Terminated(<<>>, "-") = <<>>
    BY DEF Terminated, FlattenSeq
  <2>7. QED
    BY <2>5, <2>6, Zenon
<1>5. Body(g) = u
  <2>1. PICK uc \in Seq(Char) : uc = Append(u, c) /\ uc = u \o <<c>>
    BY AppendProperties, AppendIsConcat
  <2>2. uc \o <<>> = uc
    BY ConcatEmptySeq
  <2>3. Front(Append(u, c)) = u
    BY FrontLast
  <2>4. Body(g) = Front((u \o <<c>>) \o Terminated(ItemTexts(g), "-"))
    BY <1>1, <1>3, Zenon DEF Body, AppendEntries, removeLastChar
  <2>5. QED
    BY <1>4, <2>1, <2>2, <2>3, <2>4, Zenon
<1>6. PICK ps \in Seq(Seq(Char)) : ps = <<a, b, x>>
  BY OneMore, Zenon
<1>7. Joined(u, ps, c)
  BY <1>3, <1>6, Zenon
<1>8. Without(ps, ",") /\ Without(ps, "|")
  <2>1. ~Contains(a, ",") /\ ~Contains(b, ",") /\ ~Contains(a, "|") /\ ~Contains(b, "|")
    BY <1>1, PlainText, SeparatorFacts, Zenon
  <2>2. ~Contains(x, ",") /\ ~Contains(x, "|")
    BY <1>2, Zenon DEF UsersRead
  <2>3. QED
    BY <1>6, <2>1, <2>2, TuplesWithout, Zenon
<1>9. Gives(u, ",", ps) /\ ~Contains(u, "|")
  BY <1>1, <1>7, <1>8, JoinedReads, SeparatorFacts, Zenon
<1>10. Len(ps) = 3
  BY <1>6
<1>11. QED
  BY <1>5, <1>9, <1>10, Zenon DEF Gives

\* The parts of the message are the texts of the groups.
LEMMA MessageFields ==
    ASSUME NEW u \in Usernames,
           \A g \in GroupsOf(u) : Body(g) \in Seq(Char) /\ ~Contains(Body(g), "|")
    PROVE  GroupFields(buildRestoreMessage(u)) = {Pieces(Body(g), ",") : g \in GroupsOf(u)}
<1>1. PICK M : M = GroupsOf(u)
  BY Zenon
<1>2. IsFiniteSet(M)
  <2>1. M \in SUBSET Codes
    BY <1>1 DEF GroupsOf
  <2>2. QED
    BY <2>1, RestoreAssumption, FS_Subset
<1>3. PICK s : s = SetToSeq(M)
  BY Zenon
<1>4. s \in Seq(M) /\ {s[k] : k \in DOMAIN s} = M
  <2>1. SetToSeq(M) \in Seq(M) /\ {SetToSeq(M)[k] : k \in DOMAIN SetToSeq(M)} = M
    BY <1>2, SetToSeqLists
  <2>2. QED
    BY <1>3, <2>1
<1>5. PICK n \in Nat : n = Len(s) /\ DOMAIN s = 1 .. n
  BY <1>4, LenProperties
<1>6. (\A k \in 1 .. n : s[k] \in M) /\ (\A g \in M : \E k \in 1 .. n : g = s[k])
  BY <1>4, <1>5
<1>7. PICK ps : ps = [k \in 1 .. n |-> Body(s[k])]
  BY Zenon
<1>8. \A k \in 1 .. n : ps[k] = Body(s[k]) /\ ps[k] \in Seq(Char) /\ ~Contains(ps[k], "|")
  BY <1>1, <1>6, <1>7, Zenon
<1>9. ps \in Seq(Seq(Char)) /\ DOMAIN ps = 1 .. n /\ Len(ps) = n
  <2>1. PICK D : D = Seq(Char)
    BY Zenon
  <2>2. \A k \in 1 .. n : Body(s[k]) \in D
    BY <1>8, <2>1, Zenon
  <2>3. /\ [k \in 1 .. n |-> Body(s[k])] \in Seq(D)
        /\ Len([k \in 1 .. n |-> Body(s[k])]) = n
    BY <2>2
  <2>4. DOMAIN ps = 1 .. n
    BY <1>7, Zenon
  <2>5. QED
    BY <1>7, <2>1, <2>3, <2>4, Zenon
<1>10. PICK bar \in Char : bar = "|"
  BY CharFacts, Zenon
<1>11. PICK h \in Seq(Char) : /\ h = <<"@", "400">> /\ ~Contains(h, bar)
                              /\ <<"@", "400", "|">> = Append(h, bar)
  <2>1. PICK a, b \in Char : a = "@" /\ b = "400" /\ a # bar /\ b # bar
    BY <1>10, CharFacts, SeparatorFacts, Zenon
  <2>2. <<a, b>> \in Seq(Char) /\ Grows(<<a, b, bar>>, <<a, b>>, bar)
    BY OneMore, TupleGrows, Zenon
  <2>3. ~Contains(<<a, b>>, bar)
    BY <2>1 DEF Contains
  <2>4. QED
    BY <1>10, <2>1, <2>2, <2>3, Zenon DEF Grows
<1>12. PICK m : m = buildRestoreMessage(u)
  BY Zenon
<1>13. m = Append(h, bar) \o Terminated(ps, bar) \o <<bar>>
  <2>1. \A k \in 1 .. n : GroupText(s[k]) = ps[k] \o <<bar>>
    BY <1>8, <1>10, GroupTextIs, Zenon
  <2>2. [k \in 1 .. n |-> GroupText(s[k])] = [k \in 1 .. n |-> ps[k] \o <<bar>>]
    BY <2>1, Zenon
  <2>3. Terminated(ps, bar) = FlattenSeq([k \in 1 .. n |-> GroupText(s[k])])
    BY <1>9, <2>2, Zenon DEF Terminated
  <2>4. s = findGroupsOfUser(u)
    BY <1>1, <1>3, Zenon DEF findGroupsOfUser
  <2>5. m = <<"@", "400", "|">> \o FlattenSeq([k \in 1 .. n |-> GroupText(s[k])]) \o <<"|">>
    BY <1>5, <1>12, <2>4, Zenon DEF buildRestoreMessage
  <2>6. QED
    BY <1>10, <1>11, <2>3, <2>5, Zenon
<1>14. PICK parts : parts = Pieces(m, "|")
  BY Zenon
<1>15. Len(parts) = n + 3 /\ \A k \in 1 .. n : parts[k + 1] = ps[k]
  <2>1. \A k \in DOMAIN ps : ~Contains(ps[k], bar)
    BY <1>8, <1>9, <1>10, Zenon
  <2>2. /\ Len(Pieces(m, bar)) = Len(ps) + 3
        /\ \A k \in DOMAIN ps : Pieces(m, bar)[k + 1] = ps[k]
    <3>1. Message(m, h, ps, bar)
      BY <1>13, Zenon DEF Message
    <3>2. Between(Pieces(m, bar), ps)
      BY <1>9, <1>11, <2>1, <3>1, PiecesOfMessage, Zenon
    <3>3. QED
      BY <3>2, Zenon DEF Between
  <2>3. QED
    BY <1>9, <1>10, <1>14, <2>2, Zenon
<1>16. {Pieces(parts[k], ",") : k \in 2 .. Len(parts) - 2} = {Pieces(Body(g), ",") : g \in M}
  <2>1. ASSUME NEW k \in 2 .. Len(parts) - 2
        PROVE  \E g \in M : Pieces(parts[k], ",") = Pieces(Body(g), ",")
    <3>1. PICK j \in 1 .. n : k = j + 1
      <4>1. k - 1 \in 1 .. n /\ k = (k - 1) + 1
        BY <1>15
      <4>2. QED
        BY <4>1, Zenon
    <3>2. parts[k] = Body(s[j]) /\ s[j] \in M
      BY <1>6, <1>8, <1>15, <3>1, Zenon
    <3>3. QED
      BY <3>2, Zenon
  <2>2. ASSUME NEW g \in M
        PROVE  \E k \in 2 .. Len(parts) - 2 : Pieces(Body(g), ",") = Pieces(parts[k], ",")
    <3>1. PICK j \in 1 .. n : g = s[j]
      BY <1>6, Zenon
    <3>2. j + 1 \in 2 .. Len(parts) - 2
      BY <1>15
    <3>3. parts[j + 1] = Body(g)
      BY <1>8, <1>15, <3>1, Zenon
    <3>4. QED
      BY <3>2, <3>3, Zenon
  <2>3. QED
    BY <2>1, <2>2
<1>17. QED
  BY <1>1, <1>12, <1>14, <1>16, Zenon DEF GroupFields

\* The record that a reader makes of the fields f, and the one that is stored.
ReadOf(f) ==
    [code |-> f[1], name |-> f[2],
     users |-> AllPieces(Pieces(f[3], "-"), ":"), items |-> AllPieces(Pieces(f[4], "-"), ":")]

RowOf(g) ==
    [code |-> <<ToString(g)>>, name |-> <<GroupName[g]>>,
     users |-> {<< <<v>>, <<Users_In_Groups[g][v]>> >> : v \in MembersOf(g)},
     items |-> {<<i, QuantityText(Lists[g][i].quantity), Lists[g][i].remarks>> : i \in ListOf(g)}]

\* Both parts of the property hold in every state of the right types.
LEMMA TablesAreDecoded == TypeOK => RestoreDecodes
<1> SUFFICES ASSUME TypeOK, NEW u \in Usernames
             PROVE  /\ (\A g \in GroupsOf(u) : Readable(g)) =>
                          Decoded(buildRestoreMessage(u)) = Stored(u)
                    /\ (\A g \in GroupsOf(u) : ListOf(g) = {} /\ PlainNames(g)) =>
                          \A f \in GroupFields(buildRestoreMessage(u)) : Len(f) = 3
  BY Zenon DEF RestoreDecodes
<1>1. ASSUME NEW g \in GroupsOf(u) PROVE g \in Codes /\ MembersOf(g) # {}
  <2>1. g \in Codes /\ isUserExistsInGroup(g, u)
    BY Zenon DEF GroupsOf
  <2>2. u \in MembersOf(g)
    BY <2>1, Zenon DEF MembersOf
  <2>3. QED
    BY <2>1, <2>2
<1>2. ASSUME \A g \in GroupsOf(u) : Readable(g)
      PROVE  Decoded(buildRestoreMessage(u)) = Stored(u)
  <2>1. ASSUME NEW g \in GroupsOf(u)
        PROVE  /\ Body(g) \in Seq(Char) /\ ~Contains(Body(g), "|")
               /\ FieldsRead(g, Pieces(Body(g), ","))
    BY <1>1, <1>2, BodyReads, Zenon
  <2>2. PICK M : M = GroupsOf(u)
    BY Zenon
  <2>3. GroupFields(buildRestoreMessage(u)) = {Pieces(Body(g), ",") : g \in M}
    BY <2>1, <2>2, MessageFields, Zenon
  <2>4. ASSUME NEW g \in M PROVE ReadOf(Pieces(Body(g), ",")) = RowOf(g)
    BY <2>1, <2>2, Zenon DEF FieldsRead, ReadOf, RowOf
  <2>5. {ReadOf(f) : f \in {Pieces(Body(g), ",") : g \in M}} = {RowOf(g) : g \in M}
    BY <2>4
  <2>6. Decoded(buildRestoreMessage(u)) = {ReadOf(f) : f \in GroupFields(buildRestoreMessage(u))}
    BY Zenon DEF Decoded, ReadOf
  <2>7. Stored(u) = {RowOf(g) : g \in M}
    BY <2>2, Zenon DEF Stored, RowOf
  <2>8. QED
    BY <2>3, <2>5, <2>6, <2>7, Zenon
<1>3. ASSUME \A g \in GroupsOf(u) : ListOf(g) = {} /\ PlainNames(g),
             NEW f \in GroupFields(buildRestoreMessage(u))
      PROVE  Len(f) = 3
  <2>1. ASSUME NEW g \in GroupsOf(u)
        PROVE  /\ Body(g) \in Seq(Char) /\ ~Contains(Body(g), "|")
               /\ Len(Pieces(Body(g), ",")) = 3
    BY <1>1, <1>3, BodyIsShort, Zenon
  <2>2. GroupFields(buildRestoreMessage(u)) = {Pieces(Body(g), ",") : g \in GroupsOf(u)}
    BY <2>1, MessageFields, Zenon
  <2>3. PICK g \in GroupsOf(u) : f = Pieces(Body(g), ",")
    BY <2>2, Zenon
  <2>4. QED
    BY <2>1, <2>3, Zenon
<1>4. QED
  BY <1>2, <1>3, Zenon

\* Whenever a user asks for it, the restore message (buildRestoreMessage,
\* Restore.cpp) taken apart at its separators gives exactly the groups of the
\* user with their members and lists, if no name in them holds a separator; and a
\* group with an empty list is written with one field too few.
THEOREM RestoreDecodesHolds == Spec => []RestoreDecodes
  BY ListsTypeCorrect, TablesAreDecoded, PTL
=============================================================================
