---------------------------- MODULE ManagerProofs ----------------------------
(***************************************************************************)
(* Proofs about module Manager, for every set of users, sockets and groups *)
(* and every limit: the types, what the messages of a request add up to,   *)
(* and for whom a message can be lost.                                     *)
(***************************************************************************)
EXTENDS Manager, FiniteSetTheorems, SequenceTheorems, TLAPS

(***************************************************************************)
(* The inductive invariants                                                *)
(***************************************************************************)

\* A handler sends as long as it has something to send.
Sending == pc = "send" <=> outbox # <<>>

TypeInv == TypeOK /\ Sending

Mail == [to : Usernames \cup Codes, via : Sockets \cup {NoRow}, note : Notes]

\* The entry of a name leads to a socket that is logged in under the name, or
\* another LOGIN took the socket over.
LeadsBack ==
    \A u \in Names \ astray :
        online_users_opposite[u] # NoRow => online_users[online_users_opposite[u]] = u

\* Who counts as logged in is connected, or waits in disconnected_sockets.
LoggedInKnown ==
    \A s \in Sockets : online_users[s] # NoRow => s \in clients \cup disconnected_sockets

\* A reply goes to the socket under whose name the request was executed.
RepliesToSender ==
    \A m \in Range(outbox) : m.via # NoRow => online_users[m.via] = m.to

SessionInv == LeadsBack /\ LoggedInKnown /\ RepliesToSender

\* A code that was never given out has no members and no list.
UnusedEmpty ==
    \A g \in Codes \ used : g \notin listed /\ \A u \in Usernames : members[g][u] = NoRow

\* What is still to be sent to u about g.
Pending(u, g) == {m \in Range(outbox) : m.to = u /\ Concerns(m.note, g)}

\* Every message that waits to be sent says what is true.
Truthful(note, u, g) ==
    /\ note.kind = "row" => note.status = Truth(u, g).rows[note.user]
    /\ note.kind = "item" => note.item = Truth(u, g).item
    /\ note.kind = "closed" => Truth(u, g) = NoView

PendingTruthful ==
    \A u \in Names, g \in Codes : \A m \in Pending(u, g) : Truthful(m.note, u, g)

\* Where a user was told something else than what is true, a message that sets
\* it right waits to be sent.
RowFollows(u, g, v) ==
    \E m \in Pending(u, g) : \/ m.note.kind = "closed"
                             \/ m.note.kind = "row" /\ m.note.user = v
ItemFollows(u, g) ==
    \E m \in Pending(u, g) : m.note.kind \in {"closed", "item"}

Followed(u, g) ==
    /\ \A v \in Usernames : told[u][g].rows[v] = Truth(u, g).rows[v] \/ RowFollows(u, g, v)
    /\ told[u][g].item = Truth(u, g).item \/ ItemFollows(u, g)

DifferenceFollowed ==
    \A u \in Names, g \in Codes : told[u][g] # Unknown => Followed(u, g)

InformedInv == UnusedEmpty /\ PendingTruthful /\ DifferenceFollowed
-----------------------------------------------------------------------------
(***************************************************************************)
(* Sequences of messages                                                   *)
(***************************************************************************)

\* The rows of a SELECT are the set in some order.
LEMMA RowsOfSelect ==
    ASSUME NEW S, IsFiniteSet(S)
    PROVE  /\ SetToSeq(S) \in [1 .. Cardinality(S) -> S]
           /\ Range(SetToSeq(S)) = S /\ Cardinality(S) \in Nat
<1>1. Cardinality(S) \in Nat /\ ExistsBijection(1 .. Cardinality(S), S)
    BY FS_CardinalityType
<1>2. \E f \in [1 .. Cardinality(S) -> S] : IsInjective(f)
    BY <1>1 DEF ExistsBijection, Bijection, Injection
<1>3. PICK f : f = SetToSeq(S)
    OBVIOUS
<1>4. f \in [1 .. Cardinality(S) -> S] /\ IsInjective(f)
    BY <1>2, <1>3 DEF SetToSeq
<1>5. f \in Injection(1 .. Cardinality(S), S)
    BY <1>4 DEF Injection
<1>6. Cardinality(1 .. Cardinality(S)) = Cardinality(S)
    BY <1>1, FS_Interval
<1>7. f \in Surjection(1 .. Cardinality(S), S)
    BY <1>5, <1>6, FS_Injection
<1>8. Range(f) = S
    BY <1>4, <1>7 DEF Range, Surjection
<1> QED
    BY <1>1, <1>3, <1>4, <1>8

\* A message for each row of a SELECT, in the order of the rows.
LEMMA OneEach ==
    ASSUME NEW T, NEW n \in Nat, NEW f \in [1 .. n -> T]
    PROVE  f \in Seq(T) /\ Range(f) \subseteq T /\ (Range(f) # {} => f # <<>>)
<1>1. f \in Seq(T)
    BY SeqDef
<1> QED
    BY <1>1 DEF Range

\* sendToAll has a message for every user of the SELECT and no other.
LEMMA sendToAllIsEach ==
    ASSUME NEW users \in SUBSET Usernames, NEW note \in Notes
    PROVE  /\ sendToAll(users, note) \in Seq(Mail)
           /\ Range(sendToAll(users, note)) = {Try(x, note) : x \in users}
<1>1. IsFiniteSet(users)
    BY ManagerAssumption, FS_Subset
<1>2. PICK rows : rows = SetToSeq(users)
    OBVIOUS
<1>3. PICK n \in Nat : rows \in [1 .. n -> users] /\ Range(rows) = users
    BY <1>1, <1>2, RowsOfSelect
<1>4. sendToAll(users, note) = [k \in 1 .. n |-> Try(rows[k], note)]
    BY <1>2, <1>3 DEF sendToAll
<1>5. \A x \in Usernames : Try(x, note) \in Mail
    BY DEF Try, Mail
<1>6. [k \in 1 .. n |-> Try(rows[k], note)] \in [1 .. n -> Mail]
    BY <1>3, <1>5
<1>7. Range([k \in 1 .. n |-> Try(rows[k], note)]) = {Try(x, note) : x \in users}
    BY <1>3 DEF Range
<1> QED
    BY <1>4, <1>6, <1>7, OneEach

\* The messages that tell a new user of the others, with the table as it is then.
LEMMA OthersIsEach ==
    ASSUME NEW others \in SUBSET Usernames, NEW u \in Usernames, NEW g \in Codes,
           NEW table \in [Usernames -> Status \cup {NoRow}]
    PROVE  LET rows == SetToSeq(others)
               mails == [k \in DOMAIN rows |-> Try(u, RowNote(g, rows[k], table[rows[k]]))]
           IN  /\ mails \in Seq(Mail)
               /\ Range(mails) = {Try(u, RowNote(g, x, table[x])) : x \in others}
<1>1. IsFiniteSet(others)
    BY ManagerAssumption, FS_Subset
<1>2. PICK rows : rows = SetToSeq(others)
    OBVIOUS
<1>3. PICK n \in Nat : rows \in [1 .. n -> others] /\ Range(rows) = others
    BY <1>1, <1>2, RowsOfSelect
<1> DEFINE M(x) == Try(u, RowNote(g, x, table[x]))
           mails == [k \in 1 .. n |-> M(rows[k])]
<1>4. \A x \in Usernames : M(x) \in Mail
    BY DEF Try, Mail, RowNote, Notes
<1> HIDE DEF M
<1>5. mails \in [1 .. n -> Mail]
    BY <1>3, <1>4
<1>6. Range(mails) = {M(x) : x \in others}
    BY <1>3 DEF Range
<1>7. mails \in Seq(Mail)
    BY <1>5, OneEach
<1> QED
    BY <1>2, <1>3, <1>6, <1>7 DEF M

\* The first message of the outbox and the rest of them.
LEMMA FirstAndRest ==
    ASSUME NEW S, NEW seq \in Seq(S), seq # <<>>
    PROVE  /\ Head(seq) \in S /\ Tail(seq) \in Seq(S)
           /\ Range(seq) = {Head(seq)} \cup Range(Tail(seq))
<1>1. Head(seq) \in S /\ Tail(seq) \in Seq(S) /\ Len(seq) \in Nat /\ Len(seq) >= 1
    BY HeadTailProperties, EmptySeq
<1>2. Head(seq) = seq[1]
    BY <1>1
<1>3. /\ DOMAIN seq = 1 .. Len(seq) /\ DOMAIN Tail(seq) = 1 .. (Len(seq) - 1)
      /\ \A i \in 1 .. (Len(seq) - 1) : Tail(seq)[i] = seq[i + 1]
    BY <1>1, HeadTailProperties
<1> DEFINE t == Tail(seq)
<1> HIDE DEF t
<1>4. \A i \in 2 .. Len(seq) : i - 1 \in DOMAIN t /\ t[i - 1] = seq[i]
    BY <1>1, <1>3 DEF t
<1>5. \A i \in DOMAIN t : i + 1 \in DOMAIN seq /\ t[i] = seq[i + 1]
    BY <1>1, <1>3 DEF t
<1>6. \A i \in DOMAIN seq : i = 1 \/ i \in 2 .. Len(seq)
    BY <1>1, <1>3
<1>7. 1 \in DOMAIN seq
    BY <1>1, <1>3
<1>8. Range(seq) = {seq[1]} \cup Range(t)
    BY <1>3, <1>4, <1>5, <1>6, <1>7 DEF Range
<1> QED
    BY <1>1, <1>2, <1>8 DEF t

\* Three batches of messages, one after the other.
LEMMA ThreeBatches ==
    ASSUME NEW S, NEW a \in Seq(S), NEW b \in Seq(S), NEW c \in Seq(S)
    PROVE  /\ a \o b \o c \in Seq(S)
           /\ Range(a \o b \o c) = Range(a) \cup Range(b) \cup Range(c)
<1>1. PICK ab : ab = a \o b
    OBVIOUS
<1>2. ab \in Seq(S) /\ Range(ab) = Range(a) \cup Range(b)
    BY <1>1, ConcatProperties, RangeConcatenation
<1>3. ab \o c \in Seq(S) /\ Range(ab \o c) = Range(ab) \cup Range(c)
    BY <1>2, ConcatProperties, RangeConcatenation
<1> QED
    BY <1>1, <1>2, <1>3

\* What trySend and sendToAll make are messages.
LEMMA NotesAreNotes ==
    ASSUME NEW g \in Codes
    PROVE  /\ \A u \in Usernames, s \in Status \cup {NoRow} : RowNote(g, u, s) \in Notes
           /\ \A b \in BOOLEAN : [about |-> g, kind |-> "item", item |-> b] \in Notes
           /\ [about |-> g, kind |-> "closed"] \in Notes
           /\ [about |-> NoRow, kind |-> "restore"] \in Notes
           /\ \A x \in Usernames \cup Codes, note \in Notes : Try(x, note) \in Mail
<1>1. \A u \in Usernames, s \in Status \cup {NoRow} : RowNote(g, u, s) \in Notes
    BY DEF RowNote, Notes
<1>2. \A b \in BOOLEAN : [about |-> g, kind |-> "item", item |-> b] \in Notes
    BY DEF Notes
<1>3. /\ [about |-> g, kind |-> "closed"] \in Notes
      /\ [about |-> NoRow, kind |-> "restore"] \in Notes
    BY DEF Notes
<1>4. \A x \in Usernames \cup Codes, note \in Notes : Try(x, note) \in Mail
    BY DEF Try, Mail
<1> QED
    BY <1>1, <1>2, <1>3, <1>4

\* What a note has, by its kind.
LEMMA NoteFields ==
    ASSUME NEW note \in Notes
    PROVE  /\ note.kind \in {"row", "item", "closed", "restore"}
           /\ note.kind = "row" => note.user \in Usernames /\ note.status \in Status \cup {NoRow}
           /\ note.kind = "item" => note.item \in BOOLEAN
           /\ note.kind = "restore" <=> note.about = NoRow
           /\ note.kind # "restore" => note.about \in Codes
    BY ManagerAssumption DEF Notes

\* The messages after an invitation: to everybody, to the new user about
\* everybody else, and to the new user about the list.
InviteMails(g, u, st, users, table) ==
    {Try(x, RowNote(g, u, st)) : x \in users}
    \cup {Try(u, RowNote(g, x, table[x])) : x \in users \ {u}}
    \cup {m \in {Try(u, [about |-> g, kind |-> "item", item |-> TRUE])} : g \in listed}

LEMMA InviteNotesAreMails ==
    ASSUME NEW g \in Codes, NEW u \in Usernames, NEW st \in Status,
           members'[g] \in [Usernames -> Status \cup {NoRow}]
    PROVE  /\ InviteNotes(g, u, st) \in Seq(Mail)
           /\ Range(InviteNotes(g, u, st)) = InviteMails(g, u, st, In(g)', members'[g])
<1>1. PICK users \in SUBSET Usernames : users = In(g)'
    BY DEF In
<1>2. PICK table \in [Usernames -> Status \cup {NoRow}] : table = members'[g]
    OBVIOUS
<1> DEFINE a == sendToAll(users, RowNote(g, u, st))
           rows == SetToSeq(users \ {u})
           b == [k \in DOMAIN rows |-> Try(u, RowNote(g, rows[k], table[rows[k]]))]
           c == IF g \in listed
                THEN <<Try(u, [about |-> g, kind |-> "item", item |-> TRUE])>> ELSE <<>>
<1>3. a \in Seq(Mail) /\ Range(a) = {Try(x, RowNote(g, u, st)) : x \in users}
    BY NotesAreNotes, sendToAllIsEach
<1>4. /\ b \in Seq(Mail)
      /\ Range(b) = {Try(u, RowNote(g, x, table[x])) : x \in users \ {u}}
    <2>1. users \ {u} \in SUBSET Usernames
        OBVIOUS
    <2> QED
        BY <2>1, OthersIsEach
<1>5. /\ c \in Seq(Mail)
      /\ Range(c) = {m \in {Try(u, [about |-> g, kind |-> "item", item |-> TRUE])} : g \in listed}
    <2>1. PICK m \in Mail : m = Try(u, [about |-> g, kind |-> "item", item |-> TRUE])
        BY NotesAreNotes
    <2>2. <<m>> \in Seq(Mail) /\ Range(<<m>>) = {m}
        BY DEF Range
    <2>3. <<>> \in Seq(Mail) /\ Range(<<>>) = {}
        BY DEF Range
    <2> QED
        BY <2>1, <2>2, <2>3
<1>6. InviteNotes(g, u, st) = a \o b \o c
    BY <1>1, <1>2 DEF InviteNotes
<1> HIDE DEF a, b, c
<1>7. /\ a \o b \o c \in Seq(Mail)
      /\ Range(a \o b \o c) = Range(a) \cup Range(b) \cup Range(c)
    <2>1. a \in Seq(Mail) /\ b \in Seq(Mail) /\ c \in Seq(Mail)
        BY <1>3, <1>4, <1>5
    <2> QED
        BY ONLY <2>1, ThreeBatches
<1> QED
    BY <1>1, <1>2, <1>3, <1>4, <1>5, <1>6, <1>7 DEF InviteMails

\* The messages after a removal: to everybody who is left, and to the name that
\* is the code of the group.
LEMMA RemoveNotesAreMails ==
    ASSUME NEW g \in Codes, NEW u \in Usernames, NEW users \in SUBSET Usernames
    PROVE  LET mails == Append(sendToAll(users, RowNote(g, u, NoRow)), Try(g, RowNote(g, u, NoRow)))
           IN  /\ mails \in Seq(Mail)
               /\ Range(mails) = {Try(x, RowNote(g, u, NoRow)) : x \in users \cup {g}}
<1> DEFINE a == sendToAll(users, RowNote(g, u, NoRow))
<1>1. PICK m \in Mail : m = Try(g, RowNote(g, u, NoRow))
    BY NotesAreNotes
<1>2. a \in Seq(Mail) /\ Range(a) = {Try(x, RowNote(g, u, NoRow)) : x \in users}
    BY NotesAreNotes, sendToAllIsEach
<1> HIDE DEF a
<1>3. <<m>> \in Seq(Mail) /\ Range(<<m>>) = {m}
    BY DEF Range
<1>4. /\ Append(a, m) = a \o <<m>> /\ a \o <<m>> \in Seq(Mail)
      /\ Range(a \o <<m>>) = Range(a) \cup Range(<<m>>)
    BY <1>2, <1>3, AppendIsConcat, ConcatProperties, RangeConcatenation
<1>5. Range(Append(a, m)) = {Try(x, RowNote(g, u, NoRow)) : x \in users \cup {g}}
    BY <1>1, <1>2, <1>3, <1>4
<1> QED
    BY <1>1, <1>4, <1>5 DEF a
-----------------------------------------------------------------------------
(***************************************************************************)
(* What each request does to the tables, and the messages it leaves        *)
(***************************************************************************)

\* What every request about a group does and leaves alone.
Requested ==
    /\ pc = "code" /\ pc' = "send"
    /\ UNCHANGED <<sessions, network, UsersPackets, astray>>

Posted(mails) == outbox' \in Seq(Mail) /\ outbox' # <<>> /\ Range(outbox') = mails

\* The tables and the views keep their types.
TablesTyped ==
    /\ members \in [Codes -> [Usernames -> Status \cup {NoRow}]]
    /\ listed \in SUBSET Codes /\ used \in SUBSET Codes
    /\ told \in [Names -> [Codes -> View \cup {Unknown}]]

LEMMA SomethingPosted ==
    ASSUME NEW mails, mails # {}, NEW seq \in Seq(Mail), Range(seq) = mails
    PROVE  seq # <<>>
    BY DEF Range

LEMMA SenderIsUser ==
    ASSUME TypeOK, NEW s \in Sockets, isLogin(s)
    PROVE  online_users[s] \in Usernames
    BY DEF TypeOK, isLogin

LEMMA MembersAreUsers == \A g \in Codes : In(g) \subseteq Usernames /\ In(g)' \subseteq Usernames
    BY DEF In

\* A table of members with one row changed.
LEMMA OneRowChanged ==
    ASSUME TablesTyped, NEW g \in Codes, NEW u \in Usernames, NEW st \in Status \cup {NoRow},
           members' = [members EXCEPT ![g][u] = st]
    PROVE  /\ members' \in [Codes -> [Usernames -> Status \cup {NoRow}]]
           /\ \A h \in Codes \ {g} : members'[h] = members[h]
           /\ \A v \in Usernames \ {u} : members'[g][v] = members[g][v]
           /\ members'[g][u] = st
    BY DEF TablesTyped

LEMMA createGroupEffect ==
    ASSUME TypeOK, NEW s \in Sockets, NEW g \in Codes, createGroup(s, g)
    PROVE  \E e \in Usernames :
              /\ Requested /\ TablesTyped' /\ UNCHANGED <<listed, told>>
              /\ e = online_users[s] /\ g \notin used /\ used' = used \cup {g}
              /\ \A h \in Codes \ {g} : members'[h] = members[h]
              /\ \A v \in Usernames : members'[g][v] = IF v = e THEN "admin" ELSE NoRow
              /\ Posted({[to |-> e, via |-> s, note |-> RowNote(g, e, "admin")]})
<1>1. PICK e \in Usernames : e = online_users[s]
    BY SenderIsUser DEF createGroup, Serves
<1>2. /\ Requested /\ UNCHANGED <<listed, told>> /\ g \notin used /\ used' = used \cup {g}
    BY DEF createGroup, Serves, Handles, Tells, Create, Requested
<1>3. /\ members' = [members EXCEPT ![g] = [u \in Usernames |-> IF u = e THEN "admin" ELSE NoRow]]
      /\ members \in [Codes -> [Usernames -> Status \cup {NoRow}]]
    BY <1>1 DEF createGroup, Create, TypeOK
<1>4. /\ \A h \in Codes \ {g} : members'[h] = members[h]
      /\ \A v \in Usernames : members'[g][v] = IF v = e THEN "admin" ELSE NoRow
      /\ members' \in [Codes -> [Usernames -> Status \cup {NoRow}]]
    BY <1>3 DEF Status
<1>5. TablesTyped'
    BY <1>2, <1>4 DEF TablesTyped, TypeOK
<1>6. PICK m \in Mail : m = [to |-> e, via |-> s, note |-> RowNote(g, e, "admin")]
    <2>1. RowNote(g, e, "admin") \in Notes
        BY NotesAreNotes DEF Status
    <2> QED
        BY <2>1 DEF Mail
<1>7. outbox' = <<m>>
    BY <1>1, <1>6 DEF createGroup, Tells
<1>8. Posted({m})
    BY <1>7 DEF Posted, Range
<1> QED
    BY <1>1, <1>2, <1>4, <1>5, <1>6, <1>8

LEMMA inviteUserEffect ==
    ASSUME TypeOK, NEW s \in Sockets, NEW g \in Codes, NEW u \in Names, NEW st \in Granted,
           inviteUser(s, g, u, st)
    PROVE  /\ Requested /\ TablesTyped' /\ UNCHANGED <<listed, used, told>> /\ u \notin In(g)
           /\ \E e \in Usernames : e \in In(g)
           /\ members' = [members EXCEPT ![g][u] = st]
           /\ Posted(InviteMails(g, u, st, In(g)', members'[g]))
<1>1. u \in Usernames /\ st \in Status
    BY ManagerAssumption DEF Names
<1>2. /\ Requested /\ UNCHANGED <<listed, used, told>> /\ u \notin In(g)
      /\ \E e \in Usernames : e \in In(g)
      /\ members' = [members EXCEPT ![g][u] = st]
    BY DEF inviteUser, Serves, Handles, Tells, Invite, Requested, In
<1>3. TablesTyped /\ st \in Status \cup {NoRow}
    BY <1>1 DEF TypeOK, TablesTyped
<1>4. /\ members' \in [Codes -> [Usernames -> Status \cup {NoRow}]] /\ members'[g][u] = st
    BY <1>1, <1>2, <1>3, OneRowChanged
<1>5. TablesTyped'
    BY <1>2, <1>3, <1>4 DEF TablesTyped
<1>6. /\ InviteNotes(g, u, st) \in Seq(Mail)
      /\ Range(InviteNotes(g, u, st)) = InviteMails(g, u, st, In(g)', members'[g])
    BY <1>1, <1>4, InviteNotesAreMails
<1>7. u \in In(g)'
    BY <1>1, <1>4, NoRowAssumption DEF In
<1>8. Try(u, RowNote(g, u, st)) \in InviteMails(g, u, st, In(g)', members'[g])
    BY <1>7 DEF InviteMails
<1>9. outbox' = InviteNotes(g, u, st)
    BY DEF inviteUser, Tells
<1>10. Posted(InviteMails(g, u, st, In(g)', members'[g]))
    BY <1>6, <1>8, <1>9, SomethingPosted DEF Posted
<1> QED
    BY <1>2, <1>5, <1>10

LEMMA removeUserEffect ==
    ASSUME TypeOK, NEW s \in Sockets, NEW g \in Codes, NEW u \in Names, removeUser(s, g, u)
    PROVE  /\ Requested /\ TablesTyped' /\ UNCHANGED <<listed, used>>
           /\ members' = [members EXCEPT ![g][u] = NoRow]
           /\ u \in In(g)
           /\ told' = [told EXCEPT ![u][g] = Unknown]
           /\ Posted({Try(x, RowNote(g, u, NoRow)) : x \in In(g)' \cup {g}})
<1>1. u \in Usernames
    BY DEF Names
<1>2. /\ Requested /\ UNCHANGED <<listed, used>>
      /\ members' = [members EXCEPT ![g][u] = NoRow]
      /\ u \in In(g) /\ told' = [told EXCEPT ![u][g] = Unknown]
    BY DEF removeUser, Serves, Handles, Tells, Expel, Manages, Requested
<1>3. TablesTyped
    BY DEF TypeOK, TablesTyped
<1>4. members' \in [Codes -> [Usernames -> Status \cup {NoRow}]]
    BY <1>1, <1>2, <1>3, OneRowChanged
<1>5. told' \in [Names -> [Codes -> View \cup {Unknown}]]
    BY <1>2, <1>3 DEF TablesTyped
<1>6. TablesTyped'
    BY <1>2, <1>3, <1>4, <1>5 DEF TablesTyped
<1>7. PICK users \in SUBSET Usernames : users = In(g)'
    BY DEF In
<1>8. outbox' = Append(sendToAll(users, RowNote(g, u, NoRow)), Try(g, RowNote(g, u, NoRow)))
    BY <1>7 DEF removeUser, Tells
<1>9. /\ outbox' \in Seq(Mail)
      /\ Range(outbox') = {Try(x, RowNote(g, u, NoRow)) : x \in users \cup {g}}
    BY <1>1, <1>8, RemoveNotesAreMails
<1>10. {Try(x, RowNote(g, u, NoRow)) : x \in users \cup {g}} # {}
    OBVIOUS
<1>11. Posted({Try(x, RowNote(g, u, NoRow)) : x \in users \cup {g}})
    BY <1>9, <1>10, SomethingPosted DEF Posted
<1> QED
    BY <1>2, <1>6, <1>7, <1>11

LEMMA setStatusEffect ==
    ASSUME TypeOK, NEW s \in Sockets, NEW g \in Codes, NEW u \in Names, NEW st \in Granted,
           setStatus(s, g, u, st)
    PROVE  /\ Requested /\ TablesTyped' /\ UNCHANGED <<listed, used, told>> /\ u \in In(g)
           /\ members' = [members EXCEPT ![g][u] = st]
           /\ Posted({Try(x, RowNote(g, u, st)) : x \in In(g)'})
<1>1. u \in Usernames /\ st \in Status
    BY ManagerAssumption DEF Names
<1>2. /\ Requested /\ UNCHANGED <<listed, used, told>> /\ u \in In(g)
      /\ members' = [members EXCEPT ![g][u] = st]
    BY DEF setStatus, Serves, Handles, Tells, SetStatus, Manages, Requested
<1>3. TablesTyped /\ st \in Status \cup {NoRow}
    BY <1>1 DEF TypeOK, TablesTyped
<1>4. members' \in [Codes -> [Usernames -> Status \cup {NoRow}]] /\ members'[g][u] = st
    BY <1>1, <1>2, <1>3, OneRowChanged
<1>5. TablesTyped'
    BY <1>2, <1>3, <1>4 DEF TablesTyped
<1>6. PICK users \in SUBSET Usernames : users = In(g)'
    BY DEF In
<1>7. PICK note \in Notes : note = RowNote(g, u, st)
    BY <1>1, NotesAreNotes
<1>8. outbox' = sendToAll(users, note)
    BY <1>6, <1>7 DEF setStatus, Tells
<1>9. outbox' \in Seq(Mail) /\ Range(outbox') = {Try(x, note) : x \in users}
    BY <1>8, sendToAllIsEach
<1>10. u \in users
    BY <1>1, <1>4, <1>6, NoRowAssumption DEF In
<1>11. Posted({Try(x, note) : x \in users})
    BY <1>9, <1>10, SomethingPosted DEF Posted
<1> QED
    BY <1>2, <1>5, <1>6, <1>7, <1>11

LEMMA closeGroupEffect ==
    ASSUME TypeOK, NEW s \in Sockets, NEW g \in Codes, closeGroup(s, g)
    PROVE  /\ Requested /\ TablesTyped' /\ UNCHANGED <<used, told>> /\ listed' = listed \ {g}
           /\ \A h \in Codes \ {g} : members'[h] = members[h]
           /\ \A v \in Usernames : members'[g][v] = NoRow
           /\ \E e \in Usernames : members[g][e] # NoRow
           /\ Posted({Try(x, [about |-> g, kind |-> "closed"]) : x \in In(g)})
<1>1. /\ Requested /\ UNCHANGED <<used, told>> /\ listed' = listed \ {g}
      /\ online_users[s] \in In(g)
      /\ members' = [members EXCEPT ![g] = [u \in Usernames |-> NoRow]]
    BY DEF closeGroup, Serves, Handles, Tells, Close, Requested
<1>2. /\ \A h \in Codes \ {g} : members'[h] = members[h]
      /\ \A v \in Usernames : members'[g][v] = NoRow
      /\ members' \in [Codes -> [Usernames -> Status \cup {NoRow}]]
    BY <1>1 DEF TypeOK
<1>3. TablesTyped'
    BY <1>1, <1>2 DEF TablesTyped, TypeOK
<1>4. PICK users \in SUBSET Usernames : users = In(g)
    BY DEF In
<1>5. PICK note \in Notes : note = [about |-> g, kind |-> "closed"]
    BY NotesAreNotes
<1>6. outbox' = sendToAll(users, note)
    BY <1>4, <1>5 DEF closeGroup, Tells, ClosedNotes
<1>7. outbox' \in Seq(Mail) /\ Range(outbox') = {Try(x, note) : x \in users}
    BY <1>6, sendToAllIsEach
<1>8. Posted({Try(x, note) : x \in users})
    BY <1>1, <1>4, <1>7, SomethingPosted DEF Posted
<1>9. \E e \in Usernames : members[g][e] # NoRow
    BY <1>1 DEF In
<1> QED
    BY <1>1, <1>2, <1>3, <1>4, <1>5, <1>8, <1>9

LEMMA editListEffect ==
    ASSUME TypeOK, NEW s \in Sockets, NEW g \in Codes, editList(s, g)
    PROVE  /\ Requested /\ TablesTyped' /\ UNCHANGED <<members, used, told>>
           /\ listed' \in {listed \cup {g}, listed \ {g}}
           /\ \E e \in Usernames : members[g][e] # NoRow
           /\ \E note \in Notes :
                 /\ note.about = g /\ note.kind = "item"
                 /\ g \in listed' => note.item = TRUE
                 /\ g \notin listed' => note.item = FALSE
                 /\ Posted({Try(x, note) : x \in In(g)})
<1>1. /\ Requested /\ UNCHANGED <<members, used, told>> /\ online_users[s] \in In(g)
      /\ listed' \in {listed \cup {g}, listed \ {g}}
    BY DEF editList, Serves, Handles, Tells, Edit, Requested
<1>2. TablesTyped'
    BY <1>1 DEF TablesTyped, TypeOK
<1>3. PICK users \in SUBSET Usernames : users = In(g)
    BY DEF In
<1>4. PICK b : b = (g \in listed')
    OBVIOUS
<1>5. b \in BOOLEAN
    BY <1>4
<1>6. PICK note \in Notes : note = [about |-> g, kind |-> "item", item |-> b]
    BY <1>5, NotesAreNotes
<1>7. outbox' = sendToAll(users, note)
    <2>1. outbox' = sendToAll(In(g), [about |-> g, kind |-> "item", item |-> g \in listed'])
        BY DEF editList, Tells
    <2> QED
        BY <1>3, <1>4, <1>6, <2>1, Zenon
<1>8. outbox' \in Seq(Mail) /\ Range(outbox') = {Try(x, note) : x \in users}
    BY <1>7, sendToAllIsEach
<1>9. Posted({Try(x, note) : x \in users})
    <2>1. {Try(x, note) : x \in users} # {}
        BY <1>1, <1>3
    <2> QED
        BY <1>8, <2>1, SomethingPosted DEF Posted
<1>10. \E e \in Usernames : members[g][e] # NoRow
    BY <1>1 DEF In
<1>11. Posted({Try(x, note) : x \in In(g)})
    BY <1>3, <1>9
<1>12. /\ g \in listed' => b = TRUE
       /\ g \notin listed' => b = FALSE
    <2>1. g \in listed' => (g \in listed') = TRUE
        OBVIOUS
    <2>2. g \notin listed' => (g \in listed') = FALSE
        OBVIOUS
    <2> QED
        BY <1>4, <2>1, <2>2, Zenon
<1>13. /\ note.about = g /\ note.kind = "item"
       /\ g \in listed' => note.item = TRUE
       /\ g \notin listed' => note.item = FALSE
    BY <1>6, <1>12
<1> QED
    BY <1>1, <1>2, <1>10, <1>11, <1>13

LEMMA restoreEffect ==
    ASSUME TypeOK, NEW s \in Sockets, restore(s)
    PROVE  \E e \in Usernames :
              /\ Requested /\ TablesTyped' /\ UNCHANGED <<groups, told>>
              /\ Posted({Try(e, [about |-> NoRow, kind |-> "restore"])})
<1>1. PICK e \in Usernames : e = online_users[s]
    BY SenderIsUser DEF restore, Serves
<1>2. Requested /\ UNCHANGED <<groups, told>>
    BY DEF restore, Serves, Handles, Tells, Requested
<1>3. TablesTyped'
    BY <1>2 DEF TablesTyped, TypeOK, groups
<1>4. PICK m \in Mail : m = Try(e, [about |-> NoRow, kind |-> "restore"])
    <2>1. [about |-> NoRow, kind |-> "restore"] \in Notes
        BY DEF Notes
    <2> QED
        BY <2>1 DEF Try, Mail
<1>5. outbox' = <<m>>
    BY <1>1, <1>4 DEF restore, Tells
<1>6. Posted({m})
    BY <1>5 DEF Posted, Range
<1> QED
    BY <1>2, <1>3, <1>4, <1>6
-----------------------------------------------------------------------------
(***************************************************************************)
(* Type correctness                                                        *)
(***************************************************************************)

\* A request about a group, or a restore.
GroupRequest(s) ==
    \/ restore(s)
    \/ \E g \in Codes :
          \/ createGroup(s, g) \/ closeGroup(s, g) \/ editList(s, g)
          \/ \E u \in Names :
                \/ removeUser(s, g, u)
                \/ \E st \in Granted : inviteUser(s, g, u, st) \/ setStatus(s, g, u, st)

\* Each of them changes the tables and leaves messages, and nothing else.
LEMMA RequestEffect ==
    ASSUME TypeOK, NEW s \in Sockets, GroupRequest(s)
    PROVE  Requested /\ TablesTyped' /\ outbox' \in Seq(Mail) /\ outbox' # <<>>
<1>1. CASE restore(s)
    BY <1>1, restoreEffect DEF Posted
<1>2. CASE \E g \in Codes : createGroup(s, g)
    BY <1>2, createGroupEffect DEF Posted
<1>3. CASE \E g \in Codes : closeGroup(s, g)
    BY <1>3, closeGroupEffect DEF Posted
<1>4. CASE \E g \in Codes : editList(s, g)
    BY <1>4, editListEffect DEF Posted
<1>5. CASE \E g \in Codes, u \in Names : removeUser(s, g, u)
    BY <1>5, removeUserEffect DEF Posted
<1>6. CASE \E g \in Codes, u \in Names, st \in Granted : inviteUser(s, g, u, st)
    BY <1>6, inviteUserEffect DEF Posted
<1>7. CASE \E g \in Codes, u \in Names, st \in Granted : setStatus(s, g, u, st)
    BY <1>7, setStatusEffect DEF Posted
<1> QED
    BY <1>1, <1>2, <1>3, <1>4, <1>5, <1>6, <1>7 DEF GroupRequest

\* The steps that change who is connected or logged in, and not the tables.
SessionStep(s) ==
    \/ acceptConnection(s) \/ disconnect(s) \/ drain(s) \/ register(s) \/ logout(s)
    \/ \E u \in Names : login(s, u)

LEMMA NextCases ==
    ASSUME [Next]_mvars
    PROVE  \/ trySend \/ drained \/ UNCHANGED mvars
           \/ \E s \in Sockets : SessionStep(s) \/ GroupRequest(s)
    BY DEF Next, SessionStep, GroupRequest

LEMMA TypeInit == Init => TypeInv
<1> SUFFICES ASSUME Init PROVE TypeInv
    OBVIOUS
<1>1. NoView \in View
    BY DEF NoView, View
<1>2. told \in [Names -> [Codes -> View \cup {Unknown}]]
    BY <1>1 DEF Init
<1>3. outbox \in Seq(Mail)
    BY DEF Init
<1> QED
    BY <1>2, <1>3 DEF Init, AInit, SessionsInit, TypeInv, TypeOK, Sending, Mail

LEMMA SessionStepTyped ==
    ASSUME TypeInv, NEW s \in Sockets, SessionStep(s)
    PROVE  TypeInv'
<1>1. UNCHANGED <<groups, outbox, UsersPackets, told>> /\ pc' \in {pc, "drain"}
      /\ (pc' # pc => pc = "code")
    BY DEF SessionStep, acceptConnection, disconnect, drain, register, logout, login, Handles,
           Returns
<1>2. Sending'
    BY <1>1 DEF TypeInv, Sending
<1>3. /\ online_users' \in [Sockets -> Usernames \cup {NoRow}]
      /\ online_users_opposite' \in [Names -> Sockets \cup {NoRow}]
    <2>1. /\ online_users \in [Sockets -> Usernames \cup {NoRow}]
          /\ online_users_opposite \in [Names -> Sockets \cup {NoRow}]
          /\ EmptyName \in Usernames /\ Names \subseteq Usernames
        BY SessionsAssumption DEF TypeInv, TypeOK, Names
    <2>2. CASE acceptConnection(s) \/ disconnect(s)
        BY <2>1, <2>2 DEF acceptConnection, disconnect, sessions
    <2>3. CASE drain(s) \/ logout(s)
        BY <2>1, <2>3 DEF drain, logout, Logout, remove, sessions
    <2>4. CASE register(s)
        BY <2>1, <2>4 DEF register, getUsernameInserts
    <2>5. CASE \E u \in Names : login(s, u)
        BY <2>1, <2>5 DEF login, add
    <2> QED
        BY <2>2, <2>3, <2>4, <2>5 DEF SessionStep
<1>4. /\ clients' \in SUBSET Sockets /\ disconnected_sockets' \in SUBSET Sockets
      /\ astray' \in SUBSET Names
    BY DEF TypeInv, TypeOK, SessionStep, acceptConnection, disconnect, drain, register, logout,
           login, Logout, Handles, network
<1> QED
    BY <1>1, <1>2, <1>3, <1>4 DEF TypeInv, TypeOK, groups

\* What a user knows after a message is a view, or Unknown.
LEMMA AppliedTyped ==
    ASSUME TypeOK, NEW note \in Notes, NEW u \in Names, NEW g \in Codes,
           NEW view \in View \cup {Unknown}
    PROVE  Applied(note, u, g, view) \in View \cup {Unknown}
<1>1. Truth(u, g) \in View /\ NoView \in View
    <2>1. (g \in listed) \in BOOLEAN
        OBVIOUS
    <2>2. [rows |-> members[g], item |-> g \in listed] \in View
        BY <2>1 DEF TypeOK, View
    <2>3. NoView \in View
        BY DEF NoView, View
    <2> QED
        BY <2>2, <2>3 DEF Truth
<1>2. /\ note.kind \in {"row", "item", "closed", "restore"}
      /\ note.kind = "row" => note.user \in Usernames /\ note.status \in Status \cup {NoRow}
      /\ note.kind = "item" => note.item \in BOOLEAN
    BY NoteFields
<1>3. CASE note.kind = "row" /\ view # Unknown
    <2>1. view \in View
        BY <1>3
    <2>2. [view EXCEPT !.rows[note.user] = note.status] \in View
        BY <1>2, <1>3, <2>1 DEF View
    <2> QED
        BY <1>3, <2>2 DEF Applied
<1>4. CASE note.kind = "item" /\ view # Unknown
    <2>1. view \in View
        BY <1>4
    <2>2. [view EXCEPT !.item = note.item] \in View
        BY <1>2, <1>4, <2>1 DEF View
    <2> QED
        BY <1>4, <2>2 DEF Applied
<1>5. CASE note.kind \in {"restore", "closed"} \/ view = Unknown
    BY <1>1, <1>2, <1>5 DEF Applied
<1> QED
    BY <1>2, <1>3, <1>4, <1>5

\* The message that trySend sends, and what it leaves of the outbox.
LEMMA trySendEffect ==
    ASSUME TypeInv, trySend
    PROVE  /\ message \in Mail /\ outbox' \in Seq(Mail)
           /\ Range(outbox) = {message} \cup Range(outbox')
           /\ Learns(message.to, message.note) \/ Misses(message.to, message.note)
<1>1. outbox \in Seq(Mail) /\ outbox # <<>> /\ outbox' = Tail(outbox)
    BY DEF TypeInv, TypeOK, Sending, Mail, trySend
<1>2. Learns(message.to, message.note) \/ Misses(message.to, message.note)
    BY DEF trySend
<1> QED
    BY <1>1, <1>2, FirstAndRest DEF message

LEMMA trySendTyped ==
    ASSUME TypeInv, trySend
    PROVE  TypeInv'
<1>1. PICK m \in Mail : m = message
    BY trySendEffect
<1>2. outbox' \in Seq(Mail) /\ (Learns(m.to, m.note) \/ Misses(m.to, m.note))
    BY <1>1, trySendEffect
<1>3. m.note \in Notes /\ m.to \in Usernames \cup Codes
    BY DEF Mail
<1>4. told' \in [Names -> [Codes -> View \cup {Unknown}]]
    <2>1. \A v \in Names, g \in Codes : told[v][g] \in View \cup {Unknown}
        BY DEF TypeInv, TypeOK
    <2>2. \A v \in Names, g \in Codes : Applied(m.note, v, g, told[v][g]) \in View \cup {Unknown}
        BY <1>3, <2>1, AppliedTyped DEF TypeInv
    <2>3. CASE Learns(m.to, m.note)
        BY <2>1, <2>2, <2>3 DEF Learns
    <2>4. CASE Misses(m.to, m.note)
        BY <2>1, <2>4 DEF Misses
    <2> QED
        BY <1>2, <2>3, <2>4
<1>5. UsersPackets' \in SUBSET (Usernames \cup Codes)
    BY <1>1, <1>3 DEF TypeInv, TypeOK, trySend
<1>6. UNCHANGED <<groups, sessions, network, astray>> /\ pc' \in {"drain", "send"}
    BY DEF trySend
<1>7. Sending'
    BY DEF trySend, Sending
<1> QED
    BY <1>2, <1>4, <1>5, <1>6, <1>7 DEF TypeInv, TypeOK, Mail, groups, sessions, network

LEMMA TypeStep == TypeInv /\ [Next]_mvars => TypeInv'
<1> SUFFICES ASSUME TypeInv, [Next]_mvars PROVE TypeInv'
    OBVIOUS
<1>1. ASSUME NEW s \in Sockets, SessionStep(s) PROVE TypeInv'
    BY <1>1, SessionStepTyped
<1>2. ASSUME NEW s \in Sockets, GroupRequest(s) PROVE TypeInv'
    <2>1. Requested /\ TablesTyped' /\ outbox' \in Seq(Mail) /\ outbox' # <<>>
        BY <1>2, RequestEffect DEF TypeInv
    <2> QED
        BY <2>1 DEF TypeInv, TypeOK, Sending, TablesTyped, Requested, Mail, sessions, network
<1>3. CASE trySend
    BY <1>3, trySendTyped
<1>4. CASE drained \/ UNCHANGED mvars
    BY <1>4 DEF TypeInv, TypeOK, Sending, drained, mvars, groups, sessions, network
<1> QED
    BY <1>1, <1>2, <1>3, <1>4, NextCases

LEMMA TypeInvHolds == Spec => []TypeInv
    BY TypeInit, TypeStep, PTL DEF Spec

\* Tables, sessions and messages keep their types, and a handler never looks for
\* a message to send when there is none.
THEOREM ManagerTypeCorrect == Spec => []TypeOK
<1>1. TypeInv => TypeOK
    BY DEF TypeInv
<1> QED
    BY <1>1, TypeInvHolds, PTL
-----------------------------------------------------------------------------
(***************************************************************************)
(* For whom a message can be lost                                          *)
(***************************************************************************)

LEMMA SessionTypes ==
    ASSUME TypeInv
    PROVE  /\ online_users \in [Sockets -> Usernames \cup {NoRow}]
           /\ online_users_opposite \in [Names -> Sockets \cup {NoRow}]
           /\ clients \in SUBSET Sockets /\ disconnected_sockets \in SUBSET Sockets
           /\ astray \in SUBSET Names /\ Names \subseteq Usernames
           /\ EmptyName \in Usernames \ Names /\ NoRow \notin Usernames /\ NoRow \notin Sockets
    BY SessionsAssumption DEF TypeInv, TypeOK, Names

\* Sessions change only while the outbox is empty.
LEMMA NoRepliesWaiting ==
    ASSUME TypeInv, pc # "send", UNCHANGED outbox
    PROVE  RepliesToSender'
<1>1. Range(outbox') = {}
    BY DEF TypeInv, Sending, Range
<1> QED
    BY <1>1 DEF RepliesToSender

\* A logout takes the entry of the name with it.
LEMMA LogoutKeepsSessions ==
    ASSUME TypeInv, LeadsBack, LoggedInKnown, NEW s \in Sockets, isLogin(s), Logout(s),
           clients' = clients, disconnected_sockets \ {s} \subseteq disconnected_sockets'
    PROVE  LeadsBack' /\ LoggedInKnown'
<1>1. PICK u \in Usernames : u = online_users[s]
    BY SessionTypes DEF isLogin
<1>2. /\ online_users' = [online_users EXCEPT ![s] = NoRow]
      /\ online_users_opposite' =
            [v \in Names |-> IF v = u THEN NoRow ELSE online_users_opposite[v]]
      /\ astray' = astray \ {u}
    BY <1>1 DEF Logout, remove
<1>3. LoggedInKnown'
    BY <1>2, SessionTypes DEF LoggedInKnown
<1>4. ASSUME NEW v \in Names \ astray', online_users_opposite'[v] # NoRow
      PROVE  online_users'[online_users_opposite'[v]] = v
    <2>1. v # u /\ online_users_opposite'[v] = online_users_opposite[v] /\ v \in Names \ astray
        BY <1>2, <1>4
    <2>2. online_users[online_users_opposite[v]] = v /\ online_users_opposite[v] \in Sockets
        BY <1>4, <2>1, SessionTypes DEF LeadsBack
    <2>3. online_users_opposite[v] # s
        BY <1>1, <2>1, <2>2
    <2> QED
        BY <1>2, <2>1, <2>2, <2>3, SessionTypes
<1> QED
    BY <1>3, <1>4 DEF LeadsBack

\* A login leads the name to its socket, and astray whoever was there before.
LEMMA LoginKeepsSessions ==
    ASSUME TypeInv, LeadsBack, LoggedInKnown, NEW s \in Sockets, NEW u \in Names, login(s, u)
    PROVE  LeadsBack' /\ LoggedInKnown'
<1>1. /\ online_users' = [online_users EXCEPT ![s] = u]
      /\ online_users_opposite' = [online_users_opposite EXCEPT ![u] = s]
      /\ astray' = (astray \ {u}) \cup
                   {v \in Names \ {u} : online_users[s] = v /\ online_users_opposite[v] = s}
      /\ s \in clients /\ UNCHANGED <<clients, disconnected_sockets>>
    BY DEF login, add, Handles, network
<1>2. LoggedInKnown'
    BY <1>1, SessionTypes DEF LoggedInKnown
<1>3. ASSUME NEW v \in Names \ astray', online_users_opposite'[v] # NoRow
      PROVE  online_users'[online_users_opposite'[v]] = v
    <2>1. CASE v = u
        BY <1>1, <2>1, SessionTypes
    <2>2. CASE v # u
        <3>1. online_users_opposite'[v] = online_users_opposite[v] /\ v \in Names \ astray
            BY <1>1, <1>3, <2>2, SessionTypes
        <3>2. online_users[online_users_opposite[v]] = v /\ online_users_opposite[v] \in Sockets
            BY <1>3, <3>1, SessionTypes DEF LeadsBack
        <3>3. online_users_opposite[v] # s
            BY <1>1, <1>3, <2>2, <3>2
        <3> QED
            BY <1>1, <3>1, <3>2, <3>3, SessionTypes
    <2> QED
        BY <2>1, <2>2
<1> QED
    BY <1>2, <1>3 DEF LeadsBack

LEMMA SessionInvStep == TypeInv /\ SessionInv /\ [Next]_mvars => SessionInv'
<1> SUFFICES ASSUME TypeInv, SessionInv, [Next]_mvars PROVE SessionInv'
    OBVIOUS
<1>1. ASSUME NEW s \in Sockets, acceptConnection(s) \/ disconnect(s) PROVE SessionInv'
    <2>1. /\ UNCHANGED <<online_users, online_users_opposite, astray, outbox>>
          /\ clients \cup disconnected_sockets \subseteq clients' \cup disconnected_sockets'
        BY <1>1 DEF acceptConnection, disconnect, sessions
    <2> QED
        BY <2>1 DEF SessionInv, LeadsBack, LoggedInKnown, RepliesToSender
<1>2. ASSUME NEW s \in Sockets, drain(s) PROVE SessionInv'
    <2>1. RepliesToSender'
        BY <1>2, NoRepliesWaiting DEF drain
    <2>2. CASE isLogin(s)
        <3>1. /\ Logout(s) /\ clients' = clients
              /\ disconnected_sockets \ {s} \subseteq disconnected_sockets'
            BY <1>2, <2>2 DEF drain
        <3> QED
            BY <2>1, <2>2, <3>1, LogoutKeepsSessions DEF SessionInv
    <2>3. CASE ~isLogin(s)
        <3>1. /\ UNCHANGED <<online_users, online_users_opposite, astray, clients>>
              /\ disconnected_sockets' = disconnected_sockets \ {s}
            BY <1>2, <2>3 DEF drain, sessions
        <3> QED
            BY <2>1, <2>3, <3>1 DEF SessionInv, LeadsBack, LoggedInKnown, isLogin
    <2> QED
        BY <2>2, <2>3
<1>3. ASSUME NEW s \in Sockets, logout(s) PROVE SessionInv'
    <2>1. RepliesToSender'
        BY <1>3, NoRepliesWaiting DEF logout, Handles, Returns
    <2>2. /\ Logout(s) /\ isLogin(s) /\ clients' = clients
          /\ disconnected_sockets \ {s} \subseteq disconnected_sockets'
        BY <1>3 DEF logout, Handles, network
    <2> QED
        BY <2>1, <2>2, LogoutKeepsSessions DEF SessionInv
<1>4. ASSUME NEW s \in Sockets, register(s) PROVE SessionInv'
    <2>1. RepliesToSender'
        BY <1>4, NoRepliesWaiting DEF register, Handles, Returns
    <2>2. /\ UNCHANGED <<online_users_opposite, astray, clients, disconnected_sockets>>
          /\ online_users' = getUsernameInserts(s) /\ s \in clients
        BY <1>4 DEF register, Handles, network
    <2>3. LoggedInKnown'
        BY <2>2, SessionTypes DEF SessionInv, LoggedInKnown, getUsernameInserts
    <2>4. \A t \in Sockets : online_users[t] # NoRow => online_users'[t] = online_users[t]
        BY <2>2, SessionTypes DEF getUsernameInserts, isLogin
    <2>5. ASSUME NEW v \in Names \ astray, online_users_opposite[v] # NoRow
          PROVE  online_users'[online_users_opposite[v]] = v
        <3>1. online_users[online_users_opposite[v]] = v /\ online_users_opposite[v] \in Sockets
            BY <2>5, SessionTypes DEF SessionInv, LeadsBack
        <3> QED
            BY <2>4, <3>1, SessionTypes
    <2> QED
        BY <2>1, <2>2, <2>3, <2>5 DEF SessionInv, LeadsBack
<1>5. ASSUME NEW s \in Sockets, NEW u \in Names, login(s, u) PROVE SessionInv'
    <2>1. RepliesToSender'
        BY <1>5, NoRepliesWaiting DEF login, Handles, Returns
    <2> QED
        BY <1>5, <2>1, LoginKeepsSessions DEF SessionInv
<1>6. ASSUME NEW s \in Sockets, GroupRequest(s) PROVE SessionInv'
    <2>1. Requested
        BY <1>6, RequestEffect DEF TypeInv
    <2>2. LeadsBack' /\ LoggedInKnown'
        BY <2>1 DEF SessionInv, LeadsBack, LoggedInKnown, Requested, sessions, network
    <2>3. \A m \in Range(outbox') : m.via # NoRow => online_users[m.via] = m.to
        <3>1. CASE \E g \in Codes : createGroup(s, g)
            BY <3>1, createGroupEffect DEF TypeInv, Posted
        <3>2. CASE \E mails : Posted(mails) /\ \A m \in mails : m.via = NoRow
            BY <3>2 DEF Posted
        <3>3. \A x, note : Try(x, note).via = NoRow
            BY DEF Try
        <3>4. CASE restore(s)
            <4>1. PICK e \in Usernames : Posted({Try(e, [about |-> NoRow, kind |-> "restore"])})
                BY <3>4, restoreEffect DEF TypeInv
            <4> QED
                BY <3>3, <4>1 DEF Posted
        <3>5. CASE \E g \in Codes : closeGroup(s, g)
            <4>1. PICK g \in Codes : Posted({Try(x, [about |-> g, kind |-> "closed"]) : x \in In(g)})
                BY <3>5, closeGroupEffect DEF TypeInv
            <4> QED
                BY <3>3, <4>1 DEF Posted
        <3>6. CASE \E g \in Codes : editList(s, g)
            <4>1. PICK g \in Codes : editList(s, g)
                BY <3>6
            <4>2. PICK note \in Notes : Posted({Try(x, note) : x \in In(g)})
                BY <4>1, editListEffect DEF TypeInv
            <4> QED
                BY <3>3, <4>2 DEF Posted
        <3>7. CASE \E g \in Codes, u \in Names : removeUser(s, g, u)
            <4>1. PICK g \in Codes, u \in Names : removeUser(s, g, u)
                BY <3>7
            <4>2. Posted({Try(x, RowNote(g, u, NoRow)) : x \in In(g)' \cup {g}})
                BY <4>1, removeUserEffect DEF TypeInv
            <4> QED
                BY <3>3, <4>2 DEF Posted
        <3>8. CASE \E g \in Codes, u \in Names, st \in Granted : setStatus(s, g, u, st)
            <4>1. PICK g \in Codes, u \in Names, st \in Granted : setStatus(s, g, u, st)
                BY <3>8
            <4>2. Posted({Try(x, RowNote(g, u, st)) : x \in In(g)'})
                BY <4>1, setStatusEffect DEF TypeInv
            <4> QED
                BY <3>3, <4>2 DEF Posted
        <3>9. CASE \E g \in Codes, u \in Names, st \in Granted : inviteUser(s, g, u, st)
            <4>1. PICK g \in Codes, u \in Names, st \in Granted : inviteUser(s, g, u, st)
                BY <3>9
            <4>2. Posted(InviteMails(g, u, st, In(g)', members'[g]))
                BY <4>1, inviteUserEffect DEF TypeInv
            <4>3. \A m \in InviteMails(g, u, st, In(g)', members'[g]) : m.via = NoRow
                BY <3>3 DEF InviteMails
            <4> QED
                BY <3>2, <4>2, <4>3
        <3> QED
            BY <1>6, <3>1, <3>4, <3>5, <3>6, <3>7, <3>8, <3>9 DEF GroupRequest
    <2>4. RepliesToSender'
        BY <2>1, <2>3 DEF RepliesToSender, Requested, sessions
    <2> QED
        BY <2>2, <2>4 DEF SessionInv
<1>7. CASE trySend
    <2>1. Range(outbox') \subseteq Range(outbox)
        BY <1>7, trySendEffect
    <2>2. UNCHANGED <<online_users, online_users_opposite, astray, clients, disconnected_sockets>>
        BY <1>7 DEF trySend, sessions, network
    <2> QED
        BY <2>1, <2>2 DEF SessionInv, LeadsBack, LoggedInKnown, RepliesToSender
<1>8. CASE drained \/ UNCHANGED mvars
    <2>1. UNCHANGED <<online_users, online_users_opposite, astray, clients, disconnected_sockets,
                      outbox>>
        BY <1>8 DEF drained, mvars, sessions, network
    <2> QED
        BY <2>1 DEF SessionInv, LeadsBack, LoggedInKnown, RepliesToSender
<1> QED
    BY <1>1, <1>2, <1>3, <1>4, <1>5, <1>6, <1>7, <1>8, NextCases DEF SessionStep

\* A message that is neither saved nor received is one for somebody who was just
\* disconnected, or whose socket another user's LOGIN took over.
THEOREM LossExplainedHolds == Spec => []LossExplained
<1>1. Init => SessionInv
    <2> SUFFICES ASSUME Init PROVE SessionInv
        OBVIOUS
    <2>1. Range(outbox) = {}
        BY DEF Init, Range
    <2> QED
        BY <2>1 DEF Init, SessionsInit, SessionInv, LeadsBack, LoggedInKnown, RepliesToSender
<1>2. TypeInv /\ SessionInv => LossExplained
    <2> SUFFICES ASSUME TypeInv, SessionInv, pc = "send", ~Saves, ~Reaches,
                        message.to \notin astray
                 PROVE  Destination \in disconnected_sockets
        BY DEF LossExplained
    <2>1. outbox \in Seq(Mail) /\ outbox # <<>>
        BY DEF TypeInv, TypeOK, Sending, Mail
    <2>2. PICK m \in Mail : m = message /\ m \in Range(outbox)
        BY <2>1, FirstAndRest DEF message
    <2>3. PICK d : d = Destination
        OBVIOUS
    <2>4. d \in Sockets /\ online_users[d] = m.to /\ m.to # NoRow
        <3>1. CASE m.via # NoRow
            <4>1. d = m.via /\ m.via \in Sockets
                BY <2>2, <2>3, <3>1 DEF Destination, Mail
            <4>2. online_users[d] = m.to
                BY <2>2, <3>1, <4>1 DEF SessionInv, RepliesToSender
            <4>3. m.to # NoRow
                BY <2>2, SessionTypes, ManagerAssumption DEF Mail
            <4> QED
                BY <4>1, <4>2, <4>3
        <3>2. CASE m.via = NoRow
            <4>1. m.to \in Names /\ d = online_users_opposite[m.to] /\ d # NoRow
                BY <2>2, <2>3, <3>2 DEF Destination, Saves, isLoginByName
            <4> QED
                BY <2>2, <4>1, SessionTypes DEF SessionInv, LeadsBack
        <3> QED
            BY <3>1, <3>2
    <2>5. d \in clients \cup disconnected_sockets
        BY <2>4 DEF SessionInv, LoggedInKnown
    <2>6. d \notin clients \ disconnected_sockets
        BY <2>2, <2>3, <2>4 DEF Reaches
    <2> QED
        BY <2>3, <2>5, <2>6
<1> QED
    BY <1>1, <1>2, SessionInvStep, TypeInvHolds, PTL DEF Spec
-----------------------------------------------------------------------------
(***************************************************************************)
(* What the messages add up to                                             *)
(***************************************************************************)

\* view is all of a group with the members table, or nothing of it if u is not in.
Knows(view, table, u, inList) ==
    /\ view \in View
    /\ \A v \in Usernames : view.rows[v] = IF table[u] # NoRow THEN table[v] ELSE NoRow
    /\ table[u] # NoRow /\ inList => view.item = TRUE
    /\ ~(table[u] # NoRow /\ inList) => view.item = FALSE

LEMMA AllOrNothing ==
    ASSUME NEW table \in [Usernames -> Status \cup {NoRow}], NEW u \in Usernames, NEW g, NEW L
    PROVE  /\ table[u] # NoRow => Knows([rows |-> table, item |-> g \in L], table, u, g \in L)
           /\ table[u] = NoRow => Knows(NoView, table, u, g \in L)
<1>1. (g \in L) \in BOOLEAN
    OBVIOUS
<1>2. g \in L => (g \in L) = TRUE
    OBVIOUS
<1>3. g \notin L => (g \in L) = FALSE
    OBVIOUS
<1>4. [rows |-> table, item |-> g \in L] \in View
    BY <1>1 DEF View
<1>5. /\ [rows |-> table, item |-> g \in L].rows = table
      /\ g \in L => [rows |-> table, item |-> g \in L].item = TRUE
      /\ g \notin L => [rows |-> table, item |-> g \in L].item = FALSE
    BY <1>2, <1>3
<1>6. NoView \in View /\ NoView.item = FALSE /\ \A v \in Usernames : NoView.rows[v] = NoRow
    BY DEF NoView, View
<1> QED
    BY <1>4, <1>5, <1>6 DEF Knows

\* What is true of a group, before and after a step.
LEMMA TruthKnows ==
    ASSUME TypeOK, NEW u \in Usernames, NEW g \in Codes
    PROVE  Knows(Truth(u, g), members[g], u, g \in listed)
<1>1. members[g] \in [Usernames -> Status \cup {NoRow}]
    BY DEF TypeOK
<1> QED
    BY <1>1, AllOrNothing DEF Truth, In

LEMMA TruthKnowsNext ==
    ASSUME TypeOK', NEW u \in Usernames, NEW g \in Codes
    PROVE  Knows(Truth(u, g)', members'[g], u, g \in listed')
<1>1. members'[g] \in [Usernames -> Status \cup {NoRow}]
    BY DEF TypeOK
<1> QED
    BY <1>1, AllOrNothing DEF Truth, In

\* Two views that agree on every row and on the item are the same.
LEMMA SameView ==
    ASSUME NEW a \in View, NEW b \in View, \A v \in Usernames : a.rows[v] = b.rows[v],
           a.item = b.item
    PROVE  a = b
<1>1. a.rows = b.rows
    BY DEF View
<1> QED
    BY <1>1 DEF View

LEMMA NothingPending ==
    ASSUME TypeInv, pc # "send"
    PROVE  Range(outbox) = {} /\ \A u \in Names, g \in Codes : Pending(u, g) = {}
<1>1. Range(outbox) = {}
    BY DEF TypeInv, Sending, Range
<1> QED
    BY <1>1 DEF Pending

\* Between two requests everybody was told what is true, or has missed something.
LEMMA QuietTruth ==
    ASSUME TypeInv, InformedInv, pc # "send", NEW u \in Names, NEW g \in Codes,
           told[u][g] # Unknown
    PROVE  told[u][g] = Truth(u, g)
<1>1. /\ \A v \in Usernames : told[u][g].rows[v] = Truth(u, g).rows[v]
      /\ told[u][g].item = Truth(u, g).item
    BY NothingPending DEF InformedInv, DifferenceFollowed, Followed, RowFollows, ItemFollows
<1>2. told[u][g] \in View
    BY DEF TypeInv, TypeOK
<1>3. Truth(u, g) \in View
    BY TruthKnows DEF Names, TypeInv, Knows
<1> QED
    BY <1>1, <1>2, <1>3, SameView

LEMMA QuietKnows ==
    ASSUME TypeInv, InformedInv, pc # "send", NEW u \in Names, NEW g \in Codes,
           told[u][g] # Unknown
    PROVE  Knows(told[u][g], members[g], u, g \in listed)
    BY QuietTruth, TruthKnows DEF TypeInv, Names

\* A request about g leaves what users know of other groups alone; what is left
\* is to look at g.
LEMMA AboutOneGroup ==
    ASSUME TypeInv, TypeInv', InformedInv, UnusedEmpty', pc = "code", NEW g \in Codes,
           \A h \in Codes \ {g} : members'[h] = members[h] /\ (h \in listed' <=> h \in listed),
           \A h \in Codes \ {g}, u \in Names : told'[u][h] = told[u][h],
           \A m \in Range(outbox') : m.note.about = g,
           \A u \in Names : \A m \in Range(outbox') : m.to = u => Truthful(m.note, u, g)',
           \A u \in Names : told'[u][g] # Unknown => Followed(u, g)'
    PROVE  InformedInv'
<1>1. g # NoRow
    BY ManagerAssumption
<1>2. PendingTruthful'
    <2> SUFFICES ASSUME NEW u \in Names, NEW h \in Codes, NEW m \in Pending(u, h)'
                 PROVE  Truthful(m.note, u, h)'
        BY DEF PendingTruthful
    <2>1. m \in Range(outbox') /\ m.to = u /\ m.note.about \in {h, NoRow}
        BY DEF Pending, Concerns
    <2>2. h = g
        BY <1>1, <2>1
    <2> QED
        BY <2>1, <2>2
<1>3. ASSUME NEW u \in Names, NEW h \in Codes, told'[u][h] # Unknown
      PROVE  Followed(u, h)'
    <2>1. CASE h = g
        BY <1>3, <2>1
    <2>2. CASE h # g
        <3>1. Knows(told[u][h], members[h], u, h \in listed)
            BY <1>3, <2>2, QuietKnows
        <3>2. Knows(Truth(u, h)', members'[h], u, h \in listed')
            BY TruthKnowsNext DEF TypeInv, Names
        <3>3. told'[u][h] = told[u][h] /\ members'[h] = members[h] /\ (h \in listed' <=> h \in listed)
            BY <2>2
        <3>4. \A v \in Usernames : told'[u][h].rows[v] = Truth(u, h)'.rows[v]
            BY <3>1, <3>2, <3>3 DEF Knows
        <3>5. told'[u][h].item = Truth(u, h)'.item
            BY <3>1, <3>2, <3>3 DEF Knows
        <3> QED
            BY <3>4, <3>5 DEF Followed
    <2> QED
        BY <2>1, <2>2
<1> QED
    BY <1>2, <1>3 DEF InformedInv, DifferenceFollowed

\* What a message about a row says, and what it means to wait for it.
LEMMA RowMail ==
    ASSUME NEW x, NEW g, NEW u, NEW st
    PROVE  /\ Try(x, RowNote(g, u, st)).to = x
           /\ Try(x, RowNote(g, u, st)).note = RowNote(g, u, st)
           /\ RowNote(g, u, st).about = g /\ RowNote(g, u, st).kind = "row"
           /\ RowNote(g, u, st).user = u /\ RowNote(g, u, st).status = st
    BY DEF Try, RowNote

LEMMA RowComes ==
    ASSUME NEW u, NEW g, NEW v, NEW m \in Range(outbox'), m.to = u, m.note.about = g,
           \/ m.note.kind = "closed"
           \/ m.note.kind = "row" /\ m.note.user = v
    PROVE  RowFollows(u, g, v)'
    BY DEF RowFollows, Pending, Concerns

LEMMA ItemComes ==
    ASSUME NEW u, NEW g, NEW m \in Range(outbox'), m.to = u, m.note.about = g,
           m.note.kind \in {"closed", "item"}
    PROVE  ItemFollows(u, g)'
    BY DEF ItemFollows, Pending, Concerns

\* A group with a member was given out.
LEMMA StillUnused ==
    ASSUME UnusedEmpty, NEW g \in Codes, UNCHANGED used,
           \E e \in Usernames : members[g][e] # NoRow,
           \A h \in Codes \ {g} : members'[h] = members[h] /\ (h \in listed' <=> h \in listed)
    PROVE  UnusedEmpty'
<1>1. g \in used
    BY DEF UnusedEmpty
<1> QED
    BY <1>1 DEF UnusedEmpty

LEMMA createGroupInforms ==
    ASSUME TypeInv, TypeInv', InformedInv, NEW s \in Sockets, NEW g \in Codes, createGroup(s, g)
    PROVE  InformedInv'
<1>1. PICK e \in Usernames :
         /\ Requested /\ UNCHANGED <<listed, told>> /\ g \notin used /\ used' = used \cup {g}
         /\ \A h \in Codes \ {g} : members'[h] = members[h]
         /\ \A v \in Usernames : members'[g][v] = IF v = e THEN "admin" ELSE NoRow
         /\ Posted({[to |-> e, via |-> s, note |-> RowNote(g, e, "admin")]})
    BY createGroupEffect DEF TypeInv
<1>2. PICK m : /\ m = [to |-> e, via |-> s, note |-> RowNote(g, e, "admin")]
               /\ Range(outbox') = {m}
    BY <1>1 DEF Posted
<1>3. /\ m.to = e /\ m.note.about = g /\ m.note.kind = "row" /\ m.note.user = e
      /\ m.note.status = "admin"
    BY <1>2 DEF RowNote
<1>4. UnusedEmpty'
    BY <1>1 DEF InformedInv, UnusedEmpty
<1>5. g \notin listed' /\ \A v \in Usernames : members[g][v] = NoRow
    BY <1>1 DEF InformedInv, UnusedEmpty
<1>6. "admin" # NoRow
    BY NoRowAssumption DEF Status
<1>7. pc = "code"
    BY <1>1 DEF Requested
<1>8. ASSUME NEW u \in Names
      PROVE  /\ m.to = u => Truthful(m.note, u, g)'
             /\ told'[u][g] # Unknown => Followed(u, g)'
    <2>1. u \in Usernames /\ Knows(Truth(u, g)', members'[g], u, g \in listed')
        BY TruthKnowsNext DEF TypeInv, Names
    <2>2. m.to = u => Truthful(m.note, u, g)'
        BY <1>1, <1>3, <1>6, <2>1 DEF Truthful, Knows
    <2>3. ASSUME told'[u][g] # Unknown PROVE Followed(u, g)'
        <3>1. Knows(told[u][g], members[g], u, g \in listed) /\ told' = told
            BY <1>1, <1>7, <2>3, QuietKnows
        <3>2. ASSUME NEW v \in Usernames
              PROVE  told'[u][g].rows[v] = Truth(u, g)'.rows[v] \/ RowFollows(u, g, v)'
            <4>1. CASE u = e /\ v = e
                BY <1>2, <1>3, <4>1, RowComes
            <4>2. CASE ~(u = e /\ v = e)
                BY <1>1, <1>5, <1>6, <2>1, <3>1, <4>2 DEF Knows
            <4> QED
                BY <4>1, <4>2
        <3>3. told'[u][g].item = Truth(u, g)'.item
            BY <1>5, <2>1, <3>1 DEF Knows
        <3> QED
            BY <3>2, <3>3 DEF Followed
    <2> QED
        BY <2>2, <2>3
<1> QED
    BY <1>1, <1>2, <1>3, <1>4, <1>7, <1>8, AboutOneGroup

LEMMA inviteUserInforms ==
    ASSUME TypeInv, TypeInv', InformedInv, NEW s \in Sockets, NEW g \in Codes, NEW u \in Names,
           NEW st \in Granted, inviteUser(s, g, u, st)
    PROVE  InformedInv'
<1>1. /\ Requested /\ UNCHANGED <<listed, used, told>> /\ u \notin In(g)
      /\ \E e \in Usernames : e \in In(g)
      /\ members' = [members EXCEPT ![g][u] = st]
      /\ Range(outbox') = InviteMails(g, u, st, In(g)', members'[g])
    BY inviteUserEffect DEF TypeInv, Posted
<1>2. u \in Usernames /\ st \in Status \cup {NoRow} /\ st # NoRow
    BY ManagerAssumption, NoRowAssumption DEF Names
<1>3. /\ \A h \in Codes \ {g} : members'[h] = members[h]
      /\ \A v \in Usernames \ {u} : members'[g][v] = members[g][v]
      /\ members'[g][u] = st
    BY <1>1, <1>2, OneRowChanged DEF TypeInv, TypeOK, TablesTyped
<1>4. members[g][u] = NoRow /\ (\E e \in Usernames : members[g][e] # NoRow)
    BY <1>1, <1>2 DEF In
<1>5. UnusedEmpty'
    BY <1>1, <1>3, <1>4, StillUnused DEF InformedInv
<1>6. pc = "code"
    BY <1>1 DEF Requested
<1>7. \A x \in Usernames : x \in In(g)' <=> members'[g][x] # NoRow
    BY DEF In
<1>8. ASSUME NEW m \in Range(outbox')
      PROVE  /\ m.note.about = g
             /\ \/ m.to \in In(g)' /\ m.note.kind = "row" /\ m.note.user = u /\ m.note.status = st
                \/ /\ m.to = u /\ m.note.kind = "row" /\ m.note.user \in In(g)'
                   /\ m.note.status = members'[g][m.note.user]
                \/ m.to = u /\ m.note.kind = "item" /\ m.note.item = TRUE /\ g \in listed
    <2>1. CASE \E x \in In(g)' : m = Try(x, RowNote(g, u, st))
        BY <2>1, RowMail
    <2>2. CASE \E x \in In(g)' \ {u} : m = Try(u, RowNote(g, x, members'[g][x]))
        BY <2>2, RowMail
    <2>3. CASE m = Try(u, [about |-> g, kind |-> "item", item |-> TRUE]) /\ g \in listed
        BY <2>3 DEF Try
    <2> QED
        BY <1>1, <2>1, <2>2, <2>3 DEF InviteMails
<1>9. ASSUME NEW w \in Names
      PROVE  /\ \A m \in Range(outbox') : m.to = w => Truthful(m.note, w, g)'
             /\ told'[w][g] # Unknown => Followed(w, g)'
    <2>1. w \in Usernames /\ Knows(Truth(w, g)', members'[g], w, g \in listed')
        BY TruthKnowsNext DEF TypeInv, Names
    <2>2. ASSUME NEW m \in Range(outbox'), m.to = w PROVE Truthful(m.note, w, g)'
        <3>1. In(g)' \subseteq Usernames
            BY DEF In
        <3>2. members'[g][w] # NoRow
            BY <1>2, <1>3, <1>7, <1>8, <2>1, <2>2
        <3> QED
            BY <1>1, <1>2, <1>3, <1>8, <2>1, <2>2, <3>1, <3>2 DEF Truthful, Knows
    <2>3. ASSUME told'[w][g] # Unknown PROVE Followed(w, g)'
        <3>1. Knows(told[w][g], members[g], w, g \in listed) /\ told' = told
            BY <1>1, <1>6, <2>3, QuietKnows
        <3>2. ASSUME NEW v \in Usernames
              PROVE  told'[w][g].rows[v] = Truth(w, g)'.rows[v] \/ RowFollows(w, g, v)'
            <4>1. CASE v = u /\ w \in In(g)'
                <5>1. Try(w, RowNote(g, u, st)) \in Range(outbox')
                    BY <1>1, <4>1 DEF InviteMails
                <5> QED
                    BY <4>1, <5>1, RowMail, RowComes
            <4>2. CASE w = u /\ v \in In(g)' \ {u}
                <5>1. Try(u, RowNote(g, v, members'[g][v])) \in Range(outbox')
                    BY <1>1, <4>2 DEF InviteMails
                <5> QED
                    BY <4>2, <5>1, RowMail, RowComes
            <4>3. CASE v = u /\ w \notin In(g)'
                BY <1>2, <1>3, <1>4, <1>7, <2>1, <3>1, <4>3 DEF Knows
            <4>4. CASE w = u /\ v # u /\ v \notin In(g)'
                BY <1>2, <1>3, <1>4, <1>7, <2>1, <3>1, <4>4 DEF Knows
            <4>5. CASE v # u /\ w # u
                BY <1>3, <2>1, <3>1, <4>5 DEF Knows
            <4> QED
                BY <4>1, <4>2, <4>3, <4>4, <4>5
        <3>3. told'[w][g].item = Truth(w, g)'.item \/ ItemFollows(w, g)'
            <4>1. CASE w # u
                BY <1>1, <1>3, <2>1, <3>1, <4>1 DEF Knows
            <4>2. CASE w = u /\ g \in listed
                <5>1. PICK m : m = Try(u, [about |-> g, kind |-> "item", item |-> TRUE])
                    OBVIOUS
                <5>2. m \in Range(outbox') /\ m.to = u /\ m.note.about = g /\ m.note.kind = "item"
                    BY <1>1, <4>2, <5>1 DEF InviteMails, Try
                <5> QED
                    BY <4>2, <5>2, ItemComes
            <4>3. CASE w = u /\ g \notin listed
                BY <1>1, <2>1, <3>1, <4>3 DEF Knows
            <4> QED
                BY <4>1, <4>2, <4>3
        <3> QED
            BY <3>2, <3>3 DEF Followed
    <2> QED
        BY <2>2, <2>3
<1> QED
    BY <1>1, <1>3, <1>5, <1>6, <1>8, <1>9, AboutOneGroup

\* One row of g changes and every member hears of it: that is all a user who stays
\* in the group, or stays out of it, has to know.
LEMMA OneRowTold ==
    ASSUME TypeInv, TypeInv', InformedInv, pc = "code", UNCHANGED listed,
           NEW g \in Codes, NEW u \in Usernames, NEW w \in Names,
           \A v \in Usernames \ {u} : members'[g][v] = members[g][v],
           members[g][w] # NoRow <=> members'[g][w] # NoRow,
           members'[g][w] # NoRow =>
              \E m \in Range(outbox') : /\ m.to = w /\ m.note.about = g
                                        /\ m.note.kind = "row" /\ m.note.user = u,
           told'[w][g] = told[w][g], told'[w][g] # Unknown
    PROVE  Followed(w, g)'
<1>1. w \in Usernames /\ Knows(Truth(w, g)', members'[g], w, g \in listed')
    BY TruthKnowsNext DEF TypeInv, Names
<1>2. Knows(told'[w][g], members[g], w, g \in listed')
    BY QuietKnows
<1>3. ASSUME NEW v \in Usernames
      PROVE  told'[w][g].rows[v] = Truth(w, g)'.rows[v] \/ RowFollows(w, g, v)'
    <2>1. CASE v = u /\ members'[g][w] # NoRow
        BY <2>1, RowComes
    <2>2. CASE ~(v = u /\ members'[g][w] # NoRow)
        BY <1>1, <1>2, <2>2 DEF Knows
    <2> QED
        BY <2>1, <2>2
<1>4. told'[w][g].item = Truth(w, g)'.item
    BY <1>1, <1>2 DEF Knows
<1> QED
    BY <1>3, <1>4 DEF Followed

LEMMA setStatusInforms ==
    ASSUME TypeInv, TypeInv', InformedInv, NEW s \in Sockets, NEW g \in Codes, NEW u \in Names,
           NEW st \in Granted, setStatus(s, g, u, st)
    PROVE  InformedInv'
<1>1. /\ Requested /\ UNCHANGED <<listed, used, told>> /\ u \in In(g)
      /\ members' = [members EXCEPT ![g][u] = st]
      /\ Range(outbox') = {Try(x, RowNote(g, u, st)) : x \in In(g)'}
    BY setStatusEffect DEF TypeInv, Posted
<1>2. u \in Usernames /\ st \in Status \cup {NoRow} /\ st # NoRow
    BY ManagerAssumption, NoRowAssumption DEF Names
<1>3. /\ \A h \in Codes \ {g} : members'[h] = members[h]
      /\ \A v \in Usernames \ {u} : members'[g][v] = members[g][v]
      /\ members'[g][u] = st
    BY <1>1, <1>2, OneRowChanged DEF TypeInv, TypeOK, TablesTyped
<1>4. members[g][u] # NoRow
    BY <1>1 DEF In
<1>5. UnusedEmpty'
    BY <1>1, <1>2, <1>3, <1>4, StillUnused DEF InformedInv
<1>6. pc = "code"
    BY <1>1 DEF Requested
<1>7. ASSUME NEW m \in Range(outbox')
      PROVE  /\ m.note.about = g /\ m.note.kind = "row" /\ m.note.user = u /\ m.note.status = st
             /\ m.to \in In(g)'
    BY <1>1, RowMail
<1>8. ASSUME NEW w \in Names
      PROVE  /\ \A m \in Range(outbox') : m.to = w => Truthful(m.note, w, g)'
             /\ told'[w][g] # Unknown => Followed(w, g)'
    <2>1. w \in Usernames /\ Knows(Truth(w, g)', members'[g], w, g \in listed')
        BY TruthKnowsNext DEF TypeInv, Names
    <2>2. ASSUME NEW m \in Range(outbox'), m.to = w PROVE Truthful(m.note, w, g)'
        <3>1. members'[g][w] # NoRow
            BY <1>7, <2>2 DEF In
        <3> QED
            BY <1>2, <1>3, <1>7, <2>1, <3>1 DEF Truthful, Knows
    <2>3. ASSUME members'[g][w] # NoRow
          PROVE  \E m \in Range(outbox') : /\ m.to = w /\ m.note.about = g
                                           /\ m.note.kind = "row" /\ m.note.user = u
        <3>1. Try(w, RowNote(g, u, st)) \in Range(outbox')
            BY <1>1, <2>1, <2>3 DEF In
        <3> QED
            BY <3>1, RowMail
    <2>4. members[g][w] # NoRow <=> members'[g][w] # NoRow
        BY <1>2, <1>3, <1>4, <2>1
    <2>5. told' = told /\ listed' = listed
        BY <1>1
    <2>6. told'[w][g] # Unknown => Followed(w, g)'
        BY <1>2, <1>3, <1>6, <2>3, <2>4, <2>5, OneRowTold
    <2> QED
        BY <2>2, <2>6
<1> QED
    BY <1>1, <1>3, <1>5, <1>6, <1>7, <1>8, AboutOneGroup

\* The removed user has missed it.
LEMMA removeUserInforms ==
    ASSUME TypeInv, TypeInv', InformedInv, NEW s \in Sockets, NEW g \in Codes, NEW u \in Names,
           removeUser(s, g, u)
    PROVE  InformedInv'
<1>1. /\ Requested /\ UNCHANGED <<listed, used>> /\ u \in In(g)
      /\ members' = [members EXCEPT ![g][u] = NoRow]
      /\ told' = [told EXCEPT ![u][g] = Unknown]
      /\ Range(outbox') = {Try(x, RowNote(g, u, NoRow)) : x \in In(g)' \cup {g}}
    BY removeUserEffect DEF TypeInv, Posted
<1>2. u \in Usernames
    BY DEF Names
<1>3. /\ \A h \in Codes \ {g} : members'[h] = members[h]
      /\ \A v \in Usernames \ {u} : members'[g][v] = members[g][v]
      /\ members'[g][u] = NoRow
    BY <1>1, <1>2, OneRowChanged DEF TypeInv, TypeOK, TablesTyped
<1>4. members[g][u] # NoRow
    BY <1>1 DEF In
<1>5. UnusedEmpty'
    BY <1>1, <1>2, <1>3, <1>4, StillUnused DEF InformedInv
<1>6. pc = "code"
    BY <1>1 DEF Requested
<1>7. ASSUME NEW m \in Range(outbox')
      PROVE  m.note.about = g /\ m.note.kind = "row" /\ m.note.user = u /\ m.note.status = NoRow
    BY <1>1, RowMail
<1>8. /\ told'[u][g] = Unknown
      /\ \A w \in Names \ {u} : told'[w] = told[w]
      /\ \A w \in Names, h \in Codes \ {g} : told'[w][h] = told[w][h]
    BY <1>1 DEF TypeInv, TypeOK
<1>9. ASSUME NEW w \in Names
      PROVE  /\ \A m \in Range(outbox') : m.to = w => Truthful(m.note, w, g)'
             /\ told'[w][g] # Unknown => Followed(w, g)'
    <2>1. w \in Usernames /\ Knows(Truth(w, g)', members'[g], w, g \in listed')
        BY TruthKnowsNext DEF TypeInv, Names
    <2>2. ASSUME NEW m \in Range(outbox') PROVE Truthful(m.note, w, g)'
        BY <1>2, <1>3, <1>7, <2>1 DEF Truthful, Knows
    <2>3. ASSUME members'[g][w] # NoRow
          PROVE  \E m \in Range(outbox') : /\ m.to = w /\ m.note.about = g
                                           /\ m.note.kind = "row" /\ m.note.user = u
        <3>1. Try(w, RowNote(g, u, NoRow)) \in Range(outbox')
            BY <1>1, <2>1, <2>3 DEF In
        <3> QED
            BY <3>1, RowMail
    <2>4. ASSUME told'[w][g] # Unknown PROVE Followed(w, g)'
        <3>1. w # u /\ told'[w][g] = told[w][g]
            BY <1>8, <2>4
        <3>2. members[g][w] # NoRow <=> members'[g][w] # NoRow
            BY <1>3, <2>1, <3>1
        <3>3. listed' = listed
            BY <1>1
        <3> QED
            BY <1>2, <1>3, <1>6, <2>3, <2>4, <3>1, <3>2, <3>3, OneRowTold
    <2> QED
        BY <2>2, <2>4
<1> QED
    BY <1>1, <1>3, <1>5, <1>6, <1>7, <1>8, <1>9, AboutOneGroup

\* Whoever is in the group hears that it is closed, and knows nothing of it then.
LEMMA closeGroupInforms ==
    ASSUME TypeInv, TypeInv', InformedInv, NEW s \in Sockets, NEW g \in Codes, closeGroup(s, g)
    PROVE  InformedInv'
<1>1. /\ Requested /\ UNCHANGED <<used, told>> /\ listed' = listed \ {g}
      /\ \A h \in Codes \ {g} : members'[h] = members[h]
      /\ \A v \in Usernames : members'[g][v] = NoRow
      /\ \E e \in Usernames : members[g][e] # NoRow
      /\ Range(outbox') = {Try(x, [about |-> g, kind |-> "closed"]) : x \in In(g)}
    BY closeGroupEffect DEF TypeInv, Posted
<1>2. \A h \in Codes \ {g} : h \in listed' <=> h \in listed
    BY <1>1
<1>3. UnusedEmpty'
    BY <1>1, <1>2, StillUnused DEF InformedInv
<1>4. pc = "code"
    BY <1>1 DEF Requested
<1>5. \A m \in Range(outbox') : m.note.about = g /\ m.note.kind = "closed"
    BY <1>1 DEF Try
<1>6. ASSUME NEW w \in Names
      PROVE  /\ \A m \in Range(outbox') : m.to = w => Truthful(m.note, w, g)'
             /\ told'[w][g] # Unknown => Followed(w, g)'
    <2>1. w \in Usernames /\ Knows(Truth(w, g)', members'[g], w, g \in listed')
        BY TruthKnowsNext DEF TypeInv, Names
    <2>2. Truth(w, g)' = NoView
        BY <1>1 DEF Truth, In
    <2>3. \A m \in Range(outbox') : Truthful(m.note, w, g)'
        BY <1>5, <2>2 DEF Truthful
    <2>4. ASSUME told'[w][g] # Unknown, members[g][w] # NoRow PROVE Followed(w, g)'
        <3>1. PICK m : m = Try(w, [about |-> g, kind |-> "closed"])
            OBVIOUS
        <3>2. m \in Range(outbox') /\ m.to = w
            BY <1>1, <2>1, <2>4, <3>1 DEF In, Try
        <3> QED
            BY <1>5, <3>2, RowComes, ItemComes DEF Followed
    <2>5. ASSUME told'[w][g] # Unknown, members[g][w] = NoRow PROVE Followed(w, g)'
        <3>1. Knows(told[w][g], members[g], w, g \in listed) /\ told' = told
            BY <1>1, <1>4, <2>5, QuietKnows
        <3> QED
            BY <1>1, <2>1, <2>5, <3>1 DEF Knows, Followed
    <2> QED
        BY <2>3, <2>4, <2>5
<1> QED
    BY <1>1, <1>2, <1>3, <1>4, <1>5, <1>6, AboutOneGroup

LEMMA editListInforms ==
    ASSUME TypeInv, TypeInv', InformedInv, NEW s \in Sockets, NEW g \in Codes, editList(s, g)
    PROVE  InformedInv'
<1>1. PICK note \in Notes :
         /\ Requested /\ UNCHANGED <<members, used, told>>
         /\ listed' \in {listed \cup {g}, listed \ {g}}
         /\ \E e \in Usernames : members[g][e] # NoRow
         /\ note.about = g /\ note.kind = "item"
         /\ g \in listed' => note.item = TRUE
         /\ g \notin listed' => note.item = FALSE
         /\ Range(outbox') = {Try(x, note) : x \in In(g)}
    BY editListEffect DEF TypeInv, Posted
<1>2. \A h \in Codes \ {g} : members'[h] = members[h] /\ (h \in listed' <=> h \in listed)
    BY <1>1
<1>3. UnusedEmpty'
    BY <1>1, <1>2, StillUnused DEF InformedInv
<1>4. pc = "code"
    BY <1>1 DEF Requested
<1>5. \A m \in Range(outbox') : m.note = note /\ m.to \in In(g)
    BY <1>1 DEF Try
<1>6. ASSUME NEW w \in Names
      PROVE  /\ \A m \in Range(outbox') : m.to = w => Truthful(m.note, w, g)'
             /\ told'[w][g] # Unknown => Followed(w, g)'
    <2>1. w \in Usernames /\ Knows(Truth(w, g)', members[g], w, g \in listed')
        BY <1>1, TruthKnowsNext DEF TypeInv, Names
    <2>2. ASSUME NEW m \in Range(outbox'), m.to = w PROVE Truthful(m.note, w, g)'
        <3>1. members[g][w] # NoRow /\ m.note = note
            BY <1>5, <2>2 DEF In
        <3>2. note.item = Truth(w, g)'.item
            BY <1>1, <2>1, <3>1 DEF Knows
        <3> QED
            BY <1>1, <3>1, <3>2 DEF Truthful
    <2>3. ASSUME told'[w][g] # Unknown PROVE Followed(w, g)'
        <3>1. Knows(told[w][g], members[g], w, g \in listed) /\ told' = told
            BY <1>1, <1>4, <2>3, QuietKnows
        <3>2. \A v \in Usernames : told'[w][g].rows[v] = Truth(w, g)'.rows[v]
            BY <2>1, <3>1 DEF Knows
        <3>3. CASE members[g][w] # NoRow
            <4>1. PICK m : m = Try(w, note)
                OBVIOUS
            <4>2. m \in Range(outbox') /\ m.to = w /\ m.note = note
                BY <1>1, <2>1, <3>3, <4>1 DEF In, Try
            <4> QED
                BY <1>1, <3>2, <4>2, ItemComes DEF Followed
        <3>4. CASE members[g][w] = NoRow
            BY <2>1, <3>1, <3>2, <3>4 DEF Knows, Followed
        <3> QED
            BY <3>3, <3>4
    <2> QED
        BY <2>2, <2>3
<1> QED
    BY <1>1, <1>2, <1>3, <1>4, <1>5, <1>6, AboutOneGroup

\* Before the answer of a restore is sent, everybody knows what was known before.
LEMMA restoreInforms ==
    ASSUME TypeInv, TypeInv', InformedInv, NEW s \in Sockets, restore(s)
    PROVE  InformedInv'
<1>1. PICK e \in Usernames :
         /\ Requested /\ UNCHANGED <<groups, told>>
         /\ Range(outbox') = {Try(e, [about |-> NoRow, kind |-> "restore"])}
    BY restoreEffect DEF TypeInv, Posted
<1>2. pc = "code" /\ UNCHANGED <<members, listed, used, told>>
    BY <1>1 DEF Requested, groups
<1>3. \A m \in Range(outbox') : m.note.kind = "restore"
    BY <1>1 DEF Try
<1>4. PendingTruthful'
    BY <1>3 DEF PendingTruthful, Pending, Truthful
<1>5. ASSUME NEW u \in Names, NEW g \in Codes, told'[u][g] # Unknown PROVE Followed(u, g)'
    <2>1. told[u][g] = Truth(u, g)
        BY <1>2, <1>5, QuietTruth
    <2>2. told'[u][g] = Truth(u, g)'
        BY <1>2, <2>1 DEF Truth, In
    <2> QED
        BY <2>2 DEF Followed
<1>6. UnusedEmpty'
    BY <1>2 DEF InformedInv, UnusedEmpty
<1> QED
    BY <1>4, <1>5, <1>6 DEF InformedInv, DifferenceFollowed

\* A message that is not the one just sent still waits.
LEMMA StillPending ==
    ASSUME NEW m, Range(outbox) = {m} \cup Range(outbox'), NEW u, NEW g
    PROVE  /\ \A k \in Pending(u, g) : k # m => k \in Pending(u, g)'
           /\ Pending(u, g)' \subseteq Pending(u, g)
    BY DEF Pending

\* A user who hears of a row or an item hears what is true, and whatever else the
\* user does not know yet still follows.
LEMMA HeardIsFollowed ==
    ASSUME TypeInv, UNCHANGED groups, NEW m, m.note \in Notes, NEW u \in Names, NEW g \in Codes,
           Range(outbox) = {m} \cup Range(outbox'), Truthful(m.note, u, g),
           told[u][g] # Unknown => Followed(u, g),
           told'[u][g] = Applied(m.note, u, g, told[u][g]), told'[u][g] # Unknown
    PROVE  Followed(u, g)'
<1>1. PICK truth : truth = Truth(u, g)
    OBVIOUS
<1>2. truth = Truth(u, g)'
    BY <1>1 DEF groups, Truth, In
<1>3. /\ m.note.kind \in {"row", "item", "closed", "restore"}
      /\ m.note.kind = "row" => m.note.user \in Usernames
    BY NoteFields
<1>4. CASE m.note.kind \in {"restore", "closed"}
    <2>1. told'[u][g] = truth
        BY <1>1, <1>4 DEF Applied, Truthful
    <2> QED
        BY <1>2, <2>1 DEF Followed
<1>5. ASSUME m.note.kind \in {"row", "item"}
      PROVE  told[u][g] # Unknown /\ told[u][g] \in View
    BY <1>5 DEF Applied, TypeInv, TypeOK
<1>6. CASE m.note.kind = "row"
    <2>1. PICK old \in View : old = told[u][g] /\ old # Unknown
        BY <1>5, <1>6
    <2>2. told'[u][g] = [old EXCEPT !.rows[m.note.user] = m.note.status]
        BY <1>6, <2>1 DEF Applied
    <2>3. /\ told'[u][g].item = old.item
          /\ told'[u][g].rows[m.note.user] = m.note.status
          /\ \A v \in Usernames \ {m.note.user} : told'[u][g].rows[v] = old.rows[v]
        BY <1>3, <1>6, <2>2 DEF View
    <2>4. m.note.status = truth.rows[m.note.user]
        BY <1>1, <1>6 DEF Truthful
    <2>5. ASSUME NEW v \in Usernames \ {m.note.user}
          PROVE  told'[u][g].rows[v] = truth.rows[v] \/ RowFollows(u, g, v)'
        <3>1. old.rows[v] = truth.rows[v] \/ RowFollows(u, g, v)
            BY <1>1, <2>1 DEF Followed
        <3>2. RowFollows(u, g, v) => RowFollows(u, g, v)'
            BY <1>6, StillPending DEF RowFollows
        <3> QED
            BY <2>3, <3>1, <3>2
    <2>6. told'[u][g].item = truth.item \/ ItemFollows(u, g)'
        <3>1. old.item = truth.item \/ ItemFollows(u, g)
            BY <1>1, <2>1 DEF Followed
        <3>2. ItemFollows(u, g) => ItemFollows(u, g)'
            BY <1>6, StillPending DEF ItemFollows
        <3> QED
            BY <2>3, <3>1, <3>2
    <2> QED
        BY <1>2, <2>3, <2>4, <2>5, <2>6 DEF Followed
<1>7. CASE m.note.kind = "item"
    <2>1. PICK old \in View : old = told[u][g] /\ old # Unknown
        BY <1>5, <1>7
    <2>2. told'[u][g] = [old EXCEPT !.item = m.note.item]
        BY <1>7, <2>1 DEF Applied
    <2>3. told'[u][g].item = m.note.item /\ told'[u][g].rows = old.rows
        BY <2>2 DEF View
    <2>4. m.note.item = truth.item
        BY <1>1, <1>7 DEF Truthful
    <2>5. ASSUME NEW v \in Usernames
          PROVE  told'[u][g].rows[v] = truth.rows[v] \/ RowFollows(u, g, v)'
        <3>1. old.rows[v] = truth.rows[v] \/ RowFollows(u, g, v)
            BY <1>1, <2>1 DEF Followed
        <3>2. RowFollows(u, g, v) => RowFollows(u, g, v)'
            BY <1>7, StillPending DEF RowFollows
        <3> QED
            BY <2>3, <3>1, <3>2
    <2>6. told'[u][g].item = truth.item
        BY <2>3, <2>4
    <2> QED
        BY <1>2, <2>5, <2>6 DEF Followed
<1> QED
    BY <1>3, <1>4, <1>6, <1>7

LEMMA trySendInforms ==
    ASSUME TypeInv, TypeInv', InformedInv, trySend
    PROVE  InformedInv'
<1>1. PICK m \in Mail : m = message
    BY trySendEffect
<1>2. /\ Range(outbox) = {m} \cup Range(outbox')
      /\ Learns(m.to, m.note) \/ Misses(m.to, m.note)
    BY <1>1, trySendEffect
<1>3. m.note \in Notes
    BY DEF Mail
<1>4. UNCHANGED groups
    BY DEF trySend
<1>5. UnusedEmpty'
    BY <1>4 DEF InformedInv, UnusedEmpty, groups
<1>6. PendingTruthful'
    <2> SUFFICES ASSUME NEW u \in Names, NEW g \in Codes, NEW k \in Pending(u, g)'
                 PROVE  Truthful(k.note, u, g)'
        BY DEF PendingTruthful
    <2>1. Truthful(k.note, u, g)
        BY <1>2, StillPending DEF InformedInv, PendingTruthful
    <2>2. Truth(u, g)' = Truth(u, g)
        BY <1>4 DEF groups, Truth, In
    <2> QED
        BY <2>1, <2>2 DEF Truthful
<1>7. ASSUME NEW u \in Names, NEW g \in Codes, told'[u][g] # Unknown PROVE Followed(u, g)'
    <2>1. told[u][g] # Unknown => Followed(u, g)
        BY DEF InformedInv, DifferenceFollowed
    <2>2. CASE m.to = u /\ Concerns(m.note, g)
        <3>1. m \in Pending(u, g)
            BY <1>2, <2>2 DEF Pending
        <3>2. Truthful(m.note, u, g)
            BY <3>1 DEF InformedInv, PendingTruthful
        <3>3. told'[u][g] = Applied(m.note, u, g, told[u][g])
            BY <1>2, <1>7, <2>2 DEF Learns, Misses
        <3> QED
            BY <1>2, <1>3, <1>4, <1>7, <2>1, <3>2, <3>3, HeardIsFollowed
    <2>3. CASE ~(m.to = u /\ Concerns(m.note, g))
        <3>1. told'[u][g] = told[u][g]
            BY <1>2, <2>3 DEF Learns, Misses
        <3>2. Truth(u, g)' = Truth(u, g)
            BY <1>4 DEF groups, Truth, In
        <3>3. m \notin Pending(u, g)
            BY <2>3 DEF Pending
        <3>4. Pending(u, g) \subseteq Pending(u, g)'
            BY <1>2, <3>3, StillPending
        <3>5. Followed(u, g)
            BY <1>7, <2>1, <3>1
        <3> QED
            BY <3>1, <3>2, <3>4, <3>5 DEF Followed, RowFollows, ItemFollows
    <2> QED
        BY <2>2, <2>3
<1> QED
    BY <1>5, <1>6, <1>7 DEF InformedInv, DifferenceFollowed

LEMMA InformedStep == TypeInv /\ TypeInv' /\ InformedInv /\ [Next]_mvars => InformedInv'
<1> SUFFICES ASSUME TypeInv, TypeInv', InformedInv, [Next]_mvars PROVE InformedInv'
    OBVIOUS
<1>1. CASE trySend
    BY <1>1, trySendInforms
<1>2. ASSUME NEW s \in Sockets, GroupRequest(s) PROVE InformedInv'
    BY <1>2, createGroupInforms, inviteUserInforms, setStatusInforms, removeUserInforms,
       closeGroupInforms, editListInforms, restoreInforms DEF GroupRequest
<1>3. CASE UNCHANGED <<members, listed, used, outbox, told>>
    BY <1>3 DEF InformedInv, UnusedEmpty, PendingTruthful, Pending, Truthful, Truth, In,
                DifferenceFollowed, Followed, RowFollows, ItemFollows
<1>4. CASE drained \/ UNCHANGED mvars
    BY <1>3, <1>4 DEF drained, mvars, groups
<1>5. ASSUME NEW s \in Sockets, SessionStep(s) PROVE InformedInv'
    BY <1>3, <1>5 DEF SessionStep, acceptConnection, disconnect, drain, register, logout, login,
                      Handles, Returns, groups
<1> QED
    BY <1>1, <1>2, <1>4, <1>5, NextCases

\* Between two requests the messages that were sent to or saved for a user add up
\* to what the tables say, or the user has missed something.
THEOREM InformedHolds == Spec => []Informed
<1>1. Init => InformedInv
    <2> SUFFICES ASSUME Init PROVE InformedInv
        OBVIOUS
    <2>1. Range(outbox) = {}
        BY DEF Init, Range
    <2>2. listed = {} /\ \A g \in Codes, u \in Usernames : members[g][u] = NoRow
        BY DEF Init, AInit
    <2>3. \A u \in Names, g \in Codes : told[u][g] = Truth(u, g)
        BY <2>2 DEF Init, Truth, In
    <2> QED
        BY <2>1, <2>2, <2>3 DEF InformedInv, UnusedEmpty, PendingTruthful, Pending,
                                DifferenceFollowed, Followed
<1>2. TypeInv /\ InformedInv => Informed
    BY QuietTruth DEF Informed
<1> QED
    BY <1>1, <1>2, InformedStep, TypeInvHolds, PTL DEF Spec
=============================================================================
