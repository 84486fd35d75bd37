------------------------------ MODULE Manager ------------------------------
(***************************************************************************)
(* Manager::code_handler: what a request does to the groups and lists, and *)
(* who is told.  The groups are those of module Groups, a list is one item *)
(* that is there or not, and every user is registered.  A request that is  *)
(* refused tells only the sender and is left out.                          *)
(*                                                                         *)
(* trySend looks the recipient up by name, sends on the socket it finds,   *)
(* and saves the message in table UsersPackets if it finds none.  Nothing  *)
(* ever reads that table.  told is what the messages sent to or saved for  *)
(* a user add up to; it is Unknown where a message was lost, until the     *)
(* next restore.  While a handler works through its messages, clients      *)
(* disconnect and their handles are handed out again.                      *)
(*                                                                         *)
(* The sender of a request is connected when its request is executed.  A   *)
(* login that outlives its connection is in module Users.                  *)
(***************************************************************************)
EXTENDS Groups, Sessions, SequencesExt

CONSTANTS
    Unknown,   \* the user has missed something
    Granted    \* the statuses that requests name

VARIABLES
    clients,                \* Server::clients
    disconnected_sockets,   \* Server::disconnected_sockets, as a set
    pc,                     \* of message_handler: "drain", "code", "send"
    outbox,                 \* the messages code_handler has still to send
    UsersPackets,           \* the usernames in table UsersPackets
    told,                   \* user -> group -> what the user was told of it
    astray                  \* users whose socket another LOGIN took over

groups   == <<members, listed, used>>
sessions == <<online_users, online_users_opposite>>
network  == <<clients, disconnected_sockets>>
mvars    == <<groups, sessions, network, pc, outbox, UsersPackets, told, astray>>

View == [rows : [Usernames -> Status \cup {NoRow}], item : BOOLEAN]

NoView == [rows |-> [u \in Usernames |-> NoRow], item |-> FALSE]

\* What a user should know of a group: nothing, or all of it.
Truth(u, g) ==
    IF u \in In(g) THEN [rows |-> members[g], item |-> g \in listed] ELSE NoView

ASSUME ManagerAssumption ==
    /\ IsFiniteSet(Usernames)
    /\ NoRow \notin Codes
    /\ Unknown \notin View
    /\ Granted \subseteq Status

\* A note for somebody, sent on the socket via or, with NoRow, by trySend.
Notes ==
    [about : Codes, kind : {"row"}, user : Usernames, status : Status \cup {NoRow}]
    \cup [about : Codes, kind : {"item"}, item : BOOLEAN]
    \cup [about : Codes, kind : {"closed"}]
    \cup [about : {NoRow}, kind : {"restore"}]

TypeOK ==
    /\ members \in [Codes -> [Usernames -> Status \cup {NoRow}]]
    /\ listed \in SUBSET Codes /\ used \in SUBSET Codes
    /\ online_users \in [Sockets -> Usernames \cup {NoRow}]
    /\ online_users_opposite \in [Names -> Sockets \cup {NoRow}]
    /\ clients \in SUBSET Sockets /\ disconnected_sockets \in SUBSET Sockets
    /\ pc \in {"drain", "code", "send"}
    /\ outbox \in Seq([to : Usernames \cup Codes, via : Sockets \cup {NoRow}, note : Notes])
    /\ UsersPackets \in SUBSET (Usernames \cup Codes)
    /\ told \in [Names -> [Codes -> View \cup {Unknown}]]
    /\ astray \in SUBSET Names

Init ==
    /\ AInit /\ SessionsInit
    /\ clients = {} /\ disconnected_sockets = {}
    /\ pc = "drain" /\ outbox = <<>>
    /\ UsersPackets = {}
    /\ told = [u \in Names |-> [g \in Codes |-> NoView]]
    /\ astray = {}
-----------------------------------------------------------------------------
(***************************************************************************)
(* Server                                                                  *)
(***************************************************************************)
acceptConnection(s) ==
    /\ s \notin clients
    /\ clients' = clients \cup {s}
    /\ UNCHANGED <<groups, sessions, disconnected_sockets, pc, outbox, UsersPackets, told, astray>>

\* Server::disconnect, by recvFunction or by a send that fails.
disconnect(s) ==
    /\ s \in clients
    /\ clients' = clients \ {s}
    /\ disconnected_sockets' = disconnected_sockets \cup {s}
    /\ UNCHANGED <<groups, sessions, pc, outbox, UsersPackets, told, astray>>
-----------------------------------------------------------------------------
(***************************************************************************)
(* message_handler                                                         *)
(***************************************************************************)
Logout(s) == remove(s, online_users[s]) /\ astray' = astray \ {online_users[s]}

drain(s) ==
    /\ pc = "drain" /\ s \in disconnected_sockets
    /\ IF isLogin(s) THEN Logout(s) ELSE UNCHANGED <<sessions, astray>>
    /\ disconnected_sockets' = disconnected_sockets \ {s}
    /\ UNCHANGED <<groups, clients, pc, outbox, UsersPackets, told>>

drained ==
    /\ pc = "drain" /\ disconnected_sockets = {}
    /\ pc' = "code"
    /\ UNCHANGED <<groups, sessions, network, outbox, UsersPackets, told, astray>>
-----------------------------------------------------------------------------
(***************************************************************************)
(* code_handler, on a request from socket s                                *)
(***************************************************************************)
Handles(s) ==
    /\ pc = "code" /\ s \in clients \ disconnected_sockets
    /\ UNCHANGED <<network, UsersPackets>>

Returns == pc' = "drain" /\ UNCHANGED outbox

Tells(messages) == pc' = "send" /\ outbox' = messages

\* trySend(username, note), and sendToAll over the rows of a SELECT.
Try(username, note) == [to |-> username, via |-> NoRow, note |-> note]

sendToAll(users, note) ==
    LET rows == SetToSeq(users) IN [k \in DOMAIN rows |-> Try(rows[k], note)]

RowNote(g, u, s) == [about |-> g, kind |-> "row", user |-> u, status |-> s]

\* REGISTER and a LOGIN that is refused leave the entry that getUsername made.
register(s) ==
    /\ Handles(s) /\ Returns
    /\ online_users' = getUsernameInserts(s)
    /\ UNCHANGED <<groups, online_users_opposite, told, astray>>

\* The test whether the user is logged in elsewhere is never reached (module
\* Users).  Whoever was logged in on s keeps an entry that leads to it.
login(s, u) ==
    /\ Handles(s) /\ Returns
    /\ add(s, u)
    /\ astray' = (astray \ {u}) \cup
                 {v \in Names \ {u} : online_users[s] = v /\ online_users_opposite[v] = s}
    /\ UNCHANGED <<groups, told>>

logout(s) ==
    /\ Handles(s) /\ isLogin(s) /\ Returns
    /\ Logout(s)
    /\ UNCHANGED <<groups, told>>

\* A request by a socket that isLogin, in the name of its user.
Serves(s) == Handles(s) /\ isLogin(s) /\ UNCHANGED <<sessions, astray>>

\* The reply goes to the socket of the request.
createGroup(s, g) ==
    /\ Serves(s)
    /\ Create(online_users[s], g)
    /\ Tells(<<[to |-> online_users[s], via |-> s, note |-> RowNote(g, online_users[s], "admin")]>>)
    /\ UNCHANGED told

\* Everybody hears of the new user, then the new user of everybody else and of
\* the list.
InviteNotesToOthers(g, u, st) == sendToAll(In(g)', RowNote(g, u, st))
InviteNotes(g, u, st) ==
    LET others == SetToSeq(In(g)' \ {u})
    IN  sendToAll(In(g)', RowNote(g, u, st))
        \o [k \in DOMAIN others |-> Try(u, RowNote(g, others[k], members'[g][others[k]]))]
        \o IF g \in listed
           THEN <<Try(u, [about |-> g, kind |-> "item", item |-> TRUE])>>
           ELSE <<>>

inviteUser(s, g, u, st) ==
    /\ Serves(s) /\ u \in Names
    /\ Invite(online_users[s], g, u, st)
    /\ Tells(InviteNotes(g, u, st))
    /\ UNCHANGED told

\* The members who are left hear of it.  The message to the removed user goes to
\* args[0], which is the group: it is saved under the code.
removeUser(s, g, u) ==
    /\ Serves(s) /\ u \in Names
    /\ Expel(online_users[s], g, u)
    /\ Tells(Append(sendToAll(In(g)', RowNote(g, u, NoRow)), Try(g, RowNote(g, u, NoRow))))
    /\ told' = [told EXCEPT ![u][g] = Unknown]

setStatus(s, g, u, st) ==
    /\ Serves(s) /\ u \in Names
    /\ SetStatus(online_users[s], g, u, st)
    /\ Tells(sendToAll(In(g)', RowNote(g, u, st)))
    /\ UNCHANGED told

\* The members are read before the group is removed.
ClosedNotes(g) == sendToAll(In(g), [about |-> g, kind |-> "closed"])

closeGroup(s, g) ==
    /\ Serves(s)
    /\ Close(online_users[s], g)
    /\ Tells(ClosedNotes(g))
    /\ UNCHANGED told

\* ADD_ITEM, SET_ITEM (which leaves the item there) and REMOVE_ITEM.
editList(s, g) ==
    /\ Serves(s)
    /\ Edit(online_users[s], g)
    /\ g \in listed \/ g \in listed'
    /\ Tells(sendToAll(In(g), [about |-> g, kind |-> "item", item |-> g \in listed']))
    /\ UNCHANGED told

restore(s) ==
    /\ Serves(s)
    /\ Tells(<<Try(online_users[s], [about |-> NoRow, kind |-> "restore"])>>)
    /\ UNCHANGED <<groups, told>>
-----------------------------------------------------------------------------
\* A view after a note about its group, for user u.
Applied(note, u, g, view) ==
    CASE note.kind = "restore" -> Truth(u, g)
      [] note.kind = "closed" -> NoView
      [] note.kind = "row" /\ view # Unknown -> [view EXCEPT !.rows[note.user] = note.status]
      [] note.kind = "item" /\ view # Unknown -> [view EXCEPT !.item = note.item]
      [] OTHER -> Unknown

Concerns(note, g) == note.about \in {g, NoRow}

\* The user is told, or would have been but for the lost message.
Learns(u, note) ==
    told' = [v \in Names |-> [g \in Codes |->
                IF v = u /\ Concerns(note, g) THEN Applied(note, u, g, told[v][g]) ELSE told[v][g]]]
Misses(u, note) ==
    told' = [v \in Names |-> [g \in Codes |->
                IF v = u /\ Concerns(note, g) THEN Unknown ELSE told[v][g]]]

message == Head(outbox)

\* getSock(username), or the socket of the request.
Destination == IF message.via # NoRow THEN message.via ELSE online_users_opposite[message.to]

Saves == message.via = NoRow /\ ~isLoginByName(message.to)

\* The connection that has the socket is one on which the user is logged in.
Reaches ==
    /\ Destination \in clients \ disconnected_sockets
    /\ online_users[Destination] = message.to

trySend ==
    /\ pc = "send"
    /\ \/ Saves /\ UsersPackets' = UsersPackets \cup {message.to} /\ Learns(message.to, message.note)
       \/ ~Saves /\ Reaches /\ Learns(message.to, message.note) /\ UNCHANGED UsersPackets
       \/ ~Saves /\ ~Reaches /\ Misses(message.to, message.note) /\ UNCHANGED UsersPackets
    /\ outbox' = Tail(outbox)
    /\ pc' = IF outbox' = <<>> THEN "drain" ELSE "send"
    /\ UNCHANGED <<groups, sessions, network, astray>>

Next ==
    \/ trySend \/ drained
    \/ \E s \in Sockets :
          \/ acceptConnection(s) \/ disconnect(s) \/ drain(s)
          \/ register(s) \/ logout(s) \/ restore(s)
          \/ \E u \in Names : login(s, u)
          \/ \E g \in Codes :
                \/ createGroup(s, g) \/ closeGroup(s, g) \/ editList(s, g)
                \/ \E u \in Names :
                      \/ removeUser(s, g, u)
                      \/ \E st \in Granted : inviteUser(s, g, u, st) \/ setStatus(s, g, u, st)

Spec == Init /\ [][Next]_mvars
-----------------------------------------------------------------------------
(***************************************************************************)
(* Properties                                                              *)
(***************************************************************************)

\* Between two requests, the messages that were sent to or saved for a user add
\* up to what the tables say of every group: who is in it, with which status, and
\* the list, and nothing of groups the user is not in.  Exceptions are only a
\* message that was lost and the user's own removal, until a restore or the end
\* of the group.
Informed ==
    pc # "send" => \A u \in Names, g \in Codes : told[u][g] \in {Unknown, Truth(u, g)}

\* A message that is neither saved nor received by its user is one for somebody
\* who was disconnected since the handler emptied disconnected_sockets, or whose
\* socket another user's LOGIN took over, for good: not even the end of that
\* session removes the entry that leads to the wrong socket.
LossExplained ==
    pc = "send" /\ ~Saves /\ ~Reaches =>
        Destination \in disconnected_sockets \/ message.to \in astray
=============================================================================
