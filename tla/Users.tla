------------------------------- MODULE Users -------------------------------
(***************************************************************************)
(* Users: who is logged in, on which socket.  The two maps of class Users, *)
(* driven by the part of Manager that touches them: message_handler, which *)
(* first logs out the sockets of Server::disconnected_sockets, and the     *)
(* REGISTER, LOGIN and LOGOUT cases of code_handler.                       *)
(*                                                                         *)
(* One handler runs at a time, but beside it Server's two threads accept   *)
(* connections, queue what they send and disconnect them.  A socket handle *)
(* can be handed out again as soon as it is closed, while messages of the  *)
(* connection that had it are still queued; conn tells the two apart for   *)
(* the properties, the code cannot.  The queues and locks inside Server    *)
(* are the subject of module Server.                                       *)
(***************************************************************************)
EXTENDS Sessions, Sequences

CONSTANTS
    MaxConns,     \* bound on connections accepted
    MaxMessages   \* bound on the message queue

ASSUME UsersAssumption ==
    /\ MaxConns \in Nat \ {0} /\ MaxMessages \in Nat \ {0}

Conns == 1 .. MaxConns

\* good: the number and the lengths of the arguments are right and, for LOGIN,
\* the password is the one of the user (a password never changes).
\* OTHER is any code that code_handler only runs for a socket that isLogin.
Requests == [code : {"REGISTER", "LOGIN"}, name : Names, good : BOOLEAN]
            \cup [code : {"LOGOUT", "OTHER"}]

Messages == [sock : Sockets, conn : Conns, request : Requests]

VARIABLES
    registered,             \* the usernames in table Users
    clients,                \* Server::clients
    disconnected_sockets,   \* Server::disconnected_sockets
    messages,               \* Server::messages
    pc, msg,                \* the handler thread and its message
    accepted,               \* number of connections so far
    conn,                   \* socket -> the connection that has or last had it
    session,                \* socket -> the connection whose request made its entry
    late,                   \* sockets whose entry was made after the connection had gone
    raced                   \* sockets that a race on disconnected_sockets affects

users   == <<registered, online_users, online_users_opposite>>
network == <<clients, messages, accepted, conn>>
ghosts  == <<session, late, raced>>
vars    == <<users, disconnected_sockets, network, pc, msg, ghosts>>

NoMessage == [sock |-> NoRow]

TypeOK ==
    /\ registered \in SUBSET Names
    /\ online_users \in [Sockets -> Usernames \cup {NoRow}]
    /\ online_users_opposite \in [Names -> Sockets \cup {NoRow}]
    /\ clients \in SUBSET Sockets
    /\ disconnected_sockets \in Seq(Sockets)
    /\ messages \in Seq(Messages)
    /\ pc \in {"idle", "drain", "pop", "code"}
    /\ msg \in Messages \cup {NoMessage}
    /\ pc # "idle" => msg \in Messages
    /\ accepted \in 0 .. MaxConns
    /\ conn \in [Sockets -> 0 .. MaxConns]
    /\ session \in [Sockets -> 0 .. MaxConns]
    /\ late \in SUBSET Sockets /\ raced \in SUBSET Sockets

Init ==
    /\ registered = {}
    /\ SessionsInit
    /\ clients = {}
    /\ disconnected_sockets = <<>>
    /\ messages = <<>>
    /\ pc = "idle" /\ msg = NoMessage
    /\ accepted = 0
    /\ conn = [s \in Sockets |-> 0]
    /\ session = [s \in Sockets |-> 0]
    /\ late = {} /\ raced = {}

Elements(queue) == {queue[i] : i \in DOMAIN queue}
-----------------------------------------------------------------------------
(***************************************************************************)
(* Server's threads, seen from here                                        *)
(***************************************************************************)
acceptConnection(s) ==
    /\ s \notin clients /\ accepted < MaxConns
    /\ clients' = clients \cup {s}
    /\ accepted' = accepted + 1
    /\ conn' = [conn EXCEPT ![s] = accepted + 1]
    /\ UNCHANGED <<users, disconnected_sockets, messages, pc, msg, ghosts>>

receiveMessage(s, request) ==
    /\ s \in clients /\ Len(messages) < MaxMessages
    /\ messages' = Append(messages, [sock |-> s, conn |-> conn[s], request |-> request])
    /\ UNCHANGED <<users, disconnected_sockets, clients, accepted, conn, pc, msg, ghosts>>

\* disconnected_sockets.push(socket) of Server::disconnect
PushForgotten(s) == disconnected_sockets
PushDisconnected(s) == Append(disconnected_sockets, s)

\* Server::disconnect.  No lock orders its push with the pop of the handler
\* thread; if the two overlap, one of the two updates of the queue's size can be
\* lost.  Without the push's, s is not queued; without the pop's, an element
\* that was popped long ago is queued again behind s.
disconnect(s) ==
    /\ s \in clients
    /\ clients' = clients \ {s}
    /\ \/ disconnected_sockets' = PushDisconnected(s) /\ UNCHANGED raced
       \/ /\ pc = "pop"
          /\ raced' = raced \cup {s}
          /\ UNCHANGED disconnected_sockets
       \/ /\ pc = "pop"
          /\ \E old \in Sockets :
                /\ disconnected_sockets' = Append(PushDisconnected(s), old)
                /\ raced' = raced \cup {old}
    /\ UNCHANGED <<users, messages, accepted, conn, pc, msg, session, late>>
-----------------------------------------------------------------------------
(***************************************************************************)
(* Class Users                                                             *)
(***************************************************************************)
\* Logout(int sock), and the end of the entry's history.
Logout(s) ==
    /\ remove(s, online_users[s])
    /\ late' = late \ {s} /\ raced' = raced \ {s}
    /\ UNCHANGED <<registered, session>>

\* An entry for s made by the message in hand; late if its connection has gone.
EntryMade(s, c) ==
    /\ session' = [session EXCEPT ![s] = c]
    /\ late' = IF s \in clients /\ conn[s] = c THEN late \ {s} ELSE late \cup {s}
    /\ raced' = raced \ {s}

\* The select of Login returns a row.
CredentialsUnchecked(r) == TRUE
CredentialsMatch(r) == r.good /\ r.name \in registered

\* Login's test for a user who is logged in elsewhere.  code_handler has called
\* getUsername(sock) before, so the first find never fails and the test for the
\* username in the else-branch is never reached.
LoggedInElsewhere(r, touched, s) ==
    touched[s] = NoRow /\ online_users_opposite[r.name] # NoRow
-----------------------------------------------------------------------------
(***************************************************************************)
(* Manager::message_handler                                                *)
(***************************************************************************)
\* A message taken from a queue that is empty.
takeMessageUnguarded ==
    /\ pc = "idle"
    /\ msg' = IF messages = <<>> THEN NoMessage ELSE Head(messages)
    /\ messages' = IF messages = <<>> THEN messages ELSE Tail(messages)
    /\ pc' = "drain"
    /\ UNCHANGED <<users, disconnected_sockets, clients, accepted, conn, ghosts>>

takeMessage ==
    /\ pc = "idle" /\ messages # <<>>
    /\ msg' = Head(messages) /\ messages' = Tail(messages)
    /\ pc' = "drain"
    /\ UNCHANGED <<users, disconnected_sockets, clients, accepted, conn, ghosts>>

\* The loop of message_handler ends when the queue has size 0.
DrainSkipped == TRUE
DrainDone == disconnected_sockets = <<>>

drainFront ==
    /\ pc = "drain" /\ disconnected_sockets # <<>>
    /\ IF isLogin(Head(disconnected_sockets))
       THEN Logout(Head(disconnected_sockets))
       ELSE UNCHANGED <<users, ghosts>>
    /\ pc' = "pop"
    /\ UNCHANGED <<disconnected_sockets, network, msg>>

drainPop ==
    /\ pc = "pop"
    /\ disconnected_sockets' = Tail(disconnected_sockets)
    /\ pc' = "drain"
    /\ UNCHANGED <<users, network, msg, ghosts>>

drainEnd ==
    /\ pc = "drain" /\ DrainDone
    /\ pc' = "code"
    /\ UNCHANGED <<users, disconnected_sockets, network, msg, ghosts>>

(***************************************************************************)
(* Manager::code_handler, on the message in hand.  An exception goes back  *)
(* to the client as an error message and leaves the maps as they are, but  *)
(* the entry that getUsername inserted stays.                              *)
(***************************************************************************)
UserIsOffline ==
    /\ ~isLogin(msg.sock) /\ msg.request.code \notin {"REGISTER", "LOGIN"}
    /\ UNCHANGED <<users, ghosts>>

\* getUsername and then nothing: an exception, or a case that leaves Users alone.
OnlyTouched ==
    /\ IF isLogin(msg.sock)
       THEN UNCHANGED <<online_users, ghosts>>
       ELSE online_users' = getUsernameInserts(msg.sock) /\ EntryMade(msg.sock, msg.conn)
    /\ UNCHANGED online_users_opposite

Register ==
    /\ msg.request.code = "REGISTER"
    /\ registered' = IF msg.request.good THEN registered \cup {msg.request.name}
                                         ELSE registered
    /\ OnlyTouched

Login ==
    LET s == msg.sock
        r == msg.request
        touched == getUsernameInserts(s)
    IN  /\ r.code = "LOGIN"
        /\ \/ /\ ~CredentialsMatch(r) \/ LoggedInElsewhere(r, touched, s)
              /\ OnlyTouched
           \/ /\ CredentialsMatch(r) /\ ~LoggedInElsewhere(r, touched, s)
              /\ add(s, r.name) /\ EntryMade(s, msg.conn)
        /\ UNCHANGED registered

Other ==
    /\ isLogin(msg.sock)
    /\ \/ msg.request.code = "LOGOUT" /\ Logout(msg.sock)
       \/ msg.request.code = "OTHER" /\ UNCHANGED <<users, ghosts>>

code_handler ==
    /\ pc = "code"
    /\ UserIsOffline \/ Register \/ Login \/ Other
    /\ pc' = "idle" /\ msg' = NoMessage
    /\ UNCHANGED <<disconnected_sockets, network>>
-----------------------------------------------------------------------------
Handler == takeMessage \/ drainFront \/ drainPop \/ drainEnd \/ code_handler

ServerThreads ==
    \E s \in Sockets :
        \/ acceptConnection(s)
        \/ disconnect(s)
        \/ \E r \in Requests : receiveMessage(s, r)

Next == Handler \/ ServerThreads

Spec == Init /\ [][Next]_vars
-----------------------------------------------------------------------------
(***************************************************************************)
(* Properties                                                              *)
(***************************************************************************)

\* The entry of s was made by the connection that has s now.
Current(s) == s \in clients /\ session[s] = conn[s]

\* A socket keeps an entry after its connection has gone, dead or inherited by
\* the next connection with the same handle, only while its disconnection waits
\* to be drained, or because of one of two races: the request was executed
\* after the disconnection, or the push met the pop of the drain.
StaleSessionExplained ==
    \A s \in Sockets :
        isLogin(s) /\ ~Current(s) =>
            s \in Elements(disconnected_sockets) \cup late \cup raced

\* Draining never logs out somebody else: a disconnection that is still queued
\* for a handle belongs to an earlier connection, and it is consumed before any
\* request of the connection that has the handle now is executed.  Only the
\* race of push and pop can put a handle into the queue that is in use.
NoWrongfulLogout ==
    \A s \in Sockets :
        isLogin(s) /\ Current(s) => s \notin Elements(disconnected_sockets) \ raced

\* Both maps only ever name users of table Users, or nobody: the empty name
\* never gets into online_users_opposite, so nothing is ever sent to it.
SessionsRegistered ==
    /\ \A s \in Sockets : online_users[s] \in registered \cup {EmptyName, NoRow}
    /\ \A u \in Names : online_users_opposite[u] # NoRow => u \in registered

\* "isLogin(int sock): check if the user is login" (Users.h:35): there is a user.
IsLoginSocketTruthful == \A s \in Sockets : isLogin(s) => online_users[s] # EmptyName

\* "The user is already logged in from this username !!!" (Users.cpp:33) is an
\* error, so no two sockets have the same user.
OneSocketPerUser ==
    \A s, t \in Sockets :
        online_users[s] = online_users[t] /\ online_users[s] \in Names => s = t
=============================================================================
