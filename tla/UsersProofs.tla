---------------------------- MODULE UsersProofs ----------------------------
(***************************************************************************)
(* The sessions of Users, for every number of handles, names, connections  *)
(* and queued messages.                                                    *)
(***************************************************************************)
EXTENDS Users, TLAPS, SequenceTheorems

-----------------------------------------------------------------------------
(***************************************************************************)
(* Queues                                                                  *)
(***************************************************************************)

\* What push and pop do to the elements of a queue.
LEMMA ElementsAppend ==
    ASSUME NEW S, NEW q \in Seq(S), NEW x \in S
    PROVE  /\ Append(q, x) \in Seq(S) /\ Append(q, x) # <<>>
           /\ Elements(Append(q, x)) = Elements(q) \cup {x}
           /\ q # <<>> => Head(Append(q, x)) = Head(q)
<1>1. Append(q, x) \in Seq(S) /\ Append(q, x) # <<>>
  BY AppendProperties
<1>2. Elements(Append(q, x)) = Elements(q) \cup {x}
  BY AppendProperties DEF Elements
<1>3. q # <<>> => Head(Append(q, x)) = Head(q)
  BY AppendProperties
<1>4. QED
  BY <1>1, <1>2, <1>3

LEMMA ElementsTail ==
    ASSUME NEW S, NEW q \in Seq(S), q # <<>>
    PROVE  /\ Head(q) \in S /\ Tail(q) \in Seq(S)
           /\ Elements(q) = Elements(Tail(q)) \cup {Head(q)}
<1>1. /\ Head(q) \in S /\ Tail(q) \in Seq(S) /\ Len(Tail(q)) = Len(q) - 1
      /\ \A i \in 1 .. Len(Tail(q)) : Tail(q)[i] = q[i + 1]
      /\ Head(q) = q[1] /\ Len(q) \in Nat /\ Len(q) >= 1
  BY HeadTailProperties
<1>2. DOMAIN q = 1 .. Len(q) /\ DOMAIN Tail(q) = 1 .. Len(Tail(q))
  BY <1>1
<1>3. ASSUME NEW i \in 1 .. Len(q) PROVE q[i] \in Elements(Tail(q)) \cup {Head(q)}
  <2>1. CASE i = 1
    BY <1>1, <2>1
  <2>2. CASE i # 1
    <3>1. i - 1 \in 1 .. Len(Tail(q))
      BY <1>1, <2>2
    <3>2. Tail(q)[i - 1] = q[i]
      BY <1>1, <3>1
    <3>3. QED
      BY <1>2, <3>1, <3>2 DEF Elements
  <2>3. QED
    BY <2>1, <2>2
<1>4. ASSUME NEW i \in 1 .. Len(Tail(q)) PROVE Tail(q)[i] \in Elements(q)
  <2>1. i + 1 \in 1 .. Len(q)
    BY <1>1
  <2>2. QED
    BY <1>1, <1>2, <2>1 DEF Elements
<1>5. Head(q) \in Elements(q)
  BY <1>1, <1>2 DEF Elements
<1>6. QED
  BY <1>1, <1>2, <1>3, <1>4, <1>5 DEF Elements

\* An element of a queue is of the type of its elements.
LEMMA ElementsType ==
    ASSUME NEW S, NEW q \in Seq(S)
    PROVE  Elements(q) \in SUBSET S
  BY DEF Elements
-----------------------------------------------------------------------------
(***************************************************************************)
(* Types                                                                   *)
(***************************************************************************)

\* What the types rest on: the pop of the drain finds the socket whose session it
\* has just ended, and a connected socket has the number of its connection.
Drained ==
    pc = "pop" => disconnected_sockets # <<>> /\ ~isLogin(Head(disconnected_sockets))

Numbered ==
    /\ \A s \in Sockets : conn[s] <= accepted /\ session[s] <= accepted
    /\ \A s \in clients : conn[s] # 0
    /\ \A m \in Elements(messages) : m.conn <= accepted
    /\ pc # "idle" => msg.conn <= accepted

TypeInv == TypeOK /\ Drained /\ Numbered

\* Once the drain has ended, only sockets get into disconnected_sockets whose
\* connection is not the one of the message in hand.
DrainedForMessage ==
    pc = "code" => ~ /\ msg.sock \in Elements(disconnected_sockets)
                     /\ msg.sock \in clients /\ conn[msg.sock] = msg.conn

SessionInv == StaleSessionExplained /\ NoWrongfulLogout /\ DrainedForMessage

\* The facts about the constants that the proofs below use.
LEMMA ConstantFacts ==
    /\ MaxConns \in Nat /\ MaxConns >= 1
    /\ EmptyName \in Usernames /\ EmptyName \notin Names /\ NoRow \notin Usernames
    /\ NoRow \notin Sockets
    /\ \A u \in Names : u \in Usernames
  BY UsersAssumption, SessionsAssumption DEF Names

\* What a disconnection does to the queue of disconnected sockets: it only grows
\* at the end, and it misses the socket, or gets another one, only in a race.
LEMMA DisconnectQueue ==
    ASSUME TypeOK, NEW s \in Sockets, disconnect(s)
    PROVE  /\ disconnected_sockets' \in Seq(Sockets)
           /\ Elements(disconnected_sockets) \subseteq Elements(disconnected_sockets')
           /\ Elements(disconnected_sockets') \subseteq
                  Elements(disconnected_sockets) \cup {s} \cup raced'
           /\ s \in Elements(disconnected_sockets') \cup raced'
           /\ raced \subseteq raced' /\ raced' \subseteq Sockets
           /\ pc # "pop" => Elements(disconnected_sockets') = Elements(disconnected_sockets) \cup {s}
           /\ disconnected_sockets # <<>> =>
                  disconnected_sockets' # <<>> /\ Head(disconnected_sockets') = Head(disconnected_sockets)
<1>1. disconnected_sockets \in Seq(Sockets) /\ raced \subseteq Sockets
  BY DEF TypeOK
<1>2. ASSUME NEW t \in Sockets, NEW q \in Seq(Sockets)
      PROVE  /\ Append(q, t) \in Seq(Sockets) /\ Append(q, t) # <<>>
             /\ Elements(Append(q, t)) = Elements(q) \cup {t}
             /\ q # <<>> => Head(Append(q, t)) = Head(q)
  BY ElementsAppend
<1>3. CASE disconnected_sockets' = PushDisconnected(s) /\ UNCHANGED raced
  BY <1>1, <1>2, <1>3 DEF PushDisconnected
<1>4. CASE pc = "pop" /\ raced' = raced \cup {s} /\ UNCHANGED disconnected_sockets
  BY <1>1, <1>4
<1>5. ASSUME pc = "pop", NEW old \in Sockets,
             disconnected_sockets' = Append(PushDisconnected(s), old),
             raced' = raced \cup {old}
      PROVE  /\ disconnected_sockets' \in Seq(Sockets)
             /\ Elements(disconnected_sockets') = Elements(disconnected_sockets) \cup {s, old}
             /\ disconnected_sockets # <<>> =>
                  disconnected_sockets' # <<>> /\ Head(disconnected_sockets') = Head(disconnected_sockets)
  <2>1. PICK q \in Seq(Sockets) : q = Append(disconnected_sockets, s)
    BY <1>1, <1>2
  <2>2. disconnected_sockets' = Append(q, old)
    BY <1>5, <2>1 DEF PushDisconnected
  <2>3. /\ Elements(q) = Elements(disconnected_sockets) \cup {s} /\ q # <<>>
        /\ disconnected_sockets # <<>> => Head(q) = Head(disconnected_sockets)
    BY <1>1, <1>2, <2>1
  <2>4. QED
    BY <1>2, <2>2, <2>3
<1>6. QED
  BY <1>1, <1>3, <1>4, <1>5 DEF disconnect

\* An entry for s is made by the message in hand, for a user of the table or with
\* the empty name.
EntryOf(s, name) ==
    /\ name \in registered \cup {EmptyName}
    /\ online_users' = [online_users EXCEPT ![s] = name]
    /\ \/ UNCHANGED online_users_opposite
       \/ /\ name \in Names
          /\ online_users_opposite' = [online_users_opposite EXCEPT ![name] = s]
    /\ EntryMade(s, msg.conn)

\* What the steps of the handler do to the sessions.
LEMMA CodeHandlerSteps ==
    ASSUME TypeOK, code_handler
    PROVE  /\ registered \subseteq registered' /\ registered' \in SUBSET Names
           /\ \/ UNCHANGED <<online_users, online_users_opposite, ghosts>>
              \/ Logout(msg.sock)
              \/ \E name \in Usernames : EntryOf(msg.sock, name)
<1> USE ConstantFacts
<1>1. msg \in Messages /\ registered \in SUBSET Names
  BY DEF TypeOK, code_handler
<1>2. ASSUME OnlyTouched
      PROVE  \/ UNCHANGED <<online_users, online_users_opposite, ghosts>>
             \/ EntryOf(msg.sock, EmptyName)
  BY <1>2 DEF OnlyTouched, EntryOf, getUsernameInserts
<1>3. CASE UserIsOffline
  BY <1>1, <1>3 DEF UserIsOffline, users
<1>4. CASE Register
  <2>1. msg.request \in Requests /\ msg.request.code = "REGISTER"
    BY <1>1, <1>4 DEF Messages, Register
  <2>2. msg.request.name \in Names
    BY <2>1 DEF Requests
  <2>3. registered \subseteq registered' /\ registered' \in SUBSET Names
    BY <1>1, <1>4, <2>2 DEF Register
  <2>4. OnlyTouched
    BY <1>4 DEF Register
  <2>5. QED
    BY <1>2, <2>3, <2>4
<1>5. CASE Login
  <2>1. registered' = registered
    BY <1>5 DEF Login
  <2>2. CASE OnlyTouched
    BY <1>1, <1>2, <2>1, <2>2
  <2>3. CASE /\ CredentialsMatch(msg.request)
             /\ add(msg.sock, msg.request.name) /\ EntryMade(msg.sock, msg.conn)
    <3>1. msg.request.name \in registered /\ msg.request.name \in Names
      BY <1>1, <2>3 DEF CredentialsMatch
    <3>2. EntryOf(msg.sock, msg.request.name)
      BY <2>3, <3>1 DEF EntryOf, add
    <3>3. QED
      BY <1>1, <2>1, <3>1, <3>2
  <2>4. QED
    BY <1>5, <2>2, <2>3 DEF Login
<1>6. CASE Other
  BY <1>1, <1>6 DEF Other, Logout, users
<1>7. QED
  BY <1>3, <1>4, <1>5, <1>6 DEF code_handler

\* An entry that is made or ended keeps the types.
LEMMA EntryTypes ==
    ASSUME TypeOK, msg \in Messages, NEW name \in Usernames, EntryOf(msg.sock, name)
    PROVE  /\ online_users' \in [Sockets -> Usernames \cup {NoRow}]
           /\ online_users_opposite' \in [Names -> Sockets \cup {NoRow}]
           /\ session' \in [Sockets -> 0 .. MaxConns]
           /\ late' \in SUBSET Sockets /\ raced' \in SUBSET Sockets
<1>1. msg.sock \in Sockets /\ msg.conn \in 0 .. MaxConns
  BY ConstantFacts DEF Messages, Conns
<1>2. QED
  BY <1>1 DEF EntryOf, EntryMade, TypeOK

LEMMA LogoutTypes ==
    ASSUME TypeOK, NEW s \in Sockets, Logout(s)
    PROVE  /\ online_users' \in [Sockets -> Usernames \cup {NoRow}]
           /\ online_users_opposite' \in [Names -> Sockets \cup {NoRow}]
           /\ late' \in SUBSET Sockets /\ raced' \in SUBSET Sockets
           /\ UNCHANGED <<registered, session>>
  BY DEF Logout, remove, TypeOK

\* Every step keeps the types.
LEMMA TypeStep == TypeInv /\ [Next]_vars => TypeOK'
<1> SUFFICES ASSUME TypeInv, [Next]_vars PROVE TypeOK'
  OBVIOUS
<1> USE ConstantFacts
<1>t. TypeOK /\ Drained /\ Numbered
  BY DEF TypeInv
<1>1. ASSUME NEW s \in Sockets, acceptConnection(s) PROVE TypeOK'
  BY <1>1, <1>t DEF acceptConnection, users, ghosts, TypeOK
<1>2. ASSUME NEW s \in Sockets, NEW r \in Requests, receiveMessage(s, r) PROVE TypeOK'
  <2>1. conn[s] \in Conns
    BY <1>2, <1>t DEF receiveMessage, TypeOK, Conns, Numbered
  <2>2. [sock |-> s, conn |-> conn[s], request |-> r] \in Messages
    BY <2>1 DEF Messages
  <2>3. messages' \in Seq(Messages)
    BY <1>2, <1>t, <2>2 DEF receiveMessage, TypeOK
  <2>4. QED
    BY <1>2, <1>t, <2>3 DEF receiveMessage, users, ghosts, TypeOK
<1>3. ASSUME NEW s \in Sockets, disconnect(s) PROVE TypeOK'
  <2>1. disconnected_sockets' \in Seq(Sockets) /\ raced' \in SUBSET Sockets
    BY <1>3, <1>t, DisconnectQueue
  <2>2. QED
    BY <1>3, <1>t, <2>1 DEF disconnect, users, TypeOK
<1>4. CASE takeMessage
  <2>1. msg' \in Messages /\ messages' \in Seq(Messages)
    BY <1>4, <1>t, ElementsTail DEF takeMessage, TypeOK
  <2>2. QED
    BY <1>4, <1>t, <2>1 DEF takeMessage, users, ghosts, TypeOK
<1>5. CASE drainFront
  <2>1. Head(disconnected_sockets) \in Sockets
    BY <1>5, <1>t, ElementsTail DEF drainFront, TypeOK
  <2>2. CASE Logout(Head(disconnected_sockets))
    BY <1>5, <1>t, <2>1, <2>2, LogoutTypes DEF drainFront, network, TypeOK
  <2>3. CASE UNCHANGED <<users, ghosts>>
    BY <1>5, <1>t, <2>3 DEF drainFront, users, ghosts, network, TypeOK
  <2>4. QED
    BY <1>5, <2>2, <2>3 DEF drainFront
<1>6. CASE drainPop
  <2>1. disconnected_sockets' \in Seq(Sockets)
    BY <1>6, <1>t, ElementsTail DEF drainPop, Drained, TypeOK
  <2>2. QED
    BY <1>6, <1>t, <2>1 DEF drainPop, users, network, ghosts, TypeOK
<1>7. CASE drainEnd
  BY <1>7, <1>t DEF drainEnd, users, network, ghosts, TypeOK
<1>8. CASE code_handler
  <2>1. /\ msg \in Messages /\ pc' = "idle" /\ msg' = NoMessage
        /\ UNCHANGED <<disconnected_sockets, clients, messages, accepted, conn>>
    BY <1>8, <1>t DEF code_handler, network, TypeOK
  <2>2. registered' \in SUBSET Names
    BY <1>8, <1>t, CodeHandlerSteps
  <2>3. CASE UNCHANGED <<online_users, online_users_opposite, ghosts>>
    BY <1>t, <2>1, <2>2, <2>3 DEF ghosts, TypeOK
  <2>4. CASE Logout(msg.sock)
    <3>1. msg.sock \in Sockets
      BY <2>1 DEF Messages
    <3>2. QED
      BY <1>t, <2>1, <2>2, <2>4, <3>1, LogoutTypes DEF TypeOK
  <2>5. ASSUME NEW name \in Usernames, EntryOf(msg.sock, name) PROVE TypeOK'
    BY <1>t, <2>1, <2>2, <2>5, EntryTypes DEF TypeOK
  <2>6. QED
    BY <1>8, <1>t, <2>3, <2>4, <2>5, CodeHandlerSteps
<1>9. CASE UNCHANGED vars
  BY <1>9, <1>t DEF vars, users, network, ghosts, TypeOK
<1>10. QED
  BY <1>1, <1>2, <1>3, <1>4, <1>5, <1>6, <1>7, <1>8, <1>9 DEF Next, Handler, ServerThreads

\* Every step keeps the front of the queue and the numbers of the connections.
LEMMA DrainedStep == TypeInv /\ [Next]_vars => Drained'
<1> SUFFICES ASSUME TypeInv, [Next]_vars PROVE Drained'
  OBVIOUS
<1> USE ConstantFacts
<1>t. TypeOK /\ Drained
  BY DEF TypeInv
<1>1. ASSUME NEW s \in Sockets, NEW r,
             acceptConnection(s) \/ receiveMessage(s, r)
      PROVE  Drained'
  BY <1>1, <1>t DEF acceptConnection, receiveMessage, users, Drained, isLogin
<1>2. ASSUME NEW s \in Sockets, disconnect(s) PROVE Drained'
  <2>1. UNCHANGED <<online_users, pc>>
    BY <1>2 DEF disconnect, users
  <2>2. disconnected_sockets # <<>> =>
          disconnected_sockets' # <<>> /\ Head(disconnected_sockets') = Head(disconnected_sockets)
    BY <1>2, <1>t, DisconnectQueue
  <2>3. QED
    BY <1>t, <2>1, <2>2 DEF Drained, isLogin
<1>3. CASE takeMessage \/ drainPop \/ drainEnd \/ code_handler
  BY <1>3 DEF takeMessage, drainPop, drainEnd, code_handler, Drained
<1>4. CASE drainFront
  <2>1. PICK h \in Sockets : h = Head(disconnected_sockets)
    BY <1>4, <1>t, ElementsTail DEF drainFront, TypeOK
  <2>2. disconnected_sockets # <<>> /\ UNCHANGED disconnected_sockets
    BY <1>4 DEF drainFront
  <2>3. online_users'[h] = NoRow
    <3>1. CASE isLogin(h)
      <4>1. remove(h, online_users[h])
        BY <1>4, <2>1, <3>1 DEF drainFront, Logout
      <4>2. QED
        BY <4>1, <1>t DEF remove, TypeOK
    <3>2. CASE ~isLogin(h)
      BY <1>4, <2>1, <3>2 DEF drainFront, users, isLogin
    <3>3. QED
      BY <3>1, <3>2
  <2>4. QED
    BY <2>1, <2>2, <2>3 DEF Drained, isLogin
<1>5. CASE UNCHANGED vars
  BY <1>5, <1>t DEF vars, users, Drained, isLogin
<1>6. QED
  BY <1>1, <1>2, <1>3, <1>4, <1>5 DEF Next, Handler, ServerThreads

LEMMA NumberedStep == TypeInv /\ [Next]_vars => Numbered'
<1> SUFFICES ASSUME TypeInv, [Next]_vars PROVE Numbered'
  OBVIOUS
<1> USE ConstantFacts
<1>t. TypeOK /\ Numbered
  BY DEF TypeInv
<1>n. /\ accepted \in Nat /\ conn \in [Sockets -> 0 .. MaxConns] /\ session \in [Sockets -> 0 .. MaxConns]
      /\ messages \in Seq(Messages) /\ clients \subseteq Sockets /\ (pc # "idle" => msg \in Messages)
  BY <1>t DEF TypeOK
<1>c. /\ \A m \in Messages : m.conn \in Nat
      /\ \A m \in Elements(messages) : m \in Messages
  <2>1. \A m \in Messages : m.conn \in Nat
    BY DEF Messages, Conns
  <2>2. Elements(messages) \in SUBSET Messages
    BY <1>n, ElementsType
  <2>3. QED
    BY <2>1, <2>2
<1>1. ASSUME NEW s \in Sockets, acceptConnection(s) PROVE Numbered'
  <2>1. /\ accepted' = accepted + 1 /\ clients' = clients \cup {s}
        /\ \A t \in Sockets : conn'[t] = IF t = s THEN accepted + 1 ELSE conn[t]
        /\ UNCHANGED <<session, messages, pc, msg>>
    BY <1>1, <1>n DEF acceptConnection, ghosts
  <2>2. QED
    BY <1>t, <1>n, <1>c, <2>1 DEF Numbered
<1>2. ASSUME NEW s \in Sockets, NEW r \in Requests, receiveMessage(s, r) PROVE Numbered'
  <2>1. conn[s] \in Conns
    BY <1>2, <1>t DEF receiveMessage, TypeOK, Conns, Numbered
  <2>2. PICK m \in Messages : m = [sock |-> s, conn |-> conn[s], request |-> r]
    BY <2>1 DEF Messages
  <2>3. /\ messages' = Append(messages, m) /\ m.conn = conn[s]
        /\ UNCHANGED <<session, clients, accepted, conn, pc, msg>>
    BY <1>2, <2>2 DEF receiveMessage, ghosts
  <2>4. Elements(messages') = Elements(messages) \cup {m}
    BY <1>n, <2>3, ElementsAppend
  <2>5. QED
    BY <1>t, <2>3, <2>4 DEF Numbered
<1>3. ASSUME NEW s \in Sockets, disconnect(s) PROVE Numbered'
  BY <1>3, <1>t DEF disconnect, users, Numbered
<1>4. CASE takeMessage
  <2>1. /\ messages # <<>> /\ msg' = Head(messages) /\ messages' = Tail(messages)
        /\ UNCHANGED <<session, clients, accepted, conn>>
    BY <1>4 DEF takeMessage, ghosts
  <2>2. Elements(messages) = Elements(messages') \cup {msg'}
    BY <1>n, <2>1, ElementsTail
  <2>3. QED
    BY <1>t, <2>1, <2>2 DEF Numbered
<1>5. CASE drainFront
  BY <1>5, <1>t DEF drainFront, network, ghosts, Logout, Numbered
<1>6. CASE drainPop \/ drainEnd
  BY <1>6, <1>t DEF drainPop, drainEnd, network, ghosts, Numbered
<1>7. CASE code_handler
  <2>1. /\ pc' = "idle" /\ pc = "code" /\ UNCHANGED <<clients, messages, accepted, conn>>
    BY <1>7 DEF code_handler, network
  <2>2. session' = session \/ session' = [session EXCEPT ![msg.sock] = msg.conn]
    BY <1>7, <1>t, CodeHandlerSteps DEF Logout, EntryOf, EntryMade, ghosts
  <2>3. QED
    BY <1>t, <1>n, <2>1, <2>2 DEF Numbered
<1>8. CASE UNCHANGED vars
  BY <1>8, <1>t DEF vars, network, ghosts, Numbered
<1>9. QED
  BY <1>1, <1>2, <1>3, <1>4, <1>5, <1>6, <1>7, <1>8 DEF Next, Handler, ServerThreads

\* The types, with the two facts they rest on, are inductive.
LEMMA TypeInvariant == Spec => []TypeInv
<1>1. Init => TypeInv
  <2> SUFFICES ASSUME Init PROVE TypeInv
    OBVIOUS
  <2>1. TypeOK
    BY ConstantFacts DEF Init, SessionsInit, TypeOK
  <2>2. Drained /\ Numbered
    BY ConstantFacts DEF Init, Drained, Numbered, Elements
  <2>3. QED
    BY <2>1, <2>2 DEF TypeInv
<1>2. TypeInv /\ [Next]_vars => TypeInv'
  BY TypeStep, DrainedStep, NumberedStep DEF TypeInv
<1>3. QED
  BY <1>1, <1>2, PTL DEF Spec

\* All variables keep their types; in particular message_handler never pops from
\* an empty queue of disconnected sockets and never works on a message that is
\* not one, whatever the threads of Server do meanwhile.
THEOREM UsersTypeCorrect == Spec => []TypeOK
<1>1. TypeInv => TypeOK
  BY DEF TypeInv
<1>2. QED
  BY <1>1, TypeInvariant, PTL
-----------------------------------------------------------------------------
(***************************************************************************)
(* Sessions                                                                *)
(***************************************************************************)

\* A session that ends, or an entry that is made, is about one socket.
LEMMA LogoutRows ==
    ASSUME TypeOK, NEW s \in Sockets, Logout(s), NEW t \in Sockets
    PROVE  /\ online_users'[t] = IF t = s THEN NoRow ELSE online_users[t]
           /\ session'[t] = session[t]
           /\ t # s => (t \in late' <=> t \in late) /\ (t \in raced' <=> t \in raced)
  BY DEF Logout, remove, TypeOK

LEMMA EntryRows ==
    ASSUME TypeOK, msg \in Messages, NEW name \in Usernames, EntryOf(msg.sock, name),
           NEW t \in Sockets
    PROVE  /\ online_users'[t] = IF t = msg.sock THEN name ELSE online_users[t]
           /\ session'[t] = IF t = msg.sock THEN msg.conn ELSE session[t]
           /\ t # msg.sock => (t \in late' <=> t \in late) /\ (t \in raced' <=> t \in raced)
           /\ t = msg.sock => (t \in late' <=> ~(t \in clients /\ conn[t] = msg.conn))
<1>1. msg.sock \in Sockets
  BY DEF Messages
<1>2. QED
  BY <1>1 DEF EntryOf, EntryMade, TypeOK

\* Every step keeps SessionInv.
LEMMA SessionStep == TypeInv /\ SessionInv /\ [Next]_vars => SessionInv'
<1> SUFFICES ASSUME TypeInv, SessionInv, [Next]_vars PROVE SessionInv'
  OBVIOUS
<1> USE ConstantFacts
<1>t. TypeOK /\ Drained /\ Numbered
  BY DEF TypeInv
<1>n. /\ accepted \in Nat /\ conn \in [Sockets -> 0 .. MaxConns] /\ session \in [Sockets -> 0 .. MaxConns]
      /\ disconnected_sockets \in Seq(Sockets) /\ clients \subseteq Sockets
      /\ (pc # "idle" => msg \in Messages /\ msg.sock \in Sockets /\ msg.conn \in Nat)
      /\ \A s \in Sockets : conn[s] <= accepted /\ session[s] <= accepted
      /\ pc # "idle" => msg.conn <= accepted
  BY <1>t DEF TypeOK, Numbered, Messages, Conns
<1>i. StaleSessionExplained /\ NoWrongfulLogout /\ DrainedForMessage
  BY DEF SessionInv
<1>1. ASSUME NEW s \in Sockets, acceptConnection(s) PROVE SessionInv'
  <2>1. /\ clients' = clients \cup {s} /\ s \notin clients
        /\ \A t \in Sockets : conn'[t] = IF t = s THEN accepted + 1 ELSE conn[t]
        /\ UNCHANGED <<online_users, disconnected_sockets, pc, msg, session, late, raced>>
    BY <1>1, <1>n DEF acceptConnection, users, ghosts
  <2>2. ~Current(s)' /\ ~Current(s)
    BY <1>n, <2>1 DEF Current
  <2>3. \A t \in Sockets : t # s => (Current(t)' <=> Current(t))
    BY <2>1 DEF Current
  <2>4. StaleSessionExplained' /\ NoWrongfulLogout'
    BY <1>i, <2>1, <2>2, <2>3 DEF StaleSessionExplained, NoWrongfulLogout, isLogin
  <2>5. DrainedForMessage'
    BY <1>i, <1>n, <2>1 DEF DrainedForMessage
  <2>6. QED
    BY <2>4, <2>5 DEF SessionInv
<1>2. ASSUME NEW s \in Sockets, NEW r \in Requests, receiveMessage(s, r) PROVE SessionInv'
  BY <1>2, <1>i
  DEF receiveMessage, users, ghosts, SessionInv, StaleSessionExplained, NoWrongfulLogout,
      DrainedForMessage, Current, isLogin
<1>3. ASSUME NEW s \in Sockets, disconnect(s) PROVE SessionInv'
  <2>1. /\ clients' = clients \ {s}
        /\ UNCHANGED <<online_users, conn, pc, msg, session, late>>
    BY <1>3 DEF disconnect, users
  <2>2. /\ Elements(disconnected_sockets) \subseteq Elements(disconnected_sockets')
        /\ Elements(disconnected_sockets') \subseteq
               Elements(disconnected_sockets) \cup {s} \cup raced'
        /\ s \in Elements(disconnected_sockets') \cup raced'
        /\ raced \subseteq raced'
        /\ pc # "pop" => Elements(disconnected_sockets') = Elements(disconnected_sockets) \cup {s}
    BY <1>3, <1>t, DisconnectQueue
  <2>3. ~Current(s)' /\ \A t \in Sockets : t # s => (Current(t)' <=> Current(t))
    BY <2>1 DEF Current
  <2>4. StaleSessionExplained'
    BY <1>i, <2>1, <2>2, <2>3 DEF StaleSessionExplained, isLogin
  <2>5. NoWrongfulLogout'
    BY <1>i, <2>1, <2>2, <2>3 DEF NoWrongfulLogout, isLogin
  <2>6. DrainedForMessage'
    BY <1>i, <2>1, <2>2 DEF DrainedForMessage
  <2>7. QED
    BY <2>4, <2>5, <2>6 DEF SessionInv
<1>4. CASE takeMessage
  BY <1>4, <1>i
  DEF takeMessage, users, ghosts, SessionInv, StaleSessionExplained, NoWrongfulLogout,
      DrainedForMessage, Current, isLogin
<1>5. ASSUME NEW s \in Sockets, Logout(s), pc' # "code",
             UNCHANGED <<disconnected_sockets, clients, conn>>
      PROVE  SessionInv'
  <2>1. \A t \in Sockets :
          /\ online_users'[t] = IF t = s THEN NoRow ELSE online_users[t]
          /\ session'[t] = session[t]
          /\ t # s => (t \in late' <=> t \in late) /\ (t \in raced' <=> t \in raced)
    BY <1>5, <1>t, LogoutRows
  <2>2. \A t \in Sockets : Current(t)' <=> Current(t)
    BY <1>5, <2>1 DEF Current
  <2>3. QED
    BY <1>5, <1>i, <2>1, <2>2
    DEF SessionInv, StaleSessionExplained, NoWrongfulLogout, DrainedForMessage, isLogin
<1>6. CASE drainFront
  <2>1. Head(disconnected_sockets) \in Sockets
    BY <1>6, <1>n, ElementsTail DEF drainFront
  <2>2. CASE Logout(Head(disconnected_sockets))
    BY <1>5, <1>6, <2>1, <2>2 DEF drainFront, network
  <2>3. CASE UNCHANGED <<users, ghosts>>
    BY <1>6, <1>i, <2>3
    DEF drainFront, users, ghosts, network, SessionInv, StaleSessionExplained,
        NoWrongfulLogout, DrainedForMessage, Current, isLogin
  <2>4. QED
    BY <1>6, <2>2, <2>3 DEF drainFront
<1>7. CASE drainPop
  <2>1. /\ pc = "pop" /\ pc' = "drain" /\ disconnected_sockets' = Tail(disconnected_sockets)
        /\ UNCHANGED <<online_users, clients, conn, session, late, raced>>
    BY <1>7 DEF drainPop, users, network, ghosts
  <2>2. /\ Elements(disconnected_sockets) =
               Elements(disconnected_sockets') \cup {Head(disconnected_sockets)}
        /\ online_users[Head(disconnected_sockets)] = NoRow
    BY <1>t, <1>n, <2>1, ElementsTail DEF Drained, isLogin
  <2>3. \A t \in Sockets : Current(t)' <=> Current(t)
    BY <2>1 DEF Current
  <2>4. QED
    BY <1>i, <2>1, <2>2, <2>3
    DEF SessionInv, StaleSessionExplained, NoWrongfulLogout, DrainedForMessage, isLogin
<1>8. CASE drainEnd
  <2>1. Elements(disconnected_sockets') = {}
    BY <1>8 DEF drainEnd, DrainDone, Elements
  <2>2. UNCHANGED <<online_users, disconnected_sockets, clients, conn, session, late, raced>>
    BY <1>8 DEF drainEnd, users, network, ghosts
  <2>3. QED
    BY <1>i, <2>1, <2>2
    DEF SessionInv, StaleSessionExplained, NoWrongfulLogout, DrainedForMessage, Current, isLogin
<1>9. CASE code_handler
  <2>1. /\ pc = "code" /\ pc' = "idle" /\ UNCHANGED <<disconnected_sockets, clients, conn>>
    BY <1>9 DEF code_handler, network
  <2>2. CASE UNCHANGED <<online_users, online_users_opposite, ghosts>>
    BY <1>i, <2>1, <2>2
    DEF ghosts, SessionInv, StaleSessionExplained, NoWrongfulLogout, DrainedForMessage,
        Current, isLogin
  <2>3. CASE Logout(msg.sock)
    BY <1>5, <1>n, <2>1, <2>3
  <2>4. ASSUME NEW name \in Usernames, EntryOf(msg.sock, name) PROVE SessionInv'
    <3>0. PICK k \in Sockets : k = msg.sock
      BY <1>n, <2>1
    <3>1. ASSUME NEW t \in Sockets
          PROVE  /\ online_users'[t] = IF t = k THEN name ELSE online_users[t]
                 /\ session'[t] = IF t = k THEN msg.conn ELSE session[t]
                 /\ t # k =>
                       (t \in late' <=> t \in late) /\ (t \in raced' <=> t \in raced)
                 /\ t = k => (t \in late' <=> ~(t \in clients /\ conn[t] = msg.conn))
      BY <1>t, <1>n, <2>1, <2>4, <3>0, EntryRows
    <3>2. ASSUME NEW t \in Sockets, t # k PROVE Current(t)' <=> Current(t)
      BY <2>1, <3>1, <3>2 DEF Current
    <3>3. Current(k)' <=> k \notin late'
      BY <1>n, <2>1, <3>1 DEF Current
    <3>4. Current(k)' => k \notin Elements(disconnected_sockets')
      BY <1>i, <1>n, <2>1, <3>0, <3>1 DEF Current, DrainedForMessage
    <3>5. StaleSessionExplained'
      BY <1>i, <2>1, <3>1, <3>2, <3>3 DEF StaleSessionExplained, isLogin
    <3>6. NoWrongfulLogout'
      BY <1>i, <2>1, <3>1, <3>2, <3>4 DEF NoWrongfulLogout, isLogin
    <3>7. QED
      BY <2>1, <3>5, <3>6 DEF SessionInv, DrainedForMessage
  <2>5. QED
    BY <1>9, <1>t, <2>2, <2>3, <2>4, CodeHandlerSteps
<1>10. CASE UNCHANGED vars
  BY <1>10, <1>i
  DEF vars, users, network, ghosts, SessionInv, StaleSessionExplained, NoWrongfulLogout,
      DrainedForMessage, Current, isLogin
<1>11. QED
  BY <1>1, <1>2, <1>3, <1>4, <1>6, <1>7, <1>8, <1>9, <1>10 DEF Next, Handler, ServerThreads

\* Both invariants are inductive together.
LEMMA SessionInvariant == Spec => [](TypeInv /\ SessionInv)
<1>1. Init => SessionInv
  BY DEF Init, SessionsInit, SessionInv, StaleSessionExplained, NoWrongfulLogout,
     DrainedForMessage, isLogin
<1>2. QED
  BY <1>1, SessionStep, TypeInvariant, PTL DEF Spec

\* A socket keeps an entry after its connection has gone only while its
\* disconnection is queued or because of one of the two races.
THEOREM StaleSessionExplainedHolds == Spec => []StaleSessionExplained
<1>1. SessionInv => StaleSessionExplained
  BY DEF SessionInv
<1>2. QED
  BY <1>1, SessionInvariant, PTL

\* Draining never logs out the connection that has the handle now.
THEOREM NoWrongfulLogoutHolds == Spec => []NoWrongfulLogout
<1>1. SessionInv => NoWrongfulLogout
  BY DEF SessionInv
<1>2. QED
  BY <1>1, SessionInvariant, PTL

\* Every step keeps the maps on users of the table.
LEMMA RegisteredStep == TypeInv /\ SessionsRegistered /\ [Next]_vars => SessionsRegistered'
<1> SUFFICES ASSUME TypeInv, SessionsRegistered, [Next]_vars PROVE SessionsRegistered'
  OBVIOUS
<1> USE ConstantFacts
<1>t. TypeOK
  BY DEF TypeInv
<1>1. CASE UNCHANGED users
  BY <1>1 DEF users, SessionsRegistered
<1>2. ASSUME NEW s \in Sockets, Logout(s), registered \subseteq registered'
      PROVE  SessionsRegistered'
  <2>1. \A t \in Sockets : online_users'[t] = IF t = s THEN NoRow ELSE online_users[t]
    BY <1>2, <1>t, LogoutRows
  <2>2. \A u \in Names : online_users_opposite'[u] \in {online_users_opposite[u], NoRow}
    BY <1>2 DEF Logout, remove
  <2>3. QED
    BY <1>2, <2>1, <2>2 DEF SessionsRegistered
<1>3. CASE drainFront
  <2>1. Head(disconnected_sockets) \in Sockets
    BY <1>3, <1>t, ElementsTail DEF drainFront, TypeOK
  <2>2. QED
    BY <1>1, <1>2, <1>3, <2>1 DEF drainFront, Logout
<1>4. CASE code_handler
  <2>1. /\ registered \subseteq registered' /\ msg \in Messages /\ msg.sock \in Sockets
    BY <1>4, <1>t, CodeHandlerSteps DEF code_handler, TypeOK, Messages
  <2>2. CASE UNCHANGED <<online_users, online_users_opposite>>
    BY <2>1, <2>2 DEF SessionsRegistered
  <2>3. ASSUME NEW name \in Usernames, EntryOf(msg.sock, name) PROVE SessionsRegistered'
    <3>1. \A t \in Sockets : online_users'[t] = IF t = msg.sock THEN name ELSE online_users[t]
      BY <1>t, <2>1, <2>3, EntryRows
    <3>2. \A u \in Names :
             online_users_opposite'[u] = online_users_opposite[u] \/ u = name
      BY <1>t, <2>3 DEF EntryOf, TypeOK
    <3>3. name \in registered \cup {EmptyName}
      BY <2>3 DEF EntryOf
    <3>4. QED
      BY <2>1, <3>1, <3>2, <3>3 DEF SessionsRegistered
  <2>4. QED
    BY <1>2, <1>4, <1>t, <2>1, <2>2, <2>3, CodeHandlerSteps
<1>5. QED
  BY <1>1, <1>3, <1>4
  DEF Next, Handler, ServerThreads, takeMessage, drainPop, drainEnd, acceptConnection,
      receiveMessage, disconnect, vars

\* Both maps only ever name users of the table, or nobody.
THEOREM SessionsRegisteredHolds == Spec => []SessionsRegistered
<1>1. Init => SessionsRegistered
  BY DEF Init, SessionsInit, SessionsRegistered
<1>2. QED
  BY <1>1, RegisteredStep, TypeInvariant, PTL DEF Spec
=============================================================================
