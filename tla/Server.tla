------------------------------- MODULE Server -------------------------------
(***************************************************************************)
(* Server: the thread that accepts connections, the thread that polls them *)
(* and queues what they send, and getLastPacket, called by the main        *)
(* thread.  The three share clients and messages:                          *)
(*   - recvFunction holds queueMutex over a whole round of its loop, even  *)
(*     while it waits on cv for a first client;                            *)
(*   - acceptFunction holds nothing, and neither does a disconnect that    *)
(*     comes from a failed send in a handler thread;                       *)
(*   - getLastPacket tests messages.empty() without queueMutex.            *)
(* Every read of clients[index] is a step of its own, because the vector   *)
(* can be changed between two of them.  The main thread is idle while a    *)
(* handler thread runs (it joins it), so mpc covers both.                  *)
(*                                                                         *)
(* An accept that fails closes the listening socket and shuts Winsock down *)
(* for the whole program, and the loop goes on.                            *)
(*                                                                         *)
(* The operating system and the peers are external: they connect, send     *)
(* messages numbered 1, 2, ... and close.  One recv returns one message or *)
(* a piece of it; a handle is not given out twice here, module Users is    *)
(* about that.                                                             *)
(***************************************************************************)
EXTENDS Naturals, Sequences, FiniteSets, SequencesExt

CONSTANTS
    Sockets,  \* the connections that are made
    MaxSent   \* bound on what one peer sends

ASSUME ServerAssumption == Sockets # {} /\ IsFiniteSet(Sockets) /\ MaxSent \in Nat

VARIABLES
    clients,     \* vector<SOCKET>
    messages,    \* queue<Message>
    queueMutex,  \* the thread that holds it, or "free"
    apc,         \* acceptFunction
    rpc, index,  \* recvFunction and its index
    buffer,      \* _buffer: who sent its contents, and which message it is
    mpc,         \* the main thread in getLastPacket, or the handler it joins
    peer,        \* socket -> state of the connection
    sent, got,   \* socket -> how much was sent and how much recv has returned
    taken,       \* what getLastPacket has returned so far
    spurious,    \* the last wait of getLastPacket returned without a notification
    shifted      \* a handler has disconnected a client while recvFunction was
                 \* between its reads of clients[index] for one message

recvVars == <<rpc, index, buffer>>
peerVars == <<peer, sent, got>>
ghosts   == <<spurious, shifted>>
vars == <<clients, messages, queueMutex, apc, recvVars, mpc, peerVars, taken, ghosts>>

Message == [from : Sockets, number : 1 .. MaxSent, sock : Sockets]

TypeOK ==
    /\ clients \in Seq(Sockets) /\ IsInjective(clients)
    /\ messages \in Seq(Message) /\ taken \in Seq(Message)
    /\ queueMutex \in {"free", "recv", "main"}
    /\ apc \in {"accept", "notify", "failed"}
    /\ rpc \in {"lock", "check", "enter", "waiting", "wrap", "select", "recv",
                "blocked", "push", "notify", "disconnect", "unlock", "crashed"}
    /\ index \in 0 .. Cardinality(Sockets)
    /\ buffer \in [from : Sockets, number : 0 .. MaxSent]
    /\ mpc \in {"check", "enter", "waiting", "lock", "pop", "handle", "crashed"}
    /\ peer \in [Sockets -> {"new", "open", "closed", "gone"}]
    /\ sent \in [Sockets -> 0 .. MaxSent] /\ got \in [Sockets -> 0 .. MaxSent]
    /\ spurious \in BOOLEAN /\ shifted \in BOOLEAN

\* run starts the threads also when bind, whose result is dropped, or listen has
\* failed; every accept then fails.
Init ==
    /\ clients = <<>> /\ messages = <<>> /\ taken = <<>>
    /\ queueMutex = "free"
    /\ apc \in {"accept", "failed"}
    /\ rpc = "lock" /\ index = 0 /\ buffer = [from |-> CHOOSE s \in Sockets : TRUE, number |-> 0]
    /\ mpc = "check"
    /\ peer = [s \in Sockets |-> "new"]
    /\ sent = [s \in Sockets |-> 0] /\ got = [s \in Sockets |-> 0]
    /\ spurious = FALSE /\ shifted = FALSE
-----------------------------------------------------------------------------
(***************************************************************************)
(* The peers                                                               *)
(***************************************************************************)
peerSends(s) ==
    /\ peer[s] = "open" /\ sent[s] < MaxSent
    /\ sent' = [sent EXCEPT ![s] = @ + 1]
    /\ UNCHANGED <<clients, messages, queueMutex, apc, recvVars, mpc, peer, got, taken, ghosts>>

peerCloses(s) ==
    /\ peer[s] = "open"
    /\ peer' = [peer EXCEPT ![s] = "closed"]
    /\ UNCHANGED <<clients, messages, queueMutex, apc, recvVars, mpc, sent, got, taken, ghosts>>

\* select reports s.
Readable(s) == apc # "failed" /\ (sent[s] > got[s] \/ peer[s] = "closed")

(***************************************************************************)
(* acceptFunction: push_back, then notify_one                              *)
(***************************************************************************)
AcceptedTwice(s) == clients \o <<s, s>>
Accepted(s) == Append(clients, s)

acceptClient(s) ==
    /\ apc = "accept" /\ peer[s] = "new"
    /\ peer' = [peer EXCEPT ![s] = "open"]
    /\ clients' = Accepted(s)
    /\ apc' = "notify"
    /\ UNCHANGED <<messages, queueMutex, recvVars, mpc, sent, got, taken, ghosts>>

\* closesocket(_ListenSocket) and WSACleanup(): from here on select reports
\* nothing and every recv and send is an error.
acceptFails ==
    /\ apc = "accept"
    /\ apc' = "failed"
    /\ UNCHANGED <<clients, messages, queueMutex, recvVars, mpc, peerVars, taken, ghosts>>

\* queueCV.notify_one() in place of cv.notify_one()
acceptNotifyQueueCV ==
    /\ apc = "notify"
    /\ mpc' = IF mpc = "waiting" THEN "lock" ELSE mpc
    /\ apc' = "accept"
    /\ UNCHANGED <<clients, messages, queueMutex, recvVars, peerVars, taken, ghosts>>

acceptNotify ==
    /\ apc = "notify"
    /\ rpc' = IF rpc = "waiting" THEN "wrap" ELSE rpc
    /\ apc' = "accept"
    /\ UNCHANGED <<clients, messages, queueMutex, index, buffer, mpc, peerVars, taken, ghosts>>

(***************************************************************************)
(* disconnect, but for its push to disconnected_sockets (module Users)     *)
(***************************************************************************)
\* The vector holds a handle once, so erase(remove(...)) takes out that place.
disconnect(s) ==
    \/ /\ ~Contains(clients, s)
       /\ UNCHANGED <<clients, peer>>
    \/ \E i \in DOMAIN clients :
          /\ clients[i] = s
          /\ clients' = RemoveAt(clients, i)
          /\ peer' = [peer EXCEPT ![s] = "gone"]
-----------------------------------------------------------------------------
(***************************************************************************)
(* recvFunction                                                            *)
(***************************************************************************)

\* clients[index].  Past the end it is undefined: a handle left there earlier.
AtIndex ==
    IF index < Len(clients)
    THEN {clients[index + 1]}
    ELSE {s \in Sockets : peer[s] # "new"}

recvLock ==
    /\ rpc = "lock" /\ queueMutex = "free"
    /\ queueMutex' = "recv"
    /\ rpc' = "check"
    /\ UNCHANGED <<clients, messages, apc, index, buffer, mpc, peerVars, taken, ghosts>>

\* if (clients.empty()) cv.wait(lk), with queueMutex held.  A notification
\* between the test and the wait is lost.
recvCheck ==
    /\ rpc = "check"
    /\ rpc' = IF clients = <<>> THEN "enter" ELSE "wrap"
    /\ UNCHANGED <<clients, messages, queueMutex, apc, index, buffer, mpc, peerVars, taken, ghosts>>

recvWait ==
    /\ rpc = "enter"
    /\ rpc' = "waiting"
    /\ UNCHANGED <<clients, messages, queueMutex, apc, index, buffer, mpc, peerVars, taken, ghosts>>

\* wait() can return without a notification.
recvSpurious ==
    /\ rpc = "waiting"
    /\ rpc' = "wrap"
    /\ UNCHANGED <<clients, messages, queueMutex, apc, index, buffer, mpc, peerVars, taken, ghosts>>

Wrapped == IF index >= Len(clients) THEN 0 ELSE index

recvWrap ==
    /\ rpc = "wrap"
    /\ index' = Wrapped
    /\ rpc' = "select"
    /\ UNCHANGED <<clients, messages, queueMutex, apc, buffer, mpc, peerVars, taken, ghosts>>

\* isReadyToRecv polls: its interval 0.1 becomes the int 0.  Reading an element
\* of an empty vector can also be an access violation.
recvSelect ==
    /\ rpc = "select"
    /\ \/ \E s \in AtIndex :
             rpc' = IF Contains(clients, s) /\ Readable(s) THEN "recv" ELSE "unlock"
       \/ clients = <<>> /\ rpc' = "crashed"
    /\ UNCHANGED <<clients, messages, queueMutex, apc, index, buffer, mpc, peerVars, taken, ghosts>>

\* recv on s returns: a message, or fewer than four bytes of one, or an error.
Received(s) ==
    /\ \/ /\ sent[s] > got[s] /\ peer[s] # "gone" /\ apc # "failed"
          /\ got' = [got EXCEPT ![s] = @ + 1]
          /\ buffer' = [from |-> s, number |-> got[s] + 1]
          /\ rpc' \in {"push", "disconnect"}
       \/ /\ \/ peer[s] \in {"new", "gone"} \/ apc = "failed"
             \/ peer[s] = "closed" /\ sent[s] = got[s]
          /\ rpc' = "disconnect"
          /\ UNCHANGED <<got, buffer>>
    /\ UNCHANGED <<clients, messages, queueMutex, apc, index, mpc, peer, sent, taken, ghosts>>

\* After a shift, s need not be the socket that select reported; recv blocks
\* on one that has sent nothing, with queueMutex held.
recvRecv ==
    /\ rpc = "recv"
    /\ \E s \in AtIndex :
          \/ Received(s)
          \/ /\ peer[s] = "open" /\ ~Readable(s) /\ apc # "failed"
             /\ buffer' = [from |-> s, number |-> 0]
             /\ rpc' = "blocked"
             /\ UNCHANGED <<clients, messages, queueMutex, apc, index, mpc, peerVars, taken, ghosts>>

recvBlocked == rpc = "blocked" /\ Received(buffer.from)

recvDisconnect ==
    /\ rpc = "disconnect"
    /\ \E s \in AtIndex : disconnect(s)
    /\ rpc' = "unlock"
    /\ UNCHANGED <<messages, queueMutex, apc, index, buffer, mpc, sent, got, taken, ghosts>>

\* msg.setSocket(clients[index]), the fourth read of clients[index]
SenderFirst == {Head(clients)}
Sender == AtIndex

recvPush ==
    /\ rpc = "push"
    /\ \E s \in Sender :
          messages' = Append(messages, [from |-> buffer.from, number |-> buffer.number,
                                        sock |-> s])
    /\ rpc' = "notify"
    /\ UNCHANGED <<clients, queueMutex, apc, index, buffer, mpc, peerVars, taken, ghosts>>

recvNotify ==
    /\ rpc = "notify"
    /\ mpc' = IF mpc = "waiting" THEN "lock" ELSE mpc
    /\ rpc' = "unlock"
    /\ UNCHANGED <<clients, messages, queueMutex, apc, index, buffer, peerVars, taken, ghosts>>

NextIndexStays == index
NextIndex == index + 1

recvUnlock ==
    /\ rpc = "unlock"
    /\ index' = NextIndex
    /\ queueMutex' = "free"
    /\ rpc' = "lock"
    /\ UNCHANGED <<clients, messages, apc, buffer, mpc, peerVars, taken, ghosts>>
-----------------------------------------------------------------------------
(***************************************************************************)
(* getLastPacket                                                           *)
(***************************************************************************)
mainCheck ==
    /\ mpc = "check"
    /\ mpc' = IF messages = <<>> THEN "enter" ELSE "lock"
    /\ UNCHANGED <<clients, messages, queueMutex, apc, recvVars, peerVars, taken, ghosts>>

\* if (messages.empty()) queueCV.wait(lk), once and without a predicate.
mainWait ==
    /\ mpc = "enter"
    /\ mpc' = "waiting"
    /\ UNCHANGED <<clients, messages, queueMutex, apc, recvVars, peerVars, taken, ghosts>>

mainSpurious ==
    /\ mpc = "waiting"
    /\ mpc' = "lock"
    /\ spurious' = TRUE
    /\ UNCHANGED <<clients, messages, queueMutex, apc, recvVars, peerVars, taken, shifted>>

mainLock ==
    /\ mpc = "lock" /\ queueMutex = "free"
    /\ queueMutex' = "main"
    /\ mpc' = "pop"
    /\ UNCHANGED <<clients, messages, apc, recvVars, peerVars, taken, ghosts>>

AfterPopKept == messages
AfterPop == Tail(messages)

\* front() and pop() of an empty queue are undefined; here they end the program.
mainPop ==
    /\ mpc = "pop"
    /\ \/ /\ messages # <<>>
          /\ taken' = Append(taken, Head(messages))
          /\ messages' = AfterPop
          /\ mpc' = "handle"
       \/ /\ messages = <<>>
          /\ mpc' = "crashed"
          /\ UNCHANGED <<messages, taken>>
    /\ queueMutex' = "free" /\ spurious' = FALSE
    /\ UNCHANGED <<clients, apc, recvVars, peerVars, shifted>>

\* In a handler thread, sendMessage to a peer that has gone away fails.
handlerDisconnects(s) ==
    /\ mpc = "handle" /\ (peer[s] = "closed" \/ apc = "failed") /\ Contains(clients, s)
    /\ disconnect(s)
    /\ shifted' = (shifted \/ rpc \in {"select", "recv", "blocked", "push", "disconnect"})
    /\ UNCHANGED <<messages, queueMutex, apc, recvVars, mpc, sent, got, taken, spurious>>

mainJoined ==
    /\ mpc = "handle"
    /\ mpc' = "check"
    /\ UNCHANGED <<clients, messages, queueMutex, apc, recvVars, peerVars, taken, ghosts>>
-----------------------------------------------------------------------------
Peers == \E s \in Sockets : peerSends(s) \/ peerCloses(s)

acceptFunction == (\E s \in Sockets : acceptClient(s)) \/ acceptNotify \/ acceptFails

recvFunction ==
    \/ recvLock \/ recvCheck \/ recvWait \/ recvWrap \/ recvSelect \/ recvRecv
    \/ recvBlocked \/ recvDisconnect \/ recvPush \/ recvNotify \/ recvUnlock

getLastPacket == mainCheck \/ mainWait \/ mainLock \/ mainPop \/ mainJoined

Spurious == recvSpurious \/ mainSpurious

Running == rpc # "crashed" /\ mpc # "crashed"

Next ==
    /\ Running
    /\ \/ Peers \/ acceptFunction \/ recvFunction \/ getLastPacket \/ Spurious
       \/ \E s \in Sockets : handlerDisconnects(s)

\* Every thread that can go on does.  Nothing is assumed of the peers, and no
\* spurious wakeup ever has to happen.
Fairness ==
    /\ WF_vars(Running /\ acceptNotify)
    /\ WF_vars(Running /\ recvFunction)
    /\ WF_vars(Running /\ getLastPacket)

Spec == Init /\ [][Next]_vars /\ Fairness

\* In addition recvFunction, which releases queueMutex only to take it again,
\* does not keep it from the main thread for ever.
FairMutexSpec == Spec /\ SF_vars(Running /\ mainLock)
-----------------------------------------------------------------------------
(***************************************************************************)
(* Properties                                                              *)
(***************************************************************************)

\* getLastPacket pops only from a queue that has a message, although it tests
\* for one without queueMutex and does not test again after waiting: only a
\* spurious wakeup, which wait() may have, can take it to an empty one.
NoEmptyPop == mpc = "pop" /\ messages = <<>> => spurious

\* All that was ever queued, and the numbers of what s sent among it.
queued == taken \o messages
Numbers(s) == {queued[i].number : i \in {j \in DOMAIN queued : queued[j].from = s}}

Increasing ==
    \A i, j \in DOMAIN queued :
        i < j /\ queued[i].from = queued[j].from => queued[i].number < queued[j].number

AllButLast(s) == Numbers(s) = 1 .. (got[s] - 1) /\ got[s] >= 1

Accounted(s) ==
    \/ shifted
    \/ Numbers(s) = 1 .. got[s]
    \/ AllButLast(s) /\ (peer[s] = "gone" \/ (rpc \in {"push", "disconnect"} /\ buffer.from = s))

\* What a client sends is queued and taken in its order and never twice.  None
\* of it is left out but the last message of a connection, when it came in a
\* piece of fewer than four bytes and the connection was closed for that; after
\* a shift of clients, the connection closed for it can be another one.
InOrderOnce == Increasing /\ \A s \in Sockets : Accounted(s)

\* The reply to a message goes to the client that sent it.  Only a handler's
\* disconnect between two reads of clients[index] can put another client's
\* socket into a message.
Attributed ==
    \A i \in DOMAIN messages : messages[i].sock # messages[i].from => shifted

\* recvFunction polls every client: what a client has sent is read, unless
\* recvFunction waits on cv or blocks in recv, or an accept has failed.
Polled ==
    \A s \in Sockets :
        Contains(clients, s) /\ sent[s] > got[s] ~>
            \/ sent[s] = got[s] \/ ~Contains(clients, s)
            \/ rpc \in {"waiting", "blocked"} \/ apc = "failed" \/ ~Running

\* getLastPacket is there to "wait until there is a packet" (Manager.cpp:44):
\* once there is one, it returns, as long as the program has not crashed and no
\* accept has failed.
WaitsOnlyForPacket ==
    mpc \in {"check", "enter", "waiting", "lock"} /\ messages # <<>> ~>
        mpc = "handle" \/ apc = "failed" \/ ~Running
=============================================================================
