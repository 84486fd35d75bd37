---------------------------- MODULE ServerProofs ----------------------------
(***************************************************************************)
(* Proofs about module Server, for every set of sockets and every bound on *)
(* what they send: the types, with every handle in clients at most once;   *)
(* no pop from an empty queue; the order and completeness of what is       *)
(* queued; and whose socket a queued message carries.                      *)
(***************************************************************************)
EXTENDS Server, FiniteSetTheorems, SequenceTheorems, TLAPS

(***************************************************************************)
(* The inductive invariants                                                *)
(***************************************************************************)

\* recvFunction is at a step that it takes with queueMutex held.
InRound == {"check", "enter", "waiting", "wrap", "select", "recv", "blocked",
            "push", "notify", "disconnect", "unlock", "crashed"}

\* queueMutex is held by the thread whose steps need it.
Mutex ==
    /\ rpc \in InRound <=> queueMutex = "recv"
    /\ mpc = "pop" <=> queueMutex = "main"

\* clients has the open connections only.
ClientsOpen == \A i \in DOMAIN clients : peer[clients[i]] \in {"open", "closed"}

\* recvFunction has just wrapped index, up to the increment of it.
IndexFits ==
    rpc \in {"select", "recv", "blocked", "push", "notify", "disconnect", "unlock"}
        => index < Cardinality(Sockets)

\* recv returns only what was sent, and what recvFunction pushes is the last of it.
Returned ==
    /\ \A s \in Sockets : got[s] <= sent[s]
    /\ rpc = "push" => buffer.number >= 1 /\ buffer.number = got[buffer.from]

TypeInv == TypeOK /\ Mutex /\ ClientsOpen /\ IndexFits /\ Returned

\* What a notification of queueCV promises.
Promised ==
    /\ rpc = "notify" => messages # <<>>
    /\ mpc \in {"lock", "pop"} /\ ~spurious => messages # <<>>

\* As long as no handler has come in between, every read of clients[index] for
\* one message finds the same client.
SameClient ==
    ~shifted =>
        /\ rpc = "select" => index = 0 \/ index < Len(clients)
        /\ rpc \in {"recv", "blocked", "push"} => index < Len(clients)
        /\ rpc \in {"blocked", "push"} => clients[index + 1] = buffer.from

PlaceInv == SameClient /\ Attributed

\* Nothing is queued that recv has not returned, nor, before recvFunction
\* pushes it, the message it pushes.
QueuedIsOld ==
    \A i \in DOMAIN queued :
        /\ queued[i].number <= got[queued[i].from]
        /\ rpc = "push" /\ queued[i].from = buffer.from => queued[i].number < buffer.number

\* The connection that recvFunction closes for a piece of a message is the one
\* that sent it.
PieceClosed ==
    rpc = "disconnect" /\ ~shifted =>
        \/ index < Len(clients) /\ clients[index + 1] = buffer.from
        \/ Numbers(buffer.from) = 1 .. got[buffer.from]
        \/ peer[buffer.from] = "gone"

OrderInv == QueuedIsOld /\ InOrderOnce /\ PieceClosed
-----------------------------------------------------------------------------
(***************************************************************************)
(* Sequences                                                               *)
(***************************************************************************)

\* What erase leaves of a vector: the elements before the place, and those
\* after it one place further down.
LEMMA Erased ==
    ASSUME NEW S, NEW seq \in Seq(S), NEW i \in DOMAIN seq
    PROVE  /\ RemoveAt(seq, i) \in Seq(S)
           /\ Len(RemoveAt(seq, i)) = Len(seq) - 1
           /\ \A j \in 1 .. Len(RemoveAt(seq, i)) :
                 RemoveAt(seq, i)[j] = seq[IF j < i THEN j ELSE j + 1]
<1>1. i \in 1 .. Len(seq) /\ Len(seq) \in Nat
    OBVIOUS
<1>2. /\ SubSeq(seq, 1, i - 1) \in Seq(S) /\ Len(SubSeq(seq, 1, i - 1)) = i - 1
      /\ \A j \in 1 .. (i - 1) : SubSeq(seq, 1, i - 1)[j] = seq[j]
    BY <1>1
<1>3. /\ SubSeq(seq, i + 1, Len(seq)) \in Seq(S)
      /\ Len(SubSeq(seq, i + 1, Len(seq))) = Len(seq) - i
      /\ \A j \in 1 .. (Len(seq) - i) : SubSeq(seq, i + 1, Len(seq))[j] = seq[i + j]
    BY <1>1
<1> DEFINE a == SubSeq(seq, 1, i - 1)
           b == SubSeq(seq, i + 1, Len(seq))
<1> HIDE DEF a, b
<1>4. /\ a \in Seq(S) /\ Len(a) = i - 1 /\ \A j \in 1 .. (i - 1) : a[j] = seq[j]
      /\ b \in Seq(S) /\ Len(b) = Len(seq) - i
      /\ \A j \in 1 .. (Len(seq) - i) : b[j] = seq[i + j]
    BY <1>2, <1>3 DEF a, b
<1>5. a \o b \in Seq(S) /\ Len(a \o b) = Len(seq) - 1
    BY <1>1, <1>4
<1>6. ASSUME NEW j \in 1 .. (Len(seq) - 1)
      PROVE  (a \o b)[j] = seq[IF j < i THEN j ELSE j + 1]
    <2>1. (a \o b)[j] = IF j <= Len(a) THEN a[j] ELSE b[j - Len(a)]
        BY <1>1, <1>4
    <2>2. CASE j < i
        BY <2>1, <2>2, <1>1, <1>4
    <2>3. CASE ~(j < i)
        <3>1. j - (i - 1) \in 1 .. (Len(seq) - i) /\ i + (j - (i - 1)) = j + 1
            BY <2>3, <1>1
        <3>2. b[j - (i - 1)] = seq[i + (j - (i - 1))]
            BY <3>1, <1>4
        <3> QED
            BY <2>1, <2>3, <3>1, <3>2, <1>1, <1>4
    <2> QED
        BY <2>2, <2>3
<1>7. RemoveAt(seq, i) = a \o b
    BY DEF RemoveAt, a, b
<1> QED
    BY <1>5, <1>6, <1>7

\* A queue popped into the history of what was taken is the same stream.
LEMMA PoppedStream ==
    ASSUME NEW S, NEW old \in Seq(S), NEW seq \in Seq(S), seq # <<>>
    PROVE  Append(old, Head(seq)) \o Tail(seq) = old \o seq
<1>1. Head(seq) \in S /\ Tail(seq) \in Seq(S) /\ Len(seq) \in Nat /\ Len(seq) >= 1
    BY HeadTailProperties, EmptySeq
<1>2. Head(seq) = seq[1]
    BY <1>1
<1>3. SubSeq(seq, 1, Len(seq)) = <<seq[1]>> \o SubSeq(seq, 1 + 1, Len(seq))
    BY <1>1, SubSeqRecursiveFirst
<1>4. seq = <<Head(seq)>> \o Tail(seq)
    BY <1>2, <1>3, SubSeqFull, TailIsSubSeq
<1>5. <<Head(seq)>> \in Seq(S)
    BY <1>1
<1>6. Append(old, Head(seq)) = old \o <<Head(seq)>>
    BY <1>1, AppendIsConcat
<1> QED
    BY <1>1, <1>4, <1>5, <1>6, ConcatAssociative

\* A message pushed to the queue comes last in the stream.
LEMMA PushedStream ==
    ASSUME NEW S, NEW old \in Seq(S), NEW seq \in Seq(S), NEW e \in S
    PROVE  old \o Append(seq, e) = Append(old \o seq, e)
<1>1. <<e>> \in Seq(S) /\ old \o seq \in Seq(S)
    BY ConcatProperties
<1>2. Append(seq, e) = seq \o <<e>> /\ Append(old \o seq, e) = (old \o seq) \o <<e>>
    BY <1>1, AppendIsConcat
<1> QED
    BY <1>1, <1>2, ConcatAssociative

\* An element added to a vector that did not have it leaves it without repetition.
LEMMA AddedOnce ==
    ASSUME NEW S, NEW seq \in Seq(S), NEW e \in S, IsInjective(seq), ~Contains(seq, e)
    PROVE  Append(seq, e) \in Seq(S) /\ IsInjective(Append(seq, e))
    BY DEF IsInjective, Contains

\* After erase, a vector without repetition has none, and not the element.
LEMMA ErasedOnce ==
    ASSUME NEW S, NEW seq \in Seq(S), NEW i \in DOMAIN seq, IsInjective(seq)
    PROVE  /\ IsInjective(RemoveAt(seq, i))
           /\ \A j \in DOMAIN RemoveAt(seq, i) :
                 /\ RemoveAt(seq, i)[j] # seq[i]
                 /\ \E k \in DOMAIN seq : RemoveAt(seq, i)[j] = seq[k]
<1> DEFINE r == RemoveAt(seq, i)
           Place(j) == IF j < i THEN j ELSE j + 1
<1> HIDE DEF r
<1>1. /\ r \in Seq(S) /\ Len(r) = Len(seq) - 1
      /\ \A j \in 1 .. Len(r) : r[j] = seq[Place(j)]
    BY Erased DEF r
<1>2. DOMAIN r = 1 .. (Len(seq) - 1) /\ DOMAIN seq = 1 .. Len(seq) /\ Len(seq) \in Nat
    BY <1>1
<1>3. \A j \in DOMAIN r : Place(j) \in DOMAIN seq /\ Place(j) # i /\ r[j] = seq[Place(j)]
    BY <1>1, <1>2
<1>4. \A j, k \in DOMAIN r : Place(j) = Place(k) => j = k
    BY <1>2
<1>5. IsInjective(r)
    BY <1>3, <1>4 DEF IsInjective
<1>6. \A j \in DOMAIN r : r[j] # seq[i] /\ \E k \in DOMAIN seq : r[j] = seq[k]
    <2> HIDE DEF Place
    <2> QED
        BY <1>3 DEF IsInjective
<1> QED
    BY <1>5, <1>6 DEF r

\* A vector without repetition is no longer than the set of its elements.
LEMMA OnceIsBounded ==
    ASSUME NEW S, IsFiniteSet(S), NEW seq \in Seq(S), IsInjective(seq)
    PROVE  Len(seq) \in Nat /\ Cardinality(S) \in Nat /\ Len(seq) <= Cardinality(S)
<1>1. Len(seq) \in Nat /\ seq \in [1 .. Len(seq) -> S]
    OBVIOUS
<1>2. seq \in Injection(1 .. Len(seq), S)
    BY <1>1 DEF Injection
<1>3. Cardinality(1 .. Len(seq)) <= Cardinality(S)
    BY <1>2, FS_Injection
<1>4. Cardinality(1 .. Len(seq)) = Len(seq)
    BY <1>1, FS_Interval
<1> QED
    BY <1>1, <1>3, <1>4, FS_CardinalityType
-----------------------------------------------------------------------------
(***************************************************************************)
(* Type correctness                                                        *)
(***************************************************************************)

LEMMA SocketsCounted == Cardinality(Sockets) \in Nat /\ Cardinality(Sockets) > 0
    BY ServerAssumption, FS_CardinalityType, FS_EmptySet

LEMMA AtIndexIsSocket == TypeOK => AtIndex \subseteq Sockets
    BY DEF TypeOK, AtIndex

LEMMA TypeInit == Init => TypeInv
<1> SUFFICES ASSUME Init PROVE TypeInv
    OBVIOUS
<1>1. PICK c \in Sockets : c = CHOOSE s \in Sockets : TRUE
    BY ServerAssumption
<1>2. buffer = [from |-> c, number |-> 0]
    BY <1>1 DEF Init
<1>3. TypeOK
    <2>1. clients \in Seq(Sockets) /\ IsInjective(clients)
        BY DEF Init, IsInjective
    <2>2. buffer \in [from : Sockets, number : 0 .. MaxSent]
        BY <1>2, ServerAssumption
    <2>3. messages \in Seq(Message) /\ taken \in Seq(Message) /\ index \in 0 .. Cardinality(Sockets)
        BY SocketsCounted DEF Init
    <2>4. sent \in [Sockets -> 0 .. MaxSent] /\ got \in [Sockets -> 0 .. MaxSent]
        BY ServerAssumption DEF Init
    <2> QED
        BY <2>1, <2>2, <2>3, <2>4 DEF Init, TypeOK
<1>4. Mutex /\ ClientsOpen /\ IndexFits /\ Returned
    BY DEF Init, Mutex, InRound, ClientsOpen, IndexFits, Returned
<1> QED
    BY <1>3, <1>4 DEF TypeInv

\* A connection is added to clients when it is made, so it was not there.
LEMMA AcceptKeepsTypes ==
    ASSUME TypeInv, NEW s \in Sockets, acceptClient(s)
    PROVE  TypeInv'
<1>1. /\ clients \in Seq(Sockets) /\ IsInjective(clients) /\ peer[s] = "new"
      /\ peer \in [Sockets -> {"new", "open", "closed", "gone"}]
      /\ clients' = Append(clients, s) /\ peer' = [peer EXCEPT ![s] = "open"]
    BY DEF TypeInv, TypeOK, acceptClient, Accepted
<1>2. \A i \in DOMAIN clients : clients[i] # s /\ clients[i] \in Sockets
    BY <1>1 DEF TypeInv, ClientsOpen
<1>3. clients' \in Seq(Sockets) /\ IsInjective(clients)'
    BY <1>1, <1>2, AddedOnce DEF Contains
<1>4. ClientsOpen'
    BY <1>1, <1>2 DEF TypeInv, ClientsOpen
<1>5. TypeOK'
    BY <1>1, <1>3 DEF TypeInv, TypeOK, acceptClient, recvVars, ghosts
<1>6. (Mutex /\ IndexFits /\ Returned)'
    BY DEF TypeInv, Mutex, IndexFits, Returned, acceptClient, recvVars
<1> QED
    BY <1>4, <1>5, <1>6 DEF TypeInv

\* disconnect takes the connection out of clients for good.
LEMMA DisconnectKeepsClients ==
    ASSUME TypeOK, ClientsOpen, NEW s \in Sockets, disconnect(s)
    PROVE  /\ clients' \in Seq(Sockets) /\ IsInjective(clients)'
           /\ peer' \in [Sockets -> {"new", "open", "closed", "gone"}]
           /\ ClientsOpen'
<1>1. /\ clients \in Seq(Sockets) /\ IsInjective(clients)
      /\ peer \in [Sockets -> {"new", "open", "closed", "gone"}]
    BY DEF TypeOK
<1>2. CASE UNCHANGED <<clients, peer>>
    BY <1>1, <1>2 DEF ClientsOpen
<1>3. ASSUME NEW i \in DOMAIN clients, clients[i] = s, clients' = RemoveAt(clients, i),
             peer' = [peer EXCEPT ![s] = "gone"]
      PROVE  /\ clients' \in Seq(Sockets) /\ IsInjective(clients)'
             /\ peer' \in [Sockets -> {"new", "open", "closed", "gone"}]
             /\ ClientsOpen'
    <2>1. clients' \in Seq(Sockets)
        BY <1>1, <1>3, Erased
    <2>2. /\ IsInjective(clients')
          /\ \A j \in DOMAIN clients' : /\ clients'[j] # s
                                        /\ \E k \in DOMAIN clients : clients'[j] = clients[k]
        BY <1>1, <1>3, ErasedOnce
    <2>3. \A k \in DOMAIN clients : clients[k] \in Sockets
        BY <1>1
    <2>4. ClientsOpen'
        BY <1>1, <1>3, <2>2, <2>3 DEF ClientsOpen
    <2> QED
        BY <1>1, <1>3, <2>1, <2>2, <2>4
<1> QED
    BY <1>2, <1>3 DEF disconnect

\* A whole step of recvFunction or of a handler that disconnects keeps the types.
LEMMA DisconnectsKeepTypes ==
    ASSUME TypeInv, recvDisconnect \/ \E s \in Sockets : handlerDisconnects(s)
    PROVE  TypeInv'
<1>1. PICK s \in Sockets : disconnect(s)
    BY AtIndexIsSocket DEF TypeInv, recvDisconnect, handlerDisconnects
<1>2. /\ clients' \in Seq(Sockets) /\ IsInjective(clients)' /\ ClientsOpen'
      /\ peer' \in [Sockets -> {"new", "open", "closed", "gone"}]
    BY <1>1, DisconnectKeepsClients DEF TypeInv
<1>3. CASE recvDisconnect
    <2>1. TypeOK'
        BY <1>2, <1>3 DEF TypeInv, TypeOK, recvDisconnect, ghosts
    <2>2. (Mutex /\ IndexFits /\ Returned)'
        BY <1>3 DEF TypeInv, Mutex, InRound, IndexFits, Returned, recvDisconnect
    <2> QED
        BY <1>2, <2>1, <2>2 DEF TypeInv
<1>4. CASE \E t \in Sockets : handlerDisconnects(t)
    <2>1. TypeOK'
        BY <1>2, <1>4 DEF TypeInv, TypeOK, handlerDisconnects, recvVars
    <2>2. (Mutex /\ IndexFits /\ Returned)'
        BY <1>4 DEF TypeInv, Mutex, InRound, IndexFits, Returned, handlerDisconnects, recvVars
    <2> QED
        BY <1>2, <2>1, <2>2 DEF TypeInv
<1> QED
    BY <1>3, <1>4

\* What recv returns is bounded by what was sent.
LEMMA ReceivedKeepsTypes ==
    ASSUME TypeInv, NEW s \in Sockets, rpc \in {"recv", "blocked"}, Received(s)
    PROVE  TypeInv'
<1>1. CASE /\ sent[s] > got[s]
           /\ got' = [got EXCEPT ![s] = @ + 1]
           /\ buffer' = [from |-> s, number |-> got[s] + 1]
           /\ rpc' \in {"push", "disconnect"}
    <2>1. /\ \A t \in Sockets : /\ sent[t] \in 0 .. MaxSent /\ got[t] \in 0 .. MaxSent
                                /\ got[t] <= sent[t]
          /\ got \in [Sockets -> 0 .. MaxSent] /\ MaxSent \in Nat
        BY ServerAssumption DEF TypeInv, TypeOK, Returned
    <2>2. got' \in [Sockets -> 0 .. MaxSent] /\ buffer' \in [from : Sockets, number : 0 .. MaxSent]
        BY <1>1, <2>1
    <2>3. TypeOK'
        BY <1>1, <2>2 DEF TypeInv, TypeOK, Received, ghosts
    <2>4. Returned'
        BY <1>1, <2>1 DEF Returned, Received
    <2>5. (Mutex /\ ClientsOpen /\ IndexFits)'
        BY <1>1 DEF TypeInv, Mutex, InRound, ClientsOpen, IndexFits, Received
    <2> QED
        BY <2>3, <2>4, <2>5 DEF TypeInv
<1>2. CASE rpc' = "disconnect" /\ UNCHANGED <<got, buffer>>
    <2>1. TypeOK'
        BY <1>2 DEF TypeInv, TypeOK, Received, ghosts
    <2>2. (Returned /\ Mutex /\ ClientsOpen /\ IndexFits)'
        BY <1>2 DEF TypeInv, Returned, Mutex, InRound, ClientsOpen, IndexFits, Received
    <2> QED
        BY <2>1, <2>2 DEF TypeInv
<1> QED
    BY <1>1, <1>2 DEF Received

\* The steps of recvFunction that touch neither clients nor what recv returned.
LEMMA RecvLoopKeepsTypes ==
    ASSUME TypeInv,
           recvLock \/ recvCheck \/ recvWait \/ recvSpurious \/ recvSelect \/ recvNotify
    PROVE  TypeInv'
<1>1. TypeOK'
    BY DEF TypeInv, TypeOK, recvLock, recvCheck, recvWait, recvSpurious, recvSelect, recvNotify,
           peerVars, ghosts
<1>2. (Mutex /\ IndexFits)'
    <2>1. CASE recvLock \/ recvCheck
        BY <2>1 DEF TypeInv, Mutex, InRound, IndexFits, recvLock, recvCheck
    <2>2. CASE recvWait \/ recvSpurious
        BY <2>2 DEF TypeInv, Mutex, InRound, IndexFits, recvWait, recvSpurious
    <2>3. CASE recvSelect
        BY <2>3 DEF TypeInv, Mutex, InRound, IndexFits, recvSelect
    <2>4. CASE recvNotify
        BY <2>4 DEF TypeInv, Mutex, InRound, IndexFits, recvNotify
    <2> QED
        BY <2>1, <2>2, <2>3, <2>4
<1>3. (ClientsOpen /\ Returned)'
    BY DEF TypeInv, ClientsOpen, Returned, recvLock, recvCheck, recvWait, recvSpurious,
           recvSelect, recvNotify, peerVars
<1> QED
    BY <1>1, <1>2, <1>3 DEF TypeInv

\* index stays within the clients there can be: it is wrapped before it is used.
LEMMA IndexKeepsTypes ==
    ASSUME TypeInv, recvWrap \/ recvUnlock
    PROVE  TypeInv'
<1>1. Len(clients) \in Nat /\ Len(clients) <= Cardinality(Sockets)
    BY OnceIsBounded, ServerAssumption DEF TypeInv, TypeOK
<1>2. CASE recvWrap
    <2>1. index' \in 0 .. Cardinality(Sockets) /\ index' < Cardinality(Sockets)
        BY <1>1, <1>2, SocketsCounted DEF TypeInv, TypeOK, recvWrap, Wrapped
    <2>2. TypeOK'
        BY <1>2, <2>1 DEF TypeInv, TypeOK, recvWrap, peerVars, ghosts
    <2>3. (Mutex /\ ClientsOpen /\ IndexFits /\ Returned)'
        BY <1>2, <2>1 DEF TypeInv, Mutex, InRound, ClientsOpen, IndexFits, Returned, recvWrap,
                          peerVars
    <2> QED
        BY <2>2, <2>3 DEF TypeInv
<1>3. CASE recvUnlock
    <2>1. index' \in 0 .. Cardinality(Sockets)
        BY <1>3, SocketsCounted DEF TypeInv, TypeOK, IndexFits, recvUnlock, NextIndex
    <2>2. TypeOK'
        BY <1>3, <2>1 DEF TypeInv, TypeOK, recvUnlock, peerVars, ghosts
    <2>3. (Mutex /\ ClientsOpen /\ IndexFits /\ Returned)'
        BY <1>3 DEF TypeInv, TypeOK, Mutex, InRound, ClientsOpen, IndexFits, Returned,
                    recvUnlock, peerVars
    <2> QED
        BY <2>2, <2>3 DEF TypeInv
<1> QED
    BY <1>2, <1>3

\* What recvFunction queues is a message.
LEMMA PushKeepsTypes ==
    ASSUME TypeInv, recvPush
    PROVE  TypeInv'
<1>1. PICK s \in Sockets : messages' = Append(messages, [from |-> buffer.from,
                                                        number |-> buffer.number, sock |-> s])
    BY AtIndexIsSocket DEF TypeInv, recvPush, Sender
<1>2. [from |-> buffer.from, number |-> buffer.number, sock |-> s] \in Message
    BY ServerAssumption DEF TypeInv, TypeOK, Returned, recvPush, Message
<1>3. messages' \in Seq(Message)
    BY <1>1, <1>2 DEF TypeInv, TypeOK
<1>4. TypeOK'
    BY <1>3 DEF TypeInv, TypeOK, recvPush, peerVars, ghosts
<1>5. (Mutex /\ ClientsOpen /\ IndexFits /\ Returned)'
    BY DEF TypeInv, Mutex, InRound, ClientsOpen, IndexFits, Returned, recvPush, peerVars
<1> QED
    BY <1>4, <1>5 DEF TypeInv

\* recv on an empty connection blocks, and getLastPacket and the joins of the
\* main thread change what they should.
LEMMA OthersKeepTypes ==
    ASSUME TypeInv,
           \/ Peers \/ acceptNotify \/ acceptFails \/ getLastPacket \/ mainSpurious
    PROVE  TypeInv'
<1>1. CASE Peers
    <2>1. PICK s \in Sockets : peerSends(s) \/ peerCloses(s)
        BY <1>1 DEF Peers
    <2>2. CASE peerSends(s)
        <3>1. sent' \in [Sockets -> 0 .. MaxSent] /\ \A t \in Sockets : got[t] <= sent'[t]
            BY <2>2, ServerAssumption DEF TypeInv, TypeOK, Returned, peerSends
        <3>2. TypeOK'
            BY <2>2, <3>1 DEF TypeInv, TypeOK, peerSends, recvVars, ghosts
        <3>3. (Mutex /\ ClientsOpen /\ IndexFits /\ Returned)'
            BY <2>2, <3>1 DEF TypeInv, Mutex, ClientsOpen, IndexFits, Returned, peerSends, recvVars
        <3> QED
            BY <3>2, <3>3 DEF TypeInv
    <2>3. CASE peerCloses(s)
        <3>1. TypeOK'
            BY <2>3 DEF TypeInv, TypeOK, peerCloses, recvVars, ghosts
        <3>2. (Mutex /\ IndexFits /\ Returned)'
            BY <2>3 DEF TypeInv, Mutex, IndexFits, Returned, peerCloses, recvVars
        <3>3. \A i \in DOMAIN clients : clients[i] \in Sockets
            BY DEF TypeInv, TypeOK
        <3>4. ClientsOpen'
            BY <2>3, <3>3 DEF TypeInv, TypeOK, ClientsOpen, peerCloses
        <3> QED
            BY <3>1, <3>2, <3>4 DEF TypeInv
    <2> QED
        BY <2>1, <2>2, <2>3
<1>2. CASE acceptNotify \/ acceptFails
    <2>1. TypeOK'
        BY <1>2 DEF TypeInv, TypeOK, acceptNotify, acceptFails, recvVars, peerVars, ghosts
    <2>2. (Mutex /\ ClientsOpen /\ IndexFits /\ Returned)'
        BY <1>2 DEF TypeInv, Mutex, InRound, ClientsOpen, IndexFits, Returned, acceptNotify,
                    acceptFails, recvVars, peerVars
    <2> QED
        BY <2>1, <2>2 DEF TypeInv
<1>3. CASE mainCheck \/ mainWait \/ mainLock \/ mainJoined \/ mainSpurious
    <2>1. TypeOK'
        BY <1>3 DEF TypeInv, TypeOK, mainCheck, mainWait, mainLock, mainJoined, mainSpurious,
                    recvVars, peerVars, ghosts
    <2>2. (Mutex /\ ClientsOpen /\ IndexFits /\ Returned)'
        BY <1>3 DEF TypeInv, Mutex, InRound, ClientsOpen, IndexFits, Returned, mainCheck, mainWait,
                    mainLock, mainJoined, mainSpurious, recvVars, peerVars
    <2> QED
        BY <2>1, <2>2 DEF TypeInv
<1>4. CASE mainPop
    <2>1. messages' \in Seq(Message) /\ taken' \in Seq(Message)
        <3>1. messages \in Seq(Message) /\ taken \in Seq(Message)
            BY DEF TypeInv, TypeOK
        <3>2. CASE messages # <<>>
            <4>1. messages' = Tail(messages) /\ taken' = Append(taken, Head(messages))
                BY <1>4, <3>2 DEF mainPop, AfterPop
            <4>2. Head(messages) \in Message /\ Tail(messages) \in Seq(Message)
                BY <3>1, <3>2, HeadTailProperties
            <4> QED
                BY <3>1, <4>1, <4>2, AppendProperties
        <3>3. CASE messages = <<>>
            BY <1>4, <3>1, <3>3 DEF mainPop
        <3> QED
            BY <3>2, <3>3
    <2>2. TypeOK'
        BY <1>4, <2>1 DEF TypeInv, TypeOK, mainPop, recvVars, peerVars
    <2>3. (Mutex /\ ClientsOpen /\ IndexFits /\ Returned)'
        BY <1>4 DEF TypeInv, Mutex, InRound, ClientsOpen, IndexFits, Returned, mainPop, recvVars,
                    peerVars
    <2> QED
        BY <2>2, <2>3 DEF TypeInv
<1> QED
    BY <1>1, <1>2, <1>3, <1>4 DEF getLastPacket

LEMMA TypeStep == TypeInv /\ [Next]_vars => TypeInv'
<1> SUFFICES ASSUME TypeInv, [Next]_vars PROVE TypeInv'
    OBVIOUS
<1>1. CASE \E s \in Sockets : acceptClient(s)
    BY <1>1, AcceptKeepsTypes
<1>2. CASE recvDisconnect \/ \E s \in Sockets : handlerDisconnects(s)
    BY <1>2, DisconnectsKeepTypes
<1>3. CASE recvRecv \/ recvBlocked
    <2>1. CASE \E s \in Sockets : rpc \in {"recv", "blocked"} /\ Received(s)
        BY <2>1, ReceivedKeepsTypes
    <2>2. CASE /\ rpc = "recv" /\ rpc' = "blocked"
               /\ \E s \in AtIndex : buffer' = [from |-> s, number |-> 0]
               /\ UNCHANGED <<clients, messages, queueMutex, apc, index, mpc, peerVars, taken, ghosts>>
        <3>1. buffer' \in [from : Sockets, number : 0 .. MaxSent]
            BY <2>2, AtIndexIsSocket, ServerAssumption DEF TypeInv
        <3>2. TypeOK'
            BY <2>2, <3>1 DEF TypeInv, TypeOK, peerVars, ghosts
        <3>3. (Mutex /\ ClientsOpen /\ IndexFits /\ Returned)'
            BY <2>2 DEF TypeInv, Mutex, InRound, ClientsOpen, IndexFits, Returned, peerVars
        <3> QED
            BY <3>2, <3>3 DEF TypeInv
    <2>3. buffer.from \in Sockets
        BY DEF TypeInv, TypeOK
    <2>4. CASE recvBlocked
        <3>1. rpc \in {"recv", "blocked"} /\ Received(buffer.from)
            BY <2>4 DEF recvBlocked
        <3> QED
            BY <2>3, <3>1, ReceivedKeepsTypes
    <2>5. CASE recvRecv
        <3>1. PICK s \in AtIndex :
                 \/ Received(s)
                 \/ /\ buffer' = [from |-> s, number |-> 0] /\ rpc' = "blocked"
                    /\ UNCHANGED <<clients, messages, queueMutex, apc, index, mpc, peerVars,
                                   taken, ghosts>>
            BY <2>5 DEF recvRecv
        <3>2. s \in Sockets /\ rpc = "recv"
            BY <2>5, AtIndexIsSocket DEF TypeInv, recvRecv
        <3> QED
            BY <2>1, <2>2, <3>1, <3>2
    <2> QED
        BY <1>3, <2>4, <2>5
<1>4. CASE recvLock \/ recvCheck \/ recvWait \/ recvSpurious \/ recvSelect \/ recvNotify
    BY <1>4, RecvLoopKeepsTypes
<1>5. CASE recvWrap \/ recvUnlock
    BY <1>5, IndexKeepsTypes
<1>6. CASE recvPush
    BY <1>6, PushKeepsTypes
<1>7. CASE Peers \/ acceptNotify \/ acceptFails \/ getLastPacket \/ mainSpurious
    BY <1>7, OthersKeepTypes
<1>8. CASE UNCHANGED vars
    <2>1. TypeOK'
        BY <1>8 DEF TypeInv, TypeOK, vars, recvVars, peerVars, ghosts
    <2>2. (Mutex /\ ClientsOpen /\ IndexFits /\ Returned)'
        BY <1>8 DEF TypeInv, Mutex, ClientsOpen, IndexFits, Returned, vars, recvVars, peerVars
    <2> QED
        BY <2>1, <2>2 DEF TypeInv
<1> QED
    BY <1>1, <1>2, <1>3, <1>4, <1>5, <1>6, <1>7, <1>8
       DEF Next, acceptFunction, recvFunction, Spurious

LEMMA TypeInvHolds == Spec => []TypeInv
<1> QED
    BY TypeInit, TypeStep, PTL DEF Spec

\* clients holds a handle at most once, and index stays within the clients there
\* can be, whatever the accepting, the receiving and the handler thread do to the
\* vector that they share.
THEOREM ServerTypeCorrect == Spec => []TypeOK
<1>1. TypeInv => TypeOK
    BY DEF TypeInv
<1> QED
    BY <1>1, TypeInvHolds, PTL
-----------------------------------------------------------------------------
(***************************************************************************)
(* No pop from an empty queue                                              *)
(***************************************************************************)

\* A message that was seen, or of which recvFunction is about to tell, is there
\* until getLastPacket itself takes it: nobody else pops.
LEMMA PromisedStep == TypeInv /\ Promised /\ [Next]_vars => Promised'
<1> SUFFICES ASSUME TypeInv, Promised, [Next]_vars PROVE Promised'
    OBVIOUS
<1> USE DEF Promised
<1>1. CASE mainPop
    <2>1. mpc = "pop" /\ mpc' # "lock" /\ mpc' # "pop" /\ UNCHANGED rpc
        BY <1>1 DEF mainPop, recvVars
    <2>2. rpc # "notify"
        BY <2>1 DEF TypeInv, Mutex, InRound
    <2> QED
        BY <2>1, <2>2
<1>2. CASE recvPush
    <2>1. messages \in Seq(Message)
        BY DEF TypeInv, TypeOK
    <2>2. messages' # <<>>
        BY <1>2, <2>1 DEF recvPush
    <2> QED
        BY <1>2, <2>2 DEF recvPush
<1>3. CASE recvNotify
    BY <1>3 DEF recvNotify, ghosts
<1>4. CASE mainCheck \/ mainWait \/ mainLock \/ mainJoined \/ mainSpurious
    BY <1>4 DEF mainCheck, mainWait, mainLock, mainJoined, mainSpurious, recvVars, ghosts
<1>5. CASE Peers \/ acceptFunction \/ \E s \in Sockets : handlerDisconnects(s)
    BY <1>5 DEF Peers, peerSends, peerCloses, acceptFunction, acceptClient, acceptNotify,
                acceptFails, handlerDisconnects, recvVars, ghosts
<1>6. CASE recvLock \/ recvCheck \/ recvWait \/ recvSpurious \/ recvWrap \/ recvSelect
           \/ recvDisconnect \/ recvUnlock
    BY <1>6 DEF recvLock, recvCheck, recvWait, recvSpurious, recvWrap, recvSelect,
                recvDisconnect, recvUnlock, ghosts
<1>7. CASE recvRecv \/ recvBlocked
    BY <1>7 DEF recvRecv, recvBlocked, Received, ghosts
<1>8. CASE UNCHANGED vars
    BY <1>8 DEF vars, recvVars, ghosts
<1> QED
    BY <1>1, <1>2, <1>3, <1>4, <1>5, <1>6, <1>7, <1>8
       DEF Next, recvFunction, getLastPacket, Spurious

\* getLastPacket takes from an empty queue only after a wakeup that nobody sent,
\* although its test and its wait are outside of queueMutex.
THEOREM NoEmptyPopHolds == Spec => []NoEmptyPop
<1>1. Init => Promised
    BY DEF Init, Promised
<1>2. Promised => NoEmptyPop
    BY DEF Promised, NoEmptyPop
<1> QED
    BY <1>1, <1>2, PromisedStep, TypeInvHolds, PTL DEF Spec
-----------------------------------------------------------------------------
(***************************************************************************)
(* Whose socket a message carries                                          *)
(***************************************************************************)

\* A new connection goes to the end of clients: what is at index stays there.
LEMMA PlaceStays ==
    ASSUME TypeInv, \/ \E s \in Sockets : acceptClient(s)
                    \/ UNCHANGED clients
    PROVE  /\ Len(clients) \in Nat /\ Len(clients') \in Nat /\ Len(clients') >= Len(clients)
           /\ \A i \in 1 .. Len(clients) : clients'[i] = clients[i]
<1>1. clients \in Seq(Sockets) /\ Len(clients) \in Nat
    BY DEF TypeInv, TypeOK
<1>2. ASSUME NEW s \in Sockets, acceptClient(s)
      PROVE  /\ Len(clients') = Len(clients) + 1
             /\ \A i \in 1 .. Len(clients) : clients'[i] = clients[i]
    BY <1>1, <1>2, AppendProperties DEF acceptClient, Accepted
<1> QED
    BY <1>1, <1>2

LEMMA PlaceStep == TypeInv /\ PlaceInv /\ [Next]_vars => PlaceInv'
<1> SUFFICES ASSUME TypeInv, PlaceInv, [Next]_vars PROVE PlaceInv'
    OBVIOUS
<1>1. index \in Nat /\ Len(clients) \in Nat /\ messages \in Seq(Message)
    BY DEF TypeInv, TypeOK
<1>2. CASE recvWrap
    <2>1. index' = 0 \/ index' < Len(clients)
        BY <1>1, <1>2 DEF TypeInv, TypeOK, recvWrap, Wrapped
    <2> QED
        BY <1>2, <2>1 DEF PlaceInv, SameClient, Attributed, recvWrap, ghosts
<1>3. CASE recvSelect
    <2>1. ASSUME ~shifted, rpc' = "recv" PROVE index < Len(clients)
        <3>1. Len(clients) > 0
            BY <1>1, <1>3, <2>1 DEF recvSelect, Contains
        <3> QED
            BY <1>3, <2>1, <3>1 DEF PlaceInv, SameClient, recvSelect
    <2>2. rpc' \in {"recv", "unlock", "crashed"}
        BY <1>3 DEF recvSelect
    <2> QED
        BY <1>3, <2>1, <2>2 DEF PlaceInv, SameClient, Attributed, recvSelect, ghosts
<1>4. CASE recvRecv \/ recvBlocked
    <2>1. PICK s \in Sockets :
             /\ \/ rpc = "recv" /\ s \in AtIndex
                \/ rpc = "blocked" /\ s = buffer.from
             /\ rpc' \in {"push", "blocked"} => buffer'.from = s
        <3>1. CASE recvBlocked
            <4>1. buffer.from \in Sockets
                BY DEF TypeInv, TypeOK
            <4> QED
                BY <1>4, <3>1, <4>1 DEF recvBlocked, Received
        <3>2. CASE recvRecv
            BY <1>4, <3>2, AtIndexIsSocket DEF TypeInv, recvRecv, Received
        <3> QED
            BY <1>4, <3>1, <3>2
    <2>2. /\ UNCHANGED <<clients, messages, index, shifted>>
          /\ rpc' \in {"push", "disconnect", "blocked"}
        BY <1>4 DEF recvRecv, recvBlocked, Received, ghosts
    <2>3. ~shifted => index < Len(clients) /\ s = clients[index + 1]
        BY <2>1 DEF PlaceInv, SameClient, AtIndex
    <2> QED
        BY <2>1, <2>2, <2>3 DEF PlaceInv, SameClient, Attributed
<1>5. CASE recvPush
    <2>1. PICK s \in AtIndex : messages' = Append(messages, [from |-> buffer.from,
                                                           number |-> buffer.number, sock |-> s])
        BY <1>5 DEF recvPush, Sender
    <2>2. ~shifted => s = buffer.from
        BY <1>5, <2>1 DEF PlaceInv, SameClient, AtIndex, recvPush
    <2>3. ASSUME NEW i \in DOMAIN messages'
          PROVE  messages'[i].sock # messages'[i].from => shifted
        BY <1>1, <2>1, <2>2 DEF PlaceInv, Attributed
    <2> QED
        BY <1>5, <2>3 DEF PlaceInv, SameClient, Attributed, recvPush, ghosts
<1>6. CASE mainPop
    <2>1. ASSUME NEW i \in DOMAIN messages'
          PROVE  messages'[i].sock # messages'[i].from => shifted
        <3>1. CASE messages = <<>>
            BY <1>6, <3>1 DEF mainPop, PlaceInv, Attributed
        <3>2. CASE messages # <<>>
            <4>1. messages' = Tail(messages)
                BY <1>6, <3>2 DEF mainPop, AfterPop
            <4>2. Len(messages') = Len(messages) - 1 /\ i \in 1 .. Len(messages')
                BY <1>1, <3>2, <4>1, HeadTailProperties
            <4>3. i + 1 \in DOMAIN messages /\ messages'[i] = messages[i + 1]
                BY <1>1, <3>2, <4>1, <4>2, HeadTailProperties
            <4> QED
                BY <4>3 DEF PlaceInv, Attributed
        <3> QED
            BY <3>1, <3>2
    <2> QED
        BY <1>6, <2>1 DEF PlaceInv, SameClient, Attributed, mainPop, recvVars
<1>7. CASE \E s \in Sockets : handlerDisconnects(s)
    BY <1>7 DEF PlaceInv, SameClient, Attributed, handlerDisconnects, recvVars
<1>8. CASE recvDisconnect \/ recvLock \/ recvCheck \/ recvWait \/ recvSpurious \/ recvNotify
           \/ recvUnlock
    BY <1>8 DEF PlaceInv, SameClient, Attributed, recvDisconnect, recvLock, recvCheck, recvWait,
                recvSpurious, recvNotify, recvUnlock, ghosts
<1>9. CASE \/ Peers \/ acceptFunction
           \/ mainCheck \/ mainWait \/ mainLock \/ mainJoined \/ mainSpurious \/ UNCHANGED vars
    <2>1. /\ UNCHANGED <<messages, index, buffer, shifted>>
          /\ rpc' = rpc \/ rpc' = "wrap"
          /\ (\E s \in Sockets : acceptClient(s)) \/ UNCHANGED clients
        BY <1>9 DEF Peers, peerSends, peerCloses, acceptFunction, acceptClient, acceptNotify,
                    acceptFails, mainCheck, mainWait, mainLock, mainJoined, mainSpurious, vars,
                    recvVars, ghosts
    <2>2. /\ Len(clients') \in Nat /\ Len(clients') >= Len(clients)
          /\ \A i \in 1 .. Len(clients) : clients'[i] = clients[i]
        BY <2>1, PlaceStays
    <2> QED
        BY <1>1, <2>1, <2>2 DEF PlaceInv, SameClient, Attributed
<1> QED
    BY <1>2, <1>3, <1>4, <1>5, <1>6, <1>7, <1>8, <1>9
       DEF Next, recvFunction, getLastPacket, Spurious

\* The reply to a message goes to the client that sent it, unless a handler has
\* disconnected a client between two reads of clients[index].
THEOREM AttributedHolds == Spec => []Attributed
<1>1. Init => PlaceInv
    BY DEF Init, PlaceInv, SameClient, Attributed
<1>2. PlaceInv => Attributed
    BY DEF PlaceInv
<1> QED
    BY <1>1, <1>2, PlaceStep, TypeInvHolds, PTL DEF Spec
-----------------------------------------------------------------------------
(***************************************************************************)
(* The order of what is queued, and what is left out of it                 *)
(***************************************************************************)

LEMMA StreamIsSeq == TypeInv => queued \in Seq(Message)
    BY ConcatProperties DEF TypeInv, TypeOK, queued

\* getLastPacket moves a message from the queue to what was taken, so only
\* recvFunction changes the stream of the two.
LEMMA StreamStep ==
    ASSUME TypeInv, [Next]_vars
    PROVE  recvPush \/ queued' = queued
<1>1. messages \in Seq(Message) /\ taken \in Seq(Message)
    BY DEF TypeInv, TypeOK
<1>2. CASE mainPop
    <2>1. CASE messages # <<>>
        <3>1. messages' = Tail(messages) /\ taken' = Append(taken, Head(messages))
            BY <1>2, <2>1 DEF mainPop, AfterPop
        <3> QED
            BY <1>1, <2>1, <3>1, PoppedStream DEF queued
    <2>2. CASE messages = <<>>
        BY <1>2, <2>2 DEF mainPop, queued
    <2> QED
        BY <2>1, <2>2
<1>3. CASE ~mainPop /\ ~recvPush
    <2>1. UNCHANGED <<messages, taken>>
        BY <1>3 DEF Next, Peers, peerSends, peerCloses, acceptFunction, acceptClient, acceptNotify,
               acceptFails, recvFunction, recvLock, recvCheck, recvWait, recvWrap, recvSelect,
               recvRecv, recvBlocked, Received, recvDisconnect, recvNotify, recvUnlock,
               getLastPacket, mainCheck, mainWait, mainLock, mainJoined, Spurious, recvSpurious,
               mainSpurious, handlerDisconnects, vars
    <2> QED
        BY <2>1 DEF queued
<1> QED
    BY <1>2, <1>3

\* The same stream has the same numbers in the same order.
LEMMA SameStream ==
    ASSUME queued' = queued
    PROVE  /\ Increasing' <=> Increasing
           /\ \A s \in Sockets : Numbers(s)' = Numbers(s)
    BY DEF Increasing, Numbers

\* A connection that is gone does not come back.
LEMMA GoneStays ==
    ASSUME TypeInv, [Next]_vars, NEW s \in Sockets, peer[s] = "gone"
    PROVE  peer'[s] = "gone"
<1>1. peer \in [Sockets -> {"new", "open", "closed", "gone"}]
    BY DEF TypeInv, TypeOK
<1>2. CASE recvDisconnect \/ \E t \in Sockets : handlerDisconnects(t)
    BY <1>1, <1>2, AtIndexIsSocket DEF TypeInv, recvDisconnect, handlerDisconnects, disconnect
<1>3. CASE \E t \in Sockets : acceptClient(t) \/ peerCloses(t)
    BY <1>1, <1>3 DEF acceptClient, peerCloses
<1>4. CASE UNCHANGED peer
    BY <1>4
<1>5. \/ recvDisconnect
      \/ \E t \in Sockets : handlerDisconnects(t) \/ acceptClient(t) \/ peerCloses(t)
      \/ UNCHANGED peer
    BY DEF Next, Peers, peerSends, acceptFunction, acceptNotify,
           acceptFails, recvFunction, recvLock, recvCheck, recvWait, recvWrap, recvSelect,
           recvRecv, recvBlocked, Received, recvPush, recvNotify, recvUnlock,
           getLastPacket, mainCheck, mainWait, mainLock, mainPop, mainJoined, Spurious,
           recvSpurious, mainSpurious, peerVars, vars
<1> QED
    BY <1>2, <1>3, <1>4, <1>5

\* recvFunction pushes the message that was missing.
LEMMA PushKeepsOrder ==
    ASSUME TypeInv, OrderInv, recvPush
    PROVE  OrderInv'
<1> DEFINE n == Len(queued)
<1>1. PICK m \in Message : /\ m.from = buffer.from /\ m.number = buffer.number
                           /\ messages' = Append(messages, m)
    <2>1. PICK s \in Sockets : messages' = Append(messages, [from |-> buffer.from,
                                                            number |-> buffer.number, sock |-> s])
        BY AtIndexIsSocket DEF TypeInv, recvPush, Sender
    <2>2. [from |-> buffer.from, number |-> buffer.number, sock |-> s] \in Message
        BY ServerAssumption DEF TypeInv, TypeOK, Returned, recvPush, Message
    <2> QED
        BY <2>1, <2>2
<1>2. queued \in Seq(Message) /\ n \in Nat /\ DOMAIN queued = 1 .. n
    BY StreamIsSeq
<1>3. queued' = Append(queued, m)
    <2>1. taken \in Seq(Message) /\ messages \in Seq(Message) /\ UNCHANGED taken
        BY DEF TypeInv, TypeOK, recvPush
    <2> QED
        BY <1>1, <2>1, PushedStream DEF queued
<1>4. /\ DOMAIN queued' = 1 .. (n + 1) /\ queued'[n + 1] = m
      /\ \A i \in 1 .. n : queued'[i] = queued[i]
    BY <1>2, <1>3
<1>5. /\ rpc = "push" /\ rpc' = "notify" /\ UNCHANGED <<got, buffer, peer, shifted>>
      /\ buffer.from \in Sockets /\ buffer.number \in Nat
      /\ buffer.number >= 1 /\ buffer.number = got[buffer.from]
    BY ServerAssumption DEF TypeInv, TypeOK, Returned, recvPush, peerVars, ghosts
<1>6. /\ \A i \in 1 .. n : /\ queued[i].number <= got[queued[i].from]
                           /\ queued[i].from = buffer.from => queued[i].number < buffer.number
      /\ Increasing /\ \A s \in Sockets : Accounted(s)
    BY <1>2, <1>5 DEF OrderInv, QueuedIsOld, InOrderOnce
<1>7. QueuedIsOld'
    BY <1>1, <1>2, <1>4, <1>5, <1>6 DEF QueuedIsOld
<1>8. Increasing'
    <2> SUFFICES ASSUME NEW i \in 1 .. (n + 1), NEW j \in 1 .. (n + 1), i < j,
                        queued'[i].from = queued'[j].from
                 PROVE  queued'[i].number < queued'[j].number
        BY <1>4 DEF Increasing
    <2>1. CASE j \in 1 .. n
        BY <1>2, <1>4, <1>6, <2>1 DEF Increasing
    <2>2. CASE j = n + 1
        BY <1>1, <1>2, <1>4, <1>6, <2>2
    <2> QED
        BY <1>2, <2>1, <2>2
<1>9. ASSUME NEW s \in Sockets PROVE Accounted(s)'
    <2>1. CASE s # buffer.from
        <3>1. Numbers(s)' = Numbers(s)
            BY <1>1, <1>2, <1>4, <2>1 DEF Numbers
        <3> QED
            BY <1>5, <1>6, <2>1, <3>1 DEF Accounted, AllButLast
    <2>2. CASE s = buffer.from /\ ~shifted
        <3>1. got[s] \in Nat /\ got[s] >= 1 /\ got[s] = buffer.number
            BY <1>5, <2>2
        <3>2. got[s] \notin Numbers(s)
            BY <1>2, <1>6, <2>2, <3>1 DEF Numbers
        <3>3. Numbers(s) = 1 .. (got[s] - 1)
            BY <1>6, <2>2, <3>1, <3>2 DEF Accounted, AllButLast
        <3>4. Numbers(s)' = Numbers(s) \cup {got[s]}
            BY <1>1, <1>2, <1>4, <2>2, <3>1 DEF Numbers
        <3>5. Numbers(s)' = 1 .. got'[s]
            BY <1>5, <3>1, <3>3, <3>4
        <3> QED
            BY <3>5 DEF Accounted
    <2>3. CASE shifted
        BY <1>5, <2>3 DEF Accounted
    <2> QED
        BY <2>1, <2>2, <2>3
<1> QED
    BY <1>5, <1>7, <1>8, <1>9 DEF OrderInv, InOrderOnce, PieceClosed

\* At recv nothing is missing but what a closed connection had left.
LEMMA CompleteAtRecv ==
    ASSUME OrderInv, rpc \notin {"push", "disconnect"}, NEW s \in Sockets
    PROVE  shifted \/ Numbers(s) = 1 .. got[s] \/ (AllButLast(s) /\ peer[s] = "gone")
    BY DEF OrderInv, InOrderOnce, Accounted

\* recv returns the message after the last one, and the connection that it came
\* from is the one at index.
LEMMA ReceivedKeepsOrder ==
    ASSUME TypeInv, PlaceInv, OrderInv, NEW s \in Sockets, Received(s),
           \/ rpc = "recv" /\ s \in AtIndex
           \/ rpc = "blocked" /\ s = buffer.from
    PROVE  OrderInv'
<1>1. UNCHANGED <<taken, messages, clients, index, peer, shifted>>
    BY DEF Received, ghosts
<1>2. queued' = queued
    BY <1>1 DEF queued
<1>3. queued \in Seq(Message) /\ Increasing'
    BY <1>2, StreamIsSeq, SameStream DEF OrderInv, InOrderOnce
<1>4. \A t \in Sockets : Numbers(t)' = Numbers(t) /\ got[t] \in Nat
    BY <1>2, SameStream DEF TypeInv, TypeOK
<1>5. \A i \in DOMAIN queued : /\ queued[i].from \in Sockets /\ queued[i].number \in Nat
                               /\ queued[i].number <= got[queued[i].from]
    <2>1. \A i \in DOMAIN queued : queued[i] \in Message
        BY <1>3
    <2> QED
        BY <2>1, ServerAssumption DEF Message, OrderInv, QueuedIsOld
<1>6. \A t \in Sockets : shifted \/ Numbers(t) = 1 .. got[t] \/ (AllButLast(t) /\ peer[t] = "gone")
    BY CompleteAtRecv
<1>7. ~shifted => index < Len(clients) /\ s = clients[index + 1]
    BY DEF PlaceInv, SameClient, AtIndex
<1>8. CASE /\ sent[s] > got[s] /\ peer[s] # "gone"
           /\ got' = [got EXCEPT ![s] = @ + 1]
           /\ buffer' = [from |-> s, number |-> got[s] + 1]
           /\ rpc' \in {"push", "disconnect"}
    <2>1. got \in [Sockets -> 0 .. MaxSent]
        BY DEF TypeInv, TypeOK
    <2>2. got'[s] = got[s] + 1 /\ \A t \in Sockets \ {s} : got'[t] = got[t]
        BY <1>8, <2>1
    <2>3. QueuedIsOld'
        BY <1>2, <1>4, <1>5, <1>8, <2>2 DEF QueuedIsOld
    <2>4. ASSUME NEW t \in Sockets, t # s PROVE Accounted(t)'
        BY <1>1, <1>4, <1>6, <2>2, <2>4 DEF Accounted, AllButLast
    <2>5. Accounted(s)'
        <3>1. shifted \/ Numbers(s)' = 1 .. (got'[s] - 1)
            BY <1>4, <1>6, <1>8, <2>2
        <3>2. got'[s] >= 1
            BY <1>4, <2>2
        <3> QED
            BY <1>1, <1>8, <3>1, <3>2 DEF Accounted, AllButLast
    <2>6. PieceClosed'
        BY <1>1, <1>7, <1>8 DEF PieceClosed
    <2> QED
        BY <1>3, <2>3, <2>4, <2>5, <2>6 DEF OrderInv, InOrderOnce
<1>9. CASE rpc' = "disconnect" /\ UNCHANGED <<got, buffer>>
    <2>1. QueuedIsOld'
        BY <1>2, <1>5, <1>9 DEF QueuedIsOld
    <2>2. \A t \in Sockets : Accounted(t)'
        BY <1>1, <1>4, <1>6, <1>9 DEF Accounted, AllButLast
    <2>3. buffer.from \in Sockets
        BY DEF TypeInv, TypeOK
    <2>4. PICK t \in Sockets : t = buffer.from
        BY <2>3
    <2>5. Numbers(t)' = Numbers(t)
        BY <1>4
    <2>6. PieceClosed'
        <3>1. \/ shifted' \/ Numbers(t)' = 1 .. got'[t] \/ peer'[t] = "gone"
            BY <1>1, <1>6, <1>9, <2>5
        <3>2. Numbers(buffer.from)' = Numbers(t)'
            BY <1>9, <2>4 DEF Numbers
        <3> QED
            BY <1>9, <2>4, <3>1, <3>2 DEF PieceClosed
    <2> QED
        BY <1>3, <2>1, <2>2, <2>6 DEF OrderInv, InOrderOnce
<1> QED
    BY <1>8, <1>9 DEF Received

\* recvFunction closes the connection whose message came in a piece.
LEMMA DisconnectKeepsOrder ==
    ASSUME TypeInv, OrderInv, recvDisconnect
    PROVE  OrderInv'
<1>1. /\ UNCHANGED <<taken, messages, got, buffer, shifted>>
      /\ rpc = "disconnect" /\ rpc' = "unlock"
    BY DEF recvDisconnect, ghosts
<1>2. queued' = queued
    BY <1>1 DEF queued
<1>3. Increasing' /\ \A t \in Sockets : Numbers(t)' = Numbers(t)
    BY <1>2, SameStream DEF OrderInv, InOrderOnce
<1>4. QueuedIsOld' /\ PieceClosed'
    BY <1>1, <1>2 DEF OrderInv, QueuedIsOld, PieceClosed
<1>5. \A t \in Sockets : peer[t] = "gone" => peer'[t] = "gone"
    <2>1. peer \in [Sockets -> {"new", "open", "closed", "gone"}]
        BY DEF TypeInv, TypeOK
    <2> QED
        BY <2>1, AtIndexIsSocket DEF TypeInv, recvDisconnect, disconnect
<1>6. ASSUME NEW t \in Sockets PROVE Accounted(t)'
    <2>1. CASE shifted \/ Numbers(t) = 1 .. got[t] \/ (AllButLast(t) /\ peer[t] = "gone")
        BY <1>1, <1>3, <1>5, <2>1 DEF Accounted, AllButLast
    <2>2. CASE /\ ~shifted /\ AllButLast(t) /\ buffer.from = t
               /\ index < Len(clients) /\ clients[index + 1] = t
        <3>1. index \in Nat /\ clients \in Seq(Sockets) /\ Len(clients) \in Nat
              /\ peer \in [Sockets -> {"new", "open", "closed", "gone"}]
            BY DEF TypeInv, TypeOK
        <3>2. AtIndex = {t} /\ Contains(clients, t)
            BY <2>2, <3>1 DEF AtIndex, Contains
        <3>3. disconnect(t)
            BY <3>2 DEF recvDisconnect
        <3>4. peer'[t] = "gone"
            BY <3>1, <3>2, <3>3 DEF disconnect
        <3> QED
            BY <1>1, <1>3, <2>2, <3>4 DEF Accounted, AllButLast
    <2>3. \/ shifted \/ Numbers(t) = 1 .. got[t] \/ (AllButLast(t) /\ peer[t] = "gone")
          \/ AllButLast(t) /\ buffer.from = t
        BY DEF OrderInv, InOrderOnce, Accounted
    <2>4. ~shifted /\ buffer.from = t =>
             \/ index < Len(clients) /\ clients[index + 1] = t
             \/ Numbers(t) = 1 .. got[t]
             \/ peer[t] = "gone"
        BY <1>1 DEF OrderInv, PieceClosed
    <2> QED
        BY <2>1, <2>2, <2>3, <2>4
<1> QED
    BY <1>3, <1>4, <1>6 DEF OrderInv, InOrderOnce

\* No other step touches what recv returned or what was queued.
LEMMA OthersKeepOrder ==
    ASSUME TypeInv, OrderInv, [Next]_vars, queued' = queued,
           UNCHANGED <<got, buffer>>, shifted => shifted',
           \/ rpc' = rpc /\ UNCHANGED index
           \/ rpc \notin {"push", "disconnect"} /\ rpc' \notin {"push", "disconnect"},
           \/ (\E s \in Sockets : acceptClient(s)) \/ UNCHANGED clients
           \/ shifted' \/ rpc \notin {"push", "disconnect"}
    PROVE  OrderInv'
<1>1. Increasing' /\ \A t \in Sockets : Numbers(t)' = Numbers(t)
    BY SameStream DEF OrderInv, InOrderOnce
<1>2. QueuedIsOld'
    BY DEF OrderInv, QueuedIsOld
<1>3. \A t \in Sockets : peer[t] = "gone" => peer'[t] = "gone"
    BY GoneStays
<1>4. ASSUME NEW t \in Sockets PROVE Accounted(t)'
    BY <1>1, <1>3 DEF OrderInv, InOrderOnce, Accounted, AllButLast
<1>5. PieceClosed'
    <2> SUFFICES ASSUME rpc' = "disconnect", ~shifted'
                 PROVE  \/ index' < Len(clients') /\ clients'[index' + 1] = buffer'.from
                        \/ Numbers(buffer.from)' = 1 .. got'[buffer'.from]
                        \/ peer'[buffer'.from] = "gone"
        BY DEF PieceClosed
    <2>1. rpc = "disconnect" /\ ~shifted /\ index' = index
        OBVIOUS
    <2>2. PICK t \in Sockets : t = buffer.from
        BY DEF TypeInv, TypeOK
    <2>3. Numbers(buffer.from)' = Numbers(t)
        <3>1. Numbers(buffer.from)' = Numbers(t)'
            BY <2>2 DEF Numbers
        <3> QED
            BY <1>1, <3>1
    <2>4. \/ index < Len(clients) /\ clients[index + 1] = t
          \/ Numbers(t) = 1 .. got[t]
          \/ peer[t] = "gone"
        BY <2>1, <2>2 DEF OrderInv, PieceClosed
    <2>5. index \in Nat
        BY DEF TypeInv, TypeOK
    <2>6. /\ Len(clients) \in Nat /\ Len(clients') \in Nat /\ Len(clients') >= Len(clients)
          /\ \A i \in 1 .. Len(clients) : clients'[i] = clients[i]
        BY <2>1, PlaceStays
    <2> QED
        BY <1>3, <2>1, <2>2, <2>3, <2>4, <2>5, <2>6
<1> QED
    BY <1>1, <1>2, <1>4, <1>5 DEF OrderInv, InOrderOnce

LEMMA OrderStep == TypeInv /\ PlaceInv /\ OrderInv /\ [Next]_vars => OrderInv'
<1> SUFFICES ASSUME TypeInv, PlaceInv, OrderInv, [Next]_vars PROVE OrderInv'
    OBVIOUS
<1>1. CASE recvPush
    BY <1>1, PushKeepsOrder
<1>2. CASE recvDisconnect
    BY <1>2, DisconnectKeepsOrder
<1>3. CASE recvBlocked
    <2>1. buffer.from \in Sockets /\ rpc = "blocked" /\ Received(buffer.from)
        BY <1>3 DEF TypeInv, TypeOK, recvBlocked
    <2> QED
        BY <2>1, ReceivedKeepsOrder
<1>4. CASE recvRecv
    <2>1. PICK s \in AtIndex :
             \/ Received(s)
             \/ /\ buffer' = [from |-> s, number |-> 0] /\ rpc' = "blocked"
                /\ UNCHANGED <<clients, messages, queueMutex, apc, index, mpc, peerVars,
                               taken, ghosts>>
        BY <1>4 DEF recvRecv
    <2>2. s \in Sockets /\ rpc = "recv"
        BY <1>4, AtIndexIsSocket DEF TypeInv, recvRecv
    <2>3. CASE Received(s)
        BY <2>1, <2>2, <2>3, ReceivedKeepsOrder
    <2>4. CASE ~Received(s)
        <3>1. /\ UNCHANGED <<messages, taken, got, peer, shifted>> /\ rpc' = "blocked"
            BY <2>1, <2>4 DEF peerVars, ghosts
        <3>2. queued' = queued
            BY <3>1 DEF queued
        <3>3. Increasing' /\ \A t \in Sockets : Numbers(t)' = Numbers(t)
            BY <3>2, SameStream DEF OrderInv, InOrderOnce
        <3>4. QueuedIsOld' /\ PieceClosed'
            BY <3>1, <3>2 DEF OrderInv, QueuedIsOld, PieceClosed
        <3>5. \A t \in Sockets : Accounted(t)'
            BY <2>2, <3>1, <3>3, CompleteAtRecv DEF Accounted, AllButLast
        <3> QED
            BY <3>3, <3>4, <3>5 DEF OrderInv, InOrderOnce
    <2> QED
        BY <2>3, <2>4
<1>5. CASE recvLock \/ recvCheck \/ recvWait \/ recvSpurious \/ recvWrap \/ recvSelect
           \/ recvNotify \/ recvUnlock
    <2>1. /\ rpc \notin {"push", "disconnect"} /\ rpc' \notin {"push", "disconnect"}
          /\ UNCHANGED <<got, buffer, clients, shifted>> /\ ~recvPush
        BY <1>5 DEF recvLock, recvCheck, recvWait, recvSpurious, recvWrap, recvSelect, recvNotify,
                    recvUnlock, recvPush, peerVars, ghosts
    <2>2. queued' = queued
        BY <2>1, StreamStep
    <2> QED
        BY <2>1, <2>2, OthersKeepOrder
<1>6. CASE \E s \in Sockets : handlerDisconnects(s)
    <2>1. /\ UNCHANGED <<got, buffer, rpc, index, taken, messages>> /\ (shifted => shifted')
          /\ shifted' \/ rpc \notin {"push", "disconnect"}
        BY <1>6 DEF handlerDisconnects, recvVars
    <2>2. queued' = queued
        BY <2>1 DEF queued
    <2> QED
        BY <2>1, <2>2, OthersKeepOrder
<1>7. CASE Peers \/ acceptFunction \/ getLastPacket \/ mainSpurious \/ UNCHANGED vars
    <2>1. /\ UNCHANGED <<got, buffer, shifted, index>>
          /\ rpc' = rpc \/ (rpc = "waiting" /\ rpc' = "wrap")
          /\ (\E s \in Sockets : acceptClient(s)) \/ UNCHANGED clients
        BY <1>7 DEF Peers, peerSends, peerCloses, acceptFunction, acceptClient, acceptNotify,
                    acceptFails, getLastPacket, mainCheck, mainWait, mainLock, mainPop, mainJoined,
                    mainSpurious, vars, recvVars, peerVars, ghosts
    <2>2. ~recvPush
        BY <2>1 DEF recvPush
    <2>3. queued' = queued
        BY <2>2, StreamStep
    <2> QED
        BY <2>1, <2>3, OthersKeepOrder
<1> QED
    BY <1>1, <1>2, <1>3, <1>4, <1>5, <1>6, <1>7 DEF Next, recvFunction, Spurious

LEMMA OrderInit == Init => OrderInv
<1> SUFFICES ASSUME Init PROVE OrderInv
    OBVIOUS
<1>1. queued = <<>> /\ rpc = "lock" /\ \A s \in Sockets : got[s] = 0
    BY DEF Init, queued
<1>2. DOMAIN queued = {} /\ \A s \in Sockets : Numbers(s) = {}
    BY <1>1 DEF Numbers
<1>3. \A s \in Sockets : Numbers(s) = 1 .. got[s]
    BY <1>1, <1>2
<1> QED
    BY <1>1, <1>2, <1>3 DEF OrderInv, QueuedIsOld, InOrderOnce, Increasing, Accounted, PieceClosed

\* What a client sends is queued and taken in its order and never twice, and
\* nothing of it is left out but the last message of a connection that was closed
\* for it; only a handler's disconnect at the wrong moment can change that.
THEOREM InOrderOnceHolds == Spec => []InOrderOnce
<1>1. Init => PlaceInv
    BY DEF Init, PlaceInv, SameClient, Attributed
<1>2. OrderInv => InOrderOnce
    BY DEF OrderInv
<1> QED
    BY <1>1, <1>2, OrderInit, PlaceStep, OrderStep, TypeInvHolds, PTL DEF Spec
=============================================================================
