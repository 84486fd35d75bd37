------------------------------ MODULE Dispatch ------------------------------
(***************************************************************************)
(* Manager::threads_handler, the main thread, which takes packets from     *)
(* Server and runs each in a thread of its own, and the frame of           *)
(* Manager::message_handler that every such thread runs.                   *)
(*                                                                         *)
(* The two share the array threads without a lock: the main thread stores  *)
(* the pointer of the thread it has just started, and the thread stores    *)
(* NULL over it when it is done, to free the slot.  Nothing orders the two *)
(* stores.  Packets are numbered in the order of getLastPacket, and the    *)
(* number also names the thread that handles the packet.                   *)
(***************************************************************************)
EXTENDS Naturals, Sequences, FiniteSets

CONSTANTS
    THREADS_MAX,  \* slots of threads: 10 in Manager.h
    MaxPackets    \* bound on the packets taken

ASSUME DispatchAssumption == THREADS_MAX \in Nat \ {0} /\ MaxPackets \in Nat

Packets == 1 .. MaxPackets
Slots   == 0 .. THREADS_MAX - 1
NULL    == 0

VARIABLES
    threads,   \* slot -> NULL or the thread a pointer to which is stored there
    pc,        \* the main thread
    index,     \* its local variable
    taken,     \* the number of packets it has taken; its msg is the last of them
    handler,   \* packet -> where its handler thread is
    slot,      \* packet -> the index its handler was given
    executed,  \* the packets in the order in which code_handler ran them
    deleted    \* the thread objects that have been deleted

vars == <<threads, pc, index, taken, handler, slot, executed, deleted>>

TypeOK ==
    /\ threads \in [Slots -> Packets \cup {NULL}]
    /\ pc \in {"get", "find", "wait", "create", "store", "load", "join", "delete",
               "crashed"}
    /\ index \in 0 .. THREADS_MAX
    /\ pc \notin {"get", "find", "wait"} => index \in Slots
    /\ taken \in 0 .. MaxPackets
    /\ pc # "get" => taken \in Packets
    /\ handler \in [Packets -> {"none", "run", "clear", "notify", "done"}]
    /\ slot \in [Packets -> 0 .. THREADS_MAX]
    /\ executed \in Seq(Packets)
    /\ deleted \in SUBSET Packets

Init ==
    /\ threads = [i \in Slots |-> NULL]
    /\ pc = "get"
    /\ index = THREADS_MAX
    /\ taken = 0
    /\ handler = [p \in Packets |-> "none"]
    /\ slot = [p \in Packets |-> THREADS_MAX]
    /\ executed = <<>>
    /\ deleted = {}
-----------------------------------------------------------------------------
(***************************************************************************)
(* threads_handler                                                         *)
(***************************************************************************)
getLastPacket ==
    /\ pc = "get" /\ taken < MaxPackets
    /\ taken' = taken + 1
    /\ pc' = "find"
    /\ UNCHANGED <<threads, index, handler, slot, executed, deleted>>

\* The first free slot, THREADS_MAX if there is none.
FreeThreadIndexPastEnd ==
    IF \E i \in Slots : threads[i] = NULL
    THEN CHOOSE i \in Slots : threads[i] = NULL /\ \A j \in 0 .. i - 1 : threads[j] # NULL
    ELSE THREADS_MAX + 1
FirstSlotOnly == IF threads[0] = NULL THEN 0 ELSE THREADS_MAX
FreeThreadIndex ==
    IF \E i \in Slots : threads[i] = NULL
    THEN CHOOSE i \in Slots : threads[i] = NULL /\ \A j \in 0 .. i - 1 : threads[j] # NULL
    ELSE THREADS_MAX

\* index is computed once.  The loop around cv.wait never computes it again,
\* so there is no way out of "wait", whoever notifies cv.
getFreeThreadIndex ==
    /\ pc = "find"
    /\ index' = FreeThreadIndex
    /\ pc' = IF index' = THREADS_MAX THEN "wait" ELSE "create"
    /\ UNCHANGED <<threads, taken, handler, slot, executed, deleted>>

\* new std::thread(&Manager::message_handler, this, msg, index)
createThread ==
    /\ pc = "create"
    /\ handler' = [handler EXCEPT ![taken] = "run"]
    /\ slot' = [slot EXCEPT ![taken] = index]
    /\ pc' = "store"
    /\ UNCHANGED <<threads, index, taken, executed, deleted>>

storePointer ==
    /\ pc = "store"
    /\ threads' = [threads EXCEPT ![index] = taken]
    /\ pc' = "load"
    /\ UNCHANGED <<index, taken, handler, slot, executed, deleted>>

\* threads[index]->join().  The racy read gives what the handler has left in the
\* slot, or the pointer just stored if the compiler has kept it in a register.
loadPointer ==
    /\ pc = "load"
    /\ \E p \in {threads[index], taken} : pc' = IF p = NULL THEN "crashed" ELSE "join"
    /\ UNCHANGED <<threads, index, taken, handler, slot, executed, deleted>>

JoinedAtOnce == TRUE
Joined == handler[taken] = "done"

join ==
    /\ pc = "join" /\ Joined
    /\ pc' = "delete"
    /\ UNCHANGED <<threads, index, taken, handler, slot, executed, deleted>>

\* delete threads[index]: of NULL, which does nothing, or of the thread.
FreedNothing == {}
Freed == {threads[index]} \ {NULL}

deleteThread ==
    /\ pc = "delete"
    /\ deleted' = deleted \cup Freed
    /\ pc' = "get"
    /\ UNCHANGED <<threads, index, taken, handler, slot, executed>>

(***************************************************************************)
(* message_handler, around code_handler.  A crash takes it along.          *)
(***************************************************************************)
HandlerGoes(p, from, to) ==
    /\ pc # "crashed"
    /\ handler[p] = from
    /\ handler' = [handler EXCEPT ![p] = to]
    /\ UNCHANGED <<pc, index, taken, slot, deleted>>

code_handler(p) ==
    /\ HandlerGoes(p, "run", "clear")
    /\ executed' = Append(executed, p)
    /\ UNCHANGED threads

\* this->threads[index] = NULL
clearSlot(p) ==
    /\ HandlerGoes(p, "clear", "notify")
    /\ threads' = [threads EXCEPT ![slot[p]] = NULL]
    /\ UNCHANGED executed

\* cv.notify_one(): the main thread is joining this thread, it is not waiting.
notify_one(p) ==
    /\ HandlerGoes(p, "notify", "done")
    /\ UNCHANGED <<threads, executed>>
-----------------------------------------------------------------------------
threads_handler ==
    \/ getLastPacket \/ getFreeThreadIndex \/ createThread \/ storePointer
    \/ loadPointer \/ join \/ deleteThread

message_handler(p) == code_handler(p) \/ clearSlot(p) \/ notify_one(p)

Next == threads_handler \/ \E p \in Packets : message_handler(p)

\* Each thread keeps running: it is never stopped by the others, only by what
\* it waits for.
Fairness == WF_vars(threads_handler) /\ \A p \in Packets : WF_vars(message_handler(p))

Spec == Init /\ [][Next]_vars /\ Fairness
-----------------------------------------------------------------------------
(***************************************************************************)
(* Properties                                                              *)
(***************************************************************************)
Alive == {p \in Packets : handler[p] \notin {"none", "done"}}

\* One handler at a time, in the order of the packets.  The maps of Users and
\* the tables are used without a common lock, so everything the other modules
\* take as one call after the other rests on this.
HandlersSerialized ==
    /\ \A p \in Alive : p = taken /\ pc \in {"store", "load", "join", "crashed"}
    /\ \A i \in DOMAIN executed : executed[i] = i

\* Between two packets a slot that is not NULL holds a pointer to a thread that
\* has been deleted: its handler had stored NULL before the pointer came, so the
\* slot is lost for good, and it is never joined or deleted again.
BusySlotIsDangling ==
    /\ pc \in {"get", "find", "wait", "create"} =>
          \A i \in Slots : threads[i] # NULL => threads[i] \in deleted
    /\ pc = "delete" => threads[index] \in {NULL, taken} /\ taken \notin deleted

Executed(p) == p \in {executed[i] : i \in DOMAIN executed}

\* A packet that has been taken is executed, unless all slots have been lost.
\* In particular the null pointer can only be met after the packet is executed.
TakenIsExecutedUnlessExhausted ==
    \A p \in Packets :
        taken >= p ~> Executed(p) \/ \A i \in Slots : threads[i] \in deleted

\* "wait until there is a packet" (Manager.cpp:44), then "exec request"
\* (Manager.cpp:50): what has been taken is executed.
TakenIsExecuted == \A p \in Packets : taken >= p ~> Executed(p)
=============================================================================
