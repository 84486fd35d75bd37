--------------------------- MODULE DispatchProofs ---------------------------
(***************************************************************************)
(* For every number of slots and of packets: handlers run one at a time    *)
(* and in order, and a slot that stays occupied is lost for good.          *)
(*                                                                         *)
(* Neither is inductive.  HandlersSerialized needs to know, for each place *)
(* of the main thread, how far the last handler can have come and that all *)
(* earlier ones are done; BusySlotIsDangling needs in addition what can be *)
(* in the slot of the last handler, whichever of the two stores came last. *)
(***************************************************************************)
EXTENDS Dispatch, WellFoundedInduction, TLAPS

\* A set of natural numbers that is not empty has a least element.
LEMMA LeastNatural ==
    ASSUME NEW T \in SUBSET Nat, T # {}
    PROVE  \E x \in T : \A y \in T : x <= y
<1> DEFINE R == OpToRel(<, Nat)
<1>1. IsWellFoundedOn(R, Nat)
  BY NatLessThanWellFounded
<1>2. \A x, y \in Nat : y < x => <<y, x>> \in R
  BY DEF OpToRel
<1> HIDE DEF R
<1>3. PICK x \in T : \A y \in T : ~ (<<y, x>> \in R)
  BY <1>1, WFMin
<1>4. \A y \in T : ~ (y < x)
  BY <1>2, <1>3
<1>5. QED
  BY <1>4

\* All handlers but the last are done, and the last is where pc allows it.
Phases ==
    /\ \A p \in Packets : p < taken => handler[p] = "done"
    /\ \A p \in Packets : p > taken => handler[p] = "none"
    /\ pc \in {"find", "wait", "create"} => handler[taken] = "none"
    /\ pc \in {"store", "load", "join", "crashed"} => handler[taken] # "none"
    /\ pc \in {"delete", "get"} => taken = 0 \/ handler[taken] = "done"
    /\ pc \in {"store", "load", "join", "delete", "crashed"} => slot[taken] = index

\* What has been executed is 1, 2, ... up to the last packet or the one before.
Order ==
    /\ \A i \in DOMAIN executed : executed[i] = i
    /\ taken = 0 => Len(executed) = 0
    /\ taken # 0 /\ handler[taken] \in {"none", "run"} => Len(executed) = taken - 1
    /\ taken # 0 /\ handler[taken] \notin {"none", "run"} => Len(executed) = taken

\* Slots of earlier packets are NULL or lost, and so is the last one's, after
\* both of its stores.
SlotUse ==
    /\ \A p \in deleted : p < taken \/ (p = taken /\ pc = "get")
    /\ \A i \in Slots :
          \/ threads[i] = NULL
          \/ threads[i] \in deleted
          \/ threads[i] = taken /\ i = index /\ pc \in {"load", "join", "delete", "crashed"}
    /\ pc \in {"create", "store"} => threads[index] = NULL
    /\ pc \in {"load", "join", "delete", "crashed"} => threads[index] \in {NULL, taken}

DispatchInv == TypeOK /\ Phases /\ Order /\ SlotUse

\* getFreeThreadIndex returns a slot that is NULL, or THREADS_MAX.
LEMMA FreeThreadIndexIsFree ==
    ASSUME TypeOK
    PROVE  \/ FreeThreadIndex = THREADS_MAX
           \/ FreeThreadIndex \in Slots /\ threads[FreeThreadIndex] = NULL
<1> USE DispatchAssumption
<1>1. CASE \E i \in Slots : threads[i] = NULL
  <2> DEFINE T == {i \in Slots : threads[i] = NULL}
  <2>1. PICK x \in T : \A y \in T : x <= y
    <3>1. T \in SUBSET Nat /\ T # {}
      BY <1>1 DEF Slots
    <3> HIDE DEF T
    <3> QED
      BY <3>1, LeastNatural
  <2>2. x \in Slots /\ threads[x] = NULL /\ \A j \in 0 .. x - 1 : threads[j] # NULL
    BY <2>1 DEF Slots
  <2>3. FreeThreadIndex =
          CHOOSE i \in Slots : threads[i] = NULL /\ \A j \in 0 .. i - 1 : threads[j] # NULL
    BY <1>1 DEF FreeThreadIndex
  <2>4. QED
    BY <2>2, <2>3
<1>2. CASE ~ \E i \in Slots : threads[i] = NULL
  BY <1>2 DEF FreeThreadIndex
<1>3. QED
  BY <1>1, <1>2

\* The invariant holds when the Manager is constructed.
LEMMA DispatchInit == Init => DispatchInv
  BY DispatchAssumption
  DEF Init, DispatchInv, TypeOK, Phases, Order, SlotUse, Packets, Slots, NULL

\* Every step of the main thread and of a handler keeps the invariant.
LEMMA DispatchStep == DispatchInv /\ [Next]_vars => DispatchInv'
<1> USE DispatchAssumption
<1> SUFFICES ASSUME DispatchInv, [Next]_vars PROVE DispatchInv'
  OBVIOUS
<1> USE DEF DispatchInv, TypeOK, Packets, Slots, NULL
<1>1. CASE getLastPacket
  <2>1. /\ pc = "get" /\ taken' = taken + 1 /\ taken' \in Packets /\ pc' = "find"
        /\ UNCHANGED <<threads, index, handler, slot, executed, deleted>>
    BY <1>1 DEF getLastPacket
  <2>2. TypeOK' /\ Phases'
    BY <2>1 DEF Phases
  <2>3. Order'
    BY <2>1 DEF Phases, Order
  <2>4. SlotUse'
    BY <2>1 DEF SlotUse
  <2>5. QED
    BY <2>2, <2>3, <2>4
<1>2. CASE getFreeThreadIndex
  <2>1. \/ FreeThreadIndex = THREADS_MAX
        \/ FreeThreadIndex \in Slots /\ threads[FreeThreadIndex] = NULL
    BY FreeThreadIndexIsFree
  <2>2. QED
    BY <1>2, <2>1 DEF getFreeThreadIndex, Phases, Order, SlotUse
<1>3. CASE createThread
  BY <1>3 DEF createThread, Phases, Order, SlotUse
<1>4. CASE storePointer
  BY <1>4 DEF storePointer, Phases, Order, SlotUse
<1>5. CASE loadPointer
  BY <1>5 DEF loadPointer, Phases, Order, SlotUse
<1>6. CASE join
  BY <1>6 DEF join, Joined, Phases, Order, SlotUse
<1>7. CASE deleteThread
  <2>1. /\ pc = "delete" /\ pc' = "get"
        /\ deleted' = deleted \cup ({threads[index]} \ {NULL})
        /\ UNCHANGED <<threads, index, taken, handler, slot, executed>>
    BY <1>7 DEF deleteThread, Freed
  <2>2. TypeOK' /\ Phases'
    BY <2>1 DEF Phases
  <2>3. Order'
    BY <2>1 DEF Order
  <2>4. threads[index] \in {NULL, taken} /\ index \in Slots
    BY <2>1 DEF SlotUse
  <2>5. SlotUse'
    BY <2>1, <2>4 DEF SlotUse
  <2>6. QED
    BY <2>2, <2>3, <2>5
<1>8. ASSUME NEW p \in Packets, code_handler(p) PROVE DispatchInv'
  <2>1. p = taken /\ pc \in {"store", "load", "join"} /\ Len(executed) = p - 1
    <3>1. pc # "crashed" /\ handler[p] = "run"
      BY <1>8 DEF code_handler, HandlerGoes
    <3>2. p = taken /\ pc \in {"store", "load", "join"}
      BY <3>1 DEF Phases
    <3>3. Len(executed) = p - 1
      BY <3>1, <3>2 DEF Order
    <3>4. QED
      BY <3>2, <3>3
  <2>2. /\ executed' \in Seq(Packets) /\ Len(executed') = p
        /\ \A i \in DOMAIN executed' : executed'[i] = i
    <3>1. executed' = Append(executed, p) /\ executed \in Seq(Packets)
      BY <1>8 DEF code_handler
    <3>2. /\ executed' \in Seq(Packets) /\ Len(executed') = p
          /\ \A i \in 1 .. Len(executed) : executed'[i] = executed[i]
          /\ executed'[p] = p
      BY <2>1, <3>1
    <3>3. \A i \in 1 .. Len(executed) : executed[i] = i
      BY <3>1 DEF Order
    <3>4. DOMAIN executed' = 1 .. p
      BY <3>2
    <3>5. \A i \in 1 .. p : i = p \/ i \in 1 .. Len(executed)
      BY <2>1, <3>1
    <3>6. QED
      BY <3>2, <3>3, <3>4, <3>5
  <2>3. /\ handler' = [handler EXCEPT ![taken] = "clear"]
        /\ UNCHANGED <<threads, pc, index, taken, slot, deleted>>
    BY <1>8, <2>1 DEF code_handler, HandlerGoes
  <2>4. TypeOK' /\ Phases'
    BY <2>1, <2>2, <2>3 DEF Phases
  <2>5. Order'
    BY <2>1, <2>2, <2>3 DEF Order
  <2>6. SlotUse'
    BY <2>3 DEF SlotUse
  <2>7. QED
    BY <2>4, <2>5, <2>6
<1>9. ASSUME NEW p \in Packets, clearSlot(p) PROVE DispatchInv'
  <2>1. p = taken /\ pc \in {"store", "load", "join"} /\ slot[p] = index
    <3>1. pc # "crashed" /\ handler[p] = "clear"
      BY <1>9 DEF clearSlot, HandlerGoes
    <3>2. QED
      BY <3>1 DEF Phases
  <2>2. Phases'
    BY <1>9, <2>1 DEF clearSlot, HandlerGoes, Phases
  <2>3. Order'
    BY <1>9, <2>1 DEF clearSlot, HandlerGoes, Order
  <2>4. TypeOK' /\ SlotUse'
    <3>1. /\ threads \in [Slots -> Packets \cup {NULL}] /\ index \in Slots
          /\ threads' = [threads EXCEPT ![index] = NULL]
          /\ UNCHANGED <<pc, index, taken, slot, deleted, executed>>
      BY <1>9, <2>1 DEF clearSlot, HandlerGoes
    <3>2. threads'[index] = NULL /\ \A i \in Slots : threads'[i] \in {NULL, threads[i]}
      BY <3>1
    <3>3. SlotUse'
      BY <2>1, <3>1, <3>2 DEF SlotUse
    <3>4. handler' \in [Packets -> {"none", "run", "clear", "notify", "done"}]
      BY <1>9 DEF clearSlot, HandlerGoes
    <3>5. QED
      BY <3>1, <3>3, <3>4
  <2>5. QED
    BY <2>2, <2>3, <2>4
<1>10. ASSUME NEW p \in Packets, notify_one(p) PROVE DispatchInv'
  <2>1. p = taken /\ pc \in {"store", "load", "join"}
    <3>1. pc # "crashed" /\ handler[p] = "notify"
      BY <1>10 DEF notify_one, HandlerGoes
    <3>2. QED
      BY <3>1 DEF Phases
  <2>2. QED
    BY <1>10, <2>1 DEF notify_one, HandlerGoes, Phases, Order, SlotUse
<1>11. CASE UNCHANGED vars
  BY <1>11 DEF vars, Phases, Order, SlotUse
<1>12. QED
  BY <1>1, <1>2, <1>3, <1>4, <1>5, <1>6, <1>7, <1>8, <1>9, <1>10, <1>11
  DEF Next, threads_handler, message_handler

\* One handler at a time, in the order of the packets, for any number of slots.
THEOREM HandlersAreSerialized == Spec => []HandlersSerialized
<1>1. DispatchInv => HandlersSerialized
  BY DispatchAssumption
  DEF DispatchInv, TypeOK, Phases, Order, HandlersSerialized, Alive, Packets
<1>2. QED
  BY DispatchInit, DispatchStep, <1>1, PTL DEF Spec

\* A slot that is occupied between two packets holds a deleted thread, and no
\* thread is joined or deleted twice.
THEOREM BusySlotsAreDangling == Spec => []BusySlotIsDangling
<1>1. DispatchInv => BusySlotIsDangling
  BY DispatchAssumption
  DEF DispatchInv, TypeOK, SlotUse, BusySlotIsDangling, Packets, Slots, NULL
<1>2. QED
  BY DispatchInit, DispatchStep, <1>1, PTL DEF Spec

\* The variables of threads_handler and message_handler keep their types; in
\* particular index is a valid slot whenever threads[index] is used.
THEOREM DispatchTypeCorrect == Spec => []TypeOK
<1>1. DispatchInv => TypeOK
  BY DEF DispatchInv
<1>2. QED
  BY DispatchInit, DispatchStep, <1>1, PTL DEF Spec
=============================================================================
