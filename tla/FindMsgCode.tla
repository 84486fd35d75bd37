---------------------------- MODULE FindMsgCode ----------------------------
(***************************************************************************)
(* FIND_MSG_CODE of Config.h: the binary search with which Parser decides  *)
(* whether the code of a message is known.  One step is one round of the   *)
(* loop.  The table is a constant of the program; the search only needs    *)
(* that it is sorted, which nothing in the code checks.                    *)
(***************************************************************************)
EXTENDS Integers

CONSTANTS
    ALL_MESSAGES_CODES,  \* the table, indexed from 0
    N,                   \* its length
    Inputs               \* the codes that are looked up

ASSUME SortedAssumption ==
    /\ N \in Nat
    /\ ALL_MESSAGES_CODES \in [0 .. N - 1 -> Int]
    /\ \A i, j \in 0 .. N - 1 : i < j => ALL_MESSAGES_CODES[i] < ALL_MESSAGES_CODES[j]
    /\ Inputs \subseteq Int

VARIABLES code, left, right, pc

vars == <<code, left, right, pc>>

LastIndexPastEnd == N
LastIndex == N - 1

Init ==
    /\ code \in Inputs
    /\ left = 0 /\ right = LastIndex
    /\ pc = "loop"

LoopsStrictly == left < right
Loops == left <= right

middle == (left + right) \div 2

AboveMiddleKept == middle
AboveMiddle == middle + 1

FIND_MSG_CODE ==
    /\ pc = "loop"
    /\ \/ /\ ~Loops
          /\ pc' = "false"
          /\ UNCHANGED <<left, right>>
       \/ /\ Loops /\ ALL_MESSAGES_CODES[middle] > code
          /\ right' = middle - 1
          /\ UNCHANGED <<left, pc>>
       \/ /\ Loops /\ ALL_MESSAGES_CODES[middle] < code
          /\ left' = AboveMiddle
          /\ UNCHANGED <<right, pc>>
       \/ /\ Loops /\ ALL_MESSAGES_CODES[middle] = code
          /\ pc' = "true"
          /\ UNCHANGED <<left, right>>
    /\ UNCHANGED code

\* The search is sequential code: it runs until it returns.
Spec == Init /\ [][FIND_MSG_CODE]_vars /\ WF_vars(FIND_MSG_CODE)
-----------------------------------------------------------------------------
\* The table is never read outside its bounds.
InBounds == pc = "loop" /\ left <= right => middle \in 0 .. N - 1

\* The search says whether the code is in the table, for every sorted table.
SearchCorrect ==
    /\ pc = "true" => \E i \in 0 .. N - 1 : ALL_MESSAGES_CODES[i] = code
    /\ pc = "false" => \A i \in 0 .. N - 1 : ALL_MESSAGES_CODES[i] # code
=============================================================================
