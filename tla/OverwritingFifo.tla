-------------------------- MODULE OverwritingFifo --------------------------
(***************************************************************************)
(* What a rollover ring promises its one producer and its one consumer,    *)
(* without slots, pointers or locks: a queue of at most Capacity elements  *)
(* which hands elements out in the order they went in, each at most once,  *)
(* and gives one up unread only when it is full, always the oldest.        *)
(*                                                                         *)
(* Elements are numbered in the order they are pushed, so that losing,     *)
(* repeating or reordering one shows in `got`.                             *)
(***************************************************************************)
EXTENDS Naturals, Sequences

CONSTANTS Capacity,  \* elements the queue can hold
          MaxPush    \* pushes the producer makes in one behaviour

VARIABLES queue,     \* the elements in the queue, oldest first
          pushed,    \* how many elements have been pushed
          got        \* the last element the consumer took, 0 before the first

fifoVars == <<queue, pushed, got>>

Init == queue = <<>> /\ pushed = 0 /\ got = 0

Push ==
    /\ pushed < MaxPush
    /\ Len(queue) < Capacity
    /\ queue' = Append(queue, pushed + 1)
    /\ pushed' = pushed + 1
    /\ UNCHANGED got

\* The producer needs room in a full queue: the oldest element goes.
Evict ==
    /\ pushed < MaxPush
    /\ Len(queue) = Capacity
    /\ queue' = Tail(queue)
    /\ UNCHANGED <<pushed, got>>

Pop ==
    /\ queue # <<>>
    /\ got' = Head(queue)
    /\ queue' = Tail(queue)
    /\ UNCHANGED pushed

Next == Push \/ Evict \/ Pop

Spec == Init /\ [][Next]_fifoVars
=============================================================================
