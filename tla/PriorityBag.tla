---------------------------- MODULE PriorityBag ----------------------------
(***************************************************************************)
(* What a priority queue promises: a bag of priorities, from which pop()   *)
(* takes one that no other is above.                                       *)
(***************************************************************************)
EXTENDS Integers

CONSTANTS
    Priority,  \* the priorities
    Capacity,  \* how many the queue has room for
    None       \* in place of a priority

VARIABLES
    bag,       \* how often each priority is in the queue
    popped     \* what the last call took from the top, if it was pop()

vars == <<bag, popped>>

Init == bag \in [Priority -> 0..Capacity] /\ popped = None

Push(v) ==
    /\ bag' = [bag EXCEPT ![v] = @ + 1]
    /\ popped' = None

\* pop() takes what top() showed.
Pop(v) ==
    /\ bag[v] > 0
    /\ \A w \in Priority : w > v => bag[w] = 0
    /\ bag' = [bag EXCEPT ![v] = @ - 1]
    /\ popped' = v

Erase(v) ==
    /\ bag[v] > 0
    /\ bag' = [bag EXCEPT ![v] = @ - 1]
    /\ popped' = None

Next == \E v \in Priority : Push(v) \/ Pop(v) \/ Erase(v)

Spec == Init /\ [][Next]_vars
=============================================================================
