-------------------------------- MODULE Heap --------------------------------
(***************************************************************************)
(* The k-ary heap of algorithm/heap.h, as priority_queue uses it.  One     *)
(* turn of a loop is one step.  Indices are from 0, as in the code.        *)
(***************************************************************************)
EXTENDS Integers, FiniteSets

CONSTANTS
    K,         \* children of a node; priority_queue has 2
    Priority,  \* the elements; comp(a, b) is a < b
    Capacity,  \* elements the container has room for
    None       \* in place of an element

ASSUME HeapAssumption ==
    /\ K \in Nat \ {0} /\ Capacity \in Nat
    /\ Priority \subseteq Int /\ None \notin Priority

VARIABLES
    c,         \* the container
    size,
    loop,      \* the loop that runs: "up" is restore_up, "down" is
               \* restore_down, and "idle" is none
    current,   \* the node the loop is at
    i,         \* where make() is; 0 if it is pop() that restores downwards
    popped     \* what the last call took from the top, if it was pop()

vars == <<c, size, loop, current, i, popped>>

\* Mutant: the parent as of nodes that are numbered from 1.
ParentFrom1(n) == n \div K

Parent(n) == (n - 1) \div K

Children(n) == {j \in n * K + 1 .. n * K + K : j < size}

\* max_element: the first of the largest children
Chosen(n, j) ==
    /\ j \in Children(n)
    /\ \A m \in Children(n) : c[m] <= c[j] /\ (m < j => c[m] < c[j])

Swapped(a, b) == [c EXCEPT ![a] = c[b], ![b] = c[a]]

\* The last node make() looks at first.
LastNonleaf(s) == (s - 1) \div K

\* make_heap of whatever is in the container
Init ==
    /\ size \in 0..Capacity
    /\ c \in [0..size-1 -> Priority]
    /\ i = IF size < 2 THEN 0 ELSE LastNonleaf(size)
    /\ current = i
    /\ loop = IF size < 2 THEN "idle" ELSE "down"
    /\ popped = None

-----------------------------------------------------------------------------
(* restore_up and restore_down                                             *)

\* The element at current belongs above its parent.
Rises == current # 0 /\ c[Parent(current)] < c[current]

Up ==
    /\ loop = "up" /\ Rises
    /\ c' = Swapped(current, Parent(current))
    /\ current' = Parent(current)
    /\ UNCHANGED <<size, loop, i, popped>>

UpDone ==
    /\ loop = "up" /\ ~Rises
    /\ loop' = "idle" /\ current' = 0
    /\ UNCHANGED <<c, size, i, popped>>

Down ==
    /\ loop = "down"
    /\ \E j \in Children(current) :
        /\ Chosen(current, j) /\ c[current] < c[j]
        /\ c' = Swapped(j, current)
        /\ current' = j
    /\ UNCHANGED <<size, loop, i, popped>>

\* No child is there, or none is better.
Settled ==
    \/ Children(current) = {}
    \/ \E j \in Children(current) : Chosen(current, j) /\ ~(c[current] < c[j])

\* Mutant: make() does not come to the node before.
DownDoneStays ==
    /\ loop = "down" /\ Settled
    /\ loop' = IF i = 0 THEN "idle" ELSE "down"
    /\ current' = i
    /\ UNCHANGED <<c, size, i, popped>>

\* restore_down is done; make() goes on with the node before.
DownDone ==
    /\ loop = "down" /\ Settled
    /\ IF i = 0 THEN loop' = "idle" /\ i' = 0
                ELSE loop' = "down" /\ i' = i - 1
    /\ current' = i'
    /\ UNCHANGED <<c, size, popped>>

-----------------------------------------------------------------------------
(* The calls of a priority_queue.                                          *)

\* push and emplace
Push(v) ==
    /\ loop = "idle" /\ size < Capacity
    /\ c' = [n \in 0..size |-> IF n = size THEN v ELSE c[n]]
    /\ size' = size + 1
    /\ loop' = "up" /\ current' = size
    /\ popped' = None
    /\ UNCHANGED i

\* Mutant: the first element and the last are not exchanged.
PopLast ==
    /\ loop = "idle" /\ size > 0
    /\ c' = [n \in 0..size-2 |-> c[n]]
    /\ size' = size - 1
    /\ loop' = "down" /\ current' = 0
    /\ popped' = c[0]
    /\ UNCHANGED i

Pop ==
    /\ loop = "idle" /\ size > 0
    /\ c' = [n \in 0..size-2 |-> Swapped(0, size - 1)[n]]
    /\ size' = size - 1
    /\ loop' = "down" /\ current' = 0
    /\ popped' = c[0]
    /\ UNCHANGED i

\* Mutant: make() starts behind the last element.
EraseMakesAll(n) ==
    /\ loop = "idle" /\ n < size
    /\ c' = [m \in 0..size-2 |-> IF m = n THEN c[size - 1] ELSE c[m]]
    /\ size' = size - 1
    /\ i' = size' /\ current' = i'
    /\ loop' = "down"
    /\ popped' = None

\* erase of the element at n, which the last one replaces
Erase(n) ==
    /\ loop = "idle" /\ n < size
    /\ c' = [m \in 0..size-2 |-> IF m = n THEN c[size - 1] ELSE c[m]]
    /\ size' = size - 1
    /\ i' = IF size' < 2 THEN 0 ELSE LastNonleaf(size')
    /\ current' = i'
    /\ loop' = IF size' < 2 THEN "idle" ELSE "down"
    /\ popped' = None

Loop == Up \/ UpDone \/ Down \/ DownDone

Next ==
    \/ Loop \/ Pop
    \/ \E v \in Priority : Push(v)
    \/ \E n \in 0..Capacity-1 : Erase(n)

Spec == Init /\ [][Next]_vars

\* A loop that has begun goes on.
FairSpec == Spec /\ WF_vars(Loop)

-----------------------------------------------------------------------------
(* Properties.                                                             *)

TypeOK ==
    /\ size \in 0..Capacity
    /\ c \in [0..size-1 -> Priority]
    /\ loop \in {"idle", "up", "down"}
    /\ i \in 0..Capacity
    /\ current \in 0..Capacity /\ (loop # "idle" /\ size > 0 => current < size)
    /\ popped \in Priority \cup {None}

Ordered(n) == c[n] <= c[Parent(n)]

\* When a call has returned, no element is above its parent, whatever was
\* pushed, popped and erased before.
HeapOrdered == loop = "idle" => \A n \in 1..size-1 : Ordered(n)

\* How often each priority is in the heap.
Occurrences(v) == {n \in 0..size-1 : c[n] = v}

counts == [v \in Priority |-> Cardinality(Occurrences(v))]

\* What pop() takes is the best there is, and no call loses or repeats an
\* element.
Abstract == INSTANCE PriorityBag WITH bag <- counts

ImplementsBag == Abstract!Spec

\* Every call returns.
CallsReturn == []<>(loop = "idle")

\* The inductive invariant: while a loop runs, the heap is in order except at
\* current, whose parent is no worse than its children.
UpInv ==
    /\ i = 0 /\ current < size
    /\ \A n \in 1..size-1 :
        /\ n # current => Ordered(n)
        /\ Parent(n) = current /\ current # 0 => c[n] <= c[Parent(current)]

DownInv ==
    /\ i <= current
    /\ \A n \in 1..size-1 :
        /\ i <= Parent(n) /\ Parent(n) # current => Ordered(n)
        /\ Parent(n) = current /\ current # 0 /\ i <= Parent(current)
             => c[n] <= c[Parent(current)]

IInv ==
    /\ TypeOK
    /\ loop = "idle" => i = 0
    /\ HeapOrdered
    /\ loop = "up" => UpInv
    /\ loop = "down" => DownInv
=============================================================================
