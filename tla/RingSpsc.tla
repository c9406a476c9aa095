------------------------------ MODULE RingSpsc ------------------------------
(***************************************************************************)
(* One producer thread and one consumer thread on a ring whose type is     *)
(* `sentinel | atomic`, in its default, rollover mode, with a mutex policy *)
(* that really locks (circular_mutex_std): the producer calls push_back,   *)
(* the consumer calls empty() and then pop_front(), or looks at front().   *)
(*                                                                         *)
(* Every load and store of the atomics front_ and back_ is a step of its   *)
(* own (std::atomic with its default sequentially consistent order), and   *)
(* so is the construction or destruction of an element in a slot.  An      *)
(* increment of front_ is two steps: ++front_, which may leave it at       *)
(* array_.end(), and the store that takes it back to array_.begin().       *)
(*                                                                         *)
(* The k-th element pushed is the number k; a slot that holds no object is *)
(* Raw.  The producer's locals need no variables: while a push is in       *)
(* progress dest is back and the local back is Succ(back).                 *)
(***************************************************************************)
EXTENDS Naturals, Sequences

CONSTANTS N,         \* slots in array_; one of them always stays free
          MaxPush    \* pushes the producer makes in one behaviour

\* With two slots (max_size() = 1) a push that rolls over leaves the ring
\* empty until it publishes, under the consumer's verdict that it is not.
ASSUME RingAssumption == N \in Nat /\ N >= 3 /\ MaxPush \in Nat

VARIABLES
    array,      \* array_: the object in each slot, or Raw
    front,      \* front_, from 0 (array_.begin()) to N (array_.end())
    back,       \* back_: the first empty slot past the occupied ones
    frontLock,  \* who holds the front mutex: "free", "producer", "consumer"
    ppc,        \* where the producer is in push_back_op
    cpc,        \* where the consumer is in empty(), pop_front() or a look
    seen,       \* what the consumer loaded first in `front_ == back_`
    pushed,     \* how many elements have been published (history)
    got         \* the last element pop_front destroyed (history)

producerVars == <<ppc, pushed>>
consumerVars == <<cpc, seen, got>>
vars == <<array, front, back, frontLock, ppc, cpc, seen, pushed, got>>

Raw   == 0
Slots == 0..N-1
End   == N

\* evaluate_rollover
Wrapped(i) == IF i = End THEN 0 ELSE i

\* increment, on a pointer no other thread can see
Succ(i) == Wrapped(i + 1)

Init ==
    /\ array = [s \in Slots |-> Raw]
    /\ front = 0 /\ back = 0
    /\ frontLock = "free"
    /\ ppc = "idle" /\ cpc = "idle"
    /\ seen = 0 /\ pushed = 0 /\ got = 0

-----------------------------------------------------------------------------
(* push_back_op.                                                           *)

PushBegin ==
    /\ ppc = "idle"
    /\ pushed < MaxPush
    /\ ppc' = "lock"
    /\ UNCHANGED <<array, front, back, frontLock, pushed, consumerVars>>

\* Mutant: a mutex policy that does not lock (circular_mutex_noop).
PushLockUnlocked ==
    /\ ppc = "lock"
    /\ ppc' = "check"
    /\ UNCHANGED <<array, front, back, frontLock, pushed, consumerVars>>

PushLock ==
    /\ ppc = "lock"
    /\ frontLock = "free"
    /\ frontLock' = "producer"
    /\ ppc' = "check"
    /\ UNCHANGED <<array, front, back, pushed, consumerVars>>

\* back == front_ on the incremented back decides whether the ring is full.
PushHasRoom ==
    /\ ppc = "check"
    /\ Succ(back) # front
    /\ ppc' = "unlock"
    /\ UNCHANGED <<array, front, back, frontLock, pushed, consumerVars>>

PushFull ==
    /\ ppc = "check"
    /\ Succ(back) = front
    /\ ppc' = "rollInc"
    /\ UNCHANGED <<array, front, back, frontLock, pushed, consumerVars>>

\* Mutant: the oldest element is destroyed and front_ stays on it.
RolloverWithoutIncrement ==
    /\ ppc = "rollInc"
    /\ ppc' = "rollDestroy"
    /\ UNCHANGED <<array, front, back, frontLock, pushed, consumerVars>>

\* rollover: ++front_, the store that wraps it, then the destructor.
RolloverIncrement ==
    /\ ppc = "rollInc"
    /\ front' = front + 1
    /\ ppc' = "rollWrap"
    /\ UNCHANGED <<array, back, frontLock, pushed, consumerVars>>

RolloverWrap ==
    /\ ppc = "rollWrap"
    /\ front' = Wrapped(front)
    /\ ppc' = "rollDestroy"
    /\ UNCHANGED <<array, back, frontLock, pushed, consumerVars>>

\* Mutant: the evicted element is not destroyed.
RolloverLeaks ==
    /\ ppc = "rollDestroy"
    /\ ppc' = "unlock"
    /\ UNCHANGED <<array, front, back, frontLock, pushed, consumerVars>>

RolloverDestroy ==
    /\ ppc = "rollDestroy"
    /\ array' = [array EXCEPT ![Succ(back)] = Raw]
    /\ ppc' = "unlock"
    /\ UNCHANGED <<front, back, frontLock, pushed, consumerVars>>

PushUnlock ==
    /\ ppc = "unlock"
    /\ frontLock' = "free"
    /\ ppc' = "construct"
    /\ UNCHANGED <<array, front, back, pushed, consumerVars>>

\* f(dest): the constructor has been running in slot `back` since "construct"
\* was reached, and ends here.
PushConstruct ==
    /\ ppc = "construct"
    /\ array' = [array EXCEPT ![back] = pushed + 1]
    /\ ppc' = "publish"
    /\ UNCHANGED <<front, back, frontLock, pushed, consumerVars>>

PushPublish ==
    /\ ppc = "publish"
    /\ back' = Succ(back)
    /\ pushed' = pushed + 1
    /\ ppc' = "idle"
    /\ UNCHANGED <<array, front, frontLock, consumerVars>>

-----------------------------------------------------------------------------
(* empty(): the operands of front_ == back_ are loaded in either order.    *)

EmptyLoadFront ==
    /\ cpc = "idle"
    /\ seen' = front
    /\ cpc' = "loadBack"
    /\ UNCHANGED <<array, front, back, frontLock, got, producerVars>>

EmptyLoadBack ==
    /\ cpc = "idle"
    /\ seen' = back
    /\ cpc' = "loadFront"
    /\ UNCHANGED <<array, front, back, frontLock, got, producerVars>>

OtherEnd == IF cpc = "loadBack" THEN back ELSE front

\* The ring looks empty: the caller does not pop (`strict` returns false).
EmptyTrue ==
    /\ cpc \in {"loadBack", "loadFront"}
    /\ OtherEnd = seen
    /\ cpc' = "idle"
    /\ UNCHANGED <<array, front, back, frontLock, seen, got, producerVars>>

EmptyFalse ==
    /\ cpc \in {"loadBack", "loadFront"}
    /\ OtherEnd # seen
    /\ cpc' = "lock"
    /\ UNCHANGED <<array, front, back, frontLock, seen, got, producerVars>>

-----------------------------------------------------------------------------
(* pop_front.                                                              *)

\* Mutant: pop_front without mutex.lock_front().
PopLockMissing ==
    /\ cpc = "lock"
    /\ cpc' = "destroy"
    /\ UNCHANGED <<array, front, back, frontLock, seen, got, producerVars>>

PopLock ==
    /\ cpc = "lock"
    /\ frontLock = "free"
    /\ frontLock' = "consumer"
    /\ cpc' = "destroy"
    /\ UNCHANGED <<array, front, back, seen, got, producerVars>>

\* The destructor has been running in slot `front` since "destroy" was
\* reached, and ends here.
PopDestroy ==
    /\ cpc = "destroy"
    /\ got' = array[front]
    /\ array' = [array EXCEPT ![front] = Raw]
    /\ cpc' = "popInc"
    /\ UNCHANGED <<front, back, frontLock, seen, producerVars>>

PopIncrement ==
    /\ cpc = "popInc"
    /\ front' = front + 1
    /\ cpc' = "popWrap"
    /\ UNCHANGED <<array, back, frontLock, seen, got, producerVars>>

\* Mutant: an increment without evaluate_rollover.
PopNeverWraps ==
    /\ cpc = "popWrap"
    /\ cpc' = "unlock"
    /\ UNCHANGED <<array, front, back, frontLock, seen, got, producerVars>>

PopWrap ==
    /\ cpc = "popWrap"
    /\ front' = Wrapped(front)
    /\ cpc' = "unlock"
    /\ UNCHANGED <<array, back, frontLock, seen, got, producerVars>>

\* Mutant: pop_front returns with the front mutex held.
PopKeepsLock ==
    /\ cpc = "unlock"
    /\ cpc' = "idle"
    /\ UNCHANGED <<array, front, back, frontLock, seen, got, producerVars>>

PopUnlock ==
    /\ cpc = "unlock"
    /\ frontLock' = "free"
    /\ cpc' = "idle"
    /\ UNCHANGED <<array, front, back, seen, got, producerVars>>

-----------------------------------------------------------------------------
(* A look at front().  front() takes no mutex itself, and in rollover mode *)
(* the producer may destroy what it refers to: the caller holds the front  *)
(* mutex from the emptiness check until it is done with the reference.     *)

\* Mutant: the caller of front() keeps the mutex when the ring is empty.
LookKeepsLockIfEmpty ==
    /\ cpc = "idle"
    /\ frontLock = "free"
    /\ frontLock' = "consumer"
    /\ cpc' = IF front = back THEN "idle" ELSE "look"
    /\ UNCHANGED <<array, front, back, seen, got, producerVars>>

LookLock ==
    /\ cpc = "idle"
    /\ frontLock = "free"
    /\ frontLock' = "consumer"
    /\ cpc' = IF front = back THEN "unlock" ELSE "look"
    /\ UNCHANGED <<array, front, back, seen, got, producerVars>>

LookDone ==
    /\ cpc = "look"
    /\ cpc' = "unlock"
    /\ UNCHANGED <<array, front, back, frontLock, seen, got, producerVars>>

-----------------------------------------------------------------------------
Rollover == RolloverIncrement \/ RolloverWrap \/ RolloverDestroy

\* The steps of a push that has begun, other than waiting for the mutex.
PushProceeds ==
    \/ PushHasRoom \/ PushFull \/ Rollover
    \/ PushUnlock \/ PushConstruct \/ PushPublish

\* The steps of a consumer operation that has begun, other than waiting.
PopProceeds ==
    \/ EmptyTrue \/ EmptyFalse
    \/ PopDestroy \/ PopIncrement \/ PopWrap \/ PopUnlock
    \/ LookDone

EmptyBegin == EmptyLoadFront \/ EmptyLoadBack

Producer == PushBegin \/ PushLock \/ PushProceeds
Consumer == EmptyBegin \/ PopLock \/ LookLock \/ PopProceeds

Next == Producer \/ Consumer

(* Both threads keep being scheduled; the mutex grants itself to a thread  *)
(* that keeps asking; the consumer keeps calling empty().  The producer    *)
(* need not push.                                                          *)
Fairness ==
    /\ WF_vars(PushProceeds) /\ SF_vars(PushLock)
    /\ WF_vars(PopProceeds)  /\ SF_vars(PopLock)
    /\ SF_vars(EmptyBegin)

Safety == Init /\ [][Next]_vars
Spec   == Safety /\ Fairness

-----------------------------------------------------------------------------
(* What the state means.                                                   *)

\* Where the oldest element is, or will be once an increment of front_ that
\* has begun (or is due, its element being destroyed) has ended.
Oldest == IF cpc = "popInc" THEN Succ(front) ELSE Wrapped(front)

Distance(i, j) == IF i <= j THEN j - i ELSE N - (i - j)

\* The slots that hold the elements of the ring, and these elements in order.
Count     == Distance(Oldest, back)
InRing(s) == Distance(Oldest, s) < Count
At(i)     == IF Oldest + i < N THEN Oldest + i ELSE Oldest + i - N
Contents  == [i \in 1..Count |-> array[At(i - 1)]]

\* The slots each side is reading, constructing or destroying in.
ProducerTouches == CASE ppc = "construct"   -> {back}
                     [] ppc = "rollDestroy" -> {Succ(back)}
                     [] OTHER               -> {}
ConsumerTouches == IF cpc \in {"destroy", "look"} THEN {front} ELSE {}

-----------------------------------------------------------------------------
(* Why the properties hold: what each thread may rely on at each point.    *)

Holding  == {"check", "rollInc", "rollWrap", "rollDestroy", "unlock"}
Popping  == {"destroy", "popInc", "popWrap", "unlock", "look"}

\* The front mutex is held by whoever is between its lock and its unlock.
LockInv ==
    /\ frontLock = "producer" <=> ppc \in Holding
    /\ frontLock = "consumer" <=> cpc \in Popping

\* Where front_ is during a rollover, and that a slot remains free from the
\* full check up to the store of back_.
PushInv ==
    /\ ppc = "rollInc" => front = Succ(back)
    /\ ppc = "rollWrap" => front = Succ(back) + 1
    /\ ppc = "rollDestroy" => front = Succ(Succ(back))
    /\ ppc \in {"unlock", "construct", "publish"} => Oldest # Succ(back)
    /\ ppc # "idle" => pushed < MaxPush
    /\ ppc = "publish" => array[back] = pushed + 1

\* The consumer's verdict that the ring is not empty stays true until it has
\* popped, and the one it is still working out cannot miss an empty ring.
PopInv ==
    /\ cpc \in {"lock", "destroy", "look"} => Oldest # back
    /\ cpc = "popWrap" => front # 0
    /\ cpc \in {"loadBack", "loadFront"} /\ Oldest = back => seen = back

-----------------------------------------------------------------------------
(* Properties.                                                             *)

\* Type correctness.  front_ is array_.end() only while one of the two
\* increments of it is between its two stores.
TypeOK ==
    /\ array \in [Slots -> Nat]
    /\ front \in 0..N
    /\ front = End => ppc = "rollWrap" \/ cpc = "popWrap"
    /\ back \in Slots
    /\ frontLock \in {"free", "producer", "consumer"}
    /\ ppc \in {"idle", "lock", "check", "rollInc", "rollWrap", "rollDestroy",
                "unlock", "construct", "publish"}
    /\ cpc \in {"idle", "loadBack", "loadFront", "lock", "destroy", "popInc",
                "popWrap", "unlock", "look"}
    /\ seen \in 0..N
    /\ pushed \in Nat /\ pushed <= MaxPush
    /\ got \in Nat

\* Object lifetimes: push_back constructs only in a slot without an object,
\* a destructor (of pop_front or of a rollover) and a look at front() always
\* find one, although empty() is asked before the mutex is taken and the
\* element is constructed after it is released.
Lifetimes ==
    /\ ppc = "construct" => array[back] = Raw
    /\ ppc = "rollDestroy" => array[Succ(back)] # Raw
    /\ cpc \in {"destroy", "look"} => front # End /\ array[front] # Raw

\* A slot holds an object exactly when it is in the ring, or on its way into
\* or out of it by the producer: nothing leaks, nothing in the ring is dead.
SlotsAccounted ==
    \A s \in Slots : array[s] # Raw <=>
        \/ InRing(s)
        \/ ppc = "publish" /\ s = back
        \/ ppc \in {"rollWrap", "rollDestroy"} /\ s = Succ(back)

\* No data race: construction and rollover destruction by the producer never
\* overlap, in one slot, a destruction or a read by the consumer.
NoDataRace == ProducerTouches \cap ConsumerTouches = {}

\* The ring is an overwriting FIFO of max_size() = N - 1 elements: an element
\* goes in at the store of back_, and out at its destructor in pop_front or
\* at the ++front_ of a rollover, which happens only when the ring is full.
Fifo == INSTANCE OverwritingFifo WITH Capacity <- N - 1, queue <- Contents

ImplementsFifo == Fifo!Spec

\* Once the producer stays away the consumer empties the ring, for good.
Drains == <>[](ppc = "idle") => <>[](Count = 0 /\ back = front)

\* A push that has begun comes back to its caller, even if the consumer never
\* stops popping and looking.
PushReturns == (ppc = "lock") ~> (ppc = "idle")

\* The inductive invariant.
IInv == TypeOK /\ LockInv /\ PushInv /\ PopInv /\ SlotsAccounted
=============================================================================
