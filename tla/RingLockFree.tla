---------------------------- MODULE RingLockFree ----------------------------
(***************************************************************************)
(* The ring of RingSpsc with the option that is said to make it lock free: *)
(* `sentinel | atomic | no_rollover`.  A push on a full ring is rejected   *)
(* instead of evicting the oldest element, push_back_op takes no mutex,    *)
(* and the mutex policy is the default one, circular_mutex_noop.  State    *)
(* and memory steps are those of RingSpsc; what differs is what            *)
(* `if(!no_rollover)` and the noop mutex leave out.                        *)
(***************************************************************************)
EXTENDS RingSpsc

\* push_back_op reads back_ and goes straight to the full check.
LFPushBegin ==
    /\ ppc = "idle"
    /\ pushed < MaxPush
    /\ ppc' = "check"
    /\ UNCHANGED <<array, front, back, frontLock, pushed, consumerVars>>

LFPushHasRoom ==
    /\ ppc = "check"
    /\ Succ(back) # front
    /\ ppc' = "construct"
    /\ UNCHANGED <<array, front, back, frontLock, pushed, consumerVars>>

\* return nullptr
LFPushReject ==
    /\ ppc = "check"
    /\ Succ(back) = front
    /\ ppc' = "idle"
    /\ UNCHANGED <<array, front, back, frontLock, pushed, consumerVars>>

\* pop_front with mutex.lock_front() a no-op
LFEmptyFalse ==
    /\ cpc \in {"loadBack", "loadFront"}
    /\ OtherEnd # seen
    /\ cpc' \in {"destroy", "look"}
    /\ UNCHANGED <<array, front, back, frontLock, seen, got, producerVars>>

LFLookDone ==
    /\ cpc = "look"
    /\ cpc' = "idle"
    /\ UNCHANGED <<array, front, back, frontLock, seen, got, producerVars>>

LFPopWrap ==
    /\ cpc = "popWrap"
    /\ front' = Wrapped(front)
    /\ cpc' = "idle"
    /\ UNCHANGED <<array, back, frontLock, seen, got, producerVars>>

LFNext ==
    \/ LFPushBegin \/ LFPushHasRoom \/ LFPushReject
    \/ PushConstruct \/ PushPublish
    \/ EmptyBegin \/ EmptyTrue \/ LFEmptyFalse \/ LFLookDone
    \/ PopDestroy \/ PopIncrement \/ LFPopWrap

LFSpec == Init /\ [][LFNext]_vars

\* No accepted element is lost: with no push being rejected silently, the
\* elements not yet popped are all in the ring.  push_back returned non-null
\* for each of the `pushed` elements, and nothing but pop_front removes one.
NothingLost == Count = pushed - got
=============================================================================
