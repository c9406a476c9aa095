---------------------------- MODULE RetryTracker ----------------------------
(***************************************************************************)
(* retry_tracker: the reference use of the map and the priority queue      *)
(* together.  Sent messages live in the map tracked_ under their key, and  *)
(* queue_ orders pointers into the map by the time of the next retry.  An  *)
(* acknowledgement only marks the item; the poll that finds it due takes   *)
(* it out of both.                                                         *)
(*                                                                         *)
(* The queue is the bag of its pointers, of which the top is any with the  *)
(* least timestamp: that is what Heap is shown to implement.  The calls    *)
(* come from one thread; a poll() is a loop of steps of its own.           *)
(***************************************************************************)
EXTENDS UnorderedMap

CONSTANTS
    Backoff,   \* what calc_backoff adds: 10 in the code
    MaxTime,   \* bound: the last timestamp callers pass, to track and to poll
    Never      \* in place of a timestamp

Time   == 0..MaxTime
Stamps == 0..MaxTime + Backoff

ASSUME TrackerAssumption ==
    /\ Backoff \in Nat \ {0} /\ MaxTime \in Nat
    /\ Never \notin Stamps

\* What item holds for a slot without one.
NoItem == [stamp |-> 0, ack |-> FALSE]

VARIABLES
    item,     \* timestamp_ and ack_received_ of the mapped object of a slot
    queue,    \* how often queue_ holds the pointer to a slot
    polling   \* the timestamp of the poll() in progress

tracker == <<container, done, item, queue, polling>>

TrackerInit ==
    /\ Init
    /\ item = [s \in Slots |-> NoItem]
    /\ queue = [s \in Slots |-> 0]
    /\ polling = Never

Idle == polling = Never

-----------------------------------------------------------------------------
\* track(): emplace() into the map, and a pointer to the new pair into the
\* queue if that succeeded.
Track(k, s, t) ==
    /\ Idle
    /\ \E m \in Mapped : Insert(k, m, s)
    /\ item' = [item EXCEPT ![s] = [stamp |-> t, ack |-> FALSE]]
    /\ queue' = [queue EXCEPT ![s] = @ + 1]
    /\ UNCHANGED polling

\* Nothing is queued of a key that is there already, or without room.
TrackRejected(k) ==
    /\ Idle
    /\ InsertFails(k)
    /\ UNCHANGED <<item, queue, polling>>

\* incoming(): the item found under the key is marked.
Incoming(k, s) ==
    /\ Idle
    /\ FoundAt(k, s)
    /\ item' = [item EXCEPT ![s].ack = TRUE]
    /\ done' = TRUE
    /\ UNCHANGED <<container, queue, polling>>

\* Nothing is found: npos().
IncomingUnknown(k) ==
    /\ Idle
    /\ EraseAbsent(k)
    /\ UNCHANGED <<item, queue, polling>>

-----------------------------------------------------------------------------
(* poll_one(t), by itself or as the body of the loop of poll().            *)

Queued == {s \in Slots : queue[s] > 0}

\* Mutant: whatever comes first in the container.
FirstQueued(s) == s \in Queued /\ \A u \in Queued : s <= u

Top(s) == s \in Queued /\ \A u \in Queued : item[s].stamp <= item[u].stamp

PolledAt(t) == t \in Time /\ (Idle \/ polling = t)

Due(s, t) == Top(s) /\ t >= item[s].stamp

\* erase_ll() and then gc_sparse_ll() on the same slot, which is an empty
\* slot like any other afterwards, also in the middle of its bucket.
EraseAndCollect(s) ==
    LET n      == index(key(s))
        pruned == IF s + 1 \in Slots => is_null_not_sparse(s + 1)
                  THEN Prunable(s, n) ELSE {}
    IN  container' = [t \in Slots |->
            IF t = s THEN [first |-> Null,
                           second |-> [marked_for_gc |-> FALSE, bucket |-> n % BucketField]]
            ELSE IF t \in pruned THEN [container[t] EXCEPT !.second.marked_for_gc = FALSE]
            ELSE container[t]]

\* Mutant: the item is taken out of the map when it is polled without an
\* acknowledgement, and retried all the same.
RetryErases(s) ==
    /\ EraseAndCollect(s)
    /\ item' = [item EXCEPT ![s].stamp = @ + Backoff]
    /\ UNCHANGED queue

\* Acknowledged: out of the queue and out of the map.
Remove(s) ==
    /\ item[s].ack
    /\ queue' = [queue EXCEPT ![s] = @ - 1]
    /\ EraseAndCollect(s)
    /\ item' = [item EXCEPT ![s] = NoItem]

\* Mutants of Retry: the acknowledgement does not matter; the time stays.
RetryAnyway(s) ==
    /\ item' = [item EXCEPT ![s].stamp = @ + Backoff]
    /\ UNCHANGED <<container, queue>>

RetryAtOnce(s) ==
    /\ ~item[s].ack
    /\ UNCHANGED <<container, item, queue>>

\* Otherwise calc_backoff, and back into the queue.
Retry(s) ==
    /\ ~item[s].ack
    /\ item' = [item EXCEPT ![s].stamp = @ + Backoff]
    /\ UNCHANGED <<container, queue>>

PollOne(t) ==
    /\ PolledAt(t)
    /\ \E s \in Slots : Due(s, t) /\ (Remove(s) \/ Retry(s))
    /\ done' = TRUE
    /\ UNCHANGED polling

PollOneNothing(t) ==
    /\ Idle /\ t \in Time
    /\ ~\E s \in Slots : Due(s, t)
    /\ done' = FALSE
    /\ UNCHANGED <<container, item, queue, polling>>

PollBegin(t) ==
    /\ Idle
    /\ polling' = t
    /\ UNCHANGED <<container, done, item, queue>>

PollEnd ==
    /\ ~Idle
    /\ ~\E s \in Slots : Due(s, polling)
    /\ polling' = Never
    /\ UNCHANGED <<container, done, item, queue>>

-----------------------------------------------------------------------------
TrackerNext ==
    \/ \E k \in Key :
        \/ \E s \in Slots : Incoming(k, s) \/ \E t \in Time : Track(k, s, t)
        \/ TrackRejected(k) \/ IncomingUnknown(k)
    \/ \E t \in Time : PollOne(t) \/ PollOneNothing(t) \/ PollBegin(t)
    \/ PollEnd

TrackerSpec == TrackerInit /\ [][TrackerNext]_tracker

(* A poll() that was begun goes on; and the main loop polls again and      *)
(* again, at a time when all that is tracked is due.                       *)
LiveSpec ==
    /\ TrackerSpec
    /\ WF_tracker(~Idle /\ PollOne(polling))
    /\ WF_tracker(PollEnd)
    /\ SF_tracker(PollBegin(MaxTime))

-----------------------------------------------------------------------------
(* Properties.                                                             *)

TrackerTypeOK ==
    /\ TypeOK
    /\ item \in [Slots -> [stamp : Stamps, ack : BOOLEAN]]
    /\ queue \in [Slots -> 0..1]
    /\ polling \in Time \cup {Never}

\* Between calls the queue points to every tracked item, to each once and to
\* nothing else: no retry is forgotten, none is sent twice and no pointer is
\* left behind to a pair that was erased, with tracked keys that collide.
QueuedOnce == \A s \in Slots : queue[s] = IF is_empty(s) THEN 0 ELSE 1

\* The inductive invariant.
TrackerInv == TrackerTypeOK /\ QueuedOnce

\* When poll(t) returns nothing that is tracked is due at t.
PollDrains ==
    [][~Idle /\ Idle' => \A s \in Slots : is_empty(s) \/ item[s].stamp > polling]_tracker

\* poll() returns, although every item it retries goes back into the queue
\* it polls; and an item that was acknowledged leaves the map, so that its
\* slot can be taken by another.
PollReturns == ~Idle ~> Idle

AckedLeaves == \A s \in Slots : item[s].ack /\ item[s].stamp <= MaxTime ~> is_empty(s)
=============================================================================
