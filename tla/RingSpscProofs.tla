--------------------------- MODULE RingSpscProofs ---------------------------
(***************************************************************************)
(* What RingSpsc is proved to do for every number of slots N >= 3 and      *)
(* every number of pushes.  IInv is inductive, and it implies the safety   *)
(* properties; with it, every step of the two threads is a step of the     *)
(* overwriting FIFO or leaves its queue alone.                             *)
(***************************************************************************)
EXTENDS RingSpsc, SequenceTheorems, TLAPS

USE DEF Raw, Slots, End

\* At the start the ring is empty and nobody holds the mutex.
LEMMA InitInv == Init => IInv
  BY RingAssumption
  DEF Init, IInv, TypeOK, LockInv, PushInv, PopInv, SlotsAccounted,
      Holding, Popping, Oldest, InRing, Count, Distance, Wrapped, Succ

\* No step of push_back, a rollover included, breaks the invariant.
LEMMA ProducerInv == IInv /\ Producer => IInv'
  <1> SUFFICES ASSUME IInv, Producer PROVE IInv'
    OBVIOUS
  <1> USE RingAssumption
      DEF IInv, TypeOK, LockInv, PushInv, PopInv, SlotsAccounted, Holding,
          Popping, Oldest, InRing, Count, Distance, Wrapped, Succ,
          consumerVars
  <1>1. CASE PushBegin
    BY <1>1 DEF PushBegin
  <1>2. CASE PushLock
    BY <1>2 DEF PushLock
  <1>3. CASE PushHasRoom
    BY <1>3 DEF PushHasRoom
  <1>4. CASE PushFull
    BY <1>4 DEF PushFull
  <1>5. CASE RolloverIncrement
    BY <1>5 DEF RolloverIncrement
  <1>6. CASE RolloverWrap
    BY <1>6 DEF RolloverWrap
  <1>7. CASE RolloverDestroy
    BY <1>7 DEF RolloverDestroy
  <1>8. CASE PushUnlock
    BY <1>8 DEF PushUnlock
  <1>9. CASE PushConstruct
    BY <1>9 DEF PushConstruct
  <1>10. CASE PushPublish
    BY <1>10 DEF PushPublish
  <1>11. QED
    BY Zenon, <1>1, <1>2, <1>3, <1>4, <1>5, <1>6, <1>7, <1>8, <1>9, <1>10
    DEF Producer, PushProceeds, Rollover

\* No step of empty(), pop_front or a look at front() breaks it.
LEMMA ConsumerInv == IInv /\ Consumer => IInv'
  <1> SUFFICES ASSUME IInv, Consumer PROVE IInv'
    OBVIOUS
  <1> USE RingAssumption
      DEF IInv, TypeOK, LockInv, PushInv, PopInv, SlotsAccounted, Holding,
          Popping, Oldest, InRing, Count, Distance, Wrapped, Succ,
          producerVars
  <1>1. CASE EmptyLoadFront
    BY <1>1 DEF EmptyLoadFront
  <1>2. CASE EmptyLoadBack
    BY <1>2 DEF EmptyLoadBack
  <1>3. CASE EmptyTrue
    BY <1>3 DEF EmptyTrue, OtherEnd
  <1>4. CASE EmptyFalse
    BY <1>4 DEF EmptyFalse, OtherEnd
  <1>5. CASE PopLock
    BY <1>5 DEF PopLock
  <1>6. CASE PopDestroy
    BY <1>6 DEF PopDestroy
  <1>7. CASE PopIncrement
    BY <1>7 DEF PopIncrement
  <1>8. CASE PopWrap
    BY <1>8 DEF PopWrap
  <1>9. CASE PopUnlock
    BY <1>9 DEF PopUnlock
  <1>10. CASE LookLock
    BY <1>10 DEF LookLock
  <1>11. CASE LookDone
    BY <1>11 DEF LookDone
  <1>12. QED
    BY Zenon, <1>1, <1>2, <1>3, <1>4, <1>5, <1>6, <1>7, <1>8, <1>9, <1>10, <1>11
    DEF Consumer, EmptyBegin, PopProceeds

\* Every reachable state satisfies the invariant.
THEOREM Invariance == Spec => []IInv
  <1>1. IInv /\ UNCHANGED vars => IInv'
    BY DEF vars, IInv, TypeOK, LockInv, PushInv, PopInv, SlotsAccounted,
           Holding, Popping, Oldest, InRing, Count, Distance, Wrapped, Succ
  <1>2. IInv /\ [Next]_vars => IInv'
    BY <1>1, ProducerInv, ConsumerInv DEF Next
  <1>3. QED
    BY InitInv, <1>2, PTL DEF Spec, Safety

\* front_ is array_.end() only inside one of its increments, and every other
\* variable has its type.
THEOREM TypeCorrect == Spec => []TypeOK
  <1>1. IInv => TypeOK
    BY DEF IInv
  <1>2. QED
    BY Invariance, <1>1, PTL

\* Constructors run in free slots, destructors and readers find an object.
THEOREM LifetimesHold == Spec => []Lifetimes
  <1>1. IInv => Lifetimes
    BY RingAssumption
    DEF IInv, TypeOK, LockInv, PushInv, PopInv, SlotsAccounted, Holding,
        Popping, Oldest, InRing, Count, Distance, Wrapped, Succ, Lifetimes
  <1>2. QED
    BY Invariance, <1>1, PTL

\* Objects live exactly in the ring and in the producer's hands.
THEOREM NothingLeaks == Spec => []SlotsAccounted
  <1>1. IInv => SlotsAccounted
    BY DEF IInv
  <1>2. QED
    BY Invariance, <1>1, PTL

\* The two threads never work in one slot at the same time, although the
\* producer constructs, and the consumer checks for emptiness, with no mutex.
THEOREM RaceFree == Spec => []NoDataRace
  <1>1. IInv => NoDataRace
    BY RingAssumption
    DEF IInv, TypeOK, LockInv, PushInv, PopInv, Holding, Popping, Oldest,
        Wrapped, Succ, NoDataRace, ProducerTouches, ConsumerTouches
  <1>2. QED
    BY Invariance, <1>1, PTL

-----------------------------------------------------------------------------
(* Refinement: the queue is Contents, read off array_ from the oldest      *)
(* element to back_.                                                       *)

\* The queue is a sequence of at most N - 1 elements.
LEMMA ContentsType ==
  ASSUME IInv
  PROVE  /\ Count \in 0..N-1
         /\ Contents \in Seq(Nat)
         /\ Len(Contents) = Count
         /\ \A i \in 1..Count : Contents[i] = array[At(i - 1)]
  <1> USE RingAssumption
      DEF IInv, TypeOK, LockInv, Holding, Popping, Oldest, Distance, Wrapped,
          Succ
  <1>1. Count \in 0..N-1
    BY DEF Count
  <1>2. \A i \in 1..Count : At(i - 1) \in Slots
    BY <1>1 DEF At, Count
  <1>3. \A i \in 1..Count : array[At(i - 1)] \in Nat
    BY <1>2
  <1>4. Contents = [i \in 1..Count |-> array[At(i - 1)]]
    BY DEF Contents
  <1>5. Contents \in Seq(Nat) /\ Len(Contents) = Count
    BY <1>1, <1>3, <1>4
  <1>6. QED
    BY <1>1, <1>4, <1>5

\* A step that moves neither end of the ring and writes no slot in it leaves
\* the queue alone.
LEMMA SameContents ==
  ASSUME IInv, Oldest' = Oldest, back' = back,
         \A i \in 1..Count : array'[At(i - 1)] = array[At(i - 1)]
  PROVE  Contents' = Contents
  <1>1. Count' = Count /\ \A i : At(i)' = At(i)
    BY DEF Count, At, Distance
  <1>2. Contents' = [i \in 1..Count |-> array'[At(i - 1)]]
    BY <1>1 DEF Contents
  <1>3. QED
    BY <1>2 DEF Contents

\* The slots of the queue's elements are slots of the ring.
LEMMA SlotsOfContents ==
  ASSUME IInv, NEW i \in 1..Count
  PROVE  At(i - 1) \in Slots /\ InRing(At(i - 1))
  BY RingAssumption
  DEF IInv, TypeOK, LockInv, Holding, Popping, Oldest, Distance, Wrapped,
      Succ, At, Count, InRing

\* A step that moves the front of a non-empty ring to the next slot, and
\* writes no other slot of it, takes the head off the queue.
LEMMA Dequeue ==
  ASSUME IInv, Oldest # back, Oldest' = Succ(Oldest), back' = back,
         \A i \in 2..Count : array'[At(i - 1)] = array[At(i - 1)]
  PROVE  /\ Contents # <<>>
         /\ Head(Contents) = array[Oldest]
         /\ Contents' = Tail(Contents)
  <1> USE RingAssumption
  <1>1. Oldest \in Slots /\ back \in Slots
    BY DEF IInv, TypeOK, LockInv, Holding, Popping, Oldest, Wrapped, Succ
  <1>2. Count \in 1..N-1 /\ Count' = Count - 1
    BY <1>1 DEF Count, Distance, Succ, Wrapped
  <1>3. At(0) = Oldest
    BY <1>1 DEF At
  <1>4. \A i \in 1..Count-1 : At(i - 1)' = At(i)
    BY <1>1, <1>2 DEF At, Succ, Wrapped
  <1>5. Contents' = [i \in 1..Count-1 |-> array'[At(i)]]
    BY <1>2, <1>4 DEF Contents
  <1>6. \A i \in 1..Count-1 : array'[At(i)] = Contents[i + 1]
    <2> SUFFICES ASSUME NEW i \in 1..Count-1
                 PROVE  array'[At(i)] = Contents[i + 1]
      OBVIOUS
    <2>1. i + 1 \in 2..Count /\ (i + 1) - 1 = i
      BY <1>2
    <2>2. array'[At((i + 1) - 1)] = array[At((i + 1) - 1)]
      BY <2>1
    <2>3. Contents[i + 1] = array[At((i + 1) - 1)]
      BY <1>2, <2>1, ContentsType
    <2>4. QED
      BY <2>1, <2>2, <2>3
  <1>7. Contents' = [i \in 1..Count-1 |-> Contents[i + 1]]
    BY <1>5, <1>6
  <1>8. Contents # <<>> /\ Tail(Contents) = [i \in 1..Count-1 |-> Contents[i + 1]]
    <2>1. Contents \in Seq(Nat) /\ Len(Contents) = Count
      BY ContentsType
    <2>2. Contents # <<>>
      BY <1>2, <2>1
    <2>3. /\ Tail(Contents) \in Seq(Nat)
          /\ Len(Tail(Contents)) = Count - 1
          /\ \A i \in 1..Count-1 : Tail(Contents)[i] = Contents[i + 1]
      BY <2>1, <2>2, HeadTailProperties
    <2>4. Tail(Contents) \in [1..Count-1 -> Nat]
      BY <2>3, LenProperties
    <2>5. Tail(Contents) = [i \in 1..Count-1 |-> Tail(Contents)[i]]
      BY <2>4
    <2>6. QED
      BY <2>2, <2>3, <2>5
  <1>9. Head(Contents) = array[Oldest]
    BY <1>2, <1>3, ContentsType
  <1>10. QED
    BY <1>7, <1>8, <1>9

\* Publishing appends the element constructed in slot `back`.
LEMMA Enqueue ==
  ASSUME IInv, PushPublish
  PROVE  Len(Contents) < N - 1 /\ Contents' = Append(Contents, pushed + 1)
  <1> USE RingAssumption
  <1>1. Oldest \in Slots /\ back \in Slots /\ Oldest' = Oldest
    BY DEF IInv, TypeOK, LockInv, Holding, Popping, Oldest, Wrapped, Succ,
           PushPublish, consumerVars
  <1>2. Oldest # Succ(back) /\ array[back] = pushed + 1 /\ back' = Succ(back)
    BY DEF IInv, PushInv, PushPublish
  <1>3. Count \in 0..N-2 /\ Count' = Count + 1 /\ At(Count) = back
    BY <1>1, <1>2 DEF Count, Distance, Succ, Wrapped, At
  <1>4. array' = array /\ \A i : At(i)' = At(i)
    BY <1>1 DEF PushPublish, At
  <1>5. Contents' = [i \in 1..Count+1 |-> array[At(i - 1)]]
    BY <1>3, <1>4 DEF Contents
  <1>6. Contents \in Seq(Nat) /\ Len(Contents) = Count
    BY ContentsType
  <1>7. Append(Contents, pushed + 1)
          = [i \in 1..Count+1 |-> IF i \in 1..Count THEN Contents[i]
                                                    ELSE pushed + 1]
    BY <1>3, <1>6
  <1>8. \A i \in 1..Count+1 :
          array[At(i - 1)] = IF i \in 1..Count THEN Contents[i] ELSE pushed + 1
    <2> SUFFICES ASSUME NEW i \in 1..Count+1
                 PROVE  array[At(i - 1)]
                          = IF i \in 1..Count THEN Contents[i] ELSE pushed + 1
      OBVIOUS
    <2>1. CASE i \in 1..Count
      BY <2>1, ContentsType
    <2>2. CASE i \notin 1..Count
      <3>1. i - 1 = Count
        BY <1>3, <2>2
      <3>2. QED
        BY <3>1, <1>2, <1>3, <2>2
    <2>3. QED
      BY <2>1, <2>2
  <1>9. QED
    BY <1>3, <1>5, <1>6, <1>7, <1>8

\* Each step of push_back leaves the queue alone, but for the ++front_ of a
\* rollover, which evicts, and the store of back_, which pushes.
LEMMA ProducerStep ==
  ASSUME IInv, Producer
  PROVE  Fifo!Next \/ UNCHANGED Fifo!fifoVars
  <1> USE RingAssumption
  <1>1. CASE PushBegin \/ PushLock \/ PushHasRoom \/ PushFull \/ PushUnlock
    <2>1. UNCHANGED <<array, front, back, cpc, pushed, got>>
      BY <1>1 DEF PushBegin, PushLock, PushHasRoom, PushFull, PushUnlock,
                  consumerVars
    <2>2. Oldest' = Oldest
      BY <2>1 DEF Oldest
    <2>3. QED
      BY <2>1, <2>2, SameContents DEF Fifo!fifoVars
  <1>2. CASE RolloverIncrement
    <2>1. /\ front' = front + 1 /\ front = Succ(back) /\ cpc \notin Popping
          /\ pushed < MaxPush /\ back \in Slots
          /\ UNCHANGED <<array, back, cpc, pushed, got>>
      BY <1>2 DEF RolloverIncrement, consumerVars, IInv, TypeOK, PushInv,
                  LockInv, Holding
    <2>2. Oldest = Succ(back) /\ Oldest' = Succ(Oldest)
      BY <2>1 DEF Oldest, Popping, Succ, Wrapped
    <2>3. Oldest # back /\ Count = N - 1
      BY <2>1, <2>2 DEF Count, Distance, Succ, Wrapped
    <2>4. Contents' = Tail(Contents) /\ Len(Contents) = N - 1
      BY <2>1, <2>2, <2>3, Dequeue, ContentsType
    <2>5. Fifo!Evict
      BY <2>1, <2>4 DEF Fifo!Evict
    <2>6. QED
      BY <2>5 DEF Fifo!Next
  <1>3. CASE RolloverWrap
    <2>1. UNCHANGED <<array, back, cpc, pushed, got>>
      BY <1>3 DEF RolloverWrap, consumerVars
    <2>2. Oldest' = Oldest
      BY <1>3, <2>1 DEF RolloverWrap, Oldest, Wrapped, IInv, TypeOK, LockInv,
                        Holding, Popping
    <2>3. QED
      BY <2>1, <2>2, SameContents DEF Fifo!fifoVars
  <1>4. CASE RolloverDestroy
    <2>1. /\ array' = [array EXCEPT ![Succ(back)] = 0]
          /\ UNCHANGED <<front, back, cpc, pushed, got>>
      BY <1>4 DEF RolloverDestroy, consumerVars
    <2>2. Oldest' = Oldest
      BY <2>1 DEF Oldest
    <2>3. ~InRing(Succ(back))
      BY <1>4 DEF RolloverDestroy, IInv, TypeOK, LockInv, PushInv, Holding,
                  Popping, InRing, Count, Distance, Oldest, Succ, Wrapped
    <2>4. \A i \in 1..Count : array'[At(i - 1)] = array[At(i - 1)]
      BY <2>1, <2>3, SlotsOfContents DEF IInv, TypeOK
    <2>5. QED
      BY <2>1, <2>2, <2>4, SameContents DEF Fifo!fifoVars
  <1>5. CASE PushConstruct
    <2>1. /\ array' = [array EXCEPT ![back] = pushed + 1]
          /\ UNCHANGED <<front, back, cpc, pushed, got>>
      BY <1>5 DEF PushConstruct, consumerVars
    <2>2. Oldest' = Oldest
      BY <2>1 DEF Oldest
    <2>3. ~InRing(back)
      BY ContentsType DEF InRing, Count
    <2>4. \A i \in 1..Count : array'[At(i - 1)] = array[At(i - 1)]
      BY <2>1, <2>3, SlotsOfContents DEF IInv, TypeOK
    <2>5. QED
      BY <2>1, <2>2, <2>4, SameContents DEF Fifo!fifoVars
  <1>6. CASE PushPublish
    <2>1. pushed < MaxPush /\ pushed' = pushed + 1 /\ got' = got
      BY <1>6 DEF PushPublish, consumerVars, IInv, PushInv
    <2>2. Fifo!Push
      BY <1>6, <2>1, Enqueue DEF Fifo!Push
    <2>3. QED
      BY <2>2 DEF Fifo!Next
  <1>7. QED
    BY <1>1, <1>2, <1>3, <1>4, <1>5, <1>6 DEF Producer, PushProceeds, Rollover

\* Each step of the consumer leaves the queue alone, but for the destructor
\* in pop_front, which takes the head.
LEMMA ConsumerStep ==
  ASSUME IInv, Consumer
  PROVE  Fifo!Next \/ UNCHANGED Fifo!fifoVars
  <1> USE RingAssumption
  <1>1. CASE PopDestroy
    <2>1. /\ cpc = "destroy" /\ cpc' = "popInc" /\ got' = array[front]
          /\ array' = [array EXCEPT ![front] = 0]
          /\ UNCHANGED <<front, back, pushed>>
      BY <1>1 DEF PopDestroy, producerVars
    <2>2. Oldest = front /\ front # back /\ front \in Slots /\ back \in Slots
      BY <2>1 DEF Oldest, Wrapped, IInv, TypeOK, LockInv, PopInv, Holding,
                  Popping
    <2>3. Oldest' = Succ(Oldest)
      BY <2>1, <2>2 DEF Oldest
    <2>4. \A i \in 2..Count : At(i - 1) # front
      BY <2>2 DEF At, Count, Distance
    <2>5. \A i \in 2..Count : array'[At(i - 1)] = array[At(i - 1)]
      BY <2>1, <2>4, SlotsOfContents DEF IInv, TypeOK
    <2>6. /\ Contents # <<>>
          /\ Head(Contents) = array[front]
          /\ Contents' = Tail(Contents)
      BY <2>1, <2>2, <2>3, <2>5, Dequeue
    <2>7. Fifo!Pop
      BY <2>1, <2>6 DEF Fifo!Pop
    <2>8. QED
      BY <2>7 DEF Fifo!Next
  <1>2. CASE ~PopDestroy
    <2>1. UNCHANGED <<array, back, pushed, got>>
      BY <1>2 DEF Consumer, EmptyBegin, PopProceeds, EmptyLoadFront,
                  EmptyLoadBack, EmptyTrue, EmptyFalse, PopLock, PopIncrement,
                  PopWrap, PopUnlock, LookLock, LookDone, producerVars
    <2>2. Oldest' = Oldest
      <3>1. CASE PopIncrement
        BY <3>1 DEF PopIncrement, Oldest, Succ
      <3>2. CASE PopWrap
        BY <3>2 DEF PopWrap, Oldest, Wrapped, IInv, TypeOK
      <3>3. CASE ~PopIncrement /\ ~PopWrap
        BY <1>2, <3>3
        DEF Consumer, EmptyBegin, PopProceeds, EmptyLoadFront, EmptyLoadBack,
            EmptyTrue, EmptyFalse, PopLock, PopUnlock, LookLock, LookDone,
            Oldest
      <3>4. QED
        BY <3>1, <3>2, <3>3
    <2>3. QED
      BY <2>1, <2>2, SameContents DEF Fifo!fifoVars
  <1>3. QED
    BY <1>1, <1>2

\* The ring implements the overwriting FIFO of N - 1 elements: what it hands
\* out is what went in, in order, each element at most once, and only a push
\* on a full ring loses one, the oldest.
THEOREM Refinement == Spec => ImplementsFifo
  <1>1. Init => Fifo!Init
    <2> SUFFICES ASSUME Init PROVE Fifo!Init
      OBVIOUS
    <2>1. IInv
      BY InitInv
    <2>2. Count = 0
      BY RingAssumption DEF Init, Count, Distance, Oldest, Wrapped
    <2>3. Contents = <<>>
      BY <2>1, <2>2, ContentsType
    <2>4. QED
      BY <2>3 DEF Fifo!Init, Init
  <1>2. IInv /\ [Next]_vars => [Fifo!Next]_(Fifo!fifoVars)
    <2> SUFFICES ASSUME IInv, [Next]_vars
                 PROVE  Fifo!Next \/ UNCHANGED Fifo!fifoVars
      OBVIOUS
    <2>1. CASE UNCHANGED vars
      <3>1. UNCHANGED <<array, front, back, cpc, pushed, got>>
        BY <2>1 DEF vars
      <3>2. Oldest' = Oldest
        BY <3>1 DEF Oldest
      <3>3. QED
        BY <3>1, <3>2, SameContents DEF Fifo!fifoVars
    <2>2. QED
      BY <2>1, ProducerStep, ConsumerStep DEF Next
  <1>3. QED
    BY <1>1, <1>2, Invariance, PTL DEF Spec, Safety, ImplementsFifo, Fifo!Spec
=============================================================================
