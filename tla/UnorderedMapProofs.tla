------------------------- MODULE UnorderedMapProofs -------------------------
(***************************************************************************)
(* For a container and keys of any number, and any hash: callers that keep *)
(* to CarefulSpec find every element they put in, each key once.  And for  *)
(* any times: the queue and the map of a retry_tracker agree, and a poll   *)
(* leaves nothing that is due.                                             *)
(***************************************************************************)
EXTENDS RetryTracker, WellFoundedInduction, TLAPS

LEMMA IndexType == \A k \in Key \cup {Null} : index(k) \in 0..MaxSize-1
  BY MapAssumption DEF index

LEMMA InitInv == Init => IInv
  BY MapAssumption DEF Init, IInv, TypeOK, Findable, UniqueKeys, is_empty, key, Slots

\* Findable, spelled out.
LEMMA FindableMeans ==
  ASSUME TypeOK
  PROVE  Findable <=> \A s \in Slots : ~is_empty(s) =>
            LET n == index(key(s)) IN
            n <= s /\ \A t \in n..s : active(t, n) \/ is_sparse(t, n)
  BY DEF Findable, Bucket

-----------------------------------------------------------------------------
(* Insertion: the slot taken was empty, so it was in no bucket but as a    *)
(* sparse slot, and only of the bucket that takes it.                      *)

LEMMA NewKeyInv ==
  ASSUME IInv, NEW k \in Key, NEW s \in Slots, NEW m \in Meta,
         Found(k) = {}, TakesOwnSlot(k, s), CanInsert(k, s),
         container' = [container EXCEPT ![s] = [first |-> k, second |-> m]],
         done' = TRUE
  PROVE  IInv'
  <1> USE MapAssumption
  <1> DEFINE n == index(k)
  <1>1. n \in 0..MaxSize-1
    BY IndexType
  <1>2. TypeOK'
    BY DEF IInv, TypeOK
  <1>3. container[s].first = Null /\ n <= s /\ \A t \in n..s-1 : active(t, n)
    BY DEF CanInsert, is_empty, key, Passed
  <1>4. key(s)' = k /\ \A t \in Slots \ {s} : container'[t] = container[t]
    BY DEF IInv, TypeOK, key
  <1>5. \A t \in Slots : ~is_empty(t) => key(t) # k
    BY DEF Found, IInv, Findable
  <1>6. UniqueKeys'
    BY <1>3, <1>4, <1>5 DEF UniqueKeys, IInv, is_empty, key
  <1>7. Findable'
    <2> SUFFICES ASSUME NEW t \in Slots, ~is_empty(t)'
                 PROVE  (t \in Bucket(index(key(t))))'
      BY DEF Findable
    <2>1. CASE t = s
      <3>1. \A u \in n..s-1 : u \in Slots \ {s} /\ active(u, n)'
        BY <1>1, <1>3, <1>4 DEF Slots, active, is_empty, key, index
      <3>2. active(s, n)'
        BY <1>4 DEF active, is_empty, index
      <3>3. \A u \in n..s : active(u, n)'
        BY <1>1, <3>1, <3>2 DEF Slots
      <3> QED
        BY <1>3, <1>4, <2>1, <3>3 DEF Bucket, index
    <2>2. CASE t # s
      <3>1. key(t)' = key(t) /\ ~is_empty(t)
        BY <1>4, <2>2 DEF key, is_empty
      <3>2. PICK j \in 0..MaxSize-1 : j = index(key(t))
        BY <3>1, IndexType DEF key, is_empty, IInv, TypeOK
      <3>3. j <= t /\ \A u \in j..t : active(u, j) \/ is_sparse(u, j)
        BY <3>1, <3>2 DEF IInv, Findable, Bucket
      <3>4. ASSUME NEW u \in j..t
            PROVE  active(u, j)' \/ is_sparse(u, j)'
        <4>1. CASE u # s
          <5>1. container'[u] = container[u]
            BY <1>4, <3>2, <4>1 DEF Slots
          <5>2. active(u, j) \/ is_sparse(u, j)
            BY <3>3
          <5> QED
            BY <5>1, <5>2 DEF active, is_sparse, is_empty, key, mapped, index
        <4>2. CASE u = s
          <5>1. is_sparse(s, j)
            BY <1>3, <3>3, <4>2 DEF active, is_empty, key
          <5>2. j = n
            BY <5>1 DEF is_sparse, TakesOwnSlot
          <5> QED
            BY <1>4, <4>2, <5>2 DEF active, is_empty, index
        <4> QED BY <4>1, <4>2
      <3> QED
        BY <3>1, <3>2, <3>3, <3>4 DEF Bucket, index
    <2> QED BY <2>1, <2>2
  <1> QED
    BY <1>2, <1>6, <1>7 DEF IInv

-----------------------------------------------------------------------------
(* Erasure: a slot before a remaining element of a bucket keeps extending  *)
(* that bucket.                                                            *)

LEMMA FewerElements ==
  ASSUME IInv, TypeOK',
         \A t \in Slots : key(t)' = key(t) \/ is_empty(t)',
         \A j, u, t \in Slots :
            /\ ~is_empty(t)' /\ index(key(t)) = j
            /\ j <= u /\ u <= t
            /\ active(u, j) \/ is_sparse(u, j)
            => active(u, j)' \/ is_sparse(u, j)'
  PROVE  IInv'
  <1> USE MapAssumption
  <1>1. UniqueKeys'
    BY DEF IInv, UniqueKeys, is_empty
  <1>2. ASSUME NEW t \in Slots, ~is_empty(t)'
        PROVE  (t \in Bucket(index(key(t))))'
    <2>1. key(t)' = key(t) /\ ~is_empty(t)
      BY <1>2 DEF is_empty
    <2>2. PICK j \in Slots : j = index(key(t))
      BY <2>1, IndexType DEF key, is_empty, IInv, TypeOK, Slots
    <2>3. j <= t /\ \A u \in j..t : active(u, j) \/ is_sparse(u, j)
      BY <2>1, <2>2 DEF IInv, Findable, Bucket
    <2>4. \A u \in j..t : u \in Slots /\ j <= u /\ u <= t
      BY DEF Slots
    <2>5. \A u \in j..t : active(u, j)' \/ is_sparse(u, j)'
      BY <1>2, <2>2, <2>3, <2>4
    <2> QED
      BY <2>1, <2>2, <2>3, <2>5 DEF Bucket, index
  <1> QED
    BY <1>1, <1>2 DEF IInv, Findable

LEMMA AssignInv ==
  ASSUME IInv, NEW k \in Key, NEW m \in Mapped, NEW s \in Slots, Assign(k, m, s)
  PROVE  IInv'
  <1> USE MapAssumption
  <1>1. TypeOK' /\ ~is_empty(s)
    BY DEF Assign, IInv, TypeOK, FoundAt, Found, is_empty
  <1>2. \A t \in Slots : key(t)' = key(t)
    BY DEF Assign, IInv, TypeOK, key
  <1>3. \A t \in Slots : is_empty(t) => container'[t] = container[t]
    BY <1>1 DEF Assign, IInv, TypeOK
  <1>4. \A j, u \in Slots : active(u, j) \/ is_sparse(u, j) => active(u, j)' \/ is_sparse(u, j)'
    BY <1>2, <1>3 DEF active, is_sparse, is_empty, mapped, index
  <1> QED
    BY <1>1, <1>2, <1>4, FewerElements

LEMMA EraseMarkInv ==
  ASSUME MaxSize <= BucketField, IInv, NEW s \in Slots, EraseMark(s)
  PROVE  IInv'
  <1> USE MapAssumption
  <1>1. PICK n \in Slots : n = index(key(s))
    BY IndexType DEF EraseMark, key, is_empty, IInv, TypeOK, Slots
  <1>2. n % BucketField = n
    BY <1>1 DEF Slots
  <1>3. container' = [container EXCEPT ![s] =
            [first |-> Null, second |-> [marked_for_gc |-> TRUE, bucket |-> n]]]
    BY <1>1, <1>2 DEF EraseMark
  <1>4. TypeOK'
    <2>1. [marked_for_gc |-> TRUE, bucket |-> n] \in Meta
      BY <1>1 DEF Meta, Slots
    <2>2. PICK m \in Meta : container' = [container EXCEPT ![s] = [first |-> Null, second |-> m]]
      BY <1>3, <2>1
    <2>3. done' \in BOOLEAN
      BY DEF EraseMark
    <2> QED
      BY <2>2, <2>3 DEF IInv, TypeOK
  <1>5. is_sparse(s, n)' /\ \A t \in Slots \ {s} : container'[t] = container[t]
    BY <1>3 DEF IInv, TypeOK, is_sparse, is_empty, key, mapped
  <1>6. \A t \in Slots : key(t)' = key(t) \/ is_empty(t)'
    BY <1>5 DEF key, is_sparse
  <1>7. ASSUME NEW j \in Slots, NEW u \in Slots, active(u, j) \/ is_sparse(u, j)
        PROVE  active(u, j)' \/ is_sparse(u, j)'
    <2>1. CASE u = s
      BY <1>1, <1>5, <1>7, <2>1 DEF active, is_sparse, EraseMark
    <2>2. CASE u # s
      BY <1>5, <1>7, <2>2 DEF active, is_sparse, is_empty, key, mapped, index
    <2> QED BY <2>1, <2>2
  <1> QED
    BY <1>4, <1>6, <1>7, FewerElements

\* No element is found past s, nor past the sparse slots just before it.
LEMMA ErasePruneInv ==
  ASSUME IInv, NEW s \in Slots, ErasePrune(s)
  PROVE  IInv'
  <1> USE MapAssumption
  <1>1. PICK n \in Slots : n = index(key(s))
    BY IndexType DEF ErasePrune, key, is_empty, IInv, TypeOK, Slots
  <1> DEFINE Gone == {s} \cup Prunable(s, n)
  <1>2. Gone \subseteq Slots /\ n <= s /\ ~is_empty(s)
    BY <1>1 DEF Prunable, Slots, ErasePrune, IInv, Findable, Bucket
  <1>3. /\ \A t \in Slots \ Gone : container'[t] = container[t]
        /\ \A t \in Slots : t # s => key(t)' = key(t)
        /\ is_empty(s)'
    BY <1>1 DEF ErasePrune, IInv, TypeOK, key, is_empty
  <1>4. TypeOK'
    BY <1>1 DEF ErasePrune, IInv, TypeOK, Meta, mapped
  <1>5. ASSUME NEW j \in Slots, NEW u \in Slots, NEW t \in Slots,
               ~is_empty(t)', index(key(t)) = j, j <= u, u <= t,
               active(u, j) \/ is_sparse(u, j)
        PROVE  active(u, j)' \/ is_sparse(u, j)'
    <2>1. key(t)' = key(t) /\ ~is_empty(t) /\ t # s
      BY <1>3, <1>5 DEF is_empty
    <2>2. \A v \in j..t : active(v, j) \/ is_sparse(v, j)
      BY <1>5, <2>1 DEF IInv, Findable, Bucket
    <2>3. u \notin Gone
      <3>1. SUFFICES ASSUME u \in Gone PROVE FALSE
        OBVIOUS
      <3>2. j = n
        BY <1>1, <1>2, <1>5, <3>1 DEF Prunable, Slots, active, is_sparse
      <3>3. CASE t < s
        <4>1. u \in Prunable(s, n) /\ t \in u..s-1
          BY <1>5, <3>1, <3>3 DEF Slots
        <4>2. is_sparse(t, n)
          BY <4>1 DEF Prunable
        <4> QED
          BY <2>1, <4>2 DEF is_sparse
      <3>4. CASE s < t
        <4>1. s + 1 \in Slots /\ s + 1 \in j..t
          BY <1>2, <3>2, <3>4 DEF Slots
        <4>2. is_null_not_sparse(s + 1)
          BY <4>1 DEF ErasePrune
        <4> QED
          BY <2>2, <4>1, <4>2 DEF is_null_not_sparse, active, is_sparse
      <3> QED
        BY <2>1, <3>3, <3>4 DEF Slots
    <2> QED
      BY <1>3, <1>5, <2>3 DEF active, is_sparse, is_empty, key, mapped, index
  <1> QED
    BY <1>3, <1>4, <1>5, FewerElements

LEMMA ClearInv ==
  ASSUME IInv, Clear
  PROVE  IInv'
  <1> USE MapAssumption
  <1>1. TypeOK' /\ \A t \in Slots : is_empty(t)'
    BY DEF Clear, IInv, TypeOK, is_empty, key
  <1> QED
    BY <1>1, FewerElements

-----------------------------------------------------------------------------
(* gc_active: the slot s moves to was sparse for its bucket, and what it   *)
(* leaves behind is.                                                       *)

LEMMA GcActiveInv ==
  ASSUME IInv, NEW s \in Slots, NEW t \in Slots, GcActive(s, t)
  PROVE  IInv'
  <1> USE MapAssumption
  <1>1. PICK n \in Slots : n = index(key(s))
    BY IndexType DEF GcActive, key, is_empty, IInv, TypeOK, Slots
  <1>2. \A u \in n..s : active(u, n) \/ is_sparse(u, n)
    BY <1>1 DEF GcActive, IInv, Findable, Bucket
  <1>3. /\ s # t /\ t \in n..s /\ is_empty(t) /\ ~is_empty(s)
        /\ active(s, n) /\ is_sparse(t, n)
    BY <1>1, <1>2 DEF GcActive, Slots, active
  <1>4. /\ container'[t] = container[s] /\ container'[s] = container[t]
        /\ \A u \in Slots \ {s, t} : container'[u] = container[u]
    BY <1>3 DEF GcActive, swapped, IInv, TypeOK
  <1>5. TypeOK'
    BY DEF GcActive, swapped, IInv, TypeOK
  <1>6. UniqueKeys'
    BY <1>3, <1>4 DEF IInv, UniqueKeys, is_empty, key
  <1>7. active(t, n)' /\ is_sparse(s, n)'
    BY <1>3, <1>4 DEF active, is_sparse, is_empty, key, mapped, index
  <1>8. ASSUME NEW j \in Slots, NEW u \in Slots, active(u, j) \/ is_sparse(u, j)
        PROVE  active(u, j)' \/ is_sparse(u, j)'
    <2>1. CASE u \in {s, t}
      BY <1>3, <1>7, <1>8, <2>1 DEF active, is_sparse
    <2>2. CASE u \notin {s, t}
      BY <1>4, <1>8, <2>2 DEF active, is_sparse, is_empty, key, mapped, index
    <2> QED BY <2>1, <2>2
  <1>9. ASSUME NEW w \in Slots, ~is_empty(w)'
        PROVE  (w \in Bucket(index(key(w))))'
    <2>1. PICK v \in Slots : /\ ~is_empty(v) /\ key(v) = key(w)' /\ w <= v
                             /\ w # v => w = t /\ v = s
      BY <1>3, <1>4, <1>9 DEF is_empty, key, Slots
    <2>2. PICK j \in Slots : j = index(key(v))
      BY <2>1, IndexType DEF key, is_empty, IInv, TypeOK, Slots
    <2>3. j <= w
      <3>1. CASE w = v
        BY <2>1, <2>2, <3>1 DEF IInv, Findable, Bucket
      <3>2. CASE w # v
        BY <1>1, <1>3, <2>1, <2>2, <3>2 DEF Slots
      <3> QED BY <3>1, <3>2
    <2>4. \A u \in j..w : u \in Slots /\ (active(u, j) \/ is_sparse(u, j))
      BY <2>1, <2>2 DEF IInv, Findable, Bucket, Slots
    <2>5. \A u \in j..w : active(u, j)' \/ is_sparse(u, j)'
      BY <1>8, <2>4
    <2> QED
      BY <2>1, <2>2, <2>3, <2>5 DEF Bucket, index
  <1> QED
    BY <1>5, <1>6, <1>9 DEF IInv, Findable

-----------------------------------------------------------------------------
LEMMA StutterInv ==
  ASSUME IInv, UNCHANGED container, done' \in BOOLEAN
  PROVE  IInv'
  BY DEF IInv, TypeOK, Findable, UniqueKeys, Bucket, active, is_sparse, is_empty, key, mapped, index

LEMMA CarefulInv ==
  ASSUME MaxSize <= BucketField, IInv, [CarefulNext]_vars
  PROVE  IInv'
  <1> USE MapAssumption
  <1>1. CASE UNCHANGED vars
    BY <1>1, StutterInv DEF vars, IInv, TypeOK
  <1>2. ASSUME NEW k \in Key, InsertFails(k) \/ EraseAbsent(k)
        PROVE  IInv'
    BY <1>2, StutterInv DEF InsertFails, EraseAbsent
  <1>3. ASSUME NEW s \in Slots, NEW k \in Key, NEW m \in Mapped, Assign(k, m, s)
        PROVE  IInv'
    BY <1>3, AssignInv
  <1>4. ASSUME NEW s \in Slots, ErasePrune(s)
        PROVE  IInv'
    BY <1>4, ErasePruneInv
  <1>5. ASSUME NEW s \in Slots, EraseMark(s)
        PROVE  IInv'
    BY <1>5, EraseMarkInv
  <1>6. ASSUME NEW s \in Slots, NEW t \in Slots, GcActive(s, t)
        PROVE  IInv'
    BY <1>6, GcActiveInv
  <1>7. CASE Clear
    BY <1>7, ClearInv
  <1>8. ASSUME NEW k \in Key, NEW s \in Slots,
               Found(k) = {}, TakesOwnSlot(k, s), NewKey(k, s)
        PROVE  IInv'
    <2>1. CASE TryEmplace(k, s)
      <3>1. mapped(s) \in Meta
        BY DEF IInv, TypeOK, mapped
      <3>2. container' = [container EXCEPT ![s] = [first |-> k, second |-> mapped(s)]]
        <4>1. container[s] \in [first : Key \cup {Null}, second : Meta]
          BY DEF IInv, TypeOK
        <4>2. [container[s] EXCEPT !.first = k] = [first |-> k, second |-> mapped(s)]
          BY <4>1 DEF mapped
        <4> QED
          BY <2>1, <4>2 DEF TryEmplace
      <3> QED
        BY <1>8, <2>1, <3>1, <3>2, NewKeyInv DEF TryEmplace
    <2>2. ASSUME NEW m \in Mapped, Insert(k, m, s)
          PROVE  IInv'
      BY <1>8, <2>2, NewKeyInv DEF Insert
    <2> QED
      BY <1>8, <2>1, <2>2 DEF NewKey
  <1> QED
    BY <1>1, <1>2, <1>3, <1>4, <1>5, <1>6, <1>7, <1>8 DEF CarefulNext, OtherCalls

\* The field `bucket` has to hold every slot's number: with 6 bits, at most
\* 64 slots.  The code has no such bound, and in a larger map elements are lost
\* (MapField.cfg); all theorems of the map assume it.
THEOREM Invariance ==
  ASSUME MaxSize <= BucketField
  PROVE  CarefulSpec => []IInv
  <1>1. IInv /\ [CarefulNext]_vars => IInv'
    BY CarefulInv
  <1> QED
    BY InitInv, <1>1, PTL DEF CarefulSpec

\* Type correctness of the container.
THEOREM TypeCorrect ==
  ASSUME MaxSize <= BucketField
  PROVE  CarefulSpec => []TypeOK
  BY Invariance, PTL DEF IInv

\* Whatever is in the container can be found.
THEOREM NothingIsLost ==
  ASSUME MaxSize <= BucketField
  PROVE  CarefulSpec => []Findable
  BY Invariance, PTL DEF IInv

\* No key is in the container twice.
THEOREM KeysAreUnique ==
  ASSUME MaxSize <= BucketField
  PROVE  CarefulSpec => []UniqueKeys
  BY Invariance, PTL DEF IInv

-----------------------------------------------------------------------------
(* What a step does to the keys, and to what is stored with them.          *)

\* A new element: its slot was empty, and the others stay as they are.
LEMMA NewKeyMeans ==
  ASSUME IInv, NEW k \in Key, NEW s \in Slots, NewKey(k, s)
  PROVE  /\ is_empty(s) /\ container'[s].first = k /\ done' = TRUE
         /\ \A t \in Slots \ {s} : container'[t] = container[t]
  BY DEF IInv, TypeOK, NewKey, TryEmplace, Insert, CanInsert

\* An element erased: all others stay as they are.
LEMMA EraseMeans ==
  ASSUME IInv, NEW s \in Slots, ErasePrune(s) \/ EraseMark(s)
  PROVE  /\ ~is_empty(s) /\ container'[s].first = Null /\ done' = TRUE
         /\ \A t \in Slots \ {s} : container'[t].first = container[t].first
         /\ \A t \in Slots \ {s} : ~is_empty(t) => container'[t] = container[t]
  <1>1. CASE EraseMark(s)
    BY <1>1 DEF EraseMark, IInv, TypeOK
  <1>2. CASE ErasePrune(s)
    <2> DEFINE n == index(key(s))
    <2>1. container' = [t \in Slots |->
            IF t = s THEN [first |-> Null, second |-> [mapped(t) EXCEPT !.marked_for_gc = FALSE]]
            ELSE IF t \in Prunable(s, n) THEN [container[t] EXCEPT !.second.marked_for_gc = FALSE]
            ELSE container[t]]
      BY <1>2 DEF ErasePrune
    <2>2. \A t \in Prunable(s, n) : is_empty(t)
      <3>1. ASSUME NEW t \in Prunable(s, n) PROVE is_empty(t)
        <4>1. t \in n..s-1 /\ \A u \in t..s-1 : is_sparse(u, n)
          BY DEF Prunable
        <4>2. t \in t..s-1
          BY <4>1 DEF Slots
        <4> QED  BY <4>1, <4>2 DEF is_sparse
      <3> QED  BY <3>1
    <2> HIDE DEF n
    <2>3. \A t \in Slots : container[t] \in [first : Key \cup {Null}, second : Meta]
      BY DEF IInv, TypeOK
    <2>4. ~is_empty(s) /\ done' = TRUE
      BY <1>2 DEF ErasePrune
    <2> QED  BY <2>1, <2>2, <2>3, <2>4
  <1> QED  BY <1>1, <1>2

\* An element moved: it takes the place of an empty slot.
LEMMA GcMeans ==
  ASSUME IInv, NEW s \in Slots, NEW t \in Slots, GcActive(s, t)
  PROVE  /\ s # t /\ ~is_empty(s) /\ is_empty(t) /\ done' = TRUE
         /\ container'[t] = container[s] /\ container'[s] = container[t]
         /\ \A u \in Slots \ {s, t} : container'[u] = container[u]
  BY DEF GcActive, swapped, IInv, TypeOK, is_empty

\* References to what stays in the map stay valid, but for what gc_active
\* moves: an insertion takes an empty slot, an erasure moves nothing.
THEOREM ReferencesStay ==
  ASSUME MaxSize <= BucketField
  PROVE  CarefulSpec => StableReferences
  <1> DEFINE Stable == \A s \in Slots :
               ~is_empty(s) /\ (\E t \in Slots : key(t)' = key(s))
                   => key(s)' = key(s) \/ \E t \in Slots : GcActive(s, t)
  <1>1. IInv /\ [CarefulNext]_vars => [Stable]_vars
    <2> SUFFICES ASSUME IInv, CarefulNext, NEW s \in Slots, ~is_empty(s),
                        NEW t \in Slots, key(t)' = key(s)
                 PROVE  key(s)' = key(s) \/ \E u \in Slots : GcActive(s, u)
      OBVIOUS
    <2>1. ASSUME NEW k \in Key, InsertFails(k) \/ EraseAbsent(k)
          PROVE  key(s)' = key(s)
      BY <2>1 DEF InsertFails, EraseAbsent, key
    <2>2. ASSUME NEW u \in Slots, NEW k \in Key, NEW m \in Mapped, Assign(k, m, u)
          PROVE  key(s)' = key(s)
      BY <2>2 DEF Assign, key, IInv, TypeOK
    <2>3. ASSUME NEW u \in Slots, ErasePrune(u) \/ EraseMark(u)
          PROVE  key(s)' = key(s)
      <3>1. /\ key(u)' = Null
            /\ \A w \in Slots \ {u} : key(w)' = key(w)
        BY <2>3, EraseMeans DEF key
      <3>2. t # u
        BY <3>1 DEF is_empty
      <3>3. t = s
        BY <3>1, <3>2 DEF IInv, UniqueKeys
      <3> QED  BY <3>1, <3>2, <3>3
    <2>4. ASSUME NEW u \in Slots, NEW w \in Slots, GcActive(u, w)
          PROVE  key(s)' = key(s) \/ \E x \in Slots : GcActive(s, x)
      <3>1. CASE s = u
        BY <2>4, <3>1
      <3>2. CASE s # u
        BY <2>4, <3>2, GcMeans DEF key
      <3> QED  BY <3>1, <3>2
    <2>5. CASE Clear
      BY <2>5 DEF Clear, key, is_empty, IInv, TypeOK
    <2>6. ASSUME NEW k \in Key, NEW u \in Slots, NewKey(k, u)
          PROVE  key(s)' = key(s)
      BY <2>6, NewKeyMeans DEF key
    <2> QED  BY <2>1, <2>2, <2>3, <2>4, <2>5, <2>6 DEF CarefulNext, OtherCalls
  <1> QED  BY <1>1, Invariance, PTL DEF CarefulSpec, StableReferences

-----------------------------------------------------------------------------
(* The map implements a dictionary: what is found is what is there.        *)

\* The entries, by the slots they are in.
EntriesMean ==
  IInv =>
    /\ DOMAIN entries \subseteq Key
    /\ \A s \in Slots : ~is_empty(s) => /\ key(s) \in DOMAIN entries
                                        /\ entries[key(s)] = mapped(s)
    /\ \A k \in DOMAIN entries : \E s \in Slots : ~is_empty(s) /\ key(s) = k
    /\ entries = [k \in DOMAIN entries |-> entries[k]]

LEMMA EntriesAre == EntriesMean
  <1> SUFFICES ASSUME IInv
               PROVE  /\ DOMAIN entries \subseteq Key
                      /\ \A s \in Slots : ~is_empty(s) => /\ key(s) \in DOMAIN entries
                                                          /\ entries[key(s)] = mapped(s)
                      /\ \A k \in DOMAIN entries : \E s \in Slots : ~is_empty(s) /\ key(s) = k
                      /\ entries = [k \in DOMAIN entries |-> entries[k]]
    BY DEF EntriesMean
  <1> USE MapAssumption
  <1>1. DOMAIN entries = {k \in Key : Found(k) # {}}
    BY DEF entries
  <1>2. ASSUME NEW s \in Slots, ~is_empty(s)
        PROVE  key(s) \in DOMAIN entries /\ entries[key(s)] = mapped(s)
    <2>1. key(s) \in Key
      BY <1>2 DEF IInv, TypeOK, is_empty, key
    <2>2. Found(key(s)) = {s}
      <3>1. s \in Found(key(s))
        BY <1>2 DEF IInv, Findable, Found
      <3>2. \A t \in Found(key(s)) : t = s
        BY <1>2 DEF IInv, UniqueKeys, Found, Bucket
      <3> QED  BY <3>1, <3>2
    <2>3. FoundAt(key(s), s) /\ \A t \in Slots : FoundAt(key(s), t) => t = s
      BY <2>2 DEF FoundAt, Slots
    <2>4. find_ll(key(s)) = s
      BY <2>3 DEF find_ll
    <2> QED  BY <1>1, <2>1, <2>2, <2>4 DEF entries
  <1>3. ASSUME NEW k \in DOMAIN entries
        PROVE  \E s \in Slots : ~is_empty(s) /\ key(s) = k
    BY <1>1 DEF Found, Bucket, is_empty
  <1>4. entries = [k \in DOMAIN entries |-> entries[k]]
    BY <1>1 DEF entries
  <1> QED  BY <1>1, <1>2, <1>3, <1>4

LEMMA BothEntries ==
  ASSUME MaxSize <= BucketField, IInv, CarefulNext
  PROVE  /\ DOMAIN entries \subseteq Key
         /\ \A s \in Slots : ~is_empty(s) => /\ key(s) \in DOMAIN entries
                                             /\ entries[key(s)] = mapped(s)
         /\ \A k \in DOMAIN entries : \E s \in Slots : ~is_empty(s) /\ key(s) = k
         /\ entries = [k \in DOMAIN entries |-> entries[k]]
         /\ DOMAIN entries' \subseteq Key
         /\ \A s \in Slots : ~is_empty(s)' => /\ key(s)' \in DOMAIN entries'
                                              /\ entries'[key(s)'] = mapped(s)'
         /\ \A k \in DOMAIN entries' : \E s \in Slots : ~is_empty(s)' /\ key(s)' = k
         /\ entries' = [k \in DOMAIN entries' |-> entries'[k]]
  <1>1. IInv'
    BY CarefulInv
  <1>2. EntriesMean'
    BY EntriesAre, PTL
  <1>3. EntriesMean
    BY EntriesAre
  <1> QED  BY <1>1, <1>2, <1>3 DEF EntriesMean

LEMMA SameEntries ==
  ASSUME IInv, UNCHANGED container, done' \in BOOLEAN
  PROVE  entries' = entries
  <1>1. IInv'
    BY StutterInv
  <1>2. EntriesMean /\ EntriesMean'
    BY EntriesAre, PTL
  <1>3. \A s \in Slots : key(s)' = key(s) /\ mapped(s)' = mapped(s) /\ (is_empty(s)' <=> is_empty(s))
    BY DEF key, mapped, is_empty
  <1>4. DOMAIN entries' = DOMAIN entries
    BY <1>1, <1>2, <1>3 DEF EntriesMean
  <1>5. \A k \in DOMAIN entries : entries'[k] = entries[k]
    BY <1>1, <1>2, <1>3 DEF EntriesMean
  <1> QED  BY <1>1, <1>2, <1>4, <1>5 DEF EntriesMean

LEMMA NewKeyRefines ==
  ASSUME MaxSize <= BucketField, IInv, CarefulNext,
         NEW k \in Key, NEW s \in Slots, Found(k) = {}, NewKey(k, s)
  PROVE  Dictionary!Insert(entries, entries')
  <1> USE MapAssumption
  <1>1. /\ is_empty(s) /\ key(s)' = k
        /\ \A t \in Slots \ {s} : container'[t] = container[t]
    BY NewKeyMeans DEF key
  <1>2. k \in Key \ DOMAIN entries /\ ~is_empty(s)'
    BY <1>1 DEF entries, is_empty
  <1>3. \A t \in Slots \ {s} : key(t)' = key(t) /\ mapped(t)' = mapped(t) /\ (is_empty(t)' <=> is_empty(t))
    BY <1>1 DEF key, mapped, is_empty
  <1>4. DOMAIN entries' = DOMAIN entries \cup {k}
    <2>1. ASSUME NEW x \in DOMAIN entries' PROVE x \in DOMAIN entries \cup {k}
      BY <1>1, <1>3, BothEntries
    <2>2. ASSUME NEW x \in DOMAIN entries PROVE x \in DOMAIN entries'
      BY <1>1, <1>3, BothEntries
    <2>3. k \in DOMAIN entries'
      BY <1>1, <1>2, BothEntries
    <2> QED  BY <2>1, <2>2, <2>3
  <1>5. \A x \in DOMAIN entries : entries[x] = entries'[x]
    BY <1>1, <1>3, BothEntries
  <1>6. entries'[k] \in Meta
    <2>1. mapped(s)' \in Meta
      <3>1. TypeOK'
        BY CarefulInv DEF IInv
      <3> QED  BY <3>1 DEF TypeOK, mapped
    <2> QED  BY <1>1, <1>2, <2>1, BothEntries
  <1> QED  BY <1>2, <1>4, <1>5, <1>6 DEF Dictionary!Insert, Dictionary!Agree

LEMMA AssignRefines ==
  ASSUME MaxSize <= BucketField, IInv, CarefulNext,
         NEW k \in Key, NEW m \in Mapped, NEW s \in Slots, Assign(k, m, s)
  PROVE  Dictionary!Assign(entries, entries')
  <1> USE MapAssumption
  <1>1. key(s) = k /\ ~is_empty(s)
    BY DEF Assign, FoundAt, Found, is_empty
  <1>2. /\ \A t \in Slots : key(t)' = key(t) /\ (is_empty(t)' <=> is_empty(t))
        /\ \A t \in Slots \ {s} : mapped(t)' = mapped(t)
        /\ mapped(s)' = m
    BY DEF Assign, IInv, TypeOK, key, mapped, is_empty
  <1>3. k \in DOMAIN entries
    BY <1>1, BothEntries
  <1>4. DOMAIN entries' = DOMAIN entries
    BY <1>2, BothEntries
  <1>5. \A x \in DOMAIN entries \ {k} : entries[x] = entries'[x]
    BY <1>1, <1>2, BothEntries
  <1>6. entries'[k] \in Meta
    BY <1>1, <1>2, BothEntries
  <1> QED  BY <1>3, <1>4, <1>5, <1>6 DEF Dictionary!Assign, Dictionary!Agree

LEMMA EraseRefines ==
  ASSUME MaxSize <= BucketField, IInv, CarefulNext,
         NEW s \in Slots, ErasePrune(s) \/ EraseMark(s)
  PROVE  Dictionary!Erase(entries, entries')
  <1>1. /\ ~is_empty(s) /\ is_empty(s)'
        /\ \A t \in Slots \ {s} : key(t)' = key(t) /\ (is_empty(t)' <=> is_empty(t))
        /\ \A t \in Slots \ {s} : ~is_empty(t) => mapped(t)' = mapped(t)
    BY EraseMeans DEF key, is_empty, mapped
  <1> DEFINE k == key(s)
  <1>2. k \in DOMAIN entries
    BY <1>1, BothEntries
  <1>3. \A t \in Slots \ {s} : ~is_empty(t) => key(t) # k
    BY <1>1 DEF IInv, UniqueKeys
  <1>4. DOMAIN entries' = DOMAIN entries \ {k}
    <2>1. ASSUME NEW x \in DOMAIN entries' PROVE x \in DOMAIN entries \ {k}
      BY <1>1, <1>3, BothEntries
    <2>2. ASSUME NEW x \in DOMAIN entries \ {k} PROVE x \in DOMAIN entries'
      BY <1>1, BothEntries
    <2> QED  BY <2>1, <2>2
  <1>5. \A x \in DOMAIN entries' : entries[x] = entries'[x]
    BY <1>1, <1>3, BothEntries
  <1> QED  BY <1>2, <1>4, <1>5 DEF Dictionary!Erase, Dictionary!Agree

LEMMA MoveRefines ==
  ASSUME MaxSize <= BucketField, IInv, CarefulNext,
         NEW s \in Slots, NEW t \in Slots, GcActive(s, t)
  PROVE  Dictionary!Move(entries, entries')
  <1>1. /\ s # t /\ ~is_empty(s) /\ is_empty(t) /\ is_empty(s)' /\ ~is_empty(t)'
        /\ key(t)' = key(s) /\ mapped(t)' = mapped(s)
        /\ \A u \in Slots \ {s, t} :
              key(u)' = key(u) /\ mapped(u)' = mapped(u) /\ (is_empty(u)' <=> is_empty(u))
    BY GcMeans DEF key, mapped, is_empty
  <1>2. ASSUME NEW u \in Slots, ~is_empty(u)
        PROVE  \E v \in Slots : ~is_empty(v)' /\ key(v)' = key(u) /\ mapped(v)' = mapped(u)
    BY <1>1, <1>2
  <1>3. ASSUME NEW v \in Slots, ~is_empty(v)'
        PROVE  \E u \in Slots : ~is_empty(u) /\ key(v)' = key(u) /\ mapped(v)' = mapped(u)
    BY <1>1, <1>3
  <1>4. DOMAIN entries' = DOMAIN entries
    BY <1>2, <1>3, BothEntries
  <1>5. \A x \in DOMAIN entries : entries[x] = entries'[x]
    BY <1>2, BothEntries
  <1>6. entries = entries'
    BY <1>4, <1>5, BothEntries
  <1> QED  BY <1>6 DEF Dictionary!Move

\* In a map of no more slots than the field `bucket` counts, what find()
\* returns is a dictionary that every call changes as it should:
\* no insertion, erasure or collection hides or changes another element.
THEOREM MapIsADictionary ==
  ASSUME MaxSize <= BucketField
  PROVE  CarefulSpec => ImplementsMap
  <1>1. Init => Dictionary!Init
    <2> SUFFICES ASSUME Init PROVE DOMAIN entries = {} /\ done = TRUE
      BY DEF Dictionary!Init
    <2>1. \A s \in Slots : is_empty(s)
      BY DEF Init, is_empty, key
    <2> QED  BY <2>1, InitInv, EntriesAre DEF EntriesMean, Init
  <1>2. IInv /\ [CarefulNext]_vars => [Dictionary!Next]_(Dictionary!mapVars)
    <2> SUFFICES ASSUME IInv, [CarefulNext]_vars
                 PROVE  [Dictionary!Next]_(Dictionary!mapVars)
      OBVIOUS
    <2>0. CASE UNCHANGED vars
      <3>1. container' = container /\ done' = done
        BY <2>0 DEF vars
      <3>2. done' \in BOOLEAN
        BY <3>1, Zenon DEF IInv, TypeOK
      <3> QED  BY <3>1, <3>2, SameEntries DEF Dictionary!mapVars
    <2> SUFFICES ASSUME CarefulNext
                 PROVE  \/ done' = FALSE /\ entries = entries'
                        \/ done' = TRUE /\ Dictionary!Done(entries, entries')
      BY <2>0 DEF Dictionary!Next
    <2> USE DEF Dictionary!Done
    <2>1. ASSUME NEW k \in Key, InsertFails(k) \/ EraseAbsent(k)
          PROVE  done' = FALSE /\ entries = entries'
      BY <2>1, SameEntries DEF InsertFails, EraseAbsent
    <2>2. ASSUME NEW s \in Slots, NEW k \in Key, NEW m \in Mapped, Assign(k, m, s)
          PROVE  done' = TRUE /\ Dictionary!Done(entries, entries')
      BY <2>2, AssignRefines DEF Assign
    <2>3. ASSUME NEW s \in Slots, ErasePrune(s) \/ EraseMark(s)
          PROVE  done' = TRUE /\ Dictionary!Done(entries, entries')
      BY <2>3, EraseRefines, EraseMeans
    <2>4. ASSUME NEW s \in Slots, NEW t \in Slots, GcActive(s, t)
          PROVE  done' = TRUE /\ Dictionary!Done(entries, entries')
      BY <2>4, MoveRefines, GcMeans
    <2>5. CASE Clear
      <3>1. \A s \in Slots : is_empty(s)'
        BY <2>5 DEF Clear, is_empty, key, IInv, TypeOK
      <3>2. DOMAIN entries' = {}
        BY <3>1, BothEntries
      <3> QED  BY <2>5, <3>2 DEF Clear, Dictionary!Clear
    <2>6. ASSUME NEW k \in Key, NEW s \in Slots, Found(k) = {}, NewKey(k, s)
          PROVE  done' = TRUE /\ Dictionary!Done(entries, entries')
      BY <2>6, NewKeyRefines, NewKeyMeans
    <2> QED  BY <2>1, <2>2, <2>3, <2>4, <2>5, <2>6 DEF CarefulNext, OtherCalls
  <1> QED
    BY <1>1, <1>2, Invariance, PTL DEF CarefulSpec, ImplementsMap, Dictionary!Spec

-----------------------------------------------------------------------------
(* The retry tracker, which keeps its items in the map.                    *)

\* A set of natural numbers that is not empty has a least element.
LEMMA Least ==
  ASSUME NEW S \in SUBSET Nat, S # {}
  PROVE  \E n \in S : \A m \in S : n <= m
  <1>1. PICK n \in S : \A m \in S : <<m, n>> \notin OpToRel(<, Nat)
    BY NatLessThanWellFounded, WFMin
  <1>2. \A m \in S : ~(m < n)
    BY <1>1 DEF OpToRel
  <1> QED  BY <1>2

LEMMA StampsAre == Stamps \subseteq Nat /\ Time \subseteq Stamps /\ Time \subseteq Nat
  BY TrackerAssumption DEF Stamps, Time

LEMMA TrackerInitInv == TrackerInit => TrackerInv
  <1> SUFFICES ASSUME TrackerInit PROVE TrackerInv
    OBVIOUS
  <1> USE MapAssumption, TrackerAssumption
  <1>1. TypeOK
    BY DEF TrackerInit, Init, TypeOK
  <1>2. TrackerTypeOK
    BY <1>1, StampsAre DEF TrackerInit, TrackerTypeOK, NoItem, Stamps
  <1>3. QueuedOnce
    BY DEF TrackerInit, Init, QueuedOnce, is_empty, key
  <1> QED  BY <1>2, <1>3 DEF TrackerInv

\* What the queue and the map say of each slot.
LEMMA TrackerInvMeans ==
  ASSUME TrackerInv, NEW s \in Slots
  PROVE  /\ container[s] \in [first : Key \cup {Null}, second : Meta]
         /\ item[s] \in [stamp : Stamps, ack : BOOLEAN]
         /\ queue[s] = IF container[s].first = Null THEN 0 ELSE 1
  BY DEF TrackerInv, TrackerTypeOK, TypeOK, QueuedOnce, is_empty, key

\* An item is tracked in a slot that was empty, and is queued once.
LEMMA TrackInv ==
  ASSUME TrackerInv, NEW k \in Key, NEW s \in Slots, NEW t \in Time, Track(k, s, t)
  PROVE  TrackerInv'
  <1> USE MapAssumption
  <1>1. PICK m \in Mapped : Insert(k, m, s)
    BY DEF Track
  <1>2. /\ container[s].first = Null /\ m \in Meta /\ k # Null
        /\ container' = [container EXCEPT ![s] = [first |-> k, second |-> m]]
        /\ done' \in BOOLEAN
    BY <1>1 DEF Insert, CanInsert, is_empty, key
  <1>3. /\ item' = [item EXCEPT ![s] = [stamp |-> t, ack |-> FALSE]]
        /\ queue' = [queue EXCEPT ![s] = @ + 1]
        /\ polling' = polling
    BY DEF Track
  <1>4. queue[s] = 0
    BY <1>2, TrackerInvMeans
  <1>5. TrackerTypeOK'
    BY <1>2, <1>3, <1>4, StampsAre DEF TrackerInv, TrackerTypeOK, TypeOK
  <1>6. QueuedOnce'
    BY <1>2, <1>3, <1>4, TrackerInvMeans DEF TrackerInv, TrackerTypeOK, TypeOK, QueuedOnce, is_empty, key
  <1> QED  BY <1>5, <1>6 DEF TrackerInv

LEMMA SameInv ==
  ASSUME TrackerInv, UNCHANGED <<container, item, queue>>,
         done' \in BOOLEAN, polling' \in Time \cup {Never}
  PROVE  TrackerInv'
  BY DEF TrackerInv, TrackerTypeOK, TypeOK, QueuedOnce, is_empty, key

LEMMA IncomingInv ==
  ASSUME TrackerInv, NEW k \in Key, NEW s \in Slots, Incoming(k, s)
  PROVE  TrackerInv'
  BY DEF Incoming, TrackerInv, TrackerTypeOK, TypeOK, QueuedOnce, is_empty, key

\* An item that is acknowledged leaves the queue and the map at once.
LEMMA RemoveInv ==
  ASSUME TrackerInv, NEW s \in Slots, Top(s), Remove(s),
         done' = TRUE, UNCHANGED polling
  PROVE  TrackerInv'
  <1> USE MapAssumption
  <1>1. queue[s] = 1 /\ container[s].first # Null
    BY TrackerInvMeans DEF Top, Queued
  <1>2. queue' = [queue EXCEPT ![s] = 0] /\ item' = [item EXCEPT ![s] = NoItem]
    BY <1>1 DEF Remove
  <1>3. /\ container' \in [Slots -> [first : Key \cup {Null}, second : Meta]]
        /\ container'[s].first = Null
        /\ \A t \in Slots \ {s} : container'[t].first = container[t].first
    <2> DEFINE n == index(key(s))
               pruned == IF s + 1 \in Slots => is_null_not_sparse(s + 1)
                         THEN Prunable(s, n) ELSE {}
    <2>1. container' = [t \in Slots |->
            IF t = s THEN [first |-> Null,
                           second |-> [marked_for_gc |-> FALSE, bucket |-> n % BucketField]]
            ELSE IF t \in pruned THEN [container[t] EXCEPT !.second.marked_for_gc = FALSE]
            ELSE container[t]]
      BY DEF Remove, EraseAndCollect
    <2>2. n % BucketField \in 0..BucketField-1
      BY TrackerInvMeans DEF index, key
    <2>3. \A t \in Slots : container[t] \in [first : Key \cup {Null}, second : Meta]
      BY TrackerInvMeans
    <2> HIDE DEF n, pruned
    <2> QED  BY <2>1, <2>2, <2>3 DEF Meta
  <1>4. TrackerTypeOK'
    <2>1. NoItem \in [stamp : Stamps, ack : BOOLEAN]
      BY TrackerAssumption DEF NoItem, Stamps
    <2>2. /\ item' \in [Slots -> [stamp : Stamps, ack : BOOLEAN]]
          /\ queue' \in [Slots -> 0..1] /\ polling' \in Time \cup {Never} /\ done' \in BOOLEAN
      BY <1>2, <2>1 DEF TrackerInv, TrackerTypeOK
    <2> QED  BY <1>3, <2>2 DEF TrackerTypeOK, TypeOK
  <1>5. QueuedOnce'
    BY <1>2, <1>3, TrackerInvMeans DEF TrackerInv, TrackerTypeOK, QueuedOnce, is_empty, key
  <1> QED  BY <1>4, <1>5 DEF TrackerInv

LEMMA RetryInv ==
  ASSUME TrackerInv, NEW s \in Slots, NEW t \in Time, Due(s, t), Retry(s),
         done' = TRUE, UNCHANGED polling
  PROVE  TrackerInv'
  <1>1. item[s].stamp + Backoff \in Stamps
    BY TrackerInvMeans, TrackerAssumption DEF Due, Time, Stamps
  <1> QED  BY <1>1 DEF Retry, TrackerInv, TrackerTypeOK, TypeOK, QueuedOnce, is_empty, key

LEMMA TrackerNextInv == TrackerInv /\ [TrackerNext]_tracker => TrackerInv'
  <1> SUFFICES ASSUME TrackerInv, [TrackerNext]_tracker PROVE TrackerInv'
    OBVIOUS
  <1>0. polling \in Time \cup {Never} /\ done \in BOOLEAN
    BY DEF TrackerInv, TrackerTypeOK, TypeOK
  <1>1. ASSUME NEW k \in Key, NEW s \in Slots, NEW t \in Time, Track(k, s, t)
        PROVE  TrackerInv'
    BY <1>1, TrackInv
  <1>2. ASSUME NEW k \in Key, NEW s \in Slots, Incoming(k, s)
        PROVE  TrackerInv'
    BY <1>2, IncomingInv
  <1>3. ASSUME NEW k \in Key, TrackRejected(k) \/ IncomingUnknown(k)
        PROVE  TrackerInv'
    BY <1>0, <1>3, SameInv DEF TrackRejected, IncomingUnknown, InsertFails, EraseAbsent
  <1>4. ASSUME NEW t \in Time, PollOne(t)
        PROVE  TrackerInv'
    BY <1>4, RemoveInv, RetryInv DEF PollOne, Due
  <1>5. ASSUME NEW t \in Time, PollOneNothing(t) \/ PollBegin(t)
        PROVE  TrackerInv'
    BY <1>0, <1>5, SameInv DEF PollOneNothing, PollBegin
  <1>6. ASSUME PollEnd
        PROVE  TrackerInv'
    BY <1>0, <1>6, SameInv DEF PollEnd
  <1>7. ASSUME UNCHANGED tracker
        PROVE  TrackerInv'
    BY <1>0, <1>7, SameInv DEF tracker
  <1> QED  BY <1>1, <1>2, <1>3, <1>4, <1>5, <1>6, <1>7 DEF TrackerNext

-----------------------------------------------------------------------------
THEOREM TrackerInvariance == TrackerSpec => []TrackerInv
  BY TrackerInitInv, TrackerNextInv, PTL DEF TrackerSpec

\* Type correctness: in particular the queue never holds a pointer twice.
THEOREM TrackerTypeCorrect == TrackerSpec => []TrackerTypeOK
  BY TrackerInvariance, PTL DEF TrackerInv

\* The queue points to every tracked item once, and to nothing else.
THEOREM NothingForgotten == TrackerSpec => []QueuedOnce
  BY TrackerInvariance, PTL DEF TrackerInv

\* A poll that ends leaves nothing that is due: of the items in the queue
\* there is always one that is due before all others, and it was not due.
THEOREM PollsDrain == TrackerSpec => PollDrains
  <1> DEFINE Drains == ~Idle /\ Idle' => \A s \in Slots : is_empty(s) \/ item[s].stamp > polling
  <1>1. TrackerInv /\ [TrackerNext]_tracker => [Drains]_tracker
    <2> SUFFICES ASSUME TrackerInv, TrackerNext, ~Idle, Idle',
                        NEW u \in Slots, ~is_empty(u), ~(item[u].stamp > polling)
                 PROVE  FALSE
      OBVIOUS
    <2>1. PollEnd
      BY DEF TrackerNext, Track, Incoming, TrackRejected, IncomingUnknown, PollOne,
             PollOneNothing, PollBegin, Idle
    <2>2. polling \in Nat
      BY StampsAre DEF TrackerInv, TrackerTypeOK, Idle
    <2> DEFINE stamps == {item[s].stamp : s \in Queued}
    <2>3. u \in Queued
      BY TrackerInvMeans DEF Queued, is_empty, key
    <2>4. \A s \in Queued : s \in Slots /\ item[s].stamp \in Nat
      BY TrackerInvMeans, StampsAre DEF Queued
    <2>5. PICK m \in stamps : \A i \in stamps : m <= i
      <3>1. stamps \in SUBSET Nat /\ stamps # {}
        BY <2>3, <2>4
      <3> QED  BY <3>1, Least
    <2>6. PICK s \in Queued : m = item[s].stamp
      BY <2>5
    <2>7. Top(s) /\ item[s].stamp <= item[u].stamp
      BY <2>3, <2>4, <2>5, <2>6 DEF Top
    <2>8. Due(s, polling)
      BY <2>2, <2>3, <2>4, <2>7 DEF Due
    <2> QED  BY <2>1, <2>4, <2>7, <2>8 DEF PollEnd, Top
  <1> QED  BY <1>1, TrackerInvariance, PTL DEF TrackerSpec, PollDrains
=============================================================================
