----------------------------- MODULE HeapProofs -----------------------------
(***************************************************************************)
(* The heap is in order whenever a call has returned, and is a bag that    *)
(* pop() takes the best from, for every number of children, every capacity *)
(* and any priorities.                                                     *)
(***************************************************************************)
EXTENDS Heap, FiniteSetTheorems, WellFoundedInduction, TLAPS

-----------------------------------------------------------------------------
(* The index arithmetic.                                                   *)

LEMMA ParentBelow ==
    ASSUME NEW n \in Nat \ {0}
    PROVE  Parent(n) \in Nat /\ Parent(n) < n
  <1>1. n - 1 \in Nat
    OBVIOUS
  <1>2. (n - 1) \div K \in Nat /\ (n - 1) \div K <= n - 1
    BY <1>1, HeapAssumption
  <1>. QED  BY <1>2 DEF Parent

LEMMA ParentMonotone ==
    ASSUME NEW m \in Nat \ {0}, NEW n \in Nat \ {0}, m <= n
    PROVE  Parent(m) <= Parent(n)
  <1>1. m - 1 \in Nat /\ n - 1 \in Nat /\ m - 1 <= n - 1
    OBVIOUS
  <1>2. (m - 1) \div K <= (n - 1) \div K
    BY <1>1, HeapAssumption
  <1>. QED  BY <1>2 DEF Parent

\* The nodes that restore_down takes for children are those that restore_up
\* comes from.
LEMMA ChildrenAre ==
    ASSUME size \in Nat, NEW n \in Nat, NEW j \in Int
    PROVE  j \in Children(n) <=> j \in 1..size-1 /\ Parent(j) = n
  <1>1. ASSUME j \in Children(n) PROVE j \in 1..size-1 /\ Parent(j) = n
    <2>1. n * K \in Nat /\ j \in Nat \ {0} /\ j < size /\ n * K <= j - 1 /\ j - 1 < n * K + K
      BY <1>1, HeapAssumption DEF Children
    <2>2. (j - 1) \div K = n
      BY <2>1, HeapAssumption
    <2>. QED  BY <2>1, <2>2 DEF Parent
  <1>2. ASSUME j \in 1..size-1, Parent(j) = n PROVE j \in Children(n)
    <2>1. j - 1 \in Nat /\ (j - 1) \div K = n
      BY <1>2 DEF Parent
    <2>2. n * K <= j - 1 /\ j - 1 < n * K + K /\ n * K \in Nat
      BY <2>1, HeapAssumption
    <2>3. j \in n * K + 1 .. n * K + K /\ j < size
      BY <1>2, <2>2, HeapAssumption
    <2>. QED  BY <2>3 DEF Children
  <1>. QED  BY <1>1, <1>2

\* No node behind LastNonleaf has children.
LEMMA LastNonleafIs ==
    ASSUME NEW s \in Nat, s >= 2
    PROVE  /\ LastNonleaf(s) \in 0..s-1
           /\ \A n \in 1..s-1 : Parent(n) <= LastNonleaf(s)
  <1>1. LastNonleaf(s) = Parent(s)
    BY DEF LastNonleaf, Parent
  <1>. QED  BY <1>1, ParentBelow, ParentMonotone

LEMMA SwappedAt ==
    ASSUME TypeOK, NEW a \in 0..size-1, NEW b \in 0..size-1, a # b
    PROVE  /\ Swapped(a, b) \in [0..size-1 -> Priority]
           /\ Swapped(a, b)[a] = c[b] /\ Swapped(a, b)[b] = c[a]
           /\ \A n \in 0..size-1 : n # a /\ n # b => Swapped(a, b)[n] = c[n]
  <1>1. c \in [0..size-1 -> Priority]
    BY DEF TypeOK
  <1>2. c[a] \in Priority /\ c[b] \in Priority
    BY <1>1
  <1>. QED  BY <1>1, <1>2, Z3 DEF Swapped

\* What the elements are compared by.
LEMMA Elements ==
    ASSUME TypeOK
    PROVE  /\ size \in Nat
           /\ \A n \in 0..size-1 : c[n] \in Int
  <1>1. size \in Nat
    BY HeapAssumption DEF TypeOK
  <1>2. ASSUME NEW n \in 0..size-1 PROVE c[n] \in Priority
    BY DEF TypeOK
  <1>. QED  BY <1>1, <1>2, HeapAssumption

-----------------------------------------------------------------------------
(* make_heap begins behind the last node with children.                    *)

LEMMA MakeBegins ==
    ASSUME NEW s \in Nat, s >= 2, size = s, i = LastNonleaf(s), current = i
    PROVE  DownInv
  <1>1. LastNonleaf(s) \in 0..s-1 /\ \A n \in 1..s-1 : Parent(n) <= LastNonleaf(s)
    BY LastNonleafIs
  <1>2. i <= current
    BY <1>1
  <1>3. ASSUME NEW n \in 1..size-1
        PROVE  /\ i <= Parent(n) /\ Parent(n) # current => Ordered(n)
               /\ Parent(n) = current /\ current # 0 /\ i <= Parent(current)
                    => c[n] <= c[Parent(current)]
    <2>1. Parent(n) <= i /\ Parent(n) \in Nat
      BY <1>1, ParentBelow
    <2>3. i \in Nat
      BY <1>1
    <2>4. i <= Parent(n) /\ Parent(n) # current => Ordered(n)
      BY <2>1, <2>3
    <2>5. ~(current # 0 /\ i <= Parent(current))
      <3>1. CASE current = 0
        BY <3>1
      <3>2. CASE current # 0
        <4>1. Parent(current) \in Nat /\ Parent(current) < current
          BY <2>3, <3>2, ParentBelow
        <4>. QED  BY <2>3, <4>1
      <3>. QED  BY <3>1, <3>2
    <2>. QED  BY <2>4, <2>5
  <1>. QED  BY <1>2, <1>3 DEF DownInv

LEMMA InitInv == Init => IInv
  <1> SUFFICES ASSUME Init PROVE IInv
    OBVIOUS
  <1>1. size \in Nat /\ size <= Capacity
    BY HeapAssumption DEF Init
  <1>2. CASE size < 2
    BY <1>1, <1>2, HeapAssumption DEF Init, IInv, TypeOK, HeapOrdered
  <1>3. CASE size >= 2
    <2>1. i = LastNonleaf(size) /\ current = i /\ loop = "down" /\ i \in 0..size-1
      BY <1>1, <1>3, LastNonleafIs DEF Init
    <2>2. TypeOK
      BY <1>1, <2>1, HeapAssumption DEF Init, TypeOK
    <2>3. DownInv
      BY <1>1, <1>3, <2>1, MakeBegins
    <2>. QED  BY <2>1, <2>2, <2>3 DEF IInv, HeapOrdered
  <1>. QED  BY <1>1, <1>2, <1>3

-----------------------------------------------------------------------------
(* The loops.                                                              *)

LEMMA UpStep ==
    ASSUME IInv, Up
    PROVE  IInv'
  <1> DEFINE p == Parent(current)
  <1>1. /\ TypeOK /\ UpInv /\ current \in Nat \ {0} /\ current < size
        /\ c[p] < c[current] /\ c' = Swapped(current, p) /\ current' = p
        /\ size' = size /\ loop' = "up" /\ i' = i /\ popped' = popped
    BY DEF Up, Rises, IInv, UpInv, TypeOK
  <1>4. size \in Nat /\ \A n \in 0..size-1 : c[n] \in Int
    BY <1>1, Elements
  <1> HIDE DEF p
  <1>2. p \in Nat /\ p < current /\ p \in 0..size-1 /\ current \in 0..size-1
    <2>1. p \in Nat /\ p < current
      BY <1>1, ParentBelow DEF p
    <2>. QED  BY <1>1, <1>4, <2>1
  <1>3. /\ c' \in [0..size-1 -> Priority]
        /\ c'[current] = c[p] /\ c'[p] = c[current]
        /\ \A n \in 0..size-1 : n # current /\ n # p => c'[n] = c[n]
    BY <1>1, <1>2, SwappedAt
  <1>5. TypeOK'
    <2>1. p \in 0..Capacity
      BY <1>1, <1>2, HeapAssumption DEF TypeOK
    <2>. QED  BY <1>1, <1>2, <1>3, <2>1 DEF TypeOK
  <1>6. ASSUME NEW n \in 1..size-1
        PROVE  /\ n # p => c'[n] <= c'[Parent(n)]
               /\ Parent(n) = p /\ p # 0 => c'[n] <= c'[Parent(p)]
    <2>1. Parent(n) \in Nat /\ Parent(n) < n /\ Parent(n) \in 0..size-1 /\ n \in 0..size-1
      BY <1>4, ParentBelow
    <2>2. /\ n # current => c[n] <= c[Parent(n)]
          /\ Parent(n) = current => c[n] <= c[p]
      BY <1>1 DEF UpInv, Ordered, p
    <2>3. p # 0 => /\ Parent(p) \in Nat /\ Parent(p) < p /\ Parent(p) \in 0..size-1
                   /\ c[p] <= c[Parent(p)]
      <3>1. p # 0 => p \in 1..size-1 /\ p \in Nat \ {0}
        BY <1>2, <1>4
      <3>2. p # 0 => Parent(p) \in Nat /\ Parent(p) < p
        BY <3>1, ParentBelow
      <3>3. p # 0 => c[p] <= c[Parent(p)]
        BY <1>1, <1>2, <3>1 DEF UpInv, Ordered
      <3>. QED  BY <1>2, <1>4, <3>2, <3>3
    <2>4. ASSUME n # p PROVE c'[n] <= c'[Parent(n)]
      <3>1. CASE n = current
        <4>1. Parent(n) = p
          BY <3>1 DEF p
        <4>. QED  BY <1>1, <1>2, <1>3, <1>4, <3>1, <4>1
      <3>2. CASE n # current /\ Parent(n) = p
        BY <2>4, <1>1, <1>2, <1>3, <1>4, <2>1, <2>2, <3>2
      <3>3. CASE n # current /\ Parent(n) # p
        BY <2>4, <1>1, <1>2, <1>3, <1>4, <2>1, <2>2, <3>3
      <3>. QED  BY <3>1, <3>2, <3>3
    <2>5. Parent(n) = p /\ p # 0 => c'[n] <= c'[Parent(p)]
      BY <1>1, <1>2, <1>3, <1>4, <2>1, <2>2, <2>3
    <2>. QED  BY <2>4, <2>5
  <1>7. UpInv'
    <2>1. i' = 0
      BY <1>1 DEF UpInv
    <2>2. current' < size' /\ current' = p /\ size' = size
      BY <1>1, <1>2, <1>4
    <2>. QED  BY <2>1, <2>2, <1>6 DEF UpInv, Ordered
  <1>. QED  BY <1>1, <1>5, <1>7 DEF IInv, HeapOrdered

LEMMA UpDoneStep ==
    ASSUME IInv, UpDone
    PROVE  IInv'
  <1>1. /\ TypeOK /\ UpInv /\ ~Rises /\ loop' = "idle" /\ current' = 0
        /\ UNCHANGED <<c, size, i, popped>>
    BY DEF UpDone, IInv
  <1>2. size \in Nat /\ \A n \in 0..size-1 : c[n] \in Int
    BY <1>1, Elements
  <1>3. ASSUME NEW n \in 1..size-1 PROVE Ordered(n)
    <2>1. n \in 0..size-1 /\ Parent(n) \in 0..size-1
      BY <1>2, ParentBelow
    <2>. QED  BY <1>1, <1>2, <2>1 DEF UpInv, Rises, Ordered
  <1>4. HeapOrdered'
    BY <1>1, <1>3 DEF HeapOrdered, Ordered
  <1>5. TypeOK'
    BY <1>1, HeapAssumption DEF TypeOK
  <1>. QED  BY <1>1, <1>4, <1>5 DEF IInv, UpInv

LEMMA DownStep ==
    ASSUME IInv, Down
    PROVE  IInv'
  <1>1. /\ TypeOK /\ DownInv /\ size \in Nat /\ current \in Nat /\ i \in Nat
        /\ i <= current
        /\ size' = size /\ loop' = "down" /\ i' = i /\ popped' = popped
    BY HeapAssumption DEF Down, IInv, TypeOK, DownInv
  <1>2. PICK j \in Children(current) :
           /\ Chosen(current, j) /\ c[current] < c[j]
           /\ c' = Swapped(j, current) /\ current' = j
    BY DEF Down
  <1>3. j \in 1..size-1 /\ Parent(j) = current
    BY <1>1, <1>2, ChildrenAre DEF Children
  <1>4. current < j /\ current \in 0..size-1 /\ j \in 0..size-1 /\ current # j
    BY <1>1, <1>3, ParentBelow
  <1>5. /\ c' \in [0..size-1 -> Priority]
        /\ c'[j] = c[current] /\ c'[current] = c[j]
        /\ \A n \in 0..size-1 : n # current /\ n # j => c'[n] = c[n]
    BY <1>1, <1>2, <1>4, SwappedAt
  <1>6. \A n \in 0..size-1 : c[n] \in Int
    BY <1>1, Elements
  <1>7. TypeOK'
    <2>1. j \in 0..Capacity /\ j < size
      BY <1>1, <1>4, HeapAssumption DEF TypeOK
    <2>. QED  BY <1>1, <1>2, <1>5, <2>1 DEF TypeOK
  <1>8. ASSUME NEW n \in 1..size-1
        PROVE  /\ i <= Parent(n) /\ Parent(n) # j => c'[n] <= c'[Parent(n)]
               /\ Parent(n) = j => c'[n] <= c'[current]
    <2>1. Parent(n) \in Nat /\ Parent(n) < n /\ Parent(n) \in 0..size-1 /\ n \in 0..size-1
      BY <1>1, ParentBelow
    <2>2. /\ i <= Parent(n) /\ Parent(n) # current => c[n] <= c[Parent(n)]
          /\ n = current /\ i <= Parent(n) => c[j] <= c[Parent(n)]
      BY <1>1, <1>3, <1>4 DEF DownInv, Ordered
    <2>3. Parent(n) = current => c[n] <= c[j]
      BY <1>1, <1>2, ChildrenAre DEF Chosen
    <2>4. i <= Parent(n) /\ Parent(n) # j => c'[n] <= c'[Parent(n)]
      BY <1>2, <1>3, <1>4, <1>5, <1>6, <2>1, <2>2, <2>3
    <2>5. Parent(n) = j => c'[n] <= c'[current]
      BY <1>1, <1>4, <1>5, <2>1, <2>2
    <2>. QED  BY <2>4, <2>5
  <1>9. DownInv'
    BY <1>1, <1>2, <1>3, <1>4, <1>8 DEF DownInv, Ordered
  <1>. QED  BY <1>1, <1>7, <1>9 DEF IInv, HeapOrdered

LEMMA DownDoneStep ==
    ASSUME IInv, DownDone
    PROVE  IInv'
  <1>1. /\ TypeOK /\ DownInv /\ Settled /\ size \in Nat /\ current \in Nat /\ i \in Nat
        /\ UNCHANGED <<c, size, popped>> /\ current' = i'
        /\ \A n \in 0..size-1 : c[n] \in Int
    BY HeapAssumption, Elements DEF DownDone, IInv, TypeOK
  <1>2. ASSUME NEW n \in 1..size-1, i <= Parent(n) PROVE Ordered(n)
    <2>1. Parent(n) \in 0..size-1 /\ n \in 0..size-1
      BY <1>1, ParentBelow
    <2>2. CASE Parent(n) # current
      BY <1>1, <1>2, <2>2 DEF DownInv
    <2>3. CASE Parent(n) = current
      <3>1. n \in Children(current)
        BY <1>1, <2>3, ChildrenAre
      <3>2. PICK j \in Children(current) : Chosen(current, j) /\ ~(c[current] < c[j])
        BY <1>1, <3>1 DEF Settled
      <3>3. c[n] <= c[j] /\ j \in 0..size-1
        BY <1>1, <3>1, <3>2, ChildrenAre DEF Chosen, Children
      <3>. QED  BY <1>1, <2>1, <2>3, <3>2, <3>3 DEF Ordered
    <2>. QED  BY <2>2, <2>3
  <1>3. CASE i = 0
    <2>1. loop' = "idle" /\ i' = 0
      BY <1>3 DEF DownDone
    <2>2. ASSUME NEW n \in 1..size-1 PROVE Ordered(n)
      BY <1>2, <1>3, ParentBelow
    <2>3. HeapOrdered'
      BY <1>1, <2>2 DEF HeapOrdered, Ordered
    <2>4. TypeOK'
      BY <1>1, <2>1, HeapAssumption DEF TypeOK
    <2>. QED  BY <2>1, <2>3, <2>4 DEF IInv
  <1>4. CASE i # 0
    <2>1. loop' = "down" /\ i' = i - 1 /\ i - 1 \in Nat
      BY <1>1, <1>4 DEF DownDone
    <2>2. i - 1 < size \/ size = 0
      BY <1>1 DEF TypeOK, DownInv, IInv, DownDone
    <2>3. TypeOK'
      <3>1. i - 1 \in 0..Capacity
        BY <1>1, <2>1, HeapAssumption DEF TypeOK
      <3>2. size > 0 => i - 1 < size
        BY <1>1, <2>2
      <3>. QED  BY <1>1, <2>1, <3>1, <3>2 DEF TypeOK
    <2>4. ASSUME NEW n \in 1..size-1
          PROVE  /\ i - 1 <= Parent(n) /\ Parent(n) # i - 1 => Ordered(n)
                 /\ i - 1 # 0 => ~(i - 1 <= Parent(i - 1))
      BY <1>1, <1>2, <2>1, ParentBelow
    <2>5. DownInv'
      BY <1>1, <2>1, <2>4 DEF DownInv, Ordered
    <2>. QED  BY <2>1, <2>3, <2>5 DEF IInv, HeapOrdered
  <1>. QED  BY <1>3, <1>4

-----------------------------------------------------------------------------
(* The calls.                                                              *)

LEMMA PushStep ==
    ASSUME IInv, NEW v \in Priority, Push(v)
    PROVE  IInv'
  <1>1. /\ TypeOK /\ i = 0 /\ size \in Nat /\ size < Capacity
        /\ \A n \in 1..size-1 : Ordered(n)
        /\ c' = [n \in 0..size |-> IF n = size THEN v ELSE c[n]]
        /\ size' = size + 1 /\ loop' = "up" /\ current' = size
        /\ popped' = None /\ i' = i
    BY HeapAssumption DEF Push, IInv, HeapOrdered, TypeOK
  <1>2. TypeOK'
    <2>1. c' \in [0..size -> Priority]
      BY <1>1 DEF TypeOK
    <2>2. size' - 1 = size
      BY <1>1
    <2>3. c' \in [0..size'-1 -> Priority]
      BY <2>1, <2>2
    <2>. QED  BY <1>1, <2>3, HeapAssumption DEF TypeOK
  <1>3. ASSUME NEW n \in 1..size
        PROVE  /\ n # size => c'[n] <= c'[Parent(n)]
               /\ Parent(n) # size
    <2>1. Parent(n) \in Nat /\ Parent(n) < n
      BY ParentBelow
    <2>. QED  BY <1>1, <2>1 DEF Ordered
  <1>4. UpInv'
    BY <1>1, <1>3 DEF UpInv, Ordered
  <1>. QED  BY <1>1, <1>2, <1>4 DEF IInv, HeapOrdered

LEMMA PopStep ==
    ASSUME IInv, Pop
    PROVE  IInv'
  <1>1. /\ TypeOK /\ i = 0 /\ size \in Nat \ {0}
        /\ \A n \in 1..size-1 : Ordered(n)
        /\ size' = size - 1 /\ loop' = "down" /\ current' = 0
        /\ popped' = c[0] /\ i' = i
        /\ c' = [n \in 0..size-2 |-> Swapped(0, size - 1)[n]]
    BY HeapAssumption DEF Pop, IInv, HeapOrdered, TypeOK
  <1>2. /\ Swapped(0, size - 1) \in [0..size-1 -> Priority]
        /\ \A n \in 1..size-2 : Swapped(0, size - 1)[n] = c[n]
    BY <1>1 DEF TypeOK, Swapped
  <1>3. /\ c' \in [0..size-2 -> Priority]
        /\ \A n \in 1..size-2 : c'[n] = c[n]
    BY <1>1, <1>2
  <1>4. TypeOK'
    <2>1. size' - 1 = size - 2 /\ c[0] \in Priority
      BY <1>1 DEF TypeOK
    <2>. QED  BY <1>1, <1>3, <2>1, HeapAssumption DEF TypeOK
  <1>5. ASSUME NEW n \in 1..size-2, Parent(n) # 0
        PROVE  c'[n] <= c'[Parent(n)]
    <2>1. Parent(n) \in Nat /\ Parent(n) < n
      BY ParentBelow
    <2>. QED  BY <1>1, <1>3, <1>5, <2>1 DEF Ordered
  <1>6. DownInv'
    BY <1>1, <1>5 DEF DownInv, Ordered
  <1>. QED  BY <1>1, <1>4, <1>6 DEF IInv, HeapOrdered

LEMMA EraseStep ==
    ASSUME IInv, NEW n \in 0..Capacity-1, Erase(n)
    PROVE  IInv'
  <1>1. /\ TypeOK /\ size \in Nat /\ n < size /\ size <= Capacity
        /\ c' = [m \in 0..size-2 |-> IF m = n THEN c[size - 1] ELSE c[m]]
        /\ size' = size - 1 /\ size' \in Nat /\ popped' = None /\ current' = i'
    BY HeapAssumption DEF Erase, IInv, TypeOK
  <1>2. c' \in [0..size'-1 -> Priority]
    <2>1. c' \in [0..size-2 -> Priority]
      BY <1>1 DEF TypeOK
    <2>2. size' - 1 = size - 2
      BY <1>1
    <2>. QED  BY <2>1, <2>2
  <1>3. CASE size' < 2
    <2>1. i' = 0 /\ loop' = "idle"
      BY <1>3 DEF Erase
    <2>2. TypeOK'
      BY <1>1, <1>2, <2>1, HeapAssumption DEF TypeOK
    <2>3. HeapOrdered'
      BY <1>1, <1>3 DEF HeapOrdered
    <2>. QED  BY <2>1, <2>2, <2>3 DEF IInv
  <1>4. CASE size' >= 2
    <2>1. i' = LastNonleaf(size') /\ loop' = "down"
      BY <1>1, <1>4 DEF Erase
    <2>2. i' \in 0..size'-1
      BY <1>1, <1>4, <2>1, LastNonleafIs
    <2>3. TypeOK'
      BY <1>1, <1>2, <2>1, <2>2, HeapAssumption DEF TypeOK
    <2>4. DownInv'
      <3>1. \A m \in 1..size'-1 : Parent(m) <= i'
        BY <1>1, <1>4, <2>1, LastNonleafIs
      <3>2. i' # 0 => Parent(i') < i' /\ Parent(i') \in Nat
        BY <2>2, ParentBelow
      <3>3. \A m \in 1..size'-1 : Parent(m) \in Nat
        BY ParentBelow
      <3>. QED  BY <1>1, <2>2, <3>1, <3>2, <3>3 DEF DownInv
    <2>. QED  BY <2>1, <2>3, <2>4 DEF IInv, HeapOrdered
  <1>. QED  BY <1>1, <1>3, <1>4

-----------------------------------------------------------------------------
\* The heap is in order but for the place a loop is at.
THEOREM Invariance == Spec => []IInv
  <1>1. IInv /\ [Next]_vars => IInv'
    <2> SUFFICES ASSUME IInv, [Next]_vars PROVE IInv'
      OBVIOUS
    <2>1. CASE Loop
      BY <2>1, UpStep, UpDoneStep, DownStep, DownDoneStep DEF Loop
    <2>2. CASE UNCHANGED vars
      BY <2>2 DEF vars, IInv, TypeOK, HeapOrdered, UpInv, DownInv, Ordered
    <2>. QED  BY <2>1, <2>2, PushStep, PopStep, EraseStep DEF Next
  <1>. QED  BY <1>1, InitInv, PTL DEF Spec

\* Types, and that no loop leaves the heap.
THEOREM TypeCorrect == Spec => []TypeOK
  BY Invariance, PTL DEF IInv

\* After make_heap, push, pop and erase no element is above its parent.
THEOREM InOrder == Spec => []HeapOrdered
  BY Invariance, PTL DEF IInv

-----------------------------------------------------------------------------
(* The heap implements a bag of priorities.                                *)

\* A set of natural numbers that is not empty has a least element.
LEMMA Least ==
    ASSUME NEW S \in SUBSET Nat, S # {}
    PROVE  \E n \in S : \A m \in S : n <= m
  <1>1. PICK n \in S : \A m \in S : <<m, n>> \notin OpToRel(<, Nat)
    BY NatLessThanWellFounded, WFMin
  <1>2. \A m \in S : ~(m < n)
    BY <1>1 DEF OpToRel
  <1>. QED  BY <1>2

\* Of a heap in order, no element is above the first: the least node with
\* one that is would have a parent with one that is.
LEMMA TopIsBest ==
    ASSUME TypeOK, \A n \in 1..size-1 : Ordered(n), NEW m \in 0..size-1
    PROVE  c[m] <= c[0]
  <1>1. size \in Nat /\ \A n \in 0..size-1 : c[n] \in Int
    BY Elements
  <1> DEFINE above == {n \in 0..size-1 : ~(c[n] <= c[0])}
  <1>2. SUFFICES ASSUME above # {} PROVE FALSE
    OBVIOUS
  <1>3. above \in SUBSET Nat
    BY <1>1
  <1>4. PICK n \in above : \A j \in above : n <= j
    BY <1>2, <1>3, Least
  <1>5. n \in 0..size-1 /\ ~(c[n] <= c[0])
    BY <1>4
  <1>6. n # 0 /\ 0 \in 0..size-1
    BY <1>1, <1>5
  <1>7. Parent(n) \in 0..size-1 /\ Parent(n) < n
    BY <1>1, <1>5, <1>6, ParentBelow
  <1>8. Parent(n) \notin above
    BY <1>1, <1>4, <1>5, <1>7
  <1>9. c[Parent(n)] <= c[0]
    BY <1>7, <1>8
  <1>10. c[n] <= c[Parent(n)]
    BY <1>1, <1>5, <1>6 DEF Ordered
  <1>. QED  BY <1>1, <1>5, <1>6, <1>7, <1>9, <1>10

LEMMA OccurrencesFinite ==
    ASSUME size \in Nat, NEW v
    PROVE  /\ IsFiniteSet(Occurrences(v)) /\ Cardinality(Occurrences(v)) \in 0..size
           /\ Occurrences(v) # {} => Cardinality(Occurrences(v)) > 0
  <1>1. IsFiniteSet(0..size-1) /\ Cardinality(0..size-1) = size
    BY FS_Interval
  <1>2. Occurrences(v) \in SUBSET (0..size-1)
    BY DEF Occurrences
  <1>3. IsFiniteSet(Occurrences(v)) /\ Cardinality(Occurrences(v)) <= size
    BY <1>1, <1>2, FS_Subset
  <1>4. Cardinality(Occurrences(v)) \in Nat
    BY <1>3, FS_CardinalityType
  <1>5. Occurrences(v) # {} => Cardinality(Occurrences(v)) # 0
    BY <1>3, FS_EmptySet
  <1>. QED  BY <1>3, <1>4, <1>5

\* One element of a set replaced by another.
LEMMA Replaced ==
    ASSUME NEW S, IsFiniteSet(S), NEW a \in S, NEW b, b \notin S
    PROVE  Cardinality((S \ {a}) \cup {b}) = Cardinality(S)
  <1>1. IsFiniteSet(S \ {a}) /\ Cardinality(S \ {a}) = Cardinality(S) - 1
    BY FS_RemoveElement
  <1>2. Cardinality((S \ {a}) \cup {b}) = Cardinality(S \ {a}) + 1
    BY <1>1, FS_AddElement
  <1>. QED  BY <1>1, <1>2, FS_CardinalityType

\* The loops only exchange elements.
LEMMA SwapKeeps ==
    ASSUME TypeOK, NEW a \in 0..size-1, NEW b \in 0..size-1, a # b,
           c' = Swapped(a, b), size' = size
    PROVE  counts' = counts
  <1>1. /\ c'[a] = c[b] /\ c'[b] = c[a]
        /\ \A n \in 0..size-1 : n # a /\ n # b => c'[n] = c[n]
    BY SwappedAt
  <1>2. size \in Nat
    BY Elements
  <1>3. ASSUME NEW v \in Priority
        PROVE  Cardinality(Occurrences(v))' = Cardinality(Occurrences(v))
    <2>1. IsFiniteSet(Occurrences(v))
      BY <1>2, OccurrencesFinite
    <2>2. CASE c[a] = c[b]
      <3>1. Occurrences(v)' = Occurrences(v)
        BY <1>1, <2>2 DEF Occurrences
      <3>. QED  BY <3>1
    <2>3. CASE c[a] # c[b] /\ c[a] = v
      <3>1. Occurrences(v)' = (Occurrences(v) \ {a}) \cup {b}
        BY <1>1, <2>3 DEF Occurrences
      <3>2. a \in Occurrences(v) /\ b \notin Occurrences(v)
        BY <2>3 DEF Occurrences
      <3>. QED  BY <2>1, <3>1, <3>2, Replaced
    <2>4. CASE c[a] # c[b] /\ c[b] = v
      <3>1. Occurrences(v)' = (Occurrences(v) \ {b}) \cup {a}
        BY <1>1, <2>4 DEF Occurrences
      <3>2. b \in Occurrences(v) /\ a \notin Occurrences(v)
        BY <2>4 DEF Occurrences
      <3>. QED  BY <2>1, <3>1, <3>2, Replaced
    <2>5. CASE c[a] # v /\ c[b] # v
      <3>1. Occurrences(v)' = Occurrences(v)
        BY <1>1, <2>5 DEF Occurrences
      <3>. QED  BY <3>1
    <2>. QED  BY <2>2, <2>3, <2>4, <2>5
  <1>. QED  BY <1>3 DEF counts

LEMMA PushRefines ==
    ASSUME IInv, NEW v \in Priority, Push(v)
    PROVE  Abstract!Push(v)
  <1>1. /\ TypeOK /\ size \in Nat /\ size' = size + 1 /\ popped' = None
        /\ c' = [n \in 0..size |-> IF n = size THEN v ELSE c[n]]
    BY HeapAssumption DEF Push, IInv, TypeOK
  <1>2. size \notin 0..size-1 /\ 0..size'-1 = (0..size-1) \cup {size}
    BY <1>1
  <1>3. c'[size] = v /\ \A n \in 0..size-1 : c'[n] = c[n]
    BY <1>1
  <1>4. Occurrences(v)' = Occurrences(v) \cup {size}
    BY <1>2, <1>3 DEF Occurrences
  <1>5. \A w \in Priority : w # v => Occurrences(w)' = Occurrences(w)
    BY <1>2, <1>3 DEF Occurrences
  <1>6. Cardinality(Occurrences(v)') = Cardinality(Occurrences(v)) + 1
    <2>1. IsFiniteSet(Occurrences(v)) /\ size \notin Occurrences(v)
      BY <1>1, <1>2, OccurrencesFinite DEF Occurrences
    <2>. QED  BY <1>4, <2>1, FS_AddElement
  <1>7. counts' = [counts EXCEPT ![v] = @ + 1]
    BY <1>5, <1>6 DEF counts
  <1>. QED  BY <1>1, <1>7 DEF Abstract!Push

\* The element at n is taken out, and the last one put in its place.
LEMMA TakeOut ==
    ASSUME TypeOK, NEW n \in 0..size-1, size' = size - 1,
           \A m \in 0..size-2 : c'[m] = IF m = n THEN c[size - 1] ELSE c[m]
    PROVE  /\ c[n] \in Priority /\ counts[c[n]] > 0
           /\ counts' = [counts EXCEPT ![c[n]] = @ - 1]
  <1>0. /\ size \in Nat /\ size - 1 \in 0..size-1
        /\ c[n] \in Priority /\ c[size - 1] \in Priority
    BY Elements DEF TypeOK
  <1>l. PICK l : l = size - 1
    OBVIOUS
  <1>v. PICK v \in Priority : v = c[n]
    BY <1>0
  <1>w. PICK w \in Priority : w = c[l]
    BY <1>0, <1>l
  <1>1. size \in Nat /\ l \in 0..size-1 /\ l = size - 1 /\ c[n] = v /\ c[l] = w
    BY <1>0, <1>l, <1>v, <1>w
  <1>2. 0..size'-1 = (0..size-1) \ {l} /\ 0..size-2 = (0..size-1) \ {l}
    BY <1>1
  <1>3. \A x : Occurrences(x)' = {m \in (0..size-1) \ {l} : c'[m] = x}
    BY <1>2 DEF Occurrences
  <1>4. \A m \in (0..size-1) \ {l} : c'[m] = IF m = n THEN w ELSE c[m]
    BY <1>1, <1>2
  <1>5. \A x : IsFiniteSet(Occurrences(x)) /\ Cardinality(Occurrences(x)) \in Nat
    BY <1>1, OccurrencesFinite
  <1>6. n \in Occurrences(v) /\ l \in Occurrences(w)
    BY <1>1 DEF Occurrences
  <1>7. Cardinality(Occurrences(v)') = Cardinality(Occurrences(v)) - 1
    <2>1. CASE v = w
      <3>1. Occurrences(v)' = Occurrences(v) \ {l}
        BY <1>1, <1>3, <1>4, <2>1 DEF Occurrences
      <3>. QED  BY <1>5, <1>6, <2>1, <3>1, FS_RemoveElement
    <2>2. CASE v # w
      <3>1. Occurrences(v)' = Occurrences(v) \ {n}
        BY <1>1, <1>3, <1>4, <2>2 DEF Occurrences
      <3>. QED  BY <1>5, <1>6, <3>1, FS_RemoveElement
    <2>. QED  BY <2>1, <2>2
  <1>8. ASSUME NEW x \in Priority, x # v
        PROVE  Cardinality(Occurrences(x)') = Cardinality(Occurrences(x))
    <2>1. CASE x = w
      <3>1. Occurrences(x)' = (Occurrences(x) \ {l}) \cup {n} /\ n \notin Occurrences(x)
        BY <1>1, <1>3, <1>4, <1>8, <2>1 DEF Occurrences
      <3>. QED  BY <1>5, <1>6, <2>1, <3>1, Replaced
    <2>2. CASE x # w
      <3>1. Occurrences(x)' = Occurrences(x)
        BY <1>1, <1>3, <1>4, <1>8, <2>2 DEF Occurrences
      <3>. QED  BY <3>1
    <2>. QED  BY <2>1, <2>2
  <1>9. counts[v] > 0
    BY <1>1, <1>6, OccurrencesFinite DEF counts
  <1>10. counts' = [counts EXCEPT ![v] = @ - 1]
    BY <1>1, <1>7, <1>8 DEF counts
  <1>. QED  BY <1>1, <1>9, <1>10

LEMMA PopRefines ==
    ASSUME IInv, Pop
    PROVE  c[0] \in Priority /\ Abstract!Pop(c[0])
  <1>1. /\ TypeOK /\ size \in Nat \ {0} /\ size' = size - 1 /\ popped' = c[0]
        /\ c' = [n \in 0..size-2 |-> Swapped(0, size - 1)[n]]
        /\ \A n \in 1..size-1 : Ordered(n)
    BY HeapAssumption DEF Pop, IInv, TypeOK, HeapOrdered
  <1>2. \A m \in 0..size-2 : c'[m] = IF m = 0 THEN c[size - 1] ELSE c[m]
    BY <1>1 DEF TypeOK, Swapped
  <1>3. /\ c[0] \in Priority /\ counts[c[0]] > 0
        /\ counts' = [counts EXCEPT ![c[0]] = @ - 1]
    BY <1>1, <1>2, TakeOut
  <1>4. ASSUME NEW w \in Priority, w > c[0]
        PROVE  counts[w] = 0
    <2>1. \A m \in 0..size-1 : c[m] <= c[0] /\ c[m] \in Int
      BY <1>1, TopIsBest, Elements
    <2>2. c[0] \in Int /\ w \in Int
      BY <1>3, HeapAssumption
    <2>3. \A m \in 0..size-1 : c[m] # w
      BY <1>4, <2>1, <2>2
    <2>4. Occurrences(w) = {}
      BY <2>3 DEF Occurrences
    <2>. QED  BY <2>4, FS_EmptySet DEF counts
  <1>. QED  BY <1>1, <1>3, <1>4 DEF Abstract!Pop

LEMMA EraseRefines ==
    ASSUME IInv, NEW n \in 0..Capacity-1, Erase(n)
    PROVE  c[n] \in Priority /\ Abstract!Erase(c[n])
  <1>1. /\ TypeOK /\ size \in Nat /\ n \in 0..size-1 /\ size' = size - 1 /\ popped' = None
        /\ c' = [m \in 0..size-2 |-> IF m = n THEN c[size - 1] ELSE c[m]]
    BY HeapAssumption DEF Erase, IInv, TypeOK
  <1>2. /\ c[n] \in Priority /\ counts[c[n]] > 0
        /\ counts' = [counts EXCEPT ![c[n]] = @ - 1]
    BY <1>1, TakeOut
  <1>. QED  BY <1>1, <1>2 DEF Abstract!Erase

\* The loops do not show.
LEMMA LoopRefines ==
    ASSUME IInv, Loop
    PROVE  UNCHANGED Abstract!vars
  <1>1. TypeOK /\ size \in Nat
    BY HeapAssumption DEF IInv, TypeOK
  <1>2. CASE Up
    <2>1. /\ c' = Swapped(current, Parent(current)) /\ size' = size /\ popped' = popped
          /\ current \in Nat \ {0} /\ current < size
      BY <1>2 DEF Up, Rises, IInv, UpInv, TypeOK
    <2>2. /\ current \in 0..size-1 /\ Parent(current) \in 0..size-1
          /\ current # Parent(current)
      BY <1>1, <2>1, ParentBelow
    <2>. QED  BY <1>1, <2>1, <2>2, SwapKeeps DEF Abstract!vars
  <1>3. CASE Down
    <2>1. PICK j \in Children(current) : c' = Swapped(j, current)
      BY <1>3 DEF Down
    <2>2. size' = size /\ popped' = popped /\ current \in Nat
      BY <1>1, <1>3, HeapAssumption DEF Down, TypeOK
    <2>3. j \in 1..size-1 /\ Parent(j) = current
      BY <1>1, <2>1, <2>2, ChildrenAre DEF Children
    <2>4. j \in 0..size-1 /\ current \in 0..size-1 /\ j # current
      BY <1>1, <2>3, ParentBelow
    <2>. QED  BY <1>1, <2>1, <2>2, <2>4, SwapKeeps DEF Abstract!vars
  <1>4. CASE UpDone \/ DownDone
    BY <1>4 DEF UpDone, DownDone, Abstract!vars, counts, Occurrences
  <1>. QED  BY <1>2, <1>3, <1>4 DEF Loop

\* A priority_queue is a bag: push() adds, erase() takes out what it is asked
\* to, pop() the best there is, and restoring the order changes nothing.
THEOREM HeapIsABag == Spec => ImplementsBag
  <1>1. Init => Abstract!Init
    <2> SUFFICES ASSUME Init PROVE counts \in [Priority -> 0..Capacity] /\ popped = None
      BY DEF Abstract!Init
    <2>1. size \in Nat /\ size <= Capacity
      BY HeapAssumption DEF Init
    <2>2. \A v \in Priority : Cardinality(Occurrences(v)) \in 0..Capacity
      BY <2>1, OccurrencesFinite, HeapAssumption
    <2>. QED  BY <2>2 DEF Init, counts
  <1>2. IInv /\ [Next]_vars => [Abstract!Next]_(Abstract!vars)
    <2> SUFFICES ASSUME IInv, [Next]_vars PROVE [Abstract!Next]_(Abstract!vars)
      OBVIOUS
    <2>1. CASE Loop
      BY <2>1, LoopRefines
    <2>2. CASE Pop
      BY <2>2, PopRefines DEF Abstract!Next
    <2>3. ASSUME NEW v \in Priority, Push(v) PROVE Abstract!Next
      BY <2>3, PushRefines DEF Abstract!Next
    <2>4. ASSUME NEW n \in 0..Capacity-1, Erase(n) PROVE Abstract!Next
      BY <2>4, EraseRefines DEF Abstract!Next
    <2>5. CASE UNCHANGED vars
      BY <2>5 DEF vars, Abstract!vars, counts, Occurrences
    <2>. QED  BY <2>1, <2>2, <2>3, <2>4, <2>5 DEF Next
  <1>. QED  BY <1>1, <1>2, Invariance, PTL DEF Spec, ImplementsBag, Abstract!Spec
=============================================================================
